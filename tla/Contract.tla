------------------------------- MODULE Contract ------------------------------
(***************************************************************************)
(* Findings, verdicts and surfaces (prismor/runtime/contract.py,           *)
(* hook_caps.py): the data of the decision on a call.                      *)
(***************************************************************************)
EXTENDS Integers, Sequences, FiniteSets

CONSTANTS
  Screens,       \* what the rules may find: sequences of findings
  Devices,       \* configurations of device and surface
  None           \* no finding

\* cls: an ordinary rule, a data boundary, an order signed by the organization
\* (`authoritative`), an agent-control switch, a rule of the floor, or one by
\* which Prismor protects itself.  force: enforced, only observed, or inert (text
\* that is not run, a read that may not be blocked, an event that is over).
Classes  == {"ordinary", "boundary", "signed", "control", "floor", "self"}
Verdicts == {"block", "step_up", "defer", "modify"}
Forces   == {"enforced", "observed", "inert"}
Findings == [cls : Classes, verdict : Verdicts, force : Forces]
\* pre: the event is a tool call about to run; sub: a subagent's; asks, rewrites:
\* what the agent can show; native: Claude, Qwen or Copilot.
\* legacy: the categories a policy blocks that is older than per-rule modes.
Surfaces == [pre : BOOLEAN, sub : BOOLEAN, asks : BOOLEAN, rewrites : BOOLEAN, native : BOOLEAN]
Configs  == [mode : {"observe", "enforce"}, enrolled : BOOLEAN, orgObserve : BOOLEAN, legacy : SUBSET Classes,
             dryRun : BOOLEAN, managed : BOOLEAN, strict : BOOLEAN, surface : Surfaces]

Rank(v) == CASE v = "block" -> 0 [] v = "step_up" -> 1 [] v = "defer" -> 2 [] v = "modify" -> 3

ASSUME ContractAssumption ==
  Screens \subseteq Seq(Findings) /\ Devices \subseteq Configs /\ None \notin Findings

=============================================================================
