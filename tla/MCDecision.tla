------------------------------- MODULE MCDecision -------------------------------
(***************************************************************************)
(* The decision and the stores it consults, for TLC: two hooks, two agents *)
(* and three held actions; findings and devices for every branch of the    *)
(* decision.                                                               *)
(***************************************************************************)
EXTENDS Decision, TLC

CONSTANTS h1, h2, main, sub, k1, a1, a2, a3, f1, f2

MCHooks   == {h1, h2}
MCParents == {main, sub}
MCKeys    == {k1}
MCActions == {a1, a2, a3}
\* Two actions held by the same rule, and one by another.
MCFingerprintOf == [a \in MCActions |-> IF a = a3 THEN f2 ELSE f1]

\* Findings by class, verdict and force, and what one or two rules may find.
Found(c, v, f) == [cls |-> c, verdict |-> v, force |-> f]
MCFindings ==
  {Found(c, "block", "enforced") : c \in {"ordinary", "signed", "floor", "self"}}
    \cup {Found("ordinary", "block", "inert"), Found("ordinary", "block", "observed"), Found("floor", "block", "observed")}
    \cup {Found(c, v, "enforced") : c \in {"boundary", "signed"}, v \in {"step_up", "modify"}}
    \cup {Found("ordinary", v, "enforced") : v \in {"step_up", "defer"}}
MCScreens == {<< >>} \cup {<<f>> : f \in MCFindings} \cup {<<f, g>> : f \in MCFindings, g \in MCFindings}
\* A Claude call and one of its subagent, a Windsurf call, a Copilot call, a
\* Codex prompt.
MCSurfaces ==
  { [pre |-> TRUE,  sub |-> FALSE, asks |-> TRUE,  rewrites |-> TRUE,  native |-> TRUE],
    [pre |-> TRUE,  sub |-> TRUE,  asks |-> FALSE, rewrites |-> TRUE,  native |-> TRUE],
    [pre |-> TRUE,  sub |-> FALSE, asks |-> FALSE, rewrites |-> FALSE, native |-> FALSE],
    [pre |-> TRUE,  sub |-> FALSE, asks |-> TRUE,  rewrites |-> FALSE, native |-> TRUE],
    [pre |-> FALSE, sub |-> FALSE, asks |-> FALSE, rewrites |-> TRUE,  native |-> FALSE] }
\* Devices on their own and devices of an organization; a dry run is one of an
\* observe mode, the old policies bite in enforce mode.
AllDevices ==
  { [mode |-> m, enrolled |-> e, orgObserve |-> o, legacy |-> l, dryRun |-> d, managed |-> e, strict |-> s, surface |-> u] :
      m \in {"observe", "enforce"}, e \in BOOLEAN, o \in BOOLEAN, l \in {{}, {"ordinary", "floor"}},
      d \in BOOLEAN, s \in BOOLEAN, u \in MCSurfaces }
MCDevices ==
  {c \in AllDevices :
    /\ c.orgObserve => (c.enrolled /\ c.mode = "observe")
    /\ c.dryRun => c.mode = "observe"
    /\ c.legacy # {} => c.mode = "enforce"}

HooksAlike == Permutations(MCHooks)

=============================================================================
