------------------------------- MODULE Verdict -------------------------------
(***************************************************************************)
(* The decision on one call about to run.  The gate                        *)
(* (prismor/runtime/runtime.py, hooks.py, contract.py) lets one finding    *)
(* govern; the hook (prismor/runtime/cli.py) then asks in turn whether an  *)
(* unlock window, a pause, a person or the deferred judge lifts it, and    *)
(* renders what is left in a way the agent's surface understands.  Windows *)
(* and pauses come and go meanwhile.                                       *)
(***************************************************************************)
EXTENDS Contract

VARIABLES
  dev, findings,       \* the device and the findings of the call
  unlocked, paused,    \* an unlock window is open; enforcement is paused
  pc, silenced,        \* where the hook is; the pause it has read, then whether it applies
  blocking,            \* the finding that governs, or None
  lifts,               \* history: what has set a governing finding aside
  outcome              \* what the agent is told

vars == <<dev, findings, unlocked, paused, pc, silenced, blocking, lifts, outcome>>

Lifts    == {"observe", "unlock", "pause", "dry run", "approval", "judge", "report"}
Outcomes == {"none", "run", "rewrite", "ask", "deny"}
Pcs      == {"start", "judge", "unlock", "pause", "approve", "render", "done"}

Init ==
  /\ dev \in Devices /\ findings \in Screens
  /\ unlocked \in BOOLEAN /\ paused \in BOOLEAN
  /\ pc = "start" /\ silenced = FALSE /\ blocking = None
  /\ lifts = {} /\ outcome = "none"

\* strongest(): the first of the strongest verdict.
First(S) == CHOOSE i \in S : \A j \in S : i <= j
\* Mutant: whichever comes first.
StrongestFirst(S) == IF S = {} THEN None ELSE findings[First(S)]
Strongest(S) ==
  IF S = {} THEN None
  ELSE findings[First({i \in S : \A j \in S : Rank(findings[i].verdict) <= Rank(findings[j].verdict)})]

Counting == {i \in DOMAIN findings : findings[i].force = "enforced"}
IsOrder(f) == f.cls \in {"control", "signed"}
Orders   == {i \in Counting : IsOrder(findings[i])}

\* legacy_should_block(): the first finding of a blocked category.
LegacyFindings == {i \in DOMAIN findings : findings[i].cls \in dev.legacy /\ findings[i].force # "inert"}
Governing ==
  IF Counting = {} /\ dev.mode = "enforce" /\ LegacyFindings # {}
    THEN findings[First(LegacyFindings)] ELSE Strongest(Counting)

\* A local observe mode sets aside what no order demands, unless the device is
\* enrolled and the organization did not choose it.
MayObserve == dev.mode = "observe" /\ (dev.orgObserve \/ ~ dev.enrolled)
SetAside(f) == f # None /\ ~ IsOrder(f) /\ MayObserve
\* Mutant: orders behind the finding set aside are forgotten.
RescanNot == None
Rescan == Strongest(Orders)

AuditStrict == [cls |-> "control", verdict |-> "block", force |-> "enforced"]

\* evaluate_tool_call().
ReadPause ==
  /\ pc = "start" /\ silenced' = paused /\ pc' = "judge"
  /\ UNCHANGED <<dev, findings, unlocked, paused, blocking, lifts, outcome>>
Judge ==
  /\ pc = "judge" /\ pc' = "unlock"
  /\ blocking' = IF SetAside(Governing) THEN Rescan ELSE Governing
  /\ lifts' = IF SetAside(Governing) THEN {"observe"} ELSE {}
  /\ UNCHANGED <<dev, findings, unlocked, paused, silenced, outcome>>
\* In strict mode the audit record could not be written.
JudgeUnaudited ==
  /\ pc = "judge" /\ dev.strict /\ pc' = "unlock"
  /\ blocking' = AuditStrict /\ lifts' = {}
  /\ UNCHANGED <<dev, findings, unlocked, paused, silenced, outcome>>

Lift(by) == blocking' = None /\ lifts' = lifts \cup {by}

\* A self-protection finding is lifted by an unlock window.
Unlockable == blocking # None /\ blocking.cls = "self" /\ unlocked
UnderUnlock ==
  /\ pc = "unlock" /\ Unlockable
  /\ Lift("unlock") /\ pc' = "pause"
  /\ UNCHANGED <<dev, findings, unlocked, paused, silenced, outcome>>
NoUnlock ==
  /\ pc = "unlock" /\ ~ Unlockable /\ pc' = "pause"
  /\ UNCHANGED <<dev, findings, unlocked, paused, silenced, blocking, lifts, outcome>>

\* A pause silences all but the floor; a dry run everything.
Tell(o) == outcome' = o /\ pc' = "done"
Silences == silenced /\ blocking.cls \notin {"floor", "self"}
Silence ==
  /\ pc = "pause"
  /\ IF blocking = None THEN lifts' = lifts
     ELSE /\ (dev.mode = "observe" /\ dev.dryRun) \/ Silences
          /\ lifts' = lifts \cup {IF Silences THEN "pause" ELSE "dry run"}
  /\ Tell("run")
  /\ UNCHANGED <<dev, findings, unlocked, paused, silenced, blocking>>
NotSilenced ==
  /\ pc = "pause" /\ blocking # None
  /\ ~ (dev.mode = "observe" /\ dev.dryRun) /\ ~ Silences
  /\ pc' = "approve"
  /\ UNCHANGED <<dev, findings, unlocked, paused, silenced, blocking, lifts, outcome>>

\* A person approves this very call (LocalApprovals), where that is offered.
Approvable ==
  /\ blocking.verdict \in {"block", "step_up"}
  /\ ~ (blocking.verdict = "step_up" /\ dev.surface.asks /\ ~ dev.surface.sub)
  /\ dev.surface.pre /\ blocking.cls # "self" /\ ~ dev.managed
Approved ==
  /\ pc = "approve" /\ Approvable
  /\ Lift("approval") /\ Tell("run")
  /\ UNCHANGED <<dev, findings, unlocked, paused, silenced>>
NotApproved ==
  /\ pc = "approve" /\ pc' = "render"
  /\ UNCHANGED <<dev, findings, unlocked, paused, silenced, blocking, lifts, outcome>>

\* What is left, as the surface can say it; what it cannot say is refused.
Render(v, o) == pc = "render" /\ blocking.verdict = v /\ Tell(o)
Keep == UNCHANGED <<dev, findings, unlocked, paused, silenced>>
\* The deferred judge clears the call (Deferred).
Cleared == Render("defer", "run") /\ Lift("judge") /\ Keep
AskPerson == Render("step_up", "ask") /\ dev.surface.asks /\ UNCHANGED <<blocking, lifts>> /\ Keep
Rewrite == Render("modify", "rewrite") /\ dev.surface.rewrites /\ dev.surface.pre /\ UNCHANGED <<blocking, lifts>> /\ Keep
\* A data boundary that cannot be redacted is reported.
Reportable == blocking.cls = "boundary" /\ ~ dev.surface.native /\ ~ dev.surface.rewrites
Report == Render("modify", "run") /\ Reportable /\ Lift("report") /\ Keep
\* Mutant: a rewrite the surface cannot do is left out.
RefuseSome ==
  /\ pc = "render" /\ (blocking.verdict = "step_up" => ~ dev.surface.asks)
  /\ ~ (blocking.verdict = "modify" /\ Reportable)
  /\ Tell(IF blocking.verdict = "modify" THEN "run" ELSE "deny") /\ UNCHANGED <<blocking, lifts>> /\ Keep
Refuse ==
  /\ pc = "render" /\ (blocking.verdict = "step_up" => ~ dev.surface.asks)
  /\ ~ (blocking.verdict = "modify" /\ Reportable)
  /\ Tell("deny") /\ UNCHANGED <<blocking, lifts>> /\ Keep

\* Meanwhile windows open and end, pauses begin and end.
Meanwhile ==
  /\ pc # "done" /\ unlocked' \in BOOLEAN /\ paused' \in BOOLEAN
  /\ UNCHANGED <<dev, findings, pc, silenced, blocking, lifts, outcome>>

Next ==
  \/ ReadPause \/ Judge \/ JudgeUnaudited \/ UnderUnlock \/ NoUnlock \/ Silence \/ NotSilenced
  \/ Approved \/ NotApproved \/ Cleared \/ AskPerson \/ Rewrite \/ Report \/ Refuse \/ Meanwhile

Spec == Init /\ [][Next]_vars

-----------------------------------------------------------------------------
\* Types of the hook's state.
TypeOK ==
  /\ dev \in Configs /\ findings \in Seq(Findings)
  /\ unlocked \in BOOLEAN /\ paused \in BOOLEAN /\ silenced \in BOOLEAN
  /\ pc \in Pcs /\ blocking \in Findings \cup {None}
  /\ lifts \subseteq Lifts
  /\ outcome \in Outcomes

\* "Never a silent ALLOW" (cli.py:2448): a call with a finding that counts runs
\* only if somebody or something set a finding aside, whatever the surface can
\* say and whatever changes while the hook decides.
NeverSilent == outcome = "run" /\ Counting # {} => lifts # {}

\* An observe mode sets aside no order: with a counting order among the
\* findings the call runs only by another lift, and on an enrolled device whose
\* organization did not choose observe it sets nothing aside.
ObserveSparesOrders ==
  /\ outcome = "run" /\ Orders # {} => lifts \ {"observe"} # {}
  /\ "observe" \in lifts => dev.orgObserve \/ ~ dev.enrolled

\* The findings in force: under an observe mode the orders only.
Demanding == IF "observe" \in lifts THEN Orders ELSE Counting

\* "Deny wins" (docs/decision-contract.md): nobody is asked, nothing rewritten,
\* and the judge not consulted about a call for which a counting finding
\* in force demands a block.
DenyWins ==
  outcome \in {"ask", "rewrite"} \/ lifts \cap {"judge", "report"} # {} =>
    \A i \in Demanding : findings[i].verdict # "block"

-----------------------------------------------------------------------------
(* What the repository says and the code does not do.                      *)

\* "A data_boundary verdict degrades to a warning on hosts that can neither
\* rewrite nor ask" (docs/decision-contract.md:133-136): governing, it is not a
\* refusal there.
BoundaryIsReported ==
  outcome = "deny" /\ blocking.cls = "boundary" /\ blocking.verdict \in {"modify", "step_up"}
    => dev.surface.rewrites \/ dev.surface.asks \/ dev.surface.native

\* An unlock window "clears ONLY the self-protection rules -- everything else
\* blocks exactly as before" (cli.py:2332-2333).
UnlockLiftsOnlySelf ==
  outcome = "run" /\ lifts = {"unlock"} => \A i \in Counting : findings[i].cls = "self"

=============================================================================
