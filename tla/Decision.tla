-------------------------------- MODULE Decision --------------------------------
(***************************************************************************)
(* The decision on a call and three small stores it consults: delegations, *)
(* deferred verdicts and the pause marker.  They share no file, so that    *)
(* interleaving one with another shows nothing: one of them moves, the     *)
(* others stay as they began.  What a store may answer the decision is     *)
(* nondeterministic in Verdict.                                            *)
(***************************************************************************)
EXTENDS Delegations, Contract

CONSTANTS
  NoAct,                                  \* no marker, no action
  Actions, FingerprintOf, MaxAnswers,     \* Deferred
  Window, MaxTime, MaxPauses, MaxOrders   \* Pause

VARIABLES
  focus,                                              \* the part that moves
  cache, tmp, dpc, act, copy, answers, cleared,       \* Deferred
  now, marker, org, ppc, rec, seen, made, resumed,    \* Pause
  dev, findings, unlocked, paused, vpc, silenced, blocking, lifts, outcome   \* Verdict

Df == INSTANCE Deferred WITH None <- NoAct, pc <- dpc
Pa == INSTANCE Pause WITH None <- NoAct, pc <- ppc
Ve == INSTANCE Verdict WITH pc <- vpc

ASSUME PartsAssumption == Df!ConstantsOK /\ Pa!ConstantsOK

deferredVars == <<cache, tmp, dpc, act, copy, answers, cleared>>
pauseVars    == <<now, marker, org, ppc, rec, seen, made, resumed>>
verdictVars  == <<dev, findings, unlocked, paused, vpc, silenced, blocking, lifts, outcome>>
partsVars    == <<focus, vars, deferredVars, pauseVars, verdictVars>>

\* The decision left at rest while a store is explored.
VerdictIdle ==
  /\ dev = NoAct /\ findings = << >> /\ unlocked = FALSE /\ paused = FALSE
  /\ vpc = "start" /\ silenced = FALSE /\ blocking = None /\ lifts = {} /\ outcome = "none"

DelegationsInit == Init /\ Df!Init /\ Pa!Init /\ VerdictIdle /\ focus = "delegations"
DeferredInit    == Init /\ Df!Init /\ Pa!Init /\ VerdictIdle /\ focus = "deferred"
PauseInit       == Init /\ Df!Init /\ Pa!Init /\ VerdictIdle /\ focus = "pause"
VerdictInit     == Init /\ Df!Init /\ Pa!Init /\ Ve!Init /\ focus = "verdict"

DelegationsNext == focus = "delegations" /\ Next /\ UNCHANGED <<focus, deferredVars, pauseVars, verdictVars>>
DeferredNext    == focus = "deferred" /\ Df!Next /\ UNCHANGED <<focus, vars, pauseVars, verdictVars>>
PauseNext       == focus = "pause" /\ Pa!Next /\ UNCHANGED <<focus, vars, deferredVars, verdictVars>>
VerdictNext     == focus = "verdict" /\ Ve!Next /\ UNCHANGED <<focus, vars, deferredVars, pauseVars>>

PartsInit == DelegationsInit \/ DeferredInit \/ PauseInit \/ VerdictInit
PartsNext == DelegationsNext \/ DeferredNext \/ PauseNext \/ VerdictNext
PartsSpec == PartsInit /\ [][PartsNext]_partsVars

\* One part on its own.
DelegationsOnly == DelegationsInit /\ [][DelegationsNext]_partsVars
PauseOnly       == PauseInit /\ [][PauseNext]_partsVars
VerdictOnly     == VerdictInit /\ [][VerdictNext]_partsVars

\* The types of each part (Delegations, Deferred, Pause, Verdict).
PartsTypeOK == TypeOK /\ Df!TypeOK /\ Pa!TypeOK /\ (focus = "verdict" => Ve!TypeOK)

\* See Deferred: what is let through has a fingerprint the judge has cleared.
AllowedWasCleared == Df!AllowedWasCleared
\* See Pause: enforcement is off only on purpose.
PauseIsDeliberate == Pa!PauseIsDeliberate
\* See Pause: `prismor resume` ends a pause.
ResumeEndsPause == Pa!ResumeEndsPause
\* See Verdict: never a silent ALLOW.
NeverSilent == Ve!NeverSilent
\* See Verdict: an observe mode sets aside no order.
ObserveSparesOrders == Ve!ObserveSparesOrders
\* See Verdict: deny wins.
DenyWins == Ve!DenyWins
\* See Verdict: a data boundary degrades to a warning where nothing else is offered.
BoundaryIsReported == Ve!BoundaryIsReported

=============================================================================
