-------------------------------- MODULE Counter --------------------------------
(***************************************************************************)
(* What the heartbeat promises: "counts are never lost and never           *)
(* double-sent" (prismor/runtime/enterprise/heartbeat.py), faults aside.   *)
(***************************************************************************)
EXTENDS Naturals

CONSTANT Calls

VARIABLES pending, reported, faults

vars == <<pending, reported, faults>>

Init == pending = {} /\ reported = {} /\ faults = 0

\* An inspected call is counted.
Count ==
  \E c \in Calls \ (pending \cup reported) :
    pending' = pending \cup {c} /\ UNCHANGED <<reported, faults>>

\* What is counted is reported, once.
Report ==
  \E some \in SUBSET pending :
    /\ pending' = pending \ some /\ reported' = reported \cup some
    /\ UNCHANGED faults

\* Only a fault takes a count.
Fault == faults' = faults + 1 /\ pending' \in SUBSET pending /\ UNCHANGED reported

Next == Count \/ Report \/ Fault

Spec == Init /\ [][Next]_vars

=============================================================================
