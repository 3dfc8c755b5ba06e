---------------------------- MODULE SlidingWindow ----------------------------
(***************************************************************************)
(* What the rate limiter promises (prismor/runtime/ratelimit.py): by the   *)
(* latest time anybody has used, no identity was ever granted more slots   *)
(* within one window than the highest limit in force.                      *)
(***************************************************************************)
EXTENDS Integers, FiniteSets

CONSTANTS
  Identities,    \* whose calls are counted
  Limits,        \* requests_per_minute + max_burst, as policies set it
  Window         \* WINDOW_SECONDS

VARIABLES
  granted,       \* every slot ever granted: [identity, ts, n]
  latest         \* the latest time in use

vars == <<granted, latest>>

Recent(g, i, t) == {r \in g : r.identity = i /\ r.ts > t - Window}

Init == granted = {} /\ latest = 0

\* Time goes on; it never goes back.
Advance == latest' >= latest /\ UNCHANGED granted

\* A slot is granted while fewer than the limit are recent.
Grant(i, l) ==
  /\ latest' >= latest
  /\ \E r \in granted' \ granted : /\ r.identity = i /\ r.ts <= latest'
                                    /\ granted' = granted \cup {r}
  /\ Cardinality(Recent(granted, i, latest')) < l

Next == Advance \/ \E i \in Identities, l \in Limits : Grant(i, l)

Spec == Init /\ [][Next]_vars

=============================================================================
