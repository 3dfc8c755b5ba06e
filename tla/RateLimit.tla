------------------------------ MODULE RateLimit ------------------------------
(***************************************************************************)
(* Sliding-window admission (prismor/runtime/ratelimit.py), as the gate    *)
(* calls it for every action about to run (prismor/runtime/runtime.py).    *)
(*                                                                         *)
(* A caller reads the wall clock, then waits for the database; the         *)
(* transaction (BEGIN IMMEDIATE) is one step and uses the later of that    *)
(* stamp and the clock row.  The wall clock may be set back.               *)
(***************************************************************************)
EXTENDS Integers, FiniteSets

CONSTANTS
  Procs,         \* hook processes
  Identities,    \* quota identities of one workspace
  Calls,         \* host tool-call ids
  NoCall,        \* a call without an id
  NoRequest,     \* a process that waits for nothing
  Limits,        \* requests_per_minute + max_burst, as policies set it
  Window,        \* WINDOW_SECONDS
  MaxTime,       \* bound: the wall clock
  MaxRows,       \* bound: slots ever granted
  MaxRollbacks   \* bound: times the wall clock is set back

Times    == 0 .. MaxTime
Rows     == [identity : Identities, ts : Times, call : Calls \cup {NoCall}, n : 1 .. MaxRows]
Requests == [identity : Identities, call : Calls \cup {NoCall}, limit : Limits, stamp : Times]

ASSUME ConstantsAssumption ==
  /\ NoCall \notin Calls /\ NoRequest \notin Requests
  /\ Limits \subseteq Nat \ {0} /\ IsFiniteSet(Limits) /\ Limits # {}
  /\ Window \in Nat \ {0} /\ MaxTime \in Nat /\ MaxRows \in Nat /\ MaxRollbacks \in Nat

VARIABLES
  now, rollbacks,    \* the wall clock, how often it was set back
  clock,             \* rate_limit_clock: its ts, or -1 without the row
  rows,              \* rate_limit_admissions
  req,               \* per process: what it waits for the database with
  granted,           \* history: every row ever inserted
  latest             \* history: the latest stamp a transaction has used

vars == <<now, rollbacks, clock, rows, req, granted, latest>>

Init ==
  /\ now = 0 /\ rollbacks = 0
  /\ clock = -1 /\ rows = {}
  /\ req = [p \in Procs |-> NoRequest]
  /\ granted = {} /\ latest = 0

Recent(g, i, t) == {r \in g : r.identity = i /\ r.ts > t - Window}

\* The caller computes its identity and limit and reads the wall clock.
Ask(p, i, c, l) ==
  /\ req[p] = NoRequest
  /\ req' = [req EXCEPT ![p] = [identity |-> i, call |-> c, limit |-> l, stamp |-> now]]
  /\ UNCHANGED <<now, rollbacks, clock, rows, granted, latest>>

\* _clock: a stamp never goes behind the last one a slot was granted at.
Stamp(s) == IF s > clock THEN s ELSE clock

\* Expired rows of every identity are deleted.
\* Mutant: a row expires a second early.
UnexpiredEarly(t) == {r \in rows : r.ts > t - Window + 1}
Unexpired(t) == {r \in rows : r.ts > t - Window}

\* Mutant: a repeated call is not recognised.
DuplicateNever(live, q) == FALSE
Duplicate(live, q) == q.call # NoCall /\ \E r \in live : r.identity = q.identity /\ r.call = q.call

\* Mutant: the slot asked for is not counted.
FitsOneMore(live, q, t) == Cardinality(Recent(live, q.identity, t)) <= q.limit
Fits(live, q, t) == Cardinality(Recent(live, q.identity, t)) + 1 <= q.limit

\* The transaction of admit() for a call that gets a slot of its own ...
Insert(p) ==
  /\ req[p] # NoRequest
  /\ LET q == req[p]  t == Stamp(q.stamp)  live == Unexpired(t)
         row == [identity |-> q.identity, ts |-> t, call |-> q.call, n |-> Cardinality(granted) + 1]
     IN  /\ ~ Duplicate(live, q) /\ Fits(live, q, t)
         /\ Cardinality(granted) < MaxRows
         /\ rows' = live \cup {row} /\ clock' = t
         /\ granted' = granted \cup {row}
         /\ latest' = IF t > latest THEN t ELSE latest
  /\ req' = [req EXCEPT ![p] = NoRequest]
  /\ UNCHANGED <<now, rollbacks>>

\* ... for the repetition of a call that has one, and for one that is denied:
\* expired rows are gone, the clock row is as before.
NoInsert(p) ==
  /\ req[p] # NoRequest
  /\ LET q == req[p]  t == Stamp(q.stamp)  live == Unexpired(t)
     IN  /\ Duplicate(live, q) \/ ~ Fits(live, q, t)
         /\ rows' = live
         /\ latest' = IF t > latest THEN t ELSE latest
  /\ req' = [req EXCEPT ![p] = NoRequest]
  /\ UNCHANGED <<now, rollbacks, clock, granted>>

\* The store is locked for longer than DATABASE_TIMEOUT, broken, or the process
\* dies within the transaction: rolled back.
Unavailable(p) ==
  /\ req[p] # NoRequest
  /\ req' = [req EXCEPT ![p] = NoRequest]
  /\ UNCHANGED <<now, rollbacks, clock, rows, granted, latest>>

Tick == now < MaxTime /\ now' = now + 1 /\ UNCHANGED <<rollbacks, clock, rows, req, granted, latest>>
Rollback ==
  /\ rollbacks < MaxRollbacks /\ rollbacks' = rollbacks + 1
  /\ now' \in 0 .. now
  /\ UNCHANGED <<clock, rows, req, granted, latest>>

Admit(p) == Insert(p) \/ NoInsert(p) \/ Unavailable(p)

Next ==
  \/ \E p \in Procs : Admit(p)
  \/ \E p \in Procs, i \in Identities, c \in Calls \cup {NoCall}, l \in Limits : Ask(p, i, c, l)
  \/ Tick \/ Rollback

Spec == Init /\ [][Next]_vars

-----------------------------------------------------------------------------
(* _retry_after, as `prismor rate status` and every verdict report it.     *)

\* The row whose expiry makes room: with used slots and a limit, the
\* (used - limit + 1)th oldest.
Frees(s, k, r) == /\ Cardinality({x \in s : x.ts < r.ts}) <= k
                  /\ Cardinality({x \in s : x.ts <= r.ts}) > k
\* Mutant: the oldest row is enough.
RetryAfterOldest(i, l, t) ==
  LET s == Recent(rows, i, t) IN
  IF Cardinality(s) < l THEN 0 ELSE (CHOOSE r \in s : Frees(s, 0, r)).ts + Window - t
RetryAfter(i, l, t) ==
  LET s == Recent(rows, i, t) IN
  IF Cardinality(s) < l THEN 0 ELSE (CHOOSE r \in s : Frees(s, Cardinality(s) - l, r)).ts + Window - t

-----------------------------------------------------------------------------
\* Types: the tables, the callers and the histories.
TypeOK ==
  /\ now \in Times /\ rollbacks \in 0 .. MaxRollbacks
  /\ clock \in Times \cup {-1} /\ latest \in Times
  /\ rows \subseteq Rows /\ granted \subseteq Rows
  /\ req \in [Procs -> Requests \cup {NoRequest}]

\* By the latest time any transaction has used, no identity was granted more
\* than the highest limit within one window: whatever order the callers get
\* the database in, whatever they prune, and wherever the wall clock goes.
WindowHolds ==
  \A i \in Identities : \E l \in Limits : Cardinality(Recent(granted, i, latest)) <= l

\* No reservation that is recent by that time has been pruned.
RecentIsStored == {r \in granted : r.ts > latest - Window} \subseteq rows

\* A call id holds at most one slot at a time, however often its hook is
\* repeated and by whichever process.
OneSlotPerCall ==
  \A r, s \in rows : (r.identity = s.identity /\ r.call = s.call /\ r.call # NoCall) => r = s

\* Waiting retry_after is enough, and nothing shorter is ("enough slots must
\* age out, not merely the oldest one", ratelimit.py:106), at any limit a
\* policy may have been lowered to.
RetryAfterIsExact ==
  \A i \in Identities, l \in Limits :
    LET t == IF clock = -1 THEN now ELSE Stamp(now)
        w == RetryAfter(i, l, t)
    IN  /\ w >= 0
        /\ Cardinality(Recent(rows, i, t + w)) < l
        /\ w > 0 => Cardinality(Recent(rows, i, t + w - 1)) >= l

\* The limiter grants as the abstract sliding window does.
Promise == INSTANCE SlidingWindow
KeepsPromise == Promise!Spec

\* "Clock rollback cannot free reservations" (ratelimit.py:94): the window that
\* ends at a slot's own timestamp holds no more slots than the limit allows.
RollbackFreesNothing ==
  \A r \in granted : \E l \in Limits :
    Cardinality({x \in Recent(granted, r.identity, r.ts) : x.ts <= r.ts}) <= l

=============================================================================
