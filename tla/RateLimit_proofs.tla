--------------------------- MODULE RateLimit_proofs ---------------------------
(***************************************************************************)
(* Theorems about RateLimit, for any number of processes, identities and   *)
(* calls.  The inductive invariant says that the table holds every recent  *)
(* slot, so that counting the table counts the history: a transaction      *)
(* prunes by its own stamp, which is never beyond the latest one.          *)
(***************************************************************************)
EXTENDS RateLimit, FiniteSetTheorems, TLAPS

\* The histories are finite, dated by used stamps and numbered.
HistoryOK ==
  /\ IsFiniteSet(granted) /\ rows \subseteq granted
  /\ clock <= latest
  /\ \A r \in granted : r.ts <= latest /\ r.n <= Cardinality(granted)

IInv == TypeOK /\ HistoryOK /\ RecentIsStored /\ WindowHolds /\ OneSlotPerCall

LEMMA InitIInv == Init => IInv
<1> SUFFICES ASSUME Init PROVE IInv
  OBVIOUS
<1> USE ConstantsAssumption
<1>1. TypeOK
  BY DEF Init, TypeOK, Times, Rows
<1>2. HistoryOK
  BY FS_EmptySet DEF Init, HistoryOK
<1>3. WindowHolds
  <2>1. ASSUME NEW i \in Identities PROVE Recent(granted, i, latest) = {}
    BY DEF Init, Recent
  <2>2. Cardinality({}) = 0
    BY FS_EmptySet
  <2>3. PICK l \in Limits : l \in Nat
    OBVIOUS
  <2> QED BY <2>1, <2>2, <2>3 DEF WindowHolds
<1> QED BY <1>1, <1>2, <1>3 DEF IInv, Init, RecentIsStored, OneSlotPerCall

\* A set of recent slots is part of any set that holds the recent slots.
LEMMA RecentIsFinite ==
  ASSUME NEW S, IsFiniteSet(S), NEW i, NEW t
  PROVE  IsFiniteSet(Recent(S, i, t)) /\ Cardinality(Recent(S, i, t)) \in Nat
<1>1. Recent(S, i, t) \subseteq S
  BY DEF Recent
<1> QED BY <1>1, FS_Subset, FS_CardinalityType

\* What a transaction may rely on: its stamp, its rows, and that they hold every
\* slot that is recent by the latest stamp after it.
LEMMA StampFacts ==
  ASSUME IInv, NEW p \in Procs, req[p] # NoRequest
  PROVE  LET q == req[p]  t == Stamp(q.stamp)  m == IF t > latest THEN t ELSE latest
         IN  /\ q \in Requests /\ t \in Times /\ clock <= t
             /\ m \in Times /\ m >= latest /\ m >= t
             /\ Unexpired(t) \subseteq rows
             /\ {r \in granted : r.ts > m - Window} \subseteq Unexpired(t)
<1> DEFINE q == req[p]  t == Stamp(q.stamp)  m == IF t > latest THEN t ELSE latest
<1>1. q \in Requests /\ q.stamp \in Times
  BY DEF IInv, TypeOK, Requests
<1>2. t \in Times /\ clock <= t /\ m \in Times /\ m >= latest /\ m >= t
  BY <1>1 DEF IInv, TypeOK, Stamp, Times
<1>3. Window \in Nat /\ latest \in Int /\ t \in Int /\ m \in Int
  BY <1>2, ConstantsAssumption DEF IInv, TypeOK, Times
<1>4. ASSUME NEW r \in granted, r.ts > m - Window
      PROVE  r \in rows /\ r.ts > t - Window
  <2>1. r.ts \in Int
    BY DEF IInv, TypeOK, Rows, Times
  <2>2. r.ts > latest - Window /\ r.ts > t - Window
    BY <1>2, <1>3, <1>4, <2>1
  <2> QED BY <2>2 DEF IInv, RecentIsStored
<1>5. Unexpired(t) \subseteq rows /\ {r \in granted : r.ts > m - Window} \subseteq Unexpired(t)
  BY <1>4 DEF Unexpired
<1> QED BY <1>1, <1>2, <1>5

\* A slot is granted only if fewer than the limit are recent by then.
LEMMA GrantFits ==
  ASSUME IInv, NEW p \in Procs, Insert(p)
  PROVE  LET q == req[p]
         IN  /\ q.limit \in Limits /\ q.limit \in Nat
             /\ IsFiniteSet(Recent(granted, q.identity, latest'))
             /\ Cardinality(Recent(granted, q.identity, latest')) < q.limit
<1> DEFINE q == req[p]  t == Stamp(q.stamp)  live == Unexpired(t)
           old == Recent(granted, q.identity, latest')  mine == Recent(live, q.identity, t)
<1>1. req[p] # NoRequest /\ latest' = IF t > latest THEN t ELSE latest
  BY DEF Insert
<1>2. /\ q \in Requests /\ t \in Times /\ live \subseteq rows
      /\ {r \in granted : r.ts > latest' - Window} \subseteq live
  BY <1>1, StampFacts
<1>3. old \subseteq mine
  BY <1>2 DEF Recent, Unexpired
<1>4. IsFiniteSet(live)
  BY <1>2, FS_Subset DEF IInv, HistoryOK
<1>5. IsFiniteSet(mine) /\ Cardinality(mine) \in Nat
  BY <1>4, RecentIsFinite
<1>6. IsFiniteSet(old) /\ Cardinality(old) <= Cardinality(mine) /\ Cardinality(old) \in Nat
  BY <1>3, <1>5, FS_Subset, FS_CardinalityType
<1>7. q.limit \in Limits /\ q.limit \in Nat
  BY <1>2, ConstantsAssumption DEF Requests
<1>8. Cardinality(mine) + 1 <= q.limit
  BY DEF Insert, Fits
<1> QED BY <1>5, <1>6, <1>7, <1>8

\* The new row, and what is new about it.
LEMMA NewRow ==
  ASSUME IInv, NEW p \in Procs, Insert(p)
  PROVE  LET q == req[p]  t == Stamp(q.stamp)
             row == [identity |-> q.identity, ts |-> t, call |-> q.call, n |-> Cardinality(granted) + 1]
         IN  /\ row \in Rows /\ row \notin granted
             /\ rows' = Unexpired(t) \cup {row} /\ granted' = granted \cup {row}
             /\ IsFiniteSet(granted') /\ Cardinality(granted') = Cardinality(granted) + 1
<1> DEFINE q == req[p]  t == Stamp(q.stamp)
           row == [identity |-> q.identity, ts |-> t, call |-> q.call, n |-> Cardinality(granted) + 1]
<1>1. q \in Requests /\ t \in Times
  BY StampFacts DEF Insert
<1>2. Cardinality(granted) \in Nat /\ Cardinality(granted) < MaxRows
  BY FS_CardinalityType DEF Insert, IInv, HistoryOK
<1>3. row \in Rows
  BY <1>1, <1>2, ConstantsAssumption DEF Rows, Requests
<1>4. row \notin granted
  BY <1>2 DEF IInv, HistoryOK
<1>5. rows' = Unexpired(t) \cup {row} /\ granted' = granted \cup {row}
  BY DEF Insert
<1>6. IsFiniteSet(granted \cup {row}) /\ Cardinality(granted \cup {row}) = Cardinality(granted) + 1
  BY <1>4, FS_AddElement DEF IInv, HistoryOK
<1> QED BY <1>3, <1>4, <1>5, <1>6

\* Histories only get an older window as the latest stamp grows.
LEMMA WindowShrinks ==
  ASSUME IInv, NEW m \in Times, m >= latest, NEW i \in Identities
  PROVE  \E l \in Limits : Cardinality(Recent(granted, i, m)) <= l
<1>1. PICK l \in Limits : Cardinality(Recent(granted, i, latest)) <= l
  BY DEF IInv, WindowHolds
<1>2. Recent(granted, i, m) \subseteq Recent(granted, i, latest)
  <2> SUFFICES ASSUME NEW r \in granted, r.ts > m - Window PROVE r.ts > latest - Window
    BY DEF Recent
  <2>1. r.ts \in Int /\ m \in Int /\ latest \in Int /\ Window \in Int
    BY ConstantsAssumption DEF IInv, TypeOK, Rows, Times
  <2> QED BY <2>1
<1>3. IsFiniteSet(Recent(granted, i, latest)) /\ Cardinality(Recent(granted, i, latest)) \in Nat
  BY RecentIsFinite DEF IInv, HistoryOK
<1>4. Cardinality(Recent(granted, i, m)) <= Cardinality(Recent(granted, i, latest))
      /\ Cardinality(Recent(granted, i, m)) \in Nat
  BY <1>2, <1>3, FS_Subset, FS_CardinalityType
<1>5. l \in Nat
  BY ConstantsAssumption
<1> QED BY <1>1, <1>3, <1>4, <1>5

LEMMA InsertIInv ==
  ASSUME IInv, NEW p \in Procs, Insert(p)
  PROVE  IInv'
<1> DEFINE q == req[p]  t == Stamp(q.stamp)  live == Unexpired(t)
           row == [identity |-> q.identity, ts |-> t, call |-> q.call, n |-> Cardinality(granted) + 1]
<1>1. req[p] # NoRequest /\ latest' = (IF t > latest THEN t ELSE latest) /\ clock' = t
  BY DEF Insert
<1>2. /\ q \in Requests /\ t \in Times /\ latest' \in Times /\ latest' >= latest /\ latest' >= t
      /\ live \subseteq rows /\ {r \in granted : r.ts > latest' - Window} \subseteq live
  BY <1>1, StampFacts
<1>3. /\ row \in Rows /\ row \notin granted /\ rows' = live \cup {row} /\ granted' = granted \cup {row}
      /\ IsFiniteSet(granted') /\ Cardinality(granted') = Cardinality(granted) + 1
  BY NewRow
<1> HIDE DEF q, t, live, row
<1>4. TypeOK'
  <2>1. rows' \subseteq Rows /\ granted' \subseteq Rows
    BY <1>2, <1>3 DEF IInv, TypeOK
  <2> QED BY <2>1, <1>1, <1>2 DEF Insert, IInv, TypeOK
<1>5. HistoryOK'
  <2>1. Cardinality(granted) \in Nat
    BY FS_CardinalityType DEF IInv, HistoryOK
  <2>2. ASSUME NEW r \in granted' PROVE r.ts <= latest' /\ r.n <= Cardinality(granted')
    <3>1. CASE r = row
      BY <3>1, <1>2, <1>3, <2>1 DEF row, Times
    <3>2. CASE r \in granted
      <4>1. r.ts <= latest /\ r.n <= Cardinality(granted) /\ r.ts \in Int /\ r.n \in Int /\ latest \in Int
        BY <3>2 DEF IInv, HistoryOK, TypeOK, Rows, Times
      <4> QED BY <4>1, <1>2, <1>3, <2>1 DEF Times
    <3> QED BY <3>1, <3>2, <1>3
  <2>3. rows' \subseteq granted'
    BY <1>2, <1>3 DEF IInv, HistoryOK
  <2>4. clock' <= latest'
    BY <1>1, <1>2 DEF Times
  <2> QED BY <1>3, <2>2, <2>3, <2>4 DEF HistoryOK
<1>6. RecentIsStored'
  BY <1>2, <1>3 DEF RecentIsStored
<1>7. WindowHolds'
  <2> SUFFICES ASSUME NEW i \in Identities
               PROVE  \E l \in Limits : Cardinality(Recent(granted', i, latest')) <= l
    BY DEF WindowHolds
  <2>1. CASE i = q.identity
    <3> DEFINE old == Recent(granted, i, latest')
    <3>1. /\ q.limit \in Limits /\ q.limit \in Nat /\ IsFiniteSet(old)
          /\ Cardinality(old) < q.limit
      BY <2>1, GrantFits DEF q
    <3>2. Recent(granted', i, latest') \subseteq old \cup {row}
      BY <1>3 DEF Recent
    <3>3. row \notin old
      BY <1>3 DEF Recent
    <3> HIDE DEF old
    <3>4. IsFiniteSet(old \cup {row}) /\ Cardinality(old \cup {row}) = Cardinality(old) + 1
      BY <3>1, <3>3, FS_AddElement
    <3>5. Cardinality(old) \in Nat
      BY <3>1, FS_CardinalityType
    <3>6. Cardinality(Recent(granted', i, latest')) <= Cardinality(old \cup {row})
          /\ Cardinality(Recent(granted', i, latest')) \in Nat
      BY <3>2, <3>4, FS_Subset, FS_CardinalityType
    <3> QED BY <3>1, <3>4, <3>5, <3>6
  <2>2. CASE i # q.identity
    <3>1. Recent(granted', i, latest') = Recent(granted, i, latest')
      BY <2>2, <1>3 DEF Recent, row
    <3> QED BY <3>1, <1>2, WindowShrinks
  <2> QED BY <2>1, <2>2
<1>8. OneSlotPerCall'
  <2>1. ~ Duplicate(live, q)
    BY DEF Insert, live, t, q
  <2>2. ASSUME NEW r \in live, r.identity = row.identity, r.call = row.call, row.call # NoCall PROVE FALSE
    BY <2>1, <2>2 DEF Duplicate, row
  <2> QED BY <1>2, <1>3, <2>2 DEF IInv, OneSlotPerCall
<1> QED BY <1>4, <1>5, <1>6, <1>7, <1>8 DEF IInv

LEMMA NoInsertIInv ==
  ASSUME IInv, NEW p \in Procs, NoInsert(p)
  PROVE  IInv'
<1> DEFINE t == Stamp(req[p].stamp)
<1>1. req[p] # NoRequest /\ latest' = (IF t > latest THEN t ELSE latest) /\ rows' = Unexpired(t)
      /\ clock' = clock /\ granted' = granted /\ now' = now /\ rollbacks' = rollbacks
  BY DEF NoInsert
<1>2. /\ latest' \in Times /\ latest' >= latest /\ Unexpired(t) \subseteq rows
      /\ {r \in granted : r.ts > latest' - Window} \subseteq Unexpired(t)
  BY <1>1, StampFacts
<1> HIDE DEF t
<1>3. TypeOK'
  BY <1>1, <1>2 DEF NoInsert, IInv, TypeOK
<1>4. HistoryOK'
  <2>1. ASSUME NEW r \in granted PROVE r.ts <= latest'
    <3>1. r.ts \in Int /\ latest \in Int /\ latest' \in Int /\ r.ts <= latest
      BY <1>2 DEF IInv, HistoryOK, TypeOK, Rows, Times
    <3> QED BY <3>1, <1>2
  <2>2. clock' <= latest'
    BY <1>1, <1>2 DEF IInv, HistoryOK, TypeOK, Times
  <2> QED BY <1>1, <1>2, <2>1, <2>2 DEF IInv, HistoryOK
<1>5. RecentIsStored'
  BY <1>1, <1>2 DEF RecentIsStored
<1>6. WindowHolds'
  BY <1>1, <1>2, WindowShrinks DEF WindowHolds
<1>7. OneSlotPerCall'
  BY <1>1, <1>2 DEF IInv, OneSlotPerCall
<1> QED BY <1>3, <1>4, <1>5, <1>6, <1>7 DEF IInv

\* Steps that leave the tables alone.
LEMMA OtherIInv ==
  ASSUME IInv, UNCHANGED <<clock, rows, granted, latest>>, TypeOK'
  PROVE  IInv'
BY DEF IInv, HistoryOK, RecentIsStored, WindowHolds, Recent, OneSlotPerCall

LEMMA Inductive == IInv /\ [Next]_vars => IInv'
<1> SUFFICES ASSUME IInv, [Next]_vars PROVE IInv'
  OBVIOUS
<1> USE ConstantsAssumption
<1>1. ASSUME NEW p \in Procs, Insert(p) PROVE IInv'
  BY <1>1, InsertIInv
<1>2. ASSUME NEW p \in Procs, NoInsert(p) PROVE IInv'
  BY <1>2, NoInsertIInv
<1>3. ASSUME NEW p \in Procs, Unavailable(p) PROVE IInv'
  <2>1. TypeOK'
    BY <1>3 DEF Unavailable, IInv, TypeOK
  <2> QED BY <1>3, <2>1, OtherIInv DEF Unavailable
<1>4. ASSUME NEW p \in Procs, NEW i \in Identities, NEW c \in Calls \cup {NoCall}, NEW l \in Limits, Ask(p, i, c, l)
      PROVE  IInv'
  <2>1. [identity |-> i, call |-> c, limit |-> l, stamp |-> now] \in Requests
    BY DEF IInv, TypeOK, Requests
  <2>2. TypeOK'
    BY <1>4, <2>1 DEF Ask, IInv, TypeOK
  <2> QED BY <1>4, <2>2, OtherIInv DEF Ask
<1>5. CASE Tick
  <2>1. TypeOK'
    BY <1>5 DEF Tick, IInv, TypeOK, Times
  <2> QED BY <1>5, <2>1, OtherIInv DEF Tick
<1>6. CASE Rollback
  <2>1. TypeOK'
    BY <1>6 DEF Rollback, IInv, TypeOK, Times
  <2> QED BY <1>6, <2>1, OtherIInv DEF Rollback
<1>7. CASE UNCHANGED vars
  <2>1. TypeOK'
    BY <1>7 DEF vars, IInv, TypeOK
  <2> QED BY <1>7, <2>1, OtherIInv DEF vars
<1> QED BY <1>1, <1>2, <1>3, <1>4, <1>5, <1>6, <1>7 DEF Next, Admit

THEOREM InvariantHolds == Spec => []IInv
BY InitIInv, Inductive, PTL DEF Spec

\* Types of the tables, the clock, the requests and the histories.
THEOREM TypeCorrect == Spec => []TypeOK
<1>1. IInv => TypeOK
  BY DEF IInv
<1> QED BY <1>1, InvariantHolds, PTL

\* No identity is granted more than the highest limit within a window that ends
\* at the latest stamp: whatever the interleaving and the wall clock.
THEOREM WindowIsKept == Spec => []WindowHolds
<1>1. IInv => WindowHolds
  BY DEF IInv
<1> QED BY <1>1, InvariantHolds, PTL

\* Pruning never takes a slot that is recent by the latest stamp.
THEOREM PruningIsSafe == Spec => []RecentIsStored
<1>1. IInv => RecentIsStored
  BY DEF IInv
<1> QED BY <1>1, InvariantHolds, PTL

\* A repeated call id never takes a second slot.
THEOREM CallsCountOnce == Spec => []OneSlotPerCall
<1>1. IInv => OneSlotPerCall
  BY DEF IInv
<1> QED BY <1>1, InvariantHolds, PTL

\* Every step is a grant, an advance of time or a stutter of the promise.
LEMMA StepKeepsPromise == IInv /\ [Next]_vars => [Promise!Next]_(Promise!vars)
<1> SUFFICES ASSUME IInv, [Next]_vars PROVE [Promise!Next]_(Promise!vars)
  OBVIOUS
<1>1. ASSUME NEW p \in Procs, Insert(p) PROVE Promise!Next
  <2> DEFINE q == req[p]  t == Stamp(q.stamp)
             row == [identity |-> q.identity, ts |-> t, call |-> q.call, n |-> Cardinality(granted) + 1]
  <2>1. req[p] # NoRequest /\ latest' = IF t > latest THEN t ELSE latest
    BY <1>1 DEF Insert
  <2>2. q \in Requests /\ t \in Times /\ latest' >= latest /\ t <= latest'
    BY <2>1, StampFacts DEF Times
  <2>3. row \notin granted /\ granted' = granted \cup {row}
    BY <1>1, NewRow
  <2>4. q.limit \in Limits /\ Cardinality(Recent(granted, q.identity, latest')) < q.limit
    BY <1>1, GrantFits
  <2>5. \E r \in granted' \ granted : r.identity = q.identity /\ r.ts <= latest' /\ granted' = granted \cup {r}
    <3>1. row \in granted' \ granted /\ row.identity = q.identity /\ row.ts = t
      BY <2>3
    <3> QED BY <3>1, <2>2, <2>3
  <2>6. q.identity \in Identities
    BY <2>2 DEF Requests
  <2> HIDE DEF q, t, row
  <2>7. Promise!Grant(q.identity, q.limit)
    <3>1. Promise!Cardinality(Promise!Recent(granted, q.identity, latest')) = Cardinality(Recent(granted, q.identity, latest'))
      BY DEF Promise!Cardinality, Cardinality, Promise!Recent, Recent
    <3> QED BY <2>2, <2>4, <2>5, <3>1 DEF Promise!Grant
  <2> QED BY <2>4, <2>6, <2>7 DEF Promise!Next
<1>2. ASSUME NEW p \in Procs, NoInsert(p) PROVE Promise!Next
  <2>1. req[p] # NoRequest /\ granted' = granted
        /\ latest' = IF Stamp(req[p].stamp) > latest THEN Stamp(req[p].stamp) ELSE latest
    BY <1>2 DEF NoInsert
  <2>2. latest' >= latest
    BY <2>1, StampFacts
  <2> QED BY <2>1, <2>2 DEF Promise!Next, Promise!Advance
<1>3. ASSUME UNCHANGED <<granted, latest>> PROVE UNCHANGED Promise!vars
  BY <1>3 DEF Promise!vars
<1> QED BY <1>1, <1>2, <1>3 DEF Next, Admit, Unavailable, Ask, Tick, Rollback, vars

\* The limiter implements the abstract sliding window.
THEOREM ImplementsPromise == Spec => KeepsPromise
<1>1. Init => Promise!Init
  BY DEF Init, Promise!Init
<1> QED BY <1>1, InvariantHolds, StepKeepsPromise, PTL DEF Spec, KeepsPromise, Promise!Spec

-----------------------------------------------------------------------------
(* How long to wait.                                                       *)

LEMMA Least ==
  ASSUME NEW T \in SUBSET Nat, T # {} PROVE \E n \in T : \A m \in T : n <= m
<1>1. \E x \in T : \A y \in T : ~ (<<y, x>> \in OpToRel(<, Nat))
  BY NatLessThanWellFounded, WFMin
<1>2. \A x, y \in Nat : x < y => <<x, y>> \in OpToRel(<, Nat)
  BY DEF OpToRel
<1>3. PICK x \in T : \A y \in T : ~ (<<y, x>> \in OpToRel(<, Nat))
  BY <1>1
<1>4. \A y \in T : ~ (y < x)
  BY <1>2, <1>3
<1>5. \A y \in T : x <= y
  BY <1>4
<1> QED  BY <1>5

\* Among some rows, one is the oldest and one the newest.
LEMMA OldestRow ==
  ASSUME NEW S, S # {}, \A r \in S : r.ts \in Times
  PROVE  \E r \in S : \A x \in S : r.ts <= x.ts
<1>1. {r.ts : r \in S} \in SUBSET Nat /\ {r.ts : r \in S} # {}
  BY DEF Times
<1>2. PICK n \in {r.ts : r \in S} : \A m \in {r.ts : r \in S} : n <= m
  BY <1>1, Least
<1> QED  BY <1>2

LEMMA NewestRow ==
  ASSUME NEW S, S # {}, \A r \in S : r.ts \in Times
  PROVE  \E r \in S : \A x \in S : x.ts <= r.ts
<1>1. {MaxTime - r.ts : r \in S} \in SUBSET Nat /\ {MaxTime - r.ts : r \in S} # {}
  BY ConstantsAssumption DEF Times
<1>2. PICK n \in {MaxTime - r.ts : r \in S} : \A m \in {MaxTime - r.ts : r \in S} : n <= m
  BY <1>1, Least
<1>3. PICK r \in S : n = MaxTime - r.ts
  BY <1>2
<1>4. \A x \in S : MaxTime - r.ts <= MaxTime - x.ts
  BY <1>2, <1>3
<1> QED  BY <1>4, ConstantsAssumption DEF Times

\* Of any rows, and any number less than theirs, one row's expiry leaves at most
\* the others and no earlier one does.
LEMMA OneFrees ==
  ASSUME NEW S, IsFiniteSet(S), \A r \in S : r.ts \in Times,
         NEW k \in Nat, k < Cardinality(S)
  PROVE  \E r \in S : Frees(S, k, r)
<1> DEFINE upTo(r) == {x \in S : x.ts <= r.ts}
           before(r) == {x \in S : x.ts < r.ts}
           enough == {r \in S : Cardinality(upTo(r)) > k}
<1>1. Cardinality(S) \in Nat /\ S # {}
  BY FS_CardinalityType, FS_EmptySet
<1>2. PICK z \in S : \A x \in S : x.ts <= z.ts
  BY <1>1, NewestRow
<1>3. z \in enough
  <2>1. upTo(z) = S
    BY <1>2
  <2> QED  BY <2>1
<1>4. PICK r \in enough : \A y \in enough : r.ts <= y.ts
  BY <1>3, OldestRow
<1>5. Cardinality(before(r)) <= k
  <2> SUFFICES ASSUME Cardinality(before(r)) > k PROVE FALSE
    <3>1. IsFiniteSet(before(r)) /\ Cardinality(before(r)) \in Nat
      BY FS_Subset, FS_CardinalityType
    <3> QED  BY <3>1
  <2>1. before(r) # {}
    <3>1. Cardinality(before(r)) # 0
      BY FS_Subset, FS_CardinalityType
    <3> HIDE DEF before
    <3> QED  BY <3>1, FS_EmptySet
  <2>2. PICK y \in before(r) : \A x \in before(r) : x.ts <= y.ts
    BY <2>1, NewestRow
  <2>3. upTo(y) = before(r)
    BY <1>4, <2>2 DEF Times
  <2>4. y \in enough
    BY <2>2, <2>3
  <2> QED  BY <1>4, <2>2, <2>4 DEF Times
<1> QED  BY <1>4, <1>5 DEF Frees

\* What is recent later are the rows that are younger still.
LEMMA LaterRecent ==
  ASSUME TypeOK, NEW i, NEW t \in Int, NEW u \in Int, t <= u
  PROVE  Recent(rows, i, u) = {x \in Recent(rows, i, t) : x.ts > u - Window}
<1>1. \A x \in rows : x.ts \in Int
  BY DEF TypeOK, Rows, Times
<1> QED  BY <1>1, ConstantsAssumption DEF Recent

\* With rows to expire: when the one that frees a slot has, fewer than the limit are
\* recent, and a second earlier as many as the limit.
LEMMA WaitIsExact ==
  ASSUME IInv, NEW i \in Identities, NEW l \in Limits, NEW t \in Int,
         Cardinality(Recent(rows, i, t)) >= l
  PROVE  LET w == RetryAfter(i, l, t)
         IN  /\ w \in Nat /\ w > 0
             /\ Cardinality(Recent(rows, i, t + w)) < l
             /\ Cardinality(Recent(rows, i, t + w - 1)) >= l
<1> DEFINE s == Recent(rows, i, t)
           k == Cardinality(s) - l
           r == CHOOSE x \in s : Frees(s, k, x)
           w == RetryAfter(i, l, t)
           young == {x \in s : x.ts > r.ts}
           upTo == {x \in s : x.ts <= r.ts}
           same == {x \in s : x.ts >= r.ts}
           before == {x \in s : x.ts < r.ts}
<1>1. IsFiniteSet(s) /\ Cardinality(s) \in Nat /\ l \in Nat /\ l > 0
  <2>1. IsFiniteSet(rows)
    BY FS_Subset DEF IInv, HistoryOK
  <2> QED  BY <2>1, RecentIsFinite, ConstantsAssumption
<1>2. \A x \in s : x.ts \in Times /\ x.ts \in Int /\ x.ts > t - Window
  BY DEF IInv, TypeOK, Rows, Times, Recent
<1>3. k \in Nat /\ k < Cardinality(s)
  BY <1>1
<1>4. r \in s /\ Frees(s, k, r)
  <2>1. \E x \in s : Frees(s, k, x)
    BY <1>1, <1>2, <1>3, OneFrees
  <2> QED  BY <2>1
<1>5. w = r.ts + Window - t
  BY <1>1 DEF RetryAfter
<1> HIDE DEF r, w, s, k
<1>6. r.ts \in Int /\ r.ts > t - Window /\ Window \in Nat
  BY <1>2, <1>4, ConstantsAssumption
<1>7. w \in Nat /\ w > 0 /\ t + w \in Int /\ t + w - 1 \in Int
      /\ t + w - Window = r.ts /\ t + w - 1 - Window = r.ts - 1
  BY <1>5, <1>6
<1>8. ASSUME NEW u \in Int, t <= u
      PROVE  \A x : x \in Recent(rows, i, u) <=> x \in s /\ x.ts > u - Window
  <2>1. TypeOK
    BY DEF IInv
  <2>2. Recent(rows, i, u) = {x \in Recent(rows, i, t) : x.ts > u - Window}
    BY <1>8, <2>1, LaterRecent
  <2> QED  BY <2>2 DEF s
<1>9. Recent(rows, i, t + w) = young /\ Recent(rows, i, t + w - 1) = same
  <2> DEFINE u == t + w  v == t + w - 1
  <2>1. u \in Int /\ t <= u /\ u - Window = r.ts /\ v \in Int /\ t <= v /\ v - Window = r.ts - 1
    <3>1. t \in Int /\ w \in Nat /\ w > 0 /\ u = t + w /\ v = t + w - 1
      BY <1>7
    <3>2. u \in Int /\ t <= u /\ v \in Int /\ t <= v
      BY <3>1
    <3> QED  BY <1>5, <1>6, <3>1, <3>2
  <2> HIDE DEF u, v
  <2>2. \A x : x \in Recent(rows, i, u) <=> x \in s /\ x.ts > u - Window
    BY <1>8, <2>1
  <2>3. \A x : x \in Recent(rows, i, v) <=> x \in s /\ x.ts > v - Window
    BY <1>8, <2>1
  <2>4. Recent(rows, i, u) = young
    BY <2>1, <2>2
  <2>5. Recent(rows, i, v) = same
    <3>1. \A x \in s : x.ts > r.ts - 1 <=> x.ts >= r.ts
      BY <1>2, <1>6
    <3> QED  BY <2>1, <2>3, <3>1
  <2> QED  BY <2>4, <2>5 DEF u, v
<1>10. young = s \ upTo /\ same = s \ before
  BY <1>2, <1>6
<1>11. /\ IsFiniteSet(upTo) /\ Cardinality(upTo) \in Nat /\ Cardinality(young) = Cardinality(s) - Cardinality(upTo)
       /\ IsFiniteSet(before) /\ Cardinality(before) \in Nat /\ Cardinality(same) = Cardinality(s) - Cardinality(before)
  <2>1. upTo \subseteq s /\ before \subseteq s /\ s \cap upTo = upTo /\ s \cap before = before
    OBVIOUS
  <2>2. IsFiniteSet(upTo) /\ IsFiniteSet(before)
    BY <1>1, <2>1, FS_Subset
  <2>3. Cardinality(upTo) \in Nat /\ Cardinality(before) \in Nat
    BY <2>2, FS_CardinalityType
  <2>4. Cardinality(s \ upTo) = Cardinality(s) - Cardinality(s \cap upTo)
    BY <1>1, FS_Difference
  <2>5. Cardinality(s \ before) = Cardinality(s) - Cardinality(s \cap before)
    BY <1>1, FS_Difference
  <2> HIDE DEF upTo, before, young, same
  <2> QED  BY <1>10, <2>1, <2>2, <2>3, <2>4, <2>5
<1>12. Cardinality(before) <= k /\ Cardinality(upTo) > k
  BY <1>4 DEF Frees
<1>13. k = Cardinality(s) - l
  BY DEF k
<1>14. Cardinality(young) < l /\ Cardinality(same) >= l
  BY <1>1, <1>11, <1>12, <1>13
<1> QED  BY <1>7, <1>9, <1>14 DEF w

\* What `prismor rate status` and a verdict say to wait is enough, and nothing
\* shorter is, for any number of slots, at any limit a policy may have been lowered to
\* (_retry_after).
THEOREM RetryIsExact == Spec => []RetryAfterIsExact
<1>1. IInv => RetryAfterIsExact
  <2> SUFFICES ASSUME IInv, NEW i \in Identities, NEW l \in Limits
               PROVE  LET t == IF clock = -1 THEN now ELSE Stamp(now)
                          w == RetryAfter(i, l, t)
                      IN  /\ w >= 0
                          /\ Cardinality(Recent(rows, i, t + w)) < l
                          /\ w > 0 => Cardinality(Recent(rows, i, t + w - 1)) >= l
    BY DEF RetryAfterIsExact
  <2> DEFINE t == IF clock = -1 THEN now ELSE Stamp(now)
             w == RetryAfter(i, l, t)
  <2>1. t \in Int /\ l \in Nat
    BY ConstantsAssumption DEF IInv, TypeOK, Stamp, Times
  <2> HIDE DEF t
  <2>2. CASE Cardinality(Recent(rows, i, t)) >= l
    BY <2>1, <2>2, WaitIsExact DEF t
  <2>3. CASE Cardinality(Recent(rows, i, t)) < l
    <3>1. w = 0 /\ t + w = t
      BY <2>1, <2>3 DEF RetryAfter
    <3> QED  BY <2>1, <2>3, <3>1 DEF t
  <2>4. Cardinality(Recent(rows, i, t)) \in Nat
    <3>1. IsFiniteSet(rows)
      BY FS_Subset DEF IInv, HistoryOK
    <3> QED  BY <3>1, RecentIsFinite
  <2> QED  BY <2>1, <2>2, <2>3, <2>4
<1> QED BY <1>1, InvariantHolds, PTL

=============================================================================
