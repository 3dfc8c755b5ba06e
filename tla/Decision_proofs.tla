----------------------------- MODULE Decision_proofs -----------------------------
(***************************************************************************)
(* Proofs about the decision on a call and the stores it consults, for any *)
(* number of hooks, agents, actions, pauses and orders: the cap on         *)
(* launches, what the deferred judge lets through, what pauses a device,   *)
(* and (from Verdict_proofs) what the decision itself promises.            *)
(***************************************************************************)
EXTENDS Decision, FiniteSetTheorems, TLAPS

Vp == INSTANCE Verdict_proofs WITH pc <- vpc

-----------------------------------------------------------------------------
(* Delegations: the cap on launches.                                       *)

RidOf(h) == IF call[h] = Idle THEN 0 ELSE call[h].rid

\* Live launches of an agent that the cap would allow.
Within(p) == {l \in Of("spawn", p) : l.number <= Cap}

\* Reservations are numbered through.
Numbered ==
  /\ IsFiniteSet(lines)
  /\ \A l \in lines : l.rid \in 1 .. Cardinality(lines)
  /\ \A l, m \in lines : l.rid = m.rid => l = m
  /\ cancelled \subseteq 1 .. Cardinality(lines)
  /\ launched \subseteq 1 .. Cardinality(lines)

\* A call under way owns its reservation: nobody else's call has it, it does
\* not run yet, and until the call is refused it is not released.
Owned ==
  /\ \A h \in Hooks : RidOf(h) # 0 =>
       /\ \E l \in lines : l.rid = RidOf(h) /\ l.kind = call[h].kind /\ l.parent = call[h].parent /\ l.number = call[h].number
       /\ RidOf(h) \notin launched
       /\ ~ call[h].refused => RidOf(h) \notin cancelled
  /\ \A g, h \in Hooks : g # h /\ RidOf(g) # 0 => RidOf(g) # RidOf(h)

\* However many launches have numbers within the cap, they are no more than it.
Counted ==
  /\ \A p \in Parents : Cardinality(Within(p)) <= Cap
  /\ \A l \in lines : l.rid \in launched => l.number <= Cap

IInv == TypeOK /\ Numbered /\ Owned /\ Counted /\ LaunchIsCounted /\ OneReservation

LEMMA InitIInv == Init => IInv
<1> SUFFICES ASSUME Init PROVE IInv
  OBVIOUS
<1>1. \A h \in Hooks : call[h] = Idle /\ RidOf(h) = 0
  BY DEF Init, RidOf
<1>2. \A p \in Parents : Within(p) = {}
  BY DEF Init, Within, Of, Live
<1> QED
  BY <1>1, <1>2, FS_EmptySet, ConstantsAssumption
  DEF Init, IInv, TypeOK, Numbered, Owned, Counted, LaunchIsCounted, OneReservation, Live

\* Fewer live lines, fewer within the cap.
LEMMA FewerLive ==
  ASSUME IInv, NEW p \in Parents, NEW S, S \subseteq Within(p)
  PROVE  IsFiniteSet(S) /\ Cardinality(S) \in Nat /\ Cardinality(S) <= Cap
<1>1. Within(p) \subseteq lines
  BY DEF Within, Of, Live
<1>2. IsFiniteSet(Within(p))
  BY <1>1, FS_Subset DEF IInv, Numbered
<1>3. IsFiniteSet(S) /\ Cardinality(S) <= Cardinality(Within(p))
  BY <1>2, FS_Subset
<1>4. Cardinality(S) \in Nat /\ Cardinality(Within(p)) \in Nat
  BY <1>2, <1>3, FS_CardinalityType
<1> QED
  BY <1>3, <1>4, ConstantsAssumption DEF IInv, Counted

\* A reservation adds one line, with a rid of its own.
LEMMA NewLine ==
  ASSUME IInv, NEW h \in Hooks, NEW k \in Kinds, NEW key \in Keys \cup {NoKey}, NEW p \in Parents,
         Stamp(h, k, key, p)
  PROVE  \E l \in Lines :
           /\ l.kind = k /\ l.key = key /\ l.parent = p /\ l.number = Number(k, p)
           /\ l.rid = Cardinality(lines) + 1
           /\ l \notin lines /\ l.rid \notin cancelled /\ l.rid \notin launched
           /\ lines' = lines \cup {l}
           /\ IsFiniteSet(lines') /\ Cardinality(lines') = Cardinality(lines) + 1
           /\ Cardinality(lines) \in Nat
           /\ call' = [call EXCEPT ![h] = [kind |-> k, parent |-> p, number |-> l.number, rid |-> l.rid, refused |-> FALSE]]
<1> DEFINE l == [kind |-> k, key |-> key, parent |-> p, number |-> Number(k, p), rid |-> Cardinality(lines) + 1]
<1>1. Cardinality(lines) \in Nat /\ Cardinality(lines) + 1 \in Rids
  BY FS_CardinalityType, ConstantsAssumption DEF IInv, Numbered, Stamp, Reserve, Rids
<1>2. IsFiniteSet(Of(k, p)) /\ Cardinality(Of(k, p)) \in Nat
  <2>1. Of(k, p) \subseteq lines
    BY DEF Of, Live
  <2> QED
    BY <2>1, FS_Subset, FS_CardinalityType DEF IInv, Numbered
<1>3. l \in Lines
  BY <1>1, <1>2 DEF Lines, Number
<1>4. l.rid = Cardinality(lines) + 1 /\ l \notin lines /\ l.rid \notin cancelled /\ l.rid \notin launched
  BY <1>1 DEF IInv, Numbered
<1>5. lines' = lines \cup {l}
  BY DEF Stamp, Reserve
<1>6. IsFiniteSet(lines') /\ Cardinality(lines') = Cardinality(lines) + 1
  BY <1>4, <1>5, FS_AddElement DEF IInv, Numbered
<1>7. call' = [call EXCEPT ![h] = [kind |-> k, parent |-> p, number |-> l.number, rid |-> l.rid, refused |-> FALSE]]
  BY DEF Stamp, Reserve, Judge
<1>8. l.kind = k /\ l.key = key /\ l.parent = p /\ l.number = Number(k, p)
  OBVIOUS
<1> HIDE DEF l
<1> QED
  BY <1>1, <1>3, <1>4, <1>5, <1>6, <1>7, <1>8

\* What happens to the reservations of calls when one hook's call changes.
LEMMA OtherCalls ==
  ASSUME TypeOK, NEW h \in Hooks, NEW c, call' = [call EXCEPT ![h] = c], c \in CallsOf \cup {Idle}
  PROVE  /\ call' \in [Hooks -> CallsOf \cup {Idle}]
         /\ call'[h] = c
         /\ \A g \in Hooks : g # h => call'[g] = call[g] /\ RidOf(g)' = RidOf(g)
         /\ RidOf(h)' = IF c = Idle THEN 0 ELSE c.rid
<1>1. call \in [Hooks -> CallsOf \cup {Idle}]
  BY DEF TypeOK
<1>2. /\ call' \in [Hooks -> CallsOf \cup {Idle}]
      /\ call'[h] = c
      /\ \A g \in Hooks : g # h => call'[g] = call[g]
  BY <1>1
<1> QED
  BY <1>2 DEF RidOf

LEMMA StampIInv ==
  ASSUME IInv, NEW h \in Hooks, NEW k \in Kinds, NEW key \in Keys \cup {NoKey}, NEW p \in Parents,
         Stamp(h, k, key, p)
  PROVE  IInv'
<1>1. PICK l \in Lines :
           /\ l.kind = k /\ l.key = key /\ l.parent = p /\ l.number = Number(k, p)
           /\ l.rid = Cardinality(lines) + 1
           /\ l \notin lines /\ l.rid \notin cancelled /\ l.rid \notin launched
           /\ lines' = lines \cup {l}
           /\ IsFiniteSet(lines') /\ Cardinality(lines') = Cardinality(lines) + 1
           /\ Cardinality(lines) \in Nat
           /\ call' = [call EXCEPT ![h] = [kind |-> k, parent |-> p, number |-> l.number, rid |-> l.rid, refused |-> FALSE]]
  BY NewLine
<1> DEFINE c == [kind |-> k, parent |-> p, number |-> l.number, rid |-> l.rid, refused |-> FALSE]
<1>2. UNCHANGED <<cancelled, launched, overruled>> /\ Mine(k, key) = {}
  BY DEF Stamp
<1>3. c \in CallsOf /\ c # Idle
  <2>1. l.number \in Nat \ {0} /\ l.rid \in Rids
    BY DEF Lines
  <2>2. c \in CallsOf
    BY <2>1 DEF CallsOf
  <2> QED
    BY <2>2, ConstantsAssumption
<1>4. /\ call' \in [Hooks -> CallsOf \cup {Idle}]
      /\ call'[h] = c
      /\ \A g \in Hooks : g # h => call'[g] = call[g] /\ RidOf(g)' = RidOf(g)
      /\ RidOf(h)' = l.rid
  <2>1. c.rid = l.rid
    OBVIOUS
  <2>2. TypeOK /\ call' = [call EXCEPT ![h] = c]
    BY <1>1 DEF IInv
  <2> HIDE DEF c
  <2> QED
    BY <1>3, <2>1, <2>2, OtherCalls
<1>5. TypeOK'
  BY <1>1, <1>2, <1>4 DEF IInv, TypeOK
<1>6. Numbered'
  <2>1. 1 .. Cardinality(lines) \subseteq 1 .. Cardinality(lines')
    BY <1>1
  <2>2. \A m \in lines' : m.rid \in 1 .. Cardinality(lines')
    BY <1>1, <2>1 DEF IInv, Numbered
  <2>3. \A m \in lines : m.rid # l.rid
    BY <1>1 DEF IInv, Numbered
  <2>4. \A m, n \in lines' : m.rid = n.rid => m = n
    BY <1>1, <2>3 DEF IInv, Numbered
  <2>5. cancelled' \subseteq 1 .. Cardinality(lines') /\ launched' \subseteq 1 .. Cardinality(lines')
    BY <1>2, <2>1 DEF IInv, Numbered
  <2> QED
    BY <1>1, <2>2, <2>4, <2>5 DEF Numbered
<1>7. Owned'
  <2>1. \A g \in Hooks : g # h /\ RidOf(g)' # 0 => RidOf(g)' # l.rid
    BY <1>1, <1>4 DEF IInv, Owned, Numbered
  <2>2. \A g \in Hooks : RidOf(g)' # 0 =>
          /\ \E m \in lines' : m.rid = RidOf(g)' /\ m.kind = call'[g].kind /\ m.parent = call'[g].parent /\ m.number = call'[g].number
          /\ RidOf(g)' \notin launched'
          /\ ~ call'[g].refused => RidOf(g)' \notin cancelled'
    <3> SUFFICES ASSUME NEW g \in Hooks, RidOf(g)' # 0
                 PROVE  /\ \E m \in lines' : m.rid = RidOf(g)' /\ m.kind = call'[g].kind /\ m.parent = call'[g].parent /\ m.number = call'[g].number
                        /\ RidOf(g)' \notin launched'
                        /\ ~ call'[g].refused => RidOf(g)' \notin cancelled'
      OBVIOUS
    <3>1. CASE g = h
      BY <1>1, <1>2, <1>4, <3>1
    <3>2. CASE g # h
      BY <1>1, <1>2, <1>4, <3>2 DEF IInv, Owned
    <3> QED
      BY <3>1, <3>2
  <2>3. \A g, i \in Hooks : g # i /\ RidOf(g)' # 0 => RidOf(g)' # RidOf(i)'
    BY <1>4, <2>1 DEF IInv, Owned
  <2> QED
    BY <2>2, <2>3 DEF Owned
<1>8. Counted'
  <2>1. \A q \in Parents : Cardinality(Within(q)') <= Cap
    <3> SUFFICES ASSUME NEW q \in Parents
                 PROVE  Cardinality(Within(q)') <= Cap
      OBVIOUS
    <3>1. Within(q)' \subseteq Within(q) \cup {l}
      BY <1>1, <1>2 DEF Within, Of, Live
    <3>2. CASE l \in Within(q)'
      <4>1. k = "spawn" /\ q = p /\ Number("spawn", q) <= Cap
        BY <1>1, <3>2 DEF Within, Of
      <4>2. Within(q) \subseteq Of("spawn", q) /\ IsFiniteSet(Of("spawn", q))
        <5>1. Of("spawn", q) \subseteq lines
          BY DEF Of, Live
        <5> QED
          BY <5>1, FS_Subset DEF Within, IInv, Numbered
      <4>3. /\ IsFiniteSet(Within(q)) /\ Cardinality(Within(q)) <= Cardinality(Of("spawn", q))
            /\ Cardinality(Within(q)) \in Nat /\ Cardinality(Of("spawn", q)) \in Nat
        BY <4>2, FS_Subset, FS_CardinalityType
      <4>4. l \notin Within(q)
        BY <1>1 DEF Within, Of, Live
      <4>5. Cardinality(Within(q) \cup {l}) = Cardinality(Within(q)) + 1 /\ IsFiniteSet(Within(q) \cup {l})
        BY <4>3, <4>4, FS_AddElement
      <4>6. Cardinality(Within(q)') <= Cardinality(Within(q)) + 1 /\ Cardinality(Within(q)') \in Nat
        BY <3>1, <4>5, FS_Subset, FS_CardinalityType
      <4> QED
        BY <4>1, <4>3, <4>6, ConstantsAssumption DEF Number
    <3>3. CASE l \notin Within(q)'
      <4>1. Within(q)' \subseteq Within(q)
        BY <3>1, <3>3
      <4> QED
        BY <4>1, FewerLive
    <3> QED
      BY <3>2, <3>3
  <2>2. \A m \in lines' : m.rid \in launched' => m.number <= Cap
    BY <1>1, <1>2 DEF IInv, Counted
  <2> QED
    BY <2>1, <2>2 DEF Counted
<1>9. LaunchIsCounted'
  BY <1>2 DEF IInv, LaunchIsCounted
<1>10. OneReservation'
  <2>1. \A m \in Live : m.kind = k /\ m.key = key => key = NoKey
    BY <1>2 DEF Mine
  <2>2. Live' = Live \cup {l}
    BY <1>1, <1>2 DEF Live
  <2> QED
    BY <1>1, <2>1, <2>2 DEF IInv, OneReservation
<1> QED
  BY <1>5, <1>6, <1>7, <1>8, <1>9, <1>10 DEF IInv

\* A call that reserves nothing, or ends, leaves the reservations as they are.
LEMMA OtherIInv ==
  ASSUME IInv, NEW h \in Hooks, NEW c \in CallsOf \cup {Idle}, c # Idle => c.rid = 0,
         call' = [call EXCEPT ![h] = c],
         UNCHANGED <<lines, cancelled, launched>>, overruled' \subseteq Rids
  PROVE  IInv'
<1>1. /\ call' \in [Hooks -> CallsOf \cup {Idle}]
      /\ \A g \in Hooks : g # h => call'[g] = call[g] /\ RidOf(g)' = RidOf(g)
      /\ RidOf(h)' = 0
  BY OtherCalls DEF IInv
<1>2. TypeOK'
  BY <1>1 DEF IInv, TypeOK
<1>3. Numbered' /\ Counted' /\ LaunchIsCounted' /\ OneReservation'
  BY DEF IInv, Numbered, Counted, Within, Of, Live, LaunchIsCounted, OneReservation
<1>4. Owned'
  BY <1>1 DEF IInv, Owned
<1> QED
  BY <1>2, <1>3, <1>4 DEF IInv

LEMMA AllowIInv ==
  ASSUME IInv, NEW h \in Hooks, Allow(h)
  PROVE  IInv'
<1>1. CASE ~ (call[h].kind = "spawn" /\ call[h].rid # 0)
  <2>1. call' = [call EXCEPT ![h] = Idle] /\ UNCHANGED <<lines, cancelled, launched, overruled>>
    BY <1>1 DEF Allow, End
  <2>2. overruled' \subseteq Rids
    BY <2>1 DEF IInv, TypeOK
  <2> QED
    BY <2>1, <2>2, OtherIInv
<1>2. CASE call[h].kind = "spawn" /\ call[h].rid # 0
  <2> DEFINE r == call[h].rid
  <2>1. /\ call' = [call EXCEPT ![h] = Idle] /\ UNCHANGED <<lines, cancelled, overruled>>
        /\ launched' = launched \cup {r} /\ call[h].number <= Cap
        /\ call[h] # Idle /\ ~ call[h].refused
    BY <1>2 DEF Allow, End, Judging
  <2>2. RidOf(h) = r /\ r # 0
    BY <1>2, <2>1 DEF RidOf
  <2>3. /\ call' \in [Hooks -> CallsOf \cup {Idle}]
        /\ \A g \in Hooks : g # h => call'[g] = call[g] /\ RidOf(g)' = RidOf(g)
        /\ RidOf(h)' = 0
    BY <2>1, OtherCalls DEF IInv
  <2>4. PICK l \in lines : l.rid = r /\ l.number = call[h].number
    BY <2>2 DEF IInv, Owned
  <2>5. r \notin cancelled /\ r \in Rids /\ r \in 1 .. Cardinality(lines)
    BY <2>1, <2>2, <2>4 DEF IInv, Owned, TypeOK, Lines, Numbered
  <2>6. TypeOK'
    BY <2>1, <2>3, <2>5 DEF IInv, TypeOK
  <2>7. Numbered' /\ LaunchIsCounted' /\ OneReservation'
    BY <2>1, <2>5 DEF IInv, Numbered, LaunchIsCounted, OneReservation, Live
  <2>8. \A m \in lines : m.rid = r => m.number <= Cap
    BY <2>1, <2>4 DEF IInv, Numbered
  <2>9. Counted'
    BY <2>1, <2>8 DEF IInv, Counted, Within, Of, Live
  <2>10. Owned'
    BY <2>1, <2>2, <2>3 DEF IInv, Owned
  <2> QED
    BY <2>6, <2>7, <2>9, <2>10 DEF IInv
<1> QED
  BY <1>1, <1>2

LEMMA RefuseIInv ==
  ASSUME IInv, NEW h \in Hooks, Refuse(h)
  PROVE  IInv'
<1> DEFINE c == [call[h] EXCEPT !.refused = TRUE]
<1>1. /\ call' = [call EXCEPT ![h] = c] /\ UNCHANGED <<lines, launched, overruled>>
      /\ call[h] # Idle /\ ~ call[h].refused
  BY DEF Refuse, Judging
<1>2. /\ c \in CallsOf /\ c # Idle /\ c.rid = call[h].rid /\ c.refused
      /\ c.kind = call[h].kind /\ c.parent = call[h].parent /\ c.number = call[h].number
  <2>1. call[h] \in CallsOf
    BY <1>1 DEF IInv, TypeOK
  <2>2. c \in CallsOf
    BY <2>1 DEF CallsOf
  <2>3. /\ c.rid = call[h].rid /\ c.refused
        /\ c.kind = call[h].kind /\ c.parent = call[h].parent /\ c.number = call[h].number
    BY <2>1 DEF CallsOf
  <2> QED
    BY <2>2, <2>3, ConstantsAssumption
<1> HIDE DEF c
<1>3. /\ call' \in [Hooks -> CallsOf \cup {Idle}] /\ call'[h] = c
      /\ \A g \in Hooks : g # h => call'[g] = call[g] /\ RidOf(g)' = RidOf(g)
      /\ RidOf(h)' = RidOf(h) /\ RidOf(h) = call[h].rid
  BY <1>1, <1>2, OtherCalls DEF IInv, RidOf
<1>4. /\ cancelled \subseteq cancelled' /\ cancelled' \subseteq cancelled \cup ({RidOf(h)} \ {0})
  BY <1>3 DEF Refuse
<1>5. RidOf(h) # 0 => RidOf(h) \in Rids /\ RidOf(h) \in 1 .. Cardinality(lines) /\ RidOf(h) \notin launched
  BY DEF IInv, Owned, TypeOK, Lines, Numbered
<1>6. TypeOK'
  BY <1>1, <1>3, <1>4, <1>5 DEF IInv, TypeOK
<1>7. Numbered' /\ LaunchIsCounted'
  BY <1>1, <1>4, <1>5 DEF IInv, Numbered, LaunchIsCounted
<1>8. Live' \subseteq Live
  BY <1>1, <1>4 DEF Live
<1>9. OneReservation'
  BY <1>8 DEF IInv, OneReservation
<1>10. Counted'
  <2>1. \A p \in Parents : Within(p)' \subseteq Within(p)
    BY <1>8 DEF Within, Of
  <2> QED
    BY <1>1, <2>1, FewerLive DEF IInv, Counted
<1>11. Owned'
  <2>1. \A g, i \in Hooks : g # i /\ RidOf(g)' # 0 => RidOf(g)' # RidOf(i)'
    BY <1>3 DEF IInv, Owned
  <2>2. \A g \in Hooks : RidOf(g)' # 0 =>
          /\ \E l \in lines' : l.rid = RidOf(g)' /\ l.kind = call'[g].kind /\ l.parent = call'[g].parent /\ l.number = call'[g].number
          /\ RidOf(g)' \notin launched'
          /\ ~ call'[g].refused => RidOf(g)' \notin cancelled'
    <3> SUFFICES ASSUME NEW g \in Hooks, RidOf(g)' # 0
                 PROVE  /\ \E l \in lines' : l.rid = RidOf(g)' /\ l.kind = call'[g].kind /\ l.parent = call'[g].parent /\ l.number = call'[g].number
                        /\ RidOf(g)' \notin launched'
                        /\ ~ call'[g].refused => RidOf(g)' \notin cancelled'
      OBVIOUS
    <3>1. CASE g = h
      BY <1>1, <1>2, <1>3, <3>1 DEF IInv, Owned
    <3>2. CASE g # h
      <4>1. RidOf(g) # RidOf(h) /\ RidOf(g) # 0
        BY <1>3, <3>2 DEF IInv, Owned
      <4> QED
        BY <1>1, <1>3, <1>4, <3>2, <4>1 DEF IInv, Owned
    <3> QED
      BY <3>1, <3>2
  <2> QED
    BY <2>1, <2>2 DEF Owned
<1> QED
  BY <1>6, <1>7, <1>9, <1>10, <1>11 DEF IInv

LEMMA Inductive == IInv /\ [Next]_vars => IInv'
<1> SUFFICES ASSUME IInv, [Next]_vars PROVE IInv'
  OBVIOUS
<1>1. ASSUME NEW h \in Hooks, NEW k \in Kinds, NEW key \in Keys, NEW p \in Parents, StampAgain(h, k, key, p)
      PROVE  IInv'
  <2>1. PICK m \in Mine(k, key) : Judge(h, k, p, m.number, 0)
    BY <1>1 DEF StampAgain
  <2> DEFINE c == [kind |-> k, parent |-> p, number |-> m.number, rid |-> 0, refused |-> FALSE]
  <2>2. m.number \in Nat \ {0}
    BY DEF Mine, Live, IInv, TypeOK, Lines
  <2>3. c \in CallsOf /\ c.rid = 0 /\ call' = [call EXCEPT ![h] = c]
    BY <2>1, <2>2 DEF CallsOf, Judge
  <2>4. UNCHANGED <<lines, cancelled, launched, overruled>> /\ overruled' \subseteq Rids
    BY <1>1 DEF StampAgain, IInv, TypeOK
  <2> HIDE DEF c
  <2> QED
    BY <2>3, <2>4, OtherIInv
<1>2. ASSUME NEW h \in Hooks, NEW k \in Kinds, NEW key \in Keys \cup {NoKey}, NEW p \in Parents, Peek(h, k, key, p)
      PROVE  IInv'
  <2> DEFINE c == [kind |-> k, parent |-> p, number |-> Number(k, p), rid |-> 0, refused |-> FALSE]
  <2>1. Of(k, p) \subseteq lines
    BY DEF Of, Live
  <2>2. Cardinality(Of(k, p)) \in Nat
    BY <2>1, FS_Subset, FS_CardinalityType DEF IInv, Numbered
  <2>3. c \in CallsOf /\ c.rid = 0 /\ call' = [call EXCEPT ![h] = c]
    BY <1>2, <2>2 DEF CallsOf, Number, Judge, Peek
  <2>4. UNCHANGED <<lines, cancelled, launched, overruled>> /\ overruled' \subseteq Rids
    BY <1>2 DEF Peek, IInv, TypeOK
  <2> HIDE DEF c
  <2> QED
    BY <2>3, <2>4, OtherIInv
<1>3. ASSUME NEW h \in Hooks, Stop(h) \/ Overrule(h)
      PROVE  IInv'
  <2>1. call' = [call EXCEPT ![h] = Idle] /\ UNCHANGED <<lines, cancelled, launched>>
    BY <1>3 DEF Stop, Overrule, End
  <2>2. call[h] # Idle => call[h].rid \in {0} \cup Rids
    BY DEF IInv, TypeOK, CallsOf
  <2>3. overruled' \subseteq Rids
    BY <1>3, <2>2 DEF Stop, Overrule, IInv, TypeOK
  <2> QED
    BY <2>1, <2>3, OtherIInv
<1>4. CASE UNCHANGED vars
  BY <1>4 DEF vars, IInv, TypeOK, Numbered, Owned, RidOf, Counted, Within, Of, Live, LaunchIsCounted, OneReservation
<1>5. CASE Next
  <2> "spawn" \in Kinds
    BY DEF Kinds
  <2> QED
    BY <1>1, <1>2, <1>3, <1>5, StampIInv, AllowIInv, RefuseIInv DEF Next
<1> QED
  BY <1>4, <1>5

\* The inductive invariant: reservations are numbered through, calls own
\* theirs, and those within the cap are never more than the cap.
THEOREM InvariantHolds == Spec => []IInv
  BY InitIInv, Inductive, PTL DEF Spec

\* Type correctness.
THEOREM TypeCorrect == Spec => []TypeOK
<1>1. IInv => TypeOK
  BY DEF IInv
<1> QED
  BY <1>1, InvariantHolds, PTL

\* No agent gets more reserved launches past the gate than the rule allows
\* (CapHolds), for any number of hooks judging at once.
THEOREM CapIsKept == Spec => []CapHolds
<1>1. ASSUME IInv PROVE CapHolds
  <2> SUFFICES ASSUME NEW p \in Parents
               PROVE  Cardinality(Launched(p, launched)) <= Cap
    BY DEF CapHolds
  <2>1. Launched(p, launched) \subseteq Within(p)
    BY <1>1 DEF Launched, Within, Of, Live, IInv, Counted, LaunchIsCounted
  <2> QED
    BY <1>1, <2>1, FewerLive
<1> QED
  BY <1>1, InvariantHolds, PTL

\* One live reservation per launch id and per subagent (OneReservation).
THEOREM ReservedOnce == Spec => []OneReservation
<1>1. IInv => OneReservation
  BY DEF IInv
<1> QED
  BY <1>1, InvariantHolds, PTL

\* A launch the gate let run keeps its number (LaunchIsCounted).
THEOREM NumberIsKept == Spec => []LaunchIsCounted
<1>1. IInv => LaunchIsCounted
  BY DEF IInv
<1> QED
  BY <1>1, InvariantHolds, PTL

-----------------------------------------------------------------------------
(* Deferred: nothing is let through but under a fingerprint that the judge *)
(* has cleared.                                                            *)

\* In cache c, only a fingerprint that was cleared is allowed.
OnlyCleared(c) == \A f \in Df!Fingerprints : c[f] = "allow" => Df!KeyCleared(f)

\* Verdicts are in the cache, under way in the temporary file, or in the copy of
\* a hook that is at work on an action; wherever one says
\* allow, the judge has cleared an action of that fingerprint.
DeferredInv ==
  /\ cache \in Df!Caches /\ tmp \in Df!Caches \cup {NoAct} /\ cleared \subseteq Actions
  /\ OnlyCleared(cache) /\ (tmp # NoAct => OnlyCleared(tmp))
  /\ dpc \in [Hooks -> {"idle", "judge", "save", "replace"}]
  /\ act \in [Hooks -> Actions \cup {NoAct}] /\ copy \in [Hooks -> Df!Caches \cup {NoAct}]
  /\ \A h \in Hooks : dpc[h] # "idle" => act[h] \in Actions /\ copy[h] \in Df!Caches /\ OnlyCleared(copy[h])
  /\ \A h \in Hooks : dpc[h] \in {"save", "replace"} => Df!Known(copy[h], act[h]) \in Df!Verdicts
  /\ answers \in [Actions -> Seq(Df!Verdicts)]
  /\ \A a \in Actions : \A i \in DOMAIN answers[a] : answers[a][i] = "allow" => Df!KeyCleared(FingerprintOf[a])

\* What a cache says of an action is what it says of the action's fingerprint.
LEMMA KnownFacts ==
  ASSUME NEW c \in Df!Caches, NEW a \in Actions
  PROVE  /\ FingerprintOf[a] \in Df!Fingerprints /\ Df!Known(c, a) = c[FingerprintOf[a]]
         /\ Df!Known(c, a) \in Df!Verdicts \cup {NoAct}
BY DEF Df!Fingerprints, Df!Caches, Df!Known

\* Clearing more leaves cleared what was.
LEMMA StaysCleared ==
  ASSUME NEW f, Df!KeyCleared(f), cleared \subseteq cleared'
  PROVE  Df!KeyCleared(f)'
BY DEF Df!KeyCleared

LEMMA DeferredBegins == Df!Init => DeferredInv
<1> SUFFICES ASSUME Df!Init PROVE DeferredInv
  OBVIOUS
<1>1. NoAct # "allow"
  BY PartsAssumption DEF Df!ConstantsOK
<1>2. answers = [a \in Actions |-> << >>] /\ << >> \in Seq(Df!Verdicts)
  BY DEF Df!Init
<1> QED
  BY <1>1, <1>2 DEF Df!Init, DeferredInv, OnlyCleared, Df!Caches

\* A verdict that is given: who gives it is done with its action.
LEMMA AnswerKept ==
  ASSUME DeferredInv, NEW h \in Hooks, NEW a \in Actions, NEW v \in Df!Verdicts, Df!Answer(h, a, v),
         v = "allow" => Df!KeyCleared(FingerprintOf[a]), cleared' = cleared
  PROVE  /\ answers' \in [Actions -> Seq(Df!Verdicts)]
         /\ \A b \in Actions : \A i \in DOMAIN answers'[b] : answers'[b][i] = "allow" => Df!KeyCleared(FingerprintOf[b])'
         /\ dpc' = [dpc EXCEPT ![h] = "idle"] /\ act' = [act EXCEPT ![h] = NoAct] /\ copy' = [copy EXCEPT ![h] = NoAct]
<1>1. /\ answers[a] \in Seq(Df!Verdicts) /\ Append(answers[a], v) \in Seq(Df!Verdicts)
      /\ answers' = [answers EXCEPT ![a] = Append(answers[a], v)]
  BY DEF Df!Answer, DeferredInv
<1>2. \A i \in DOMAIN Append(answers[a], v) :
        (i \in DOMAIN answers[a] /\ Append(answers[a], v)[i] = answers[a][i]) \/ Append(answers[a], v)[i] = v
  BY <1>1
<1>3. \A b \in Actions : \A i \in DOMAIN answers'[b] : answers'[b][i] = "allow" => Df!KeyCleared(FingerprintOf[b])'
  BY <1>1, <1>2 DEF DeferredInv, Df!KeyCleared
<1> QED
  BY <1>1, <1>3 DEF Df!Answer, DeferredInv

\* Giving a verdict keeps the invariant, where the files that are left are good.
LEMMA AnswerInv ==
  ASSUME DeferredInv, NEW h \in Hooks, NEW a \in Actions, NEW v \in Df!Verdicts, Df!Answer(h, a, v),
         v = "allow" => Df!KeyCleared(FingerprintOf[a]), cleared' = cleared,
         cache' \in Df!Caches, \A f \in Df!Fingerprints : cache'[f] = "allow" => Df!KeyCleared(f),
         tmp' \in {tmp, NoAct}
  PROVE  DeferredInv'
<1>1. /\ answers' \in [Actions -> Seq(Df!Verdicts)]
      /\ \A b \in Actions : \A i \in DOMAIN answers'[b] : answers'[b][i] = "allow" => Df!KeyCleared(FingerprintOf[b])'
      /\ dpc' = [dpc EXCEPT ![h] = "idle"] /\ act' = [act EXCEPT ![h] = NoAct] /\ copy' = [copy EXCEPT ![h] = NoAct]
  BY AnswerKept
<1>2. OnlyCleared(cache)' /\ (tmp' # NoAct => OnlyCleared(tmp)')
  BY DEF DeferredInv, OnlyCleared, Df!KeyCleared
<1>3. /\ dpc' \in [Hooks -> {"idle", "judge", "save", "replace"}]
      /\ act' \in [Hooks -> Actions \cup {NoAct}] /\ copy' \in [Hooks -> Df!Caches \cup {NoAct}]
  BY <1>1 DEF DeferredInv
<1>4. \A g \in Hooks : dpc'[g] # "idle" => g # h /\ dpc'[g] = dpc[g] /\ act'[g] = act[g] /\ copy'[g] = copy[g]
  BY <1>1 DEF DeferredInv
<1>5. \A g \in Hooks : dpc'[g] # "idle" =>
         /\ act'[g] \in Actions /\ copy'[g] \in Df!Caches
         /\ \A f \in Df!Fingerprints : copy'[g][f] = "allow" => Df!KeyCleared(f)'
  BY <1>4 DEF DeferredInv, OnlyCleared, Df!KeyCleared
<1>6. \A g \in Hooks : dpc'[g] \in {"save", "replace"} => Df!Known(copy'[g], act'[g]) \in Df!Verdicts
  BY <1>4 DEF DeferredInv
<1> QED
  BY <1>1, <1>2, <1>3, <1>5, <1>6 DEF DeferredInv, OnlyCleared, Df!Known

LEMMA DeferredKept == DeferredInv /\ [Df!Next]_deferredVars => DeferredInv'
<1> SUFFICES ASSUME DeferredInv, [Df!Next]_deferredVars PROVE DeferredInv'
  OBVIOUS
<1>0. NoAct \notin Df!Verdicts
  BY PartsAssumption DEF Df!ConstantsOK, Df!Verdicts
<1>1. ASSUME NEW h \in Hooks, NEW a \in Actions, Df!Hit(h, a)  PROVE DeferredInv'
  <2>1. Df!Known(cache, a) \in Df!Verdicts /\ (Df!Known(cache, a) = "allow" => Df!KeyCleared(FingerprintOf[a]))
    BY <1>1, KnownFacts DEF Df!Hit, DeferredInv, OnlyCleared
  <2>2. Df!Answer(h, a, Df!Known(cache, a)) /\ UNCHANGED <<cache, tmp, cleared>>
    BY <1>1 DEF Df!Hit
  <2> QED
    BY <2>1, <2>2, AnswerInv DEF DeferredInv, OnlyCleared
<1>2. ASSUME NEW h \in Hooks, NEW a \in Actions, Df!Miss(h, a)  PROVE DeferredInv'
  BY <1>2 DEF Df!Miss, DeferredInv, OnlyCleared, Df!KeyCleared
<1>3. ASSUME NEW h \in Hooks, NEW v \in Df!Verdicts, dpc[h] = "judge", Df!Remember(h, v),
             cleared' \in {cleared, cleared \cup {act[h]}}, v = "allow" => act[h] \in cleared'
      PROVE  DeferredInv'
  <2>1. act[h] \in Actions /\ copy[h] \in Df!Caches /\ OnlyCleared(copy[h])
    BY <1>3 DEF DeferredInv
  <2> DEFINE c == [copy[h] EXCEPT ![FingerprintOf[act[h]]] = v]
  <2>0. /\ FingerprintOf[act[h]] \in Df!Fingerprints /\ cleared \subseteq cleared'
        /\ \A f \in Df!Fingerprints : v = "allow" /\ f = FingerprintOf[act[h]] => Df!KeyCleared(f)'
    BY <1>3, <2>1, KnownFacts DEF Df!KeyCleared
  <2>2. /\ c \in Df!Caches /\ Df!Known(c, act[h]) = v
        /\ \A f \in Df!Fingerprints : c[f] = "allow" => Df!KeyCleared(f)'
    BY <1>3, <2>0, <2>1, StaysCleared DEF Df!Caches, OnlyCleared, Df!Known
  <2>3. /\ copy' = [copy EXCEPT ![h] = c] /\ dpc' = [dpc EXCEPT ![h] = "save"]
        /\ UNCHANGED <<cache, tmp, act, answers>>
    BY <1>3 DEF Df!Remember
  <2> HIDE DEF c
  <2>4. /\ copy' \in [Hooks -> Df!Caches \cup {NoAct}] /\ dpc' \in [Hooks -> {"idle", "judge", "save", "replace"}]
        /\ copy'[h] = c /\ dpc'[h] = "save"
        /\ \A g \in Hooks : g # h => copy'[g] = copy[g] /\ dpc'[g] = dpc[g]
    BY <2>2, <2>3 DEF DeferredInv
  <2>5. cleared' \subseteq Actions /\ cleared \subseteq cleared'
    BY <1>3, <2>1 DEF DeferredInv
  <2> QED
    <3>1. \A f \in Df!Fingerprints : Df!KeyCleared(f) => Df!KeyCleared(f)'
      BY <2>5 DEF Df!KeyCleared
    <3>2. OnlyCleared(cache)' /\ (tmp' # NoAct => OnlyCleared(tmp)')
      BY <2>3, <3>1 DEF DeferredInv, OnlyCleared
    <3>3. \A g \in Hooks : dpc'[g] # "idle" =>
             /\ act'[g] \in Actions /\ copy'[g] \in Df!Caches
             /\ \A f \in Df!Fingerprints : copy'[g][f] = "allow" => Df!KeyCleared(f)'
      BY <2>1, <2>2, <2>3, <2>4, <3>1 DEF DeferredInv, OnlyCleared
    <3>4. \A g \in Hooks : dpc'[g] \in {"save", "replace"} => Df!Known(copy'[g], act'[g]) \in Df!Verdicts
      BY <1>3, <2>2, <2>3, <2>4 DEF DeferredInv
    <3>5. \A a \in Actions : \A i \in DOMAIN answers'[a] : answers'[a][i] = "allow" => Df!KeyCleared(FingerprintOf[a])'
      BY <2>3, <3>1, KnownFacts DEF DeferredInv, Df!Fingerprints
    <3> QED
      BY <2>3, <2>4, <2>5, <3>2, <3>3, <3>4, <3>5 DEF DeferredInv, OnlyCleared, Df!Known
<1>4. ASSUME NEW h \in Hooks, Df!Clear(h)  PROVE DeferredInv'
  BY <1>3, <1>4 DEF Df!Clear, Df!Verdicts
<1>5. ASSUME NEW h \in Hooks, Df!Block(h) \/ Df!Fail(h)  PROVE DeferredInv'
  BY <1>3, <1>5 DEF Df!Block, Df!Fail, Df!Verdicts
<1>6. ASSUME NEW h \in Hooks, Df!Save(h)  PROVE DeferredInv'
  BY <1>6 DEF Df!Save, DeferredInv, OnlyCleared, Df!KeyCleared
<1>7. ASSUME NEW h \in Hooks, Df!Replace(h)  PROVE DeferredInv'
  <2>1. /\ act[h] \in Actions /\ copy[h] \in Df!Caches /\ Df!Known(copy[h], act[h]) \in Df!Verdicts
        /\ Df!Known(copy[h], act[h]) = "allow" => Df!KeyCleared(FingerprintOf[act[h]])
    BY <1>7, KnownFacts DEF Df!Replace, DeferredInv, OnlyCleared
  <2>2. /\ Df!Answer(h, act[h], Df!Known(copy[h], act[h])) /\ tmp' = NoAct /\ cleared' = cleared
        /\ cache' = IF tmp # NoAct THEN tmp ELSE cache
    BY <1>7 DEF Df!Replace
  <2>3. cache' \in Df!Caches /\ (\A f \in Df!Fingerprints : cache'[f] = "allow" => Df!KeyCleared(f))
    BY <2>2 DEF DeferredInv, OnlyCleared
  <2> QED
    BY <2>1, <2>2, <2>3, AnswerInv
<1>8. ASSUME NEW h \in Hooks, Df!Die(h)  PROVE DeferredInv'
  BY <1>8 DEF Df!Die, DeferredInv, OnlyCleared, Df!KeyCleared
<1>9. CASE UNCHANGED deferredVars
  BY <1>9 DEF deferredVars, DeferredInv, OnlyCleared, Df!KeyCleared
<1> QED
  BY <1>1, <1>2, <1>4, <1>5, <1>6, <1>7, <1>8, <1>9 DEF Df!Next

-----------------------------------------------------------------------------
(* Pause: enforcement is off only on purpose.                              *)

\* m is one of the pauses made, but for the time of its last beat.
WasMade(pauses, m) == /\ m \in Pa!Markers /\ m.id \in DOMAIN pauses
                      /\ pauses[m.id].at = m.at /\ pauses[m.id].until = m.until

PauseInv ==
  /\ now \in Pa!Times /\ org \in Pa!Orders \cup {NoAct}
  /\ ppc \in [Hooks -> Pa!Pcs]
  /\ rec \in [Hooks -> Pa!Markers \cup {NoAct}] /\ seen \in [Hooks -> Pa!Orders \cup {NoAct}]
  /\ marker # NoAct => WasMade(made, marker)
  /\ \A h \in Hooks : /\ rec[h] # NoAct => WasMade(made, rec[h])
                      /\ ppc[h] = "idle" => rec[h] = NoAct /\ seen[h] = NoAct
  /\ made \in Seq(Pa!Markers) /\ Len(made) <= MaxPauses
  /\ \A i \in DOMAIN made : made[i].id = i
  /\ resumed \in 0 .. Len(made)

\* What a step must keep of the invariant.
LEMMA PauseBegins == Pa!Init => PauseInv
<1> SUFFICES ASSUME Pa!Init PROVE PauseInv
  OBVIOUS
<1>1. made \in Seq(Pa!Markers) /\ Len(made) = 0 /\ DOMAIN made = {}
  BY DEF Pa!Init
<1> QED
  BY <1>1, PartsAssumption DEF Pa!Init, PauseInv, Pa!Times, Pa!ConstantsOK, Pa!Pcs

\* A pause is made: it is the next one, and ends in the future.
LEMMA SetPausedKept ==
  ASSUME PauseInv, NEW h \in Hooks, NEW hard \in BOOLEAN, Pa!SetPaused(h, hard)
  PROVE  /\ PauseInv'
         /\ rec'[h].id \in DOMAIN made' /\ made'[rec'[h].id] = rec'[h]
         /\ now < rec'[h].until
<1> DEFINE n == Len(made)
           m == [id |-> n + 1, at |-> now, until |-> Pa!End(hard), beat |-> -1]
<1>1. made \in Seq(Pa!Markers) /\ n \in Nat /\ DOMAIN made = 1 .. n
  BY DEF PauseInv
<1>2. MaxPauses \in Nat
  BY PartsAssumption DEF Pa!ConstantsOK
<1>3. /\ ppc[h] = "idle" /\ n + 1 <= MaxPauses /\ marker' = m /\ rec' = [rec EXCEPT ![h] = m]
      /\ ppc' = [ppc EXCEPT ![h] = "paused"] /\ made' = Append(made, m)
      /\ UNCHANGED <<now, org, seen, resumed>>
  BY DEF Pa!SetPaused, Pa!Goto
<1>4. now \in Pa!Times /\ now \in Nat /\ Pa!End(hard) \in Pa!Ends /\ now < Pa!End(hard)
  BY PartsAssumption DEF PauseInv, Pa!Times, Pa!Ends, Pa!End, Pa!Never, Pa!ConstantsOK
<1>5. /\ m \in Pa!Markers /\ m.id = n + 1 /\ m.at = now /\ m.until = Pa!End(hard)
  BY <1>2, <1>3, <1>4 DEF Pa!Markers
<1> HIDE DEF m
<1>6. /\ made' \in Seq(Pa!Markers) /\ Len(made') = n + 1 /\ DOMAIN made' = 1 .. n + 1
      /\ made'[n + 1] = m
      /\ \A i \in DOMAIN made : i \in DOMAIN made' /\ made'[i] = made[i] /\ i # n + 1
  BY <1>1, <1>2, <1>3, <1>5
<1>7. ASSUME NEW x, WasMade(made, x)  PROVE WasMade(made', x)
  BY <1>6, <1>7 DEF WasMade, Pa!Markers
<1>8. WasMade(made', m)
  BY <1>5, <1>6 DEF WasMade
<1>9. /\ rec'[h] = m /\ ppc'[h] = "paused" /\ rec' \in [Hooks -> Pa!Markers \cup {NoAct}]
      /\ ppc' \in [Hooks -> Pa!Pcs]
      /\ \A g \in Hooks : g # h => rec'[g] = rec[g] /\ ppc'[g] = ppc[g]
  BY <1>3, <1>5 DEF PauseInv, Pa!Pcs
<1>10. \A i \in DOMAIN made' : made'[i].id = i
  <2> SUFFICES ASSUME NEW i \in DOMAIN made'  PROVE made'[i].id = i
    OBVIOUS
  <2>1. CASE i = n + 1  BY <1>5, <1>6, <2>1
  <2>2. CASE i # n + 1  BY <1>1, <1>6, <2>2 DEF PauseInv
  <2> QED  BY <2>1, <2>2
<1>11. PauseInv'
  <2>1. \A g \in Hooks : rec'[g] # NoAct => WasMade(made', rec'[g])
    BY <1>7, <1>8, <1>9 DEF PauseInv
  <2>2. marker' # NoAct => WasMade(made', marker')
    BY <1>3, <1>8
  <2>3. \A g \in Hooks : ppc'[g] = "idle" => rec'[g] = NoAct /\ seen'[g] = NoAct
    BY <1>3, <1>9 DEF PauseInv
  <2>4. resumed' \in 0 .. Len(made') /\ Len(made') <= MaxPauses
    BY <1>1, <1>2, <1>3, <1>6 DEF PauseInv
  <2>5. /\ now' \in Pa!Times /\ org' \in Pa!Orders \cup {NoAct} /\ seen' \in [Hooks -> Pa!Orders \cup {NoAct}]
    BY <1>3 DEF PauseInv
  <2> QED  BY <1>6, <1>9, <1>10, <2>1, <2>2, <2>3, <2>4, <2>5 DEF PauseInv
<1> QED
  BY <1>4, <1>5, <1>6, <1>9, <1>11

\* Steps that make no pause: the markers are the old ones, but for a beat.
LEMMA SameMade ==
  ASSUME PauseInv, NEW h \in Hooks, made' = made, resumed' = resumed, now' = now, org' = org,
         ppc' \in [Hooks -> Pa!Pcs], rec' \in [Hooks -> Pa!Markers \cup {NoAct}],
         seen' \in [Hooks -> Pa!Orders \cup {NoAct}],
         \A g \in Hooks : g # h => rec'[g] = rec[g] /\ ppc'[g] = ppc[g] /\ seen'[g] = seen[g],
         rec'[h] # NoAct => WasMade(made, rec'[h]), ppc'[h] = "idle" => rec'[h] = NoAct /\ seen'[h] = NoAct,
         marker' # NoAct => WasMade(made, marker')
  PROVE  PauseInv'
<1>1. \A x : WasMade(made', x) <=> WasMade(made, x)
  BY DEF WasMade, Pa!Markers
<1> QED  BY <1>1 DEF PauseInv

LEMMA PauseKept == PauseInv /\ [Pa!Next]_pauseVars => PauseInv'
<1> SUFFICES ASSUME PauseInv, [Pa!Next]_pauseVars PROVE PauseInv'
  OBVIOUS
<1> USE DEF Pa!Goto, Pa!Done, Pa!Pcs
<1>1. ASSUME NEW h \in Hooks, NEW hard \in BOOLEAN, Pa!SetPaused(h, hard)  PROVE PauseInv'
  BY <1>1, SetPausedKept
<1>2. ASSUME Pa!ClearPaused  PROVE PauseInv'
  <2>3. resumed' \in 0 .. Len(made')
    BY <1>2 DEF Pa!ClearPaused, PauseInv
  <2>4. \A x : WasMade(made', x) <=> WasMade(made, x)
    BY <1>2 DEF Pa!ClearPaused, WasMade, Pa!Markers
  <2> QED  BY <1>2, <2>3, <2>4 DEF Pa!ClearPaused, PauseInv
<1>3. ASSUME NEW hard \in BOOLEAN, NEW paused_ \in BOOLEAN, Pa!OrgDecides(paused_, hard)  PROVE PauseInv'
  <2> DEFINE n == IF org = NoAct THEN 1 ELSE org.n + 1
  <2>a. n \in 1 .. MaxOrders
    <3>1. n <= MaxOrders /\ MaxOrders \in Nat
      BY <1>3, PartsAssumption DEF Pa!OrgDecides, Pa!ConstantsOK
    <3>2. org # NoAct => org.n \in 1 .. MaxOrders
      BY DEF PauseInv, Pa!Orders
    <3> QED  BY <3>1, <3>2
  <2>b. now \in Pa!Times /\ Pa!End(hard) \in Pa!Ends
    BY PartsAssumption DEF PauseInv, Pa!Times, Pa!Ends, Pa!End, Pa!Never, Pa!ConstantsOK
  <2>c. org' = [paused |-> paused_, at |-> now, until |-> Pa!End(hard), n |-> n]
    BY <1>3 DEF Pa!OrgDecides
  <2>1. org' \in Pa!Orders
    <3> HIDE DEF n
    <3> QED  BY <2>a, <2>b, <2>c DEF Pa!Orders
  <2>2. \A x : WasMade(made', x) <=> WasMade(made, x)
    BY <1>3 DEF Pa!OrgDecides, WasMade, Pa!Markers
  <2> QED  BY <1>3, <2>1, <2>2 DEF Pa!OrgDecides, PauseInv
<1>4. ASSUME NEW h \in Hooks, Pa!ActiveState(h)  PROVE PauseInv'
  <2>1. CASE Pa!SeeOrgPause(h)    BY <2>1, SameMade DEF Pa!SeeOrgPause, PauseInv
  <2>2. CASE Pa!ReadMarker(h)     BY <2>2, SameMade DEF Pa!ReadMarker, PauseInv, WasMade
  <2>3. CASE Pa!Unpaused(h)       BY <2>3, SameMade DEF Pa!Unpaused, PauseInv
  <2>4. CASE Pa!Heal(h)           BY <2>4, SameMade DEF Pa!Heal, PauseInv
  <2>5. CASE Pa!StillPaused(h)    BY <2>5, SameMade DEF Pa!StillPaused, PauseInv
  <2> QED  BY <1>4, <2>1, <2>2, <2>3, <2>4, <2>5 DEF Pa!ActiveState
<1>5. ASSUME NEW h \in Hooks, Pa!NoBeat(h) \/ Pa!Die(h)  PROVE PauseInv'
  BY <1>5, SameMade DEF Pa!NoBeat, Pa!Die, PauseInv
<1>6. ASSUME NEW h \in Hooks, Pa!Beat(h)  PROVE PauseInv'
  <2>1. /\ rec[h] # NoAct /\ WasMade(made, rec[h]) /\ now \in Pa!Times
        /\ rec' = [rec EXCEPT ![h] = [rec[h] EXCEPT !.beat = now]]
        /\ ppc' = [ppc EXCEPT ![h] = "truncate"] /\ UNCHANGED <<now, marker, org, seen, made, resumed>>
    BY <1>6 DEF Pa!Beat, PauseInv
  <2> DEFINE m == [rec[h] EXCEPT !.beat = now]
  <2>2. WasMade(made, m)
    BY <2>1 DEF WasMade, Pa!Markers
  <2>4. rec' = [rec EXCEPT ![h] = m]
    BY <2>1
  <2> HIDE DEF m
  <2>3. rec'[h] = m /\ rec' \in [Hooks -> Pa!Markers \cup {NoAct}] /\ \A g \in Hooks : g # h => rec'[g] = rec[g]
    BY <2>2, <2>4 DEF PauseInv, WasMade
  <2> QED  BY <2>1, <2>2, <2>3, SameMade DEF PauseInv
<1>7. ASSUME NEW h \in Hooks, Pa!Truncate(h) \/ Pa!WriteBack(h)  PROVE PauseInv'
  BY <1>7, SameMade DEF Pa!Truncate, Pa!WriteBack, PauseInv
<1>8. ASSUME Pa!Tick  PROVE PauseInv'
  <2>1. \A x : WasMade(made', x) <=> WasMade(made, x)
    BY <1>8 DEF Pa!Tick, WasMade, Pa!Markers
  <2> QED  BY <1>8, <2>1, PartsAssumption DEF Pa!Tick, PauseInv, Pa!Times, Pa!ConstantsOK
<1>9. CASE UNCHANGED pauseVars
  <2>1. \A x : WasMade(made', x) <=> WasMade(made, x)
    BY <1>9 DEF pauseVars, WasMade, Pa!Markers
  <2> QED  BY <1>9, <2>1 DEF pauseVars, PauseInv
<1> QED
  BY <1>1, <1>2, <1>3, <1>4, <1>5, <1>6, <1>7, <1>8, <1>9 DEF Pa!Next

\* A process that takes itself for paused from now on has a reason.
LEMMA PausedOnPurpose ==
  ASSUME PauseInv, [Pa!Next]_pauseVars, NEW h \in Hooks, ppc[h] # "paused", ppc'[h] = "paused"
  PROVE  \/ rec'[h] = NoAct /\ Pa!OrgPaused
         \/ /\ rec'[h].id \in DOMAIN made'
            /\ now < made'[rec'[h].id].until /\ ~ Pa!Overridden(made'[rec'[h].id], seen[h])
<1>1. CASE \E hard \in BOOLEAN, g \in Hooks : Pa!SetPaused(g, hard)
  <2>1. PICK hard \in BOOLEAN, g \in Hooks : Pa!SetPaused(g, hard)
    BY <1>1
  <2>2. g = h /\ ppc[h] = "idle"
    BY <2>1 DEF Pa!SetPaused, Pa!Goto, PauseInv
  <2>3. seen[h] = NoAct
    BY <2>2 DEF PauseInv
  <2> QED  BY <2>1, <2>2, <2>3, SetPausedKept DEF Pa!Overridden
<1>2. CASE Pa!SeeOrgPause(h)
  BY <1>2 DEF Pa!SeeOrgPause, PauseInv
<1>3. CASE Pa!StillPaused(h)
  <2>1. rec'[h] = rec[h] /\ rec[h] # NoAct /\ ~ Pa!Stale(h) /\ made' = made /\ WasMade(made, rec[h])
    BY <1>3 DEF Pa!StillPaused, PauseInv
  <2>2. now \in Int /\ rec[h].until \in Int
    BY <2>1, PartsAssumption
    DEF WasMade, Pa!Markers, Pa!Ends, PauseInv, Pa!Times, Pa!ConstantsOK
  <2> QED  BY <2>1, <2>2 DEF Pa!Stale, Pa!Expired, Pa!Overridden, WasMade
<1>4. CASE \E g \in Hooks : \/ g # h /\ (Pa!SeeOrgPause(g) \/ Pa!StillPaused(g))
                            \/ Pa!ReadMarker(g) \/ Pa!Unpaused(g) \/ Pa!Heal(g)
                            \/ Pa!NoBeat(g) \/ Pa!Beat(g) \/ Pa!Truncate(g) \/ Pa!WriteBack(g) \/ Pa!Die(g)
  <2>1. PICK g \in Hooks, l \in Pa!Pcs : ppc' = [ppc EXCEPT ![g] = l] /\ (g # h \/ l # "paused")
    BY <1>4 DEF Pa!SeeOrgPause, Pa!StillPaused, Pa!ReadMarker, Pa!Unpaused, Pa!Heal, Pa!NoBeat, Pa!Beat,
                Pa!Truncate, Pa!WriteBack, Pa!Die, Pa!Goto, Pa!Done, Pa!Pcs
  <2> QED  BY <2>1 DEF PauseInv
<1>5. CASE Pa!ClearPaused \/ Pa!Tick \/ (\E hard, p \in BOOLEAN : Pa!OrgDecides(p, hard)) \/ UNCHANGED pauseVars
  BY <1>5 DEF Pa!ClearPaused, Pa!Tick, Pa!OrgDecides, pauseVars
<1> QED
  BY <1>1, <1>2, <1>3, <1>4, <1>5 DEF Pa!Next, Pa!ActiveState

-----------------------------------------------------------------------------
(* Verdict, as part of the composition.                                    *)

\* The contract is the same everywhere.
LEMMA SameContract == Vp!ContractAssumption
BY ContractAssumption
DEF ContractAssumption, Vp!ContractAssumption, Findings, Vp!Findings, Configs, Vp!Configs, Classes, Vp!Classes,
    Verdicts, Vp!Verdicts, Forces, Vp!Forces, Surfaces, Vp!Surfaces

\* The definitions of Verdict_proofs are those of Verdict.
LEMMA SameVerdict ==
  /\ Ve!Init <=> Vp!Init
  /\ [Ve!Next]_verdictVars => [Vp!Next]_(Vp!vars)
<1>1. Ve!Init <=> Vp!Init
  BY DEF Ve!Init, Vp!Init
<1>2. Ve!Next <=> Vp!Next
  BY DEF Ve!Next, Vp!Next, Ve!ReadPause, Vp!ReadPause, Ve!Judge, Vp!Judge, Ve!JudgeUnaudited, Vp!JudgeUnaudited,
    Ve!UnderUnlock, Vp!UnderUnlock, Ve!NoUnlock, Vp!NoUnlock, Ve!Silence, Vp!Silence, Ve!NotSilenced, Vp!NotSilenced,
    Ve!Approved, Vp!Approved, Ve!NotApproved, Vp!NotApproved, Ve!Cleared, Vp!Cleared, Ve!AskPerson, Vp!AskPerson,
    Ve!Rewrite, Vp!Rewrite, Ve!Report, Vp!Report, Ve!Refuse, Vp!Refuse, Ve!Meanwhile, Vp!Meanwhile,
    Ve!SetAside, Vp!SetAside, Ve!IsOrder, Vp!IsOrder, Ve!MayObserve, Vp!MayObserve, Ve!Governing, Vp!Governing,
    Ve!Rescan, Vp!Rescan, Ve!Strongest, Vp!Strongest, Ve!First, Vp!First, Ve!Counting, Vp!Counting, Ve!Orders, Vp!Orders,
    Ve!LegacyFindings, Vp!LegacyFindings, Ve!AuditStrict, Vp!AuditStrict, Ve!Lift, Vp!Lift, Ve!Unlockable, Vp!Unlockable,
    Ve!Tell, Vp!Tell, Ve!Silences, Vp!Silences, Ve!Approvable, Vp!Approvable, Ve!Render, Vp!Render, Ve!Keep, Vp!Keep,
    Ve!Reportable, Vp!Reportable, Ve!Rank, Vp!Rank
<1> QED  BY <1>1, <1>2 DEF verdictVars, Vp!vars

\* The decision is under way, or it rests.
VerdictInv == IF focus = "verdict" THEN Vp!IInv ELSE VerdictIdle

LEMMA VerdictKept == VerdictInv /\ [PartsNext]_partsVars => VerdictInv'
<1> SUFFICES ASSUME VerdictInv, [PartsNext]_partsVars  PROVE VerdictInv'
  OBVIOUS
<1>1. focus' = focus
  BY DEF PartsNext, DelegationsNext, DeferredNext, PauseNext, VerdictNext, partsVars
<1>2. CASE focus = "verdict"
  <2>1. [Ve!Next]_verdictVars
    BY <1>2 DEF PartsNext, DelegationsNext, DeferredNext, PauseNext, VerdictNext, partsVars
  <2>2. Vp!IInv
    BY <1>2 DEF VerdictInv
  <2>3. [Vp!Next]_(Vp!vars)
    BY <2>1, SameVerdict
  <2>4. Vp!IInv'
    BY <2>2, <2>3, SameContract, Vp!NextInv
  <2> QED  BY <1>1, <1>2, <2>4 DEF VerdictInv
<1>3. CASE focus # "verdict"
  <2>1. UNCHANGED verdictVars
    BY <1>3 DEF PartsNext, DelegationsNext, DeferredNext, PauseNext, VerdictNext, partsVars
  <2> QED  BY <1>1, <1>3, <2>1 DEF VerdictInv, VerdictIdle, verdictVars
<1> QED  BY <1>2, <1>3

-----------------------------------------------------------------------------
(* The composition.                                                        *)

\* A step of the composition is one of each part or leaves it alone.
LEMMA PartsMove ==
  [PartsNext]_partsVars => [Next]_vars /\ [Df!Next]_deferredVars /\ [Pa!Next]_pauseVars
BY DEF PartsNext, DelegationsNext, DeferredNext, PauseNext, VerdictNext, partsVars

PartsInv == IInv /\ DeferredInv /\ PauseInv /\ VerdictInv

LEMMA PartsBegin == PartsInit => PartsInv
<1> SUFFICES ASSUME PartsInit  PROVE PartsInv
  OBVIOUS
<1>1. Init /\ Df!Init /\ Pa!Init
  BY DEF PartsInit, DelegationsInit, DeferredInit, PauseInit, VerdictInit
<1>2. VerdictInv
  <2>1. CASE VerdictInit
    BY <2>1, SameVerdict, SameContract, Vp!InitInv DEF VerdictInit, VerdictInv
  <2>2. CASE DelegationsInit \/ DeferredInit \/ PauseInit
    BY <2>2 DEF DelegationsInit, DeferredInit, PauseInit, VerdictInv
  <2> QED  BY <2>1, <2>2 DEF PartsInit
<1> QED  BY <1>1, <1>2, InitIInv, DeferredBegins, PauseBegins DEF PartsInv

LEMMA PartsKept == PartsInv /\ [PartsNext]_partsVars => PartsInv'
BY PartsMove, Inductive, DeferredKept, PauseKept, VerdictKept DEF PartsInv

LEMMA PartsInvariant == PartsSpec => []PartsInv
BY PartsBegin, PartsKept, PTL DEF PartsSpec

\* The variables of all four parts keep their types.
THEOREM PartsTypeCorrect == PartsSpec => []PartsTypeOK
<1>1. IInv => TypeOK
  BY DEF IInv
<1>2. DeferredInv => Df!TypeOK
  BY DEF DeferredInv, Df!TypeOK
<1>3. PauseInv => Pa!TypeOK
  BY DEF PauseInv, Pa!TypeOK, WasMade
<1>4. VerdictInv => (focus = "verdict" => Ve!TypeOK)
  <2>1. Ve!Findings = Vp!Findings /\ Ve!Configs = Vp!Configs
    BY DEF Ve!Findings, Vp!Findings, Ve!Configs, Vp!Configs, Ve!Classes, Vp!Classes, Ve!Verdicts, Vp!Verdicts,
           Ve!Forces, Vp!Forces, Ve!Surfaces, Vp!Surfaces
  <2>2. Vp!TypeOK => Ve!TypeOK
    BY <2>1 DEF Ve!TypeOK, Vp!TypeOK, Ve!Pcs, Vp!Pcs, Ve!Lifts, Vp!Lifts, Ve!Outcomes, Vp!Outcomes
  <2> QED  BY <2>2 DEF VerdictInv, Vp!IInv
<1>5. PartsInv => PartsTypeOK
  BY <1>1, <1>2, <1>3, <1>4 DEF PartsInv, PartsTypeOK
<1> QED  BY <1>5, PartsInvariant, PTL

\* However hooks overwrite one another's verdicts, and whoever dies: an action is
\* let through, and the cache allows one, only under a fingerprint of which the
\* judge has cleared an action (deferred.py:60-71, 89-110).
THEOREM JudgeCleared == PartsSpec => []AllowedWasCleared
<1>1. DeferredInv => AllowedWasCleared
  BY DEF DeferredInv, OnlyCleared, AllowedWasCleared, Df!AllowedWasCleared
<1>2. PartsInv => AllowedWasCleared
  BY <1>1 DEF PartsInv
<1> QED  BY <1>2, PartsInvariant, PTL

\* Whatever markers are lost or written back: a process takes itself for paused
\* only for a pause made here that has not ended, or one of the organization.
THEOREM PausedOnPurposeOnly == PartsSpec => PauseIsDeliberate
<1> DEFINE Deliberate ==
      \A h \in Hooks :
        ppc[h] # "paused" /\ ppc'[h] = "paused" =>
          \/ rec'[h] = NoAct /\ Pa!OrgPaused
          \/ /\ rec'[h].id \in DOMAIN made'
             /\ LET m == made'[rec'[h].id] IN now < m.until /\ ~ Pa!Overridden(m, seen[h])
<1>1. PauseInv /\ [Pa!Next]_pauseVars => Deliberate
  BY PausedOnPurpose
<1>2. PartsInv /\ [PartsNext]_partsVars => [Deliberate]_pauseVars
  BY <1>1, PartsMove DEF PartsInv
<1>3. PartsSpec => [][Deliberate]_pauseVars
  BY <1>2, PartsInvariant, PTL DEF PartsSpec
<1> QED  BY <1>3 DEF PauseIsDeliberate, Pa!PauseIsDeliberate, Pa!vars, pauseVars

\* Never a silent ALLOW, for any findings and surfaces.
THEOREM SilentNever == PartsSpec => []NeverSilent
<1>1. VerdictInv => NeverSilent
  BY DEF VerdictInv, VerdictIdle, Vp!IInv, NeverSilent, Ve!NeverSilent, Vp!NeverSilent, Ve!Counting, Vp!Counting
<1>2. PartsInv => NeverSilent
  BY <1>1 DEF PartsInv
<1> QED  BY <1>2, PartsInvariant, PTL

\* An observe mode sets no order aside.
THEOREM OrdersSpared == PartsSpec => []ObserveSparesOrders
<1>1. VerdictInv => ObserveSparesOrders
  BY DEF VerdictInv, VerdictIdle, Vp!IInv, ObserveSparesOrders, Ve!ObserveSparesOrders, Vp!ObserveSparesOrders,
         Ve!Orders, Vp!Orders, Ve!Counting, Vp!Counting, Ve!IsOrder, Vp!IsOrder
<1>2. PartsInv => ObserveSparesOrders
  BY <1>1 DEF PartsInv
<1> QED  BY <1>2, PartsInvariant, PTL

\* Deny wins.
THEOREM DenyWinsAlways == PartsSpec => []DenyWins
<1>1. VerdictInv => DenyWins
  BY DEF VerdictInv, VerdictIdle, Vp!IInv, DenyWins, Ve!DenyWins, Vp!DenyWins, Ve!Demanding, Vp!Demanding,
         Ve!Orders, Vp!Orders, Ve!Counting, Vp!Counting, Ve!IsOrder, Vp!IsOrder
<1>2. PartsInv => DenyWins
  BY <1>1 DEF PartsInv
<1> QED  BY <1>2, PartsInvariant, PTL
=============================================================================
