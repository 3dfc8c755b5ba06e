----------------------------- MODULE Records_proofs -----------------------------
(***************************************************************************)
(* What a device records, and what a person grants on it, for any number   *)
(* of writers, processes, terminals and subagents and for any bounds: the  *)
(* audit trail, the telemetry, the unlock password and the notices, each   *)
(* with its inductive invariant; in the end the four together.             *)
(***************************************************************************)
EXTENDS Records, FiniteSetTheorems, FunctionTheorems, SequenceTheorems, TLAPS

(* AuditTrail: appends.                                                    *)

\* A writer is in its lock section exactly while it holds the lock; once it has
\* advanced the chain, chain.json names its record and no line does yet.
LockInv ==
  \A w \in Writers :
    /\ pc[w] \in Appending <=> lock = w
    /\ pc[w] = "locked" => chain.seq + 1 \in Seqs
    /\ pc[w] = "advanced" =>
         /\ rec[w].hash = chain /\ chain.seq >= 0
         /\ \A i \in Lines : trail[i].hash.seq < chain.seq
         /\ \A i \in Lines : trail[i].hash.seq + 1 = chain.seq => trail[i].hash = rec[w].prev

IInv == /\ TypeOK
        /\ ChainNeverForks
        /\ NeighboursAreLinked
        /\ StateLeadsTrail
        /\ LockInv
        /\ torn => trail # <<>>
        /\ ~ there => trail = <<>> /\ ran = {}

LEMMA GarbageFacts == Garbage \in Records /\ Genesis \in Hashes /\ Garbage.hash = Genesis
  BY DEF Garbage, Records, Hashes, Genesis

LEMMA HashFacts ==
  ASSUME NEW h \in Hashes PROVE h.seq \in Int /\ h.seq >= -1
  BY ConstantsAssumption DEF Hashes, Genesis, Seqs

LEMMA LineTypes ==
  ASSUME NEW tr \in Seq(Records), NEW i \in DOMAIN tr
  PROVE  /\ tr[i] \in Records /\ tr[i].hash \in Hashes /\ tr[i].prev \in Hashes
         /\ tr[i].hash.seq \in Int
<1>1. tr[i] \in Records
  OBVIOUS
<1>2. tr[i].hash \in Hashes /\ tr[i].prev \in Hashes
  BY <1>1 DEF Records
<1>3. QED BY <1>1, <1>2, HashFacts

\* A line of the new trail is an old one, unchanged, or it is x.
LEMMA AppendLines ==
  ASSUME TypeOK, torn => trail # <<>>, NEW x \in Records, trail' = AppendLine(x)
  PROVE  /\ trail' \in Seq(Records) /\ trail' # <<>>
         /\ \A i \in Lines' :
              \/ i \in Lines /\ trail'[i] = trail[i] /\ i <= Len(trail)
              \/ i = Len(trail) + 1 /\ trail'[i] = x /\ Parses(x)
<1>1. trail \in Seq(Records) /\ Len(trail) \in Nat
  BY DEF TypeOK
<1>2. CASE torn
  <2>1. trail' = [trail EXCEPT ![Len(trail)] = Garbage]
    BY <1>2 DEF AppendLine
  <2>2. Len(trail) \in DOMAIN trail
    BY <1>1, <1>2
  <2>3. /\ trail' \in Seq(Records) /\ DOMAIN trail' = DOMAIN trail
        /\ trail'[Len(trail)] = Garbage
        /\ \A i \in DOMAIN trail : i # Len(trail) => trail'[i] = trail[i]
    BY <1>1, <2>1, <2>2, GarbageFacts
  <2>4. trail' # <<>>
    BY <2>2, <2>3
  <2>5. QED BY <1>1, <2>3, <2>4 DEF Lines, Parses
<1>3. CASE ~ torn
  <2>1. trail' = Append(trail, x)
    BY <1>3 DEF AppendLine
  <2>2. QED BY <1>1, <2>1 DEF Lines
<1>4. QED BY <1>2, <1>3

\* Appending a line, torn or not, to a trail that the chain is ahead of.
LEMMA AppendInv ==
  ASSUME TypeOK, ChainNeverForks, NeighboursAreLinked, torn => trail # <<>>,
         NEW x \in Records, chain' = chain,
         trail' = AppendLine(x),
         \A i \in Lines : trail[i].hash.seq < chain.seq,
         Parses(x) => /\ x.hash = chain
                      /\ \A i \in Lines : trail[i].hash.seq + 1 = chain.seq
                                            => trail[i].hash = x.prev
  PROVE  /\ trail' \in Seq(Records)
         /\ ChainNeverForks'
         /\ NeighboursAreLinked'
         /\ StateLeadsTrail'
<1>1. /\ trail \in Seq(Records) /\ Len(trail) \in Nat
      /\ chain \in Hashes /\ chain.seq \in Int
  BY HashFacts DEF TypeOK
<1>2. /\ trail' \in Seq(Records)
      /\ \A i \in Lines' :
           \/ i \in Lines /\ trail'[i] = trail[i] /\ i <= Len(trail)
           \/ i = Len(trail) + 1 /\ trail'[i] = x /\ Parses(x)
  BY AppendLines
<1>3. \A i \in Lines : i \in DOMAIN trail /\ i \in Int /\ trail[i].hash.seq \in Int
  BY <1>1, LineTypes DEF Lines
<1>4. \A i \in Lines' : trail'[i].hash.seq <= chain.seq
                        /\ (trail'[i].hash.seq = chain.seq => trail'[i].hash = chain)
  BY <1>1, <1>2, <1>3
<1>5. StateLeadsTrail'
  BY <1>4 DEF StateLeadsTrail
<1>6. ChainNeverForks'
  <2> SUFFICES ASSUME NEW i \in Lines', NEW j \in Lines', i < j
               PROVE  trail'[i].hash.seq < trail'[j].hash.seq
    BY DEF ChainNeverForks
  <2>1. CASE i \in Lines /\ trail'[i] = trail[i] /\ i <= Len(trail)
    <3>1. CASE j \in Lines /\ trail'[j] = trail[j]
      BY <2>1, <3>1 DEF ChainNeverForks
    <3>2. CASE trail'[j] = x /\ Parses(x)
      BY <2>1, <3>2
    <3>3. QED BY <1>2, <3>1, <3>2
  <2>2. CASE i = Len(trail) + 1
    BY <1>1, <1>2, <1>3, <2>2
  <2>3. QED BY <1>2, <2>1, <2>2
<1>7. NeighboursAreLinked'
  <2> SUFFICES ASSUME NEW i \in Lines', NEW j \in Lines',
                      trail'[j].hash.seq = trail'[i].hash.seq + 1
               PROVE  trail'[j].prev = trail'[i].hash
    BY DEF NeighboursAreLinked
  <2>1. CASE i \in Lines /\ trail'[i] = trail[i]
    <3>1. CASE j \in Lines /\ trail'[j] = trail[j]
      BY <2>1, <3>1 DEF NeighboursAreLinked
    <3>2. CASE trail'[j] = x /\ Parses(x)
      BY <2>1, <3>2
    <3>3. QED BY <1>2, <3>1, <3>2
  <2>2. CASE trail'[i] = x /\ Parses(x)
    BY <1>1, <1>4, <2>2
  <2>3. QED BY <1>2, <2>1, <2>2
<1>8. QED BY <1>2, <1>5, <1>6, <1>7

LEMMA InitInv == Init => IInv
<1> SUFFICES ASSUME Init PROVE IInv
  OBVIOUS
<1>1. TypeOK
  <2>1. chain \in Hashes /\ vstate \in Hashes /\ rec \in [Writers -> Records]
    BY GarbageFacts DEF Init
  <2>2. trail \in Seq(Records)
    BY DEF Init
  <2>3. QED BY <2>1, <2>2 DEF Init, TypeOK, Reports
<1>2. Lines = {}
  BY DEF Init, Lines
<1>3. LockInv
  BY ConstantsAssumption DEF Init, LockInv, Appending, NoOne
<1>4. QED BY <1>1, <1>2, <1>3 DEF Init, IInv, ChainNeverForks, NeighboursAreLinked, StateLeadsTrail

\* A step that leaves the files alone, but for creating the trail, and the chain's
\* writers in order.
LEMMA SameFiles ==
  ASSUME IInv, UNCHANGED <<chain, trail, torn, ran>>, there' \in {there, TRUE}, TypeOK', LockInv'
  PROVE  IInv'
  BY DEF IInv, TypeOK, ChainNeverForks, NeighboursAreLinked, StateLeadsTrail, Lines

LEMMA AcquireInv == ASSUME IInv, NEW w \in Writers, Acquire(w) PROVE IInv'
<1>1. TypeOK'
  BY DEF IInv, TypeOK, Acquire, files, Appending
<1>2. LockInv'
  BY ConstantsAssumption DEF IInv, TypeOK, LockInv, Acquire, files, Appending, NoOne, Lines
<1>3. QED BY <1>1, <1>2, SameFiles DEF Acquire, files

LEMMA AdvanceInv ==
  ASSUME IInv, NEW w \in Writers, Advance(w)
  PROVE  IInv'
<1> DEFINE h == [seq |-> chain.seq + 1, by |-> w]
<1>1. /\ pc[w] = "locked" /\ lock = w /\ lock' = lock /\ trail' = trail /\ torn' = torn
      /\ there' = there /\ ran' = ran
      /\ chain' = h /\ rec' = [rec EXCEPT ![w] = [hash |-> h, prev |-> chain]]
      /\ pc' = [pc EXCEPT ![w] = "advanced"]
  BY DEF IInv, LockInv, Advance, Appending
<1>2. chain \in Hashes /\ chain.seq \in Int /\ chain.seq >= -1
  BY HashFacts DEF IInv, TypeOK
<1>3. h \in Hashes /\ h.seq = chain.seq + 1 /\ h.seq >= 0
  BY <1>1, <1>2 DEF IInv, LockInv, Hashes
<1>4. TypeOK'
  <2>1. rec' \in [Writers -> Records]
    BY <1>1, <1>2, <1>3 DEF IInv, TypeOK, Records
  <2>2. QED BY <1>1, <1>3, <2>1 DEF IInv, TypeOK, Advance, verifyv, Appending
<1>5. Lines' = Lines /\ \A i \in Lines : trail[i].hash.seq \in Int
  BY <1>1, LineTypes DEF Lines, IInv, TypeOK
<1>6. StateLeadsTrail'
  BY <1>1, <1>2, <1>3, <1>5 DEF IInv, StateLeadsTrail
<1>7. ChainNeverForks' /\ NeighboursAreLinked'
  BY <1>1, <1>5 DEF IInv, ChainNeverForks, NeighboursAreLinked
<1>8. LockInv'
  <2> SUFFICES ASSUME NEW v \in Writers
               PROVE  /\ pc'[v] \in Appending <=> lock' = v
                      /\ pc'[v] = "locked" => chain'.seq + 1 \in Seqs
                      /\ pc'[v] = "advanced" =>
                           /\ rec'[v].hash = chain' /\ chain'.seq >= 0
                           /\ \A i \in Lines' : trail'[i].hash.seq < chain'.seq
                           /\ \A i \in Lines' : trail'[i].hash.seq + 1 = chain'.seq
                                                  => trail'[i].hash = rec'[v].prev
    BY DEF LockInv
  <2>1. CASE v = w
    <3>1. /\ pc'[v] = "advanced" /\ lock' = v
          /\ rec'[v] = [hash |-> h, prev |-> chain]
      BY <1>1, <2>1 DEF IInv, TypeOK
    <3>2. \A i \in Lines : /\ trail[i].hash.seq <= chain.seq
                           /\ trail[i].hash.seq = chain.seq => trail[i].hash = chain
      BY DEF IInv, StateLeadsTrail
    <3>3. QED BY <1>1, <1>2, <1>3, <1>5, <3>1, <3>2 DEF Appending
  <2>2. CASE v # w
    <3>1. pc'[v] = pc[v] /\ pc[v] \notin Appending
      BY <1>1, <2>2 DEF IInv, TypeOK, LockInv
    <3>2. QED BY <1>1, <2>2, <3>1 DEF Appending
  <2>3. QED BY <2>1, <2>2
<1>9. QED BY <1>1, <1>4, <1>6, <1>7, <1>8 DEF IInv

\* The lock section ends, by a line appended or by nothing.
LEMMA LeaveInv ==
  ASSUME IInv, NEW w \in Writers, pc[w] \in Appending, Release(w),
         chain' = chain, rec' = rec
  PROVE  LockInv'
<1>1. \A v \in Writers : pc'[v] = "idle" /\ lock' # v
  BY ConstantsAssumption DEF IInv, TypeOK, LockInv, Release, NoOne, Appending
<1>2. QED BY <1>1 DEF LockInv, Appending

LEMMA CreateInv == ASSUME IInv, NEW w \in Writers, Create(w) PROVE IInv'
<1>1. TypeOK' /\ LockInv'
  BY DEF IInv, TypeOK, LockInv, Create, writerv, verifyv, Lines
<1>2. QED BY <1>1, SameFiles DEF Create, writerv

LEMMA WriteInv ==
  ASSUME IInv, NEW w \in Writers, Write(w) \/ FailTorn(w)
  PROVE  IInv'
<1>1. PICK x \in {Garbage, rec[w]}, open \in BOOLEAN :
        /\ pc[w] = "advanced" /\ Release(w) /\ chain' = chain /\ rec' = rec
        /\ trail' = AppendLine(x) /\ torn' = open /\ there' = there /\ there
  BY DEF Write, FailTorn
<1>2. x \in Records
  BY <1>1, GarbageFacts DEF IInv, TypeOK
<1>3. /\ trail' \in Seq(Records)
      /\ ChainNeverForks' /\ NeighboursAreLinked' /\ StateLeadsTrail'
  <2>1. /\ TypeOK /\ ChainNeverForks /\ NeighboursAreLinked /\ (torn => trail # <<>>)
    BY DEF IInv
  <2>2. /\ rec[w].hash = chain
        /\ \A i \in Lines : trail[i].hash.seq < chain.seq
        /\ \A i \in Lines : trail[i].hash.seq + 1 = chain.seq => trail[i].hash = rec[w].prev
    BY <1>1 DEF IInv, LockInv
  <2>3. Parses(x) => x = rec[w]
    BY <1>1 DEF Parses
  <2>4. QED BY <1>1, <1>2, <2>1, <2>2, <2>3, AppendInv
<1>4. torn' => trail' # <<>>
  BY <1>1, <1>2, AppendLines DEF IInv
<1>5. LockInv'
  BY <1>1, LeaveInv DEF Appending
<1>6. TypeOK'
  <2>1. /\ lock' \in Writers \cup {NoOne} /\ pc' \in [Writers -> {"idle"} \cup Appending]
    BY <1>1 DEF Release, IInv, TypeOK
  <2>2. rec[w].hash \in Hashes
    BY DEF IInv, TypeOK, Records
  <2>3. ran' \subseteq Hashes /\ skipped' = skipped /\ verifyv' = verifyv
    BY <2>2 DEF Write, FailTorn, IInv, TypeOK
  <2>4. QED BY <1>1, <1>3, <2>1, <2>3 DEF IInv, TypeOK, verifyv
<1>7. QED BY <1>1, <1>3, <1>4, <1>5, <1>6 DEF IInv

LEMMA FailInv ==
  ASSUME IInv, NEW w \in Writers, FailEarly(w) \/ FailLate(w)
  PROVE  IInv'
<1>1. /\ UNCHANGED <<files, rec, ran, verifyv>> /\ Release(w) /\ pc[w] \in Appending
      /\ skipped' \in {skipped, skipped + 1}
  BY DEF FailEarly, FailLate, Appending
<1>2. TypeOK'
  BY <1>1 DEF IInv, TypeOK, files, verifyv, Release
<1>3. LockInv'
  BY <1>1, LeaveInv DEF files
<1>4. QED BY <1>1, <1>2, <1>3, SameFiles DEF files

LEMMA VerifierInv ==
  ASSUME IInv, VerifyState \/ VerifyTrail
  PROVE  IInv'
<1>1. UNCHANGED <<files, writerv>>
  BY DEF VerifyState, VerifyTrail
<1>2. vpc' \in {"idle", "walking"} /\ vstate' \in Hashes /\ vbusy' \in BOOLEAN /\ report' \in Reports
  BY GarbageFacts DEF VerifyState, VerifyTrail, IInv, TypeOK, Verdict, Reports
<1>3. TypeOK'
  BY <1>1, <1>2 DEF IInv, TypeOK, files, writerv
<1>4. LockInv'
  BY <1>1 DEF IInv, LockInv, files, writerv, Lines
<1>5. QED BY <1>1, <1>3, <1>4, SameFiles DEF files, writerv

LEMMA StepInv == IInv /\ [Next]_vars => IInv'
<1> SUFFICES ASSUME IInv, [Next]_vars PROVE IInv'
  OBVIOUS
<1>1. ASSUME NEW w \in Writers, WriterStep(w)
      PROVE  IInv'
  BY <1>1, AcquireInv, AdvanceInv, CreateInv, WriteInv, FailInv DEF WriterStep
<1>2. CASE UNCHANGED vars
  <2>1. TypeOK' /\ LockInv'
    BY <1>2 DEF vars, files, writerv, verifyv, IInv, TypeOK, LockInv, Lines
  <2>2. QED BY <1>2, <2>1, SameFiles DEF vars, files, writerv
<1>3. QED BY <1>1, <1>2, VerifierInv DEF Next

-----------------------------------------------------------------------------
(* AuditTrail: what a verification says.                                   *)

\* A record follows the genesis or a record, at a position that was taken.
Real(x) == x.hash.seq >= 0 /\ (x.hash.seq = 0 => x.prev = Genesis)

\* A verification that has met no append has the head of the chain, and nobody is
\* about to write.
VerifyInv ==
  /\ \A i \in Lines : Real(trail[i])
  /\ \A w \in Writers : pc[w] = "advanced" => Real(rec[w])
  /\ vpc = "walking" /\ ~ vbusy => lock = NoOne /\ vstate = chain

AuditInv == IInv /\ VerifyInv

LEMMA AuditBegin == Init => AuditInv
<1> SUFFICES ASSUME Init PROVE AuditInv
  OBVIOUS
<1>1. Lines = {}
  BY DEF Init, Lines
<1> QED  BY <1>1, InitInv DEF Init, AuditInv, VerifyInv

\* What a writer in its lock section does meets no quiet verification.
LEMMA VerifyWriter ==
  ASSUME AuditInv, NEW w \in Writers, WriterStep(w) PROVE VerifyInv'
<1>1. TypeOK /\ torn \in BOOLEAN /\ (torn => trail # <<>>) /\ vpc' = vpc /\ vstate' = vstate
  BY DEF AuditInv, IInv, TypeOK, WriterStep, Acquire, Advance, Create, Write, FailEarly, FailLate, FailTorn, verifyv
<1>2. CASE Acquire(w)
  <2>1. vbusy' = TRUE /\ UNCHANGED <<files, rec>> /\ pc' = [pc EXCEPT ![w] = "locked"]
    BY <1>2 DEF Acquire
  <2>2. \A v \in Writers : pc'[v] = "advanced" => pc[v] = "advanced"
    BY <1>1, <2>1 DEF TypeOK
  <2> QED  BY <2>1, <2>2 DEF AuditInv, VerifyInv, files, Lines
<1>3. CASE ~ Acquire(w)
  <2>1. pc[w] \in Appending /\ vbusy' = vbusy
    BY <1>3 DEF WriterStep, Advance, Create, Write, FailEarly, FailLate, FailTorn, verifyv, Appending
  <2>2. lock = w /\ lock # NoOne
    BY <2>1, ConstantsAssumption DEF AuditInv, IInv, LockInv, NoOne
  <2>3. ~ (vpc' = "walking" /\ ~ vbusy')
    BY <1>1, <2>1, <2>2 DEF AuditInv, VerifyInv
  <2>4. CASE Advance(w)
    <3> DEFINE h == [seq |-> chain.seq + 1, by |-> w]
    <3>1. /\ pc[w] = "locked" /\ trail' = trail /\ pc' = [pc EXCEPT ![w] = "advanced"]
          /\ rec' = [rec EXCEPT ![w] = [hash |-> h, prev |-> chain]]
      BY <2>4 DEF Advance
    <3>2. chain \in Hashes /\ chain.seq \in Int /\ chain.seq >= -1
      BY <1>1, HashFacts DEF TypeOK
    <3>3. chain.seq = -1 => chain = Genesis
      BY <3>2, ConstantsAssumption DEF Hashes, Seqs, Genesis
    <3>4. Real([hash |-> h, prev |-> chain])
      BY <3>2, <3>3 DEF Real
    <3>5. rec'[w] = [hash |-> h, prev |-> chain] /\ \A v \in Writers \ {w} : rec'[v] = rec[v] /\ pc'[v] = pc[v]
      BY <1>1, <3>1 DEF TypeOK
    <3> HIDE DEF h
    <3>6. \A v \in Writers : pc'[v] = "advanced" => Real(rec'[v])
      <4> SUFFICES ASSUME NEW v \in Writers, pc'[v] = "advanced" PROVE Real(rec'[v])
        OBVIOUS
      <4>1. CASE v = w
        BY <3>4, <3>5, <4>1 DEF Real
      <4>2. CASE v # w
        <5>1. rec'[v] = rec[v] /\ pc[v] = "advanced"
          BY <3>5, <4>2
        <5> QED  BY <5>1 DEF AuditInv, VerifyInv, Real
      <4> QED  BY <4>1, <4>2
    <3>7. \A i \in Lines' : Real(trail'[i])
      BY <3>1 DEF AuditInv, VerifyInv, Lines, Real
    <3> QED  BY <2>3, <3>6, <3>7 DEF VerifyInv
  <2>5. CASE ~ Advance(w)
    <3>1. (Release(w) \/ pc' = pc) /\ rec' = rec
      BY <1>3, <2>5 DEF WriterStep, Create, Write, FailEarly, FailLate, FailTorn, files, writerv
    <3>2. \A v \in Writers : pc'[v] = "advanced" => pc[v] = "advanced"
      BY <1>1, <3>1 DEF Release, TypeOK
    <3>3. \A v \in Writers : pc'[v] = "advanced" => Real(rec'[v])
      BY <3>1, <3>2 DEF AuditInv, VerifyInv, Real
    <3>4. \A i \in Lines' : Real(trail'[i])
      <4>1. CASE trail' = trail
        BY <4>1 DEF AuditInv, VerifyInv, Lines, Real
      <4>2. CASE Write(w) \/ FailTorn(w)
        <5>1. PICK x \in {Garbage, rec[w]} : pc[w] = "advanced" /\ trail' = AppendLine(x)
          BY <4>2 DEF Write, FailTorn
        <5>2. x \in Records /\ (Parses(x) => Real(x))
          BY <1>1, <5>1, GarbageFacts DEF AuditInv, VerifyInv, TypeOK, Parses
        <5>3. \A i \in Lines' : (i \in Lines /\ trail'[i] = trail[i]) \/ (trail'[i] = x /\ Parses(x))
          BY <1>1, <5>1, <5>2, AppendLines
        <5>4. \A i \in Lines : Real(trail[i])
          BY DEF AuditInv, VerifyInv
        <5>5. SUFFICES ASSUME NEW i \in Lines' PROVE Real(trail'[i])
          OBVIOUS
        <5>6. PICK y : trail'[i] = y /\ Real(y)
          BY <5>2, <5>3, <5>4
        <5> QED  BY <5>6 DEF Real
      <4> QED  BY <1>3, <2>5, <4>1, <4>2 DEF WriterStep, Create, FailEarly, FailLate, files
    <3> QED  BY <2>3, <3>3, <3>4 DEF VerifyInv
  <2> QED  BY <2>4, <2>5
<1> QED  BY <1>2, <1>3

LEMMA AuditKept == AuditInv /\ [Next]_vars => AuditInv'
<1> SUFFICES ASSUME AuditInv, [Next]_vars PROVE AuditInv'
  OBVIOUS
<1>1. IInv'
  BY StepInv DEF AuditInv
<1>2. CASE \E w \in Writers : WriterStep(w)
  BY <1>1, <1>2, VerifyWriter DEF AuditInv
<1>3. CASE VerifyState \/ VerifyTrail \/ UNCHANGED vars
  <2>1. UNCHANGED <<files, writerv>>
    BY <1>3 DEF VerifyState, VerifyTrail, vars
  <2>2. vpc' = "walking" /\ ~ vbusy' => lock = NoOne /\ vstate' = chain
    BY <1>3 DEF VerifyState, VerifyTrail, vars, verifyv, AuditInv, VerifyInv
  <2>3. VerifyInv'
    BY <2>1, <2>2 DEF files, writerv, AuditInv, VerifyInv, Lines, Real
  <2> QED  BY <1>1, <2>3 DEF AuditInv
<1> QED  BY <1>2, <1>3 DEF Next

-----------------------------------------------------------------------------
\* Sets of natural numbers have a least element.
LEMMA Least ==
  ASSUME NEW T \in SUBSET Nat, T # {} PROVE \E n \in T : \A m \in T : n <= m
<1>1. \E x \in T : \A y \in T : ~ (<<y, x>> \in OpToRel(<, Nat))
  BY NatLessThanWellFounded, WFMin
<1>2. \A x, y \in Nat : x < y => <<x, y>> \in OpToRel(<, Nat)
  BY DEF OpToRel
<1>3. PICK x \in T : \A y \in T : ~ (<<y, x>> \in OpToRel(<, Nat))
  BY <1>1
<1>4. \A y \in T : ~ (y < x)
  BY <1>2, <1>3
<1>5. \A y \in T : x <= y
  BY <1>4
<1> QED  BY <1>5

\* A walk over lines that ends in ok has met every position in order, up to the
\* head it read.
LEMMA OkIsOrdered ==
  ASSUME NEW ex, NEW tr \in Seq(Records), NEW st \in Hashes, Verdict(ex, tr, st) = "ok", tr # <<>>
  PROVE  /\ \A i \in DOMAIN tr : Parses(tr[i]) /\ tr[i].hash.seq = i - 1
         /\ st.seq < Len(tr)
<1>1. /\ tr # <<>> /\ \A i \in DOMAIN tr : ~ LineError(tr, i) /\ ~ LineGap(tr, i)
      /\ ~ HeadGap(tr, st)
  BY DEF Verdict
<1>2. \A i \in DOMAIN tr : Parses(tr[i])
  BY <1>1 DEF LineError
<1>3. Len(tr) \in Nat /\ DOMAIN tr = 1 .. Len(tr) /\ Len(tr) >= 1
  BY <1>1
<1>4. \A i \in DOMAIN tr : Before(tr, i).seq \in Int /\ tr[i].hash.seq \in Int
  <2> SUFFICES ASSUME NEW i \in DOMAIN tr PROVE Before(tr, i).seq \in Int /\ tr[i].hash.seq \in Int
    OBVIOUS
  <2>1. CASE i = 1
    BY <2>1, LineTypes DEF Before, Genesis
  <2>2. CASE i # 1
    <3>1. i - 1 \in DOMAIN tr
      BY <1>3, <2>2
    <3> QED  BY <2>2, <3>1, LineTypes DEF Before
  <2> QED  BY <2>1, <2>2
<1>5. \A i \in DOMAIN tr : Anchored(tr, i)
  <2> SUFFICES ASSUME NEW i \in DOMAIN tr, i # 1 PROVE Parses(tr[i - 1])
    BY DEF Anchored
  <2>1. i - 1 \in DOMAIN tr
    BY <1>3
  <2> QED  BY <1>2, <2>1
<1>6. \A i \in DOMAIN tr : tr[i].hash.seq = Before(tr, i).seq + 1
  <2> SUFFICES ASSUME NEW i \in DOMAIN tr PROVE tr[i].hash.seq = Before(tr, i).seq + 1
    OBVIOUS
  <2>1. ~ (tr[i].hash.seq < Before(tr, i).seq + 1) /\ ~ (tr[i].hash.seq > Before(tr, i).seq + 1)
    BY <1>1, <1>2, <1>5 DEF LineError, LineGap
  <2> QED  BY <1>4, <2>1
<1>7. \A i \in DOMAIN tr : tr[i].hash.seq = i - 1
  <2> DEFINE T == {i \in DOMAIN tr : tr[i].hash.seq # i - 1}
  <2>1. CASE T = {}
    BY <2>1
  <2>2. CASE T # {}
    <3>1. T \in SUBSET Nat
      BY <1>3
    <3> HIDE DEF T
    <3>2. PICK n \in T : \A m \in T : n <= m
      BY <2>2, <3>1, Least
    <3>3. n \in DOMAIN tr /\ tr[n].hash.seq # n - 1 /\ n \in Nat
      BY <1>3, <3>2 DEF T
    <3>4. n # 1
      BY <1>6, <3>3 DEF Before, Genesis
    <3>5. n - 1 \in DOMAIN tr /\ ~ (n <= n - 1)
      BY <1>3, <3>3, <3>4
    <3>6. n - 1 \notin T
      BY <3>2, <3>5
    <3>7. tr[n - 1].hash.seq = n - 2
      BY <3>3, <3>5, <3>6 DEF T
    <3>8. tr[n].hash.seq = tr[n - 1].hash.seq + 1
      BY <1>6, <3>3, <3>4 DEF Before
    <3> QED  BY <3>3, <3>7, <3>8
  <2> QED  BY <2>1, <2>2
<1>8. Len(tr) \in HeadIndex(tr)
  BY <1>2, <1>3 DEF HeadIndex
<1>9. ~ (st.seq > tr[Len(tr)].hash.seq)
  BY <1>1, <1>8 DEF HeadGap
<1>10. st.seq < Len(tr)
  BY <1>3, <1>7, <1>9, HashFacts
<1> QED  BY <1>2, <1>7, <1>10

\* What a verification does.
LEMMA Verifies ==
  ASSUME AuditInv, VerifyTrail
  PROVE  /\ report' = Verdict(there, trail, vstate) /\ trail \in Seq(Records) /\ vstate \in Hashes
         /\ ~ vbusy => vstate = chain
BY DEF AuditInv, IInv, TypeOK, VerifyInv, VerifyTrail

LEMMA OkCovers ==
  ASSUME AuditInv, VerifyTrail, report' = "ok", trail # <<>>
  PROVE  \A s \in 0 .. vstate.seq : \E i \in Lines : trail[i].hash.seq = s
<1>1. /\ \A i \in DOMAIN trail : Parses(trail[i]) /\ trail[i].hash.seq = i - 1
      /\ vstate.seq < Len(trail) /\ trail \in Seq(Records) /\ vstate.seq \in Int
  BY Verifies, OkIsOrdered, HashFacts
<1> SUFFICES ASSUME NEW s \in 0 .. vstate.seq PROVE \E i \in Lines : trail[i].hash.seq = s
  OBVIOUS
<1>2. s + 1 \in DOMAIN trail /\ (s + 1) - 1 = s
  BY <1>1
<1>3. s + 1 \in Lines
  BY <1>1, <1>2 DEF Lines
<1> QED  BY <1>1, <1>2, <1>3

\* Where every line parses: each is real, in order, linked, and the chain leads.
LEMMA AllParse ==
  ASSUME AuditInv, Lines = DOMAIN trail
  PROVE  /\ \A i \in DOMAIN trail :
              /\ Parses(trail[i]) /\ trail[i].hash.seq \in Int /\ trail[i].hash.seq >= 0
              /\ trail[i].hash.seq = 0 => trail[i].prev = Genesis
              /\ i # 1 => /\ i - 1 \in DOMAIN trail /\ trail[i - 1].hash.seq < trail[i].hash.seq
                          /\ trail[i].hash.seq = trail[i - 1].hash.seq + 1 => trail[i].prev = trail[i - 1].hash
              /\ trail[i].hash.seq <= chain.seq
              /\ trail[i].hash.seq = chain.seq => trail[i].hash = chain
         /\ chain.seq \in Int
<1>1. trail \in Seq(Records) /\ chain \in Hashes /\ chain.seq \in Int
  BY HashFacts DEF AuditInv, IInv, TypeOK
<1> SUFFICES ASSUME NEW i \in DOMAIN trail
             PROVE  /\ Parses(trail[i]) /\ trail[i].hash.seq \in Int /\ trail[i].hash.seq >= 0
                    /\ trail[i].hash.seq = 0 => trail[i].prev = Genesis
                    /\ i # 1 => /\ i - 1 \in DOMAIN trail /\ trail[i - 1].hash.seq < trail[i].hash.seq
                                /\ trail[i].hash.seq = trail[i - 1].hash.seq + 1 => trail[i].prev = trail[i - 1].hash
                    /\ trail[i].hash.seq <= chain.seq
                    /\ trail[i].hash.seq = chain.seq => trail[i].hash = chain
  BY <1>1
<1>2. i \in Lines /\ Parses(trail[i]) /\ trail[i].hash.seq \in Int
  BY <1>1, LineTypes DEF Lines
<1>3. trail[i].hash.seq >= 0 /\ (trail[i].hash.seq = 0 => trail[i].prev = Genesis)
  BY <1>2 DEF AuditInv, VerifyInv, Real
<1>4. trail[i].hash.seq <= chain.seq /\ (trail[i].hash.seq = chain.seq => trail[i].hash = chain)
  BY <1>2 DEF AuditInv, IInv, StateLeadsTrail
<1>5. ASSUME i # 1
      PROVE  /\ i - 1 \in DOMAIN trail /\ trail[i - 1].hash.seq < trail[i].hash.seq
             /\ trail[i].hash.seq = trail[i - 1].hash.seq + 1 => trail[i].prev = trail[i - 1].hash
  <2>1. i - 1 \in DOMAIN trail /\ i - 1 < i
    BY <1>1, <1>5
  <2>2. i - 1 \in Lines
    BY <2>1
  <2> QED  BY <1>2, <2>1, <2>2 DEF AuditInv, IInv, ChainNeverForks, NeighboursAreLinked
<1> QED  BY <1>2, <1>3, <1>4, <1>5

LEMMA QuietIsExact ==
  ASSUME AuditInv, VerifyTrail, ~ vbusy
  PROVE  LET complete == \A s \in 0 .. chain.seq : \E i \in Lines : trail[i].hash.seq = s
         IN  /\ report' = "tampered" => Lines # DOMAIN trail
             /\ report' = "ok" => complete \/ trail = <<>>
             /\ report' = "gaps" => ~ complete
             /\ report' = "empty" => ran = {}
<1> DEFINE complete == \A s \in 0 .. chain.seq : \E i \in Lines : trail[i].hash.seq = s
<1>1. report' = Verdict(there, trail, chain) /\ vstate = chain /\ trail \in Seq(Records)
  BY Verifies
<1>2. report' = "ok" => complete \/ trail = <<>>
  BY <1>1, OkCovers
<1>3. Genesis.seq = -1
  BY DEF Genesis
<1>4. ASSUME report' = "tampered", Lines = DOMAIN trail PROVE FALSE
  <2>1. (\E i \in DOMAIN trail : LineError(trail, i)) \/ HeadError(trail, chain)
    BY <1>1, <1>4 DEF Verdict
  <2>2. ASSUME NEW i \in DOMAIN trail PROVE ~ LineError(trail, i)
    <3>1. CASE i = 1
      BY <1>3, <1>4, <3>1, AllParse DEF LineError, Before
    <3>2. CASE i # 1
      <4>1. /\ trail[i - 1].hash.seq < trail[i].hash.seq /\ trail[i].hash.seq \in Int /\ trail[i - 1].hash.seq \in Int
            /\ trail[i].hash.seq = trail[i - 1].hash.seq + 1 => trail[i].prev = trail[i - 1].hash
            /\ Parses(trail[i])
        BY <1>4, <3>2, AllParse
      <4>2. Before(trail, i) = trail[i - 1].hash
        BY <3>2 DEF Before
      <4> QED  BY <4>1, <4>2 DEF LineError
    <3> QED  BY <3>1, <3>2
  <2>3. ~ HeadError(trail, chain)
    BY <1>4, AllParse DEF HeadError, HeadIndex
  <2> QED  BY <2>1, <2>2, <2>3
<1>5. ASSUME report' = "gaps", complete PROVE FALSE
  <2>1. /\ \A i \in DOMAIN trail : ~ LineError(trail, i)
        /\ (\E i \in DOMAIN trail : LineGap(trail, i)) \/ HeadGap(trail, chain)
    BY <1>1, <1>5 DEF Verdict
  <2>2. Lines = DOMAIN trail
    BY <2>1 DEF LineError, Lines
  <2>3. \A i \in DOMAIN trail : i \in Nat /\ i >= 1
    BY <1>1
  \* A line of a lower position comes before.
  <2>4. ASSUME NEW i \in DOMAIN trail, NEW j \in DOMAIN trail, trail[j].hash.seq < trail[i].hash.seq PROVE j < i
    <3>1. ~ (i < j)
      BY <2>2, <2>4, AllParse DEF AuditInv, IInv, ChainNeverForks
    <3>2. i # j
      BY <2>2, <2>4, AllParse
    <3> QED  BY <2>3, <3>1, <3>2
  <2>5. ASSUME NEW i \in DOMAIN trail, LineGap(trail, i) PROVE FALSE
    <3>1. trail[i].hash.seq > Before(trail, i).seq + 1
      BY <2>5 DEF LineGap
    <3>2. CASE i = 1
      <4>1. 0 \in 0 .. chain.seq /\ 0 < trail[i].hash.seq
        BY <1>3, <2>2, <3>1, <3>2, AllParse DEF Before
      <4>2. PICK j \in DOMAIN trail : trail[j].hash.seq = 0
        BY <1>5, <2>2, <4>1
      <4>3. j < i
        BY <2>4, <4>1, <4>2
      <4> QED  BY <2>3, <3>2, <4>3
    <3>3. CASE i # 1
      <4> DEFINE s == trail[i - 1].hash.seq + 1
      <4>1. /\ i - 1 \in DOMAIN trail /\ trail[i - 1].hash.seq \in Int /\ trail[i - 1].hash.seq >= 0
            /\ trail[i].hash.seq \in Int /\ trail[i].hash.seq <= chain.seq /\ chain.seq \in Int
        BY <2>2, <3>3, AllParse
      <4>2. s < trail[i].hash.seq /\ s \in 0 .. chain.seq
        BY <3>1, <3>3, <4>1 DEF Before
      <4>3. PICK j \in DOMAIN trail : trail[j].hash.seq = s
        BY <1>5, <2>2, <4>2
      <4>4. j < i
        BY <2>4, <4>2, <4>3
      <4>5. ~ (j < i - 1)
        <5>1. j < i - 1 => trail[j].hash.seq < trail[i - 1].hash.seq
          BY <2>2, <4>1 DEF AuditInv, IInv, ChainNeverForks
        <5> QED  BY <4>1, <4>3, <5>1
      <4>6. j = i - 1
        BY <2>3, <4>4, <4>5
      <4> QED  BY <4>1, <4>3, <4>6
    <3> QED  BY <3>2, <3>3
  <2>6. ASSUME HeadGap(trail, chain) PROVE FALSE
    <3>1. PICK i \in HeadIndex(trail) : chain.seq > trail[i].hash.seq
      BY <2>6 DEF HeadGap
    <3>2. i \in DOMAIN trail /\ \A j \in DOMAIN trail : ~ (j > i)
      BY <2>2, AllParse DEF HeadIndex
    <3>3. chain.seq \in 0 .. chain.seq
      BY <2>2, <3>1, <3>2, AllParse
    <3>4. PICK j \in DOMAIN trail : trail[j].hash.seq = chain.seq
      BY <1>5, <2>2, <3>3
    <3>5. i < j
      BY <2>4, <3>1, <3>2, <3>4
    <3> QED  BY <2>3, <3>2, <3>5
  <2> QED  BY <2>1, <2>5, <2>6
<1>6. report' = "empty" => ran = {}
  BY <1>1 DEF Verdict, AuditInv, IInv
<1> QED  BY <1>2, <1>4, <1>5, <1>6

-----------------------------------------------------------------------------
(* AuditTrail: the theorems.                                               *)

LEMMA Invariance == Spec => []AuditInv
BY AuditBegin, AuditKept, PTL DEF Spec

\* The variables of the trail, of its writers and of its verification keep their types.
THEOREM TypeCorrect == Spec => []TypeOK
<1>1. AuditInv => TypeOK
  BY DEF AuditInv, IInv
<1> QED  BY <1>1, Invariance, PTL

\* However appends fail, die or tear, in whatever order the writers come, no two
\* records of the trail have one position (append, under the lock).
THEOREM NeverForks == Spec => []ChainNeverForks
<1>1. AuditInv => ChainNeverForks
  BY DEF AuditInv, IInv
<1> QED  BY <1>1, Invariance, PTL

\* Records at neighbouring positions are linked: the later one holds the hash of
\* the earlier one (append).
THEOREM Linked == Spec => []NeighboursAreLinked
<1>1. AuditInv => NeighboursAreLinked
  BY DEF AuditInv, IInv
<1> QED  BY <1>1, Invariance, PTL

\* chain.json is never behind the trail: append saves it before it writes the line.
THEOREM StateLeads == Spec => []StateLeadsTrail
<1>1. AuditInv => StateLeadsTrail
  BY DEF AuditInv, IInv
<1> QED  BY <1>1, Invariance, PTL

\* A verification that no append overlaps says what happened: tampered only if a
\* line is torn; ok only if every position has its line, or if the trail was
\* created and nothing written to it; gaps only if a position has no line; empty
\* only if no append ever succeeded (verify_trail).
THEOREM QuietVerdicts == Spec => QuietVerdictIsExact
<1> DEFINE complete == \A s \in 0 .. chain.seq : \E i \in Lines : trail[i].hash.seq = s
           Exact    == VerifyTrail /\ ~ vbusy =>
                         /\ report' = "tampered" => Lines # DOMAIN trail
                         /\ report' = "ok" => complete \/ trail = <<>>
                         /\ report' = "gaps" => ~ complete
                         /\ report' = "empty" => ran = {}
<1>1. AuditInv => Exact
  BY QuietIsExact
<1> HIDE DEF Exact
<1>2. Spec => [][Exact]_vars
  BY <1>1, Invariance, PTL
<1> QED  BY <1>2 DEF Exact, QuietVerdictIsExact

\* A verification that says ok of a trail with a line has a line for every position
\* taken when it read the state, whatever is appended meanwhile (verify_trail).
THEOREM OkVerdicts == Spec => OkCoversTheChain
<1> DEFINE Covers == VerifyTrail /\ report' = "ok" /\ trail # <<>> =>
                       \A s \in 0 .. vstate.seq : \E i \in Lines : trail[i].hash.seq = s
<1>1. AuditInv => Covers
  BY OkCovers
<1> HIDE DEF Covers
<1>2. Spec => [][Covers]_vars
  BY <1>1, Invariance, PTL
<1> QED  BY <1>2 DEF Covers, OkCoversTheChain

-----------------------------------------------------------------------------
(* Notices: a line is shown once.                                          *)

\* A file is with one hook of the main agent at most, and not again once it was
\* read; the queue is with none.
HandlesInv ==
  /\ queue # None => queue \notin read /\ \A m \in Mains : handle[m] # queue
  /\ \A m, n \in Mains : handle[m] = handle[n] /\ handle[m] # None => m = n
  /\ \A m \in Mains :
       /\ npc[m] \in {"idle", "read", "show"}
       /\ npc[m] = "idle" => handle[m] = None /\ text[m] = {}
       /\ npc[m] = "read" => handle[m] \in No!Files /\ handle[m] \notin read /\ text[m] = {}
       /\ npc[m] = "show" => handle[m] \in read /\ text[m] \subseteq lines[handle[m]]

\* A line is in the file its hook opened, and nowhere else; that file is in the
\* queue, was taken, or was read.
LinesInv ==
  \A s \in Subs :
    /\ npc[s] \in {"idle", "write", "done"}
    /\ npc[s] # "idle" =>
         /\ handle[s] \in No!Files
         /\ handle[s] = queue \/ handle[s] \in read \/ \E m \in Mains : handle[m] = handle[s]
    /\ \A f \in No!Files : s \in lines[f] => npc[s] = "done" /\ handle[s] = f
    /\ npc[s] = "done" => s \in lines[handle[s]]

\* A line that was shown is with no hook any more.
ShownInv ==
  \A s \in Subs :
    /\ times[s] \in {0, 1}
    /\ times[s] = 1 => npc[s] = "done" /\ handle[s] \in read /\ \A m \in Mains : handle[m] # handle[s]

NoticesInv == No!TypeOK /\ HandlesInv /\ LinesInv /\ ShownInv /\ No!NoticeShownOnce

LEMMA NoticesBegin == No!Init => NoticesInv
BY PartsAssumption
DEF No!Init, NoticesInv, No!TypeOK, HandlesInv, LinesInv, ShownInv, No!NoticeShownOnce, No!Procs, No!Files, No!ConstantsOK

\* None is no file, and who queues does not take.
LEMMA Apart == None \notin No!Files /\ Subs \cap Mains = {} /\ No!Procs = Subs \cup Mains
BY PartsAssumption DEF No!Files, No!ConstantsOK, No!Procs

LEMMA NoticesQueue == ASSUME NoticesInv, NEW s \in Subs, No!OpenQueue(s) PROVE NoticesInv'
<1> USE DEF No!Procs
<1>1. /\ npc[s] = "idle" /\ npc' = [npc EXCEPT ![s] = "write"] /\ handle' = [handle EXCEPT ![s] = queue']
      /\ UNCHANGED <<lines, read, text, times, late>>
  BY DEF No!OpenQueue, No!Goto
<1>2. /\ queue' \in No!Files /\ queue' \notin read
      /\ (queue = None => \A h \in No!Procs : handle[h] # queue') /\ (queue # None => queue' = queue)
  <2>1. CASE queue # None
    BY <2>1 DEF No!OpenQueue, NoticesInv, No!TypeOK, HandlesInv
  <2>2. CASE queue = None
    <3>1. No!Created # No!Files /\ queue' = No!FreshFile
      BY <2>2 DEF No!OpenQueue
    <3>2. \E f \in No!Files : f \notin No!Created
      BY <3>1 DEF No!Created
    <3>3. No!FreshFile \in No!Files /\ No!FreshFile \notin No!Created
      BY <3>2 DEF No!FreshFile
    <3> QED  BY <2>2, <3>1, <3>3 DEF No!Created
  <2> QED  BY <2>1, <2>2
<1>3. \A m \in Mains : handle'[m] = handle[m] /\ npc'[m] = npc[m]
  BY <1>1, Apart DEF NoticesInv, No!TypeOK
<1>4. \A r \in Subs \ {s} : handle'[r] = handle[r] /\ npc'[r] = npc[r]
  BY <1>1 DEF NoticesInv, No!TypeOK
<1>5. handle'[s] = queue' /\ npc'[s] = "write"
  BY <1>1 DEF NoticesInv, No!TypeOK
<1>6. No!TypeOK'
  BY <1>1, <1>2 DEF NoticesInv, No!TypeOK
<1>7. \A m \in Mains : handle[m] # queue'
  BY <1>2, Apart DEF NoticesInv, HandlesInv
<1>8. HandlesInv'
  BY <1>1, <1>2, <1>3, <1>7 DEF NoticesInv, HandlesInv
<1>9. LinesInv'
  <2> SUFFICES ASSUME NEW r \in Subs
               PROVE /\ npc'[r] \in {"idle", "write", "done"}
                     /\ npc'[r] # "idle" =>
                          /\ handle'[r] \in No!Files
                          /\ handle'[r] = queue' \/ handle'[r] \in read \/ \E m \in Mains : handle'[m] = handle'[r]
                     /\ \A f \in No!Files : r \in lines[f] => npc'[r] = "done" /\ handle'[r] = f
                     /\ npc'[r] = "done" => r \in lines[handle'[r]]
    BY <1>1 DEF LinesInv
  <2>1. CASE r = s
    BY <1>1, <1>2, <1>5, <2>1 DEF NoticesInv, LinesInv
  <2>2. CASE r # s
    <3>1. handle'[r] = handle[r] /\ npc'[r] = npc[r]
      BY <1>4, <2>2
    <3>2. npc[r] # "idle" => handle[r] = queue' \/ handle[r] \in read \/ \E m \in Mains : handle[m] = handle[r]
      BY <1>2, Apart DEF NoticesInv, LinesInv
    <3> QED  BY <1>3, <3>1, <3>2 DEF NoticesInv, LinesInv
  <2> QED  BY <2>1, <2>2
<1>10. ShownInv'
  BY <1>1, <1>3, <1>4, <1>5 DEF NoticesInv, ShownInv
<1>11. No!NoticeShownOnce'
  BY <1>1, <1>2, <1>3, <1>4, <1>5, Apart DEF NoticesInv, No!NoticeShownOnce, LinesInv
<1> QED  BY <1>6, <1>8, <1>9, <1>10, <1>11 DEF NoticesInv

LEMMA NoticesWrite == ASSUME NoticesInv, NEW s \in Subs, No!WriteLine(s) PROVE NoticesInv'
<1> USE DEF No!Procs
<1>1. /\ npc[s] = "write" /\ npc' = [npc EXCEPT ![s] = "done"]
      /\ UNCHANGED <<queue, read, handle, text, times>>
      /\ late' = IF handle[s] \in read THEN late \cup {s} ELSE late
  BY DEF No!WriteLine, No!Goto
<1>2. handle[s] \in No!Files
  BY <1>1 DEF NoticesInv, LinesInv
<1>3. \A f \in No!Files : lines'[f] = IF f = handle[s] THEN lines[f] \cup {s} ELSE lines[f]
  BY DEF No!WriteLine, NoticesInv, No!TypeOK
<1>4. No!TypeOK'
  BY <1>1 DEF No!WriteLine, NoticesInv, No!TypeOK
<1>5. \A h \in No!Procs : npc'[h] = IF h = s THEN "done" ELSE npc[h]
  BY <1>1 DEF NoticesInv, No!TypeOK
<1>6. HandlesInv'
  <2>1. \A m \in Mains : npc'[m] = npc[m]
    BY <1>5, Apart
  <2>2. \A m \in Mains : npc[m] = "show" => text[m] \subseteq lines'[handle[m]]
    BY <1>3, ZenonT(40) DEF NoticesInv, HandlesInv, No!TypeOK
  <2> QED  BY <1>1, <2>1, <2>2 DEF NoticesInv, HandlesInv
<1>7. LinesInv'
  <2> SUFFICES ASSUME NEW r \in Subs
               PROVE /\ npc'[r] \in {"idle", "write", "done"}
                     /\ npc'[r] # "idle" =>
                          /\ handle[r] \in No!Files
                          /\ handle[r] = queue \/ handle[r] \in read \/ \E m \in Mains : handle[m] = handle[r]
                     /\ \A f \in No!Files : r \in lines'[f] => npc'[r] = "done" /\ handle[r] = f
                     /\ npc'[r] = "done" => r \in lines'[handle[r]]
    BY <1>1 DEF LinesInv
  <2>1. CASE r = s
    <3>1. npc'[r] = "done" /\ npc[r] = "write" /\ s \in lines'[handle[s]]
      BY <1>1, <1>2, <1>3, <1>5, <2>1
    <3>2. \A f \in No!Files : f # handle[s] => s \notin lines[f]
      BY <2>1, <3>1 DEF NoticesInv, LinesInv
    <3>3. handle[s] = queue \/ handle[s] \in read \/ \E m \in Mains : handle[m] = handle[s]
      BY <2>1, <3>1 DEF NoticesInv, LinesInv
    <3> QED  BY <1>2, <1>3, <2>1, <3>1, <3>2, <3>3
  <2>2. CASE r # s
    <3>1. npc'[r] = npc[r]
      BY <1>5, <2>2
    <3>2. \A f \in No!Files : (r \in lines'[f]) <=> (r \in lines[f])
      BY <1>3, <2>2
    <3>3. /\ npc[r] \in {"idle", "write", "done"}
          /\ npc[r] # "idle" =>
               /\ handle[r] \in No!Files
               /\ handle[r] = queue \/ handle[r] \in read \/ \E m \in Mains : handle[m] = handle[r]
          /\ \A f \in No!Files : r \in lines[f] => npc[r] = "done" /\ handle[r] = f
          /\ npc[r] = "done" => r \in lines[handle[r]]
      BY DEF NoticesInv, LinesInv
    <3> QED  BY <3>1, <3>2, <3>3
  <2> QED  BY <2>1, <2>2
<1>8. ShownInv'
  BY <1>1, <1>5 DEF NoticesInv, ShownInv
<1>9. No!NoticeShownOnce'
  <2> SUFFICES ASSUME NEW r \in Subs, npc'[r] = "done", times[r] = 0
               PROVE \/ handle[r] = queue
                     \/ \E m \in Mains : handle[m] = handle[r] /\ (npc'[m] = "read" \/ r \in text[m])
                     \/ r \in late'
    BY <1>1, <1>8 DEF No!NoticeShownOnce, ShownInv
  <2>1. \A m \in Mains : npc'[m] = npc[m]
    BY <1>5, Apart
  <2>2. CASE r # s
    BY <1>1, <1>5, <2>1, <2>2 DEF NoticesInv, No!NoticeShownOnce
  <2>3. CASE r = s /\ handle[s] \notin read /\ handle[s] # queue
    <3>1. PICK m \in Mains : handle[m] = handle[s]
      BY <1>1, <2>3 DEF NoticesInv, LinesInv
    <3>2. npc[m] = "read"
      BY <1>2, <2>3, <3>1, Apart DEF NoticesInv, HandlesInv
    <3> QED  BY <2>1, <2>3, <3>1, <3>2
  <2> QED  BY <1>1, <2>2, <2>3
<1> QED  BY <1>4, <1>6, <1>7, <1>8, <1>9 DEF NoticesInv

LEMMA NoticesTake == ASSUME NoticesInv, NEW m \in Mains, No!Take(m) PROVE NoticesInv'
<1> USE DEF No!Procs
<1>1. /\ npc[m] = "idle" /\ queue # None /\ npc' = [npc EXCEPT ![m] = "read"]
      /\ handle' = [handle EXCEPT ![m] = queue] /\ queue' = None
      /\ UNCHANGED <<lines, read, text, times, late>>
  BY DEF No!Take, No!Goto
<1>2. queue \in No!Files /\ queue \notin read /\ \A n \in Mains : handle[n] # queue
  BY <1>1 DEF NoticesInv, No!TypeOK, HandlesInv
<1>3. \A h \in No!Procs \ {m} : npc'[h] = npc[h] /\ handle'[h] = handle[h]
  BY <1>1 DEF NoticesInv, No!TypeOK
<1>4. npc'[m] = "read" /\ handle'[m] = queue /\ handle[m] = None /\ text[m] = {}
  BY <1>1 DEF NoticesInv, No!TypeOK, HandlesInv
<1>5. \A s \in Subs : npc'[s] = npc[s] /\ handle'[s] = handle[s]
  BY <1>3, Apart
<1>6. No!TypeOK'
  BY <1>1, <1>2 DEF NoticesInv, No!TypeOK
<1>7. HandlesInv'
  BY <1>1, <1>2, <1>3, <1>4, Apart DEF NoticesInv, HandlesInv
<1>8. LinesInv'
  <2>1. \A s \in Subs : npc[s] # "idle" => handle[s] \in read \/ \E n \in Mains : handle'[n] = handle[s]
    BY <1>3, <1>4, Apart DEF NoticesInv, LinesInv
  <2> QED  BY <1>1, <1>5, <2>1 DEF NoticesInv, LinesInv
<1>9. ShownInv'
  BY <1>1, <1>2, <1>3, <1>4, <1>5 DEF NoticesInv, ShownInv
<1>10. No!NoticeShownOnce'
  <2> SUFFICES ASSUME NEW s \in Subs, npc[s] = "done", times[s] = 0
               PROVE \/ \E n \in Mains : handle'[n] = handle[s] /\ (npc'[n] = "read" \/ s \in text[n])
                     \/ s \in late
    BY <1>1, <1>5, <1>9 DEF No!NoticeShownOnce, ShownInv
  <2>1. CASE handle[s] = queue
    BY <1>4, <2>1
  <2>2. CASE \E n \in Mains : handle[n] = handle[s] /\ (npc[n] = "read" \/ s \in text[n])
    BY <1>1, <1>3, <1>4, <2>2
  <2> QED  BY <2>1, <2>2 DEF NoticesInv, No!NoticeShownOnce
<1> QED  BY <1>6, <1>7, <1>8, <1>9, <1>10 DEF NoticesInv

LEMMA NoticesRead == ASSUME NoticesInv, NEW m \in Mains, No!ReadTaken(m) PROVE NoticesInv'
<1> USE DEF No!Procs
<1>1. /\ npc[m] = "read" /\ npc' = [npc EXCEPT ![m] = "show"]
      /\ text' = [text EXCEPT ![m] = lines[handle[m]]] /\ read' = read \cup {handle[m]}
      /\ UNCHANGED <<queue, lines, handle, times, late>>
  BY DEF No!ReadTaken, No!Goto
<1>2. handle[m] \in No!Files /\ lines[handle[m]] \subseteq Subs
  BY <1>1 DEF NoticesInv, No!TypeOK, HandlesInv
<1>3. /\ npc'[m] = "show" /\ \A h \in No!Procs \ {m} : npc'[h] = npc[h]
      /\ text'[m] = lines[handle[m]] /\ \A n \in Mains \ {m} : text'[n] = text[n]
  BY <1>1 DEF NoticesInv, No!TypeOK
<1>4. No!TypeOK'
  BY <1>1, <1>2 DEF NoticesInv, No!TypeOK
<1>5. \A s \in Subs : npc'[s] = npc[s]
  BY <1>3, Apart
<1>6. HandlesInv'
  BY <1>1, <1>2, <1>3, Apart DEF NoticesInv, HandlesInv
<1>7. LinesInv'
  BY <1>1, <1>5 DEF NoticesInv, LinesInv
<1>8. ShownInv'
  BY <1>1, <1>5 DEF NoticesInv, ShownInv
<1>9. No!NoticeShownOnce'
  <2> SUFFICES ASSUME NEW s \in Subs, npc[s] = "done", times[s] = 0
               PROVE \/ handle[s] = queue
                     \/ \E n \in Mains : handle[n] = handle[s] /\ (npc'[n] = "read" \/ s \in text'[n])
                     \/ s \in late
    BY <1>1, <1>5, <1>8 DEF No!NoticeShownOnce, ShownInv
  <2>1. CASE \E n \in Mains : handle[n] = handle[s] /\ (npc[n] = "read" \/ s \in text[n])
    <3>1. PICK n \in Mains : handle[n] = handle[s] /\ (npc[n] = "read" \/ s \in text[n])
      BY <2>1
    <3>2. CASE n = m
      <4>1. s \in lines[handle[s]]
        BY DEF NoticesInv, LinesInv
      <4> QED  BY <1>3, <3>1, <3>2, <4>1
    <3>3. CASE n # m
      BY <1>3, <3>1, <3>3
    <3> QED  BY <3>2, <3>3
  <2> QED  BY <2>1 DEF NoticesInv, No!NoticeShownOnce
<1> QED  BY <1>4, <1>6, <1>7, <1>8, <1>9 DEF NoticesInv

LEMMA NoticesShow == ASSUME NoticesInv, NEW m \in Mains, No!Show(m) PROVE NoticesInv'
<1> USE DEF No!Procs
<1>1. /\ npc[m] = "show" /\ npc' = [npc EXCEPT ![m] = "idle"]
      /\ text' = [text EXCEPT ![m] = {}] /\ handle' = [handle EXCEPT ![m] = None]
      /\ UNCHANGED <<queue, lines, read, late>>
  BY DEF No!Show, No!Goto
<1>2. \A s \in Subs : times'[s] = IF s \in text[m] THEN times[s] + 1 ELSE times[s]
  BY DEF No!Show
<1>3. /\ npc'[m] = "idle" /\ handle'[m] = None /\ text'[m] = {}
      /\ \A h \in No!Procs \ {m} : npc'[h] = npc[h] /\ handle'[h] = handle[h]
      /\ \A n \in Mains \ {m} : text'[n] = text[n]
  BY <1>1 DEF NoticesInv, No!TypeOK
<1>4. \A s \in Subs : npc'[s] = npc[s] /\ handle'[s] = handle[s]
  BY <1>3, Apart
<1>5. handle[m] \in read /\ handle[m] \in No!Files /\ text[m] \subseteq lines[handle[m]]
  BY <1>1 DEF NoticesInv, No!TypeOK, HandlesInv
<1>6. \A s \in Subs : s \in text[m] => npc[s] = "done" /\ handle[s] = handle[m] /\ times[s] = 0
  BY <1>5 DEF NoticesInv, LinesInv, ShownInv
<1>7. \A n \in Mains \ {m} : handle[n] # handle[m]
  BY <1>5, Apart DEF NoticesInv, HandlesInv
<1>8. No!TypeOK'
  <2>1. \A s \in Subs : times'[s] \in Nat
    BY <1>2 DEF NoticesInv, No!TypeOK
  <2> QED  BY <1>1, <2>1 DEF NoticesInv, No!TypeOK
<1>9. HandlesInv'
  BY <1>1, <1>3, Apart DEF NoticesInv, HandlesInv
<1>10. LinesInv'
  <2>1. \A s \in Subs : npc[s] # "idle" => handle[s] = queue \/ handle[s] \in read \/ \E n \in Mains : handle'[n] = handle[s]
    BY <1>3, <1>5 DEF NoticesInv, LinesInv
  <2> QED  BY <1>1, <1>4, <2>1 DEF NoticesInv, LinesInv
<1>11. ShownInv'
  <2> SUFFICES ASSUME NEW s \in Subs
               PROVE /\ times'[s] \in {0, 1}
                     /\ times'[s] = 1 => npc[s] = "done" /\ handle[s] \in read /\ \A n \in Mains : handle'[n] # handle[s]
    BY <1>1, <1>4 DEF ShownInv
  <2>1. CASE s \in text[m]
    BY <1>2, <1>3, <1>5, <1>6, <1>7, <2>1, Apart
  <2>2. CASE s \notin text[m]
    <3>1. times'[s] = times[s]
      BY <1>2, <2>2
    <3>2. npc[s] = "done" => handle[s] \in No!Files
      BY DEF NoticesInv, LinesInv
    <3> QED  BY <1>3, <3>1, <3>2, Apart DEF NoticesInv, ShownInv
  <2> QED  BY <2>1, <2>2
<1>12. No!NoticeShownOnce'
  <2> SUFFICES ASSUME NEW s \in Subs, npc[s] = "done", times'[s] = 0
               PROVE \/ handle[s] = queue
                     \/ \E n \in Mains : handle'[n] = handle[s] /\ (npc'[n] = "read" \/ s \in text'[n])
                     \/ s \in late
    BY <1>1, <1>4, <1>11 DEF No!NoticeShownOnce, ShownInv
  <2>1. s \notin text[m] /\ times[s] = 0
    BY <1>2, <1>6 DEF NoticesInv, ShownInv
  <2>2. \A n \in Mains : handle[n] = handle[s] /\ (npc[n] = "read" \/ s \in text[n]) => n # m
    BY <1>1, <2>1
  <2> QED  BY <1>3, <2>1, <2>2 DEF NoticesInv, No!NoticeShownOnce
<1> QED  BY <1>8, <1>9, <1>10, <1>11, <1>12 DEF NoticesInv

LEMMA NoticesKept == NoticesInv /\ [No!Next]_noticesVars => NoticesInv'
<1> SUFFICES ASSUME NoticesInv, [No!Next]_noticesVars PROVE NoticesInv'
  OBVIOUS
<1>1. CASE UNCHANGED noticesVars
  BY <1>1 DEF noticesVars, NoticesInv, No!TypeOK, HandlesInv, LinesInv, ShownInv, No!NoticeShownOnce
<1>2. CASE No!Next
  BY <1>2, NoticesQueue, NoticesWrite, NoticesTake, NoticesRead, NoticesShow DEF No!Next
<1> QED  BY <1>1, <1>2

-----------------------------------------------------------------------------
(* Unlock: a window dies with its password.                                *)

Recording == {"record", "recording"}
Granting  == {"empty", "fill"}
Writing   == {"recording", "storing", "fill"}
Elsewhere == {"idle", "verify", "attempt", "store", "storing", "open", "forget"}

\* What a person, and a hook, holds at each place.
PersonFits(l, r) == \/ l \in Elsewhere /\ r = None
                    \/ l \in Recording /\ r \in Un!Creds
                    \/ l \in Granting /\ r \in Un!Grants
HookFits(l, r)   == \/ l \in {"idle", "heal", "open"} /\ r \in Un!Grants \cup {None}
                    \/ l = "key" /\ r \in Un!Grants

PlacesInv ==
  /\ DOMAIN upc = Un!Procs /\ DOMAIN copy = Un!Procs
  /\ upc = [p \in Un!Procs |-> upc[p]] /\ copy = [p \in Un!Procs |-> copy[p]]
  /\ \A p \in People : PersonFits(upc[p], copy[p])
  /\ \A h \in Hooks : HookFits(upc[h], copy[h])
  /\ orphans \subseteq {p \in People : upc[p] \in Writing}

\* The credential on disk is the one in force, unless an attempt wrote an older one
\* back.
FilesInv ==
  /\ cred \in Un!Creds \cup {None} /\ grant \in Un!Grants \cup {None}
  /\ barred \in BOOLEAN /\ now \in 0 .. MaxTime /\ sets \in 0 .. MaxSets
  /\ restored \/ cred = None \/ cred.id = latest

UnlockInv == PlacesInv /\ FilesInv

LEMMA UnlockBegin == Un!Init => UnlockInv
<1> SUFFICES ASSUME Un!Init PROVE UnlockInv
  OBVIOUS
<1>1. /\ upc = [p \in Un!Procs |-> "idle"] /\ copy = [p \in Un!Procs |-> None] /\ orphans = {}
      /\ People \subseteq Un!Procs /\ Hooks \subseteq Un!Procs
  BY DEF Un!Init, Un!Procs
<1>2. PersonFits("idle", None) /\ HookFits("idle", None)
  BY DEF PersonFits, HookFits, Elsewhere
<1>3. (\A p \in People : PersonFits(upc[p], copy[p])) /\ \A h \in Hooks : HookFits(upc[h], copy[h])
  BY <1>1, <1>2
<1>4. DOMAIN upc = Un!Procs /\ DOMAIN copy = Un!Procs
  BY <1>1
<1>5. upc = [p \in Un!Procs |-> upc[p]] /\ copy = [p \in Un!Procs |-> copy[p]]
  BY <1>1
<1>6. PlacesInv
  BY <1>1, <1>3, <1>4, <1>5 DEF PlacesInv
<1>7. FilesInv
  <2>1. /\ cred = None /\ grant = None /\ barred = FALSE /\ now = 0 /\ sets = 0
        /\ MaxTime \in Nat /\ MaxSets \in Nat
    BY PartsAssumption DEF Un!Init, Un!ConstantsOK
  <2>2. now \in 0 .. MaxTime /\ sets \in 0 .. MaxSets
    BY <2>1
  <2> QED  BY <2>1, <2>2 DEF FilesInv
<1> QED  BY <1>6, <1>7 DEF UnlockInv

\* A person moves, and nobody else.
LEMMA PersonMoves ==
  ASSUME PlacesInv, NEW p \in People, NEW l, NEW r, PersonFits(l, r),
         upc' = [upc EXCEPT ![p] = l], copy' = [copy EXCEPT ![p] = r],
         orphans' \subseteq {q \in People : upc[q] \in Writing},
         p \in orphans' => l \in Writing
  PROVE  PlacesInv' /\ \A h \in Hooks : upc'[h] = upc[h]
<1>1. p \in Un!Procs /\ People \cap Hooks = {} /\ People \subseteq Un!Procs /\ Hooks \subseteq Un!Procs
  BY PartsAssumption DEF Un!Procs, Un!ConstantsOK
<1>2. \A q \in Un!Procs : upc'[q] = (IF q = p THEN l ELSE upc[q]) /\ copy'[q] = (IF q = p THEN r ELSE copy[q])
  BY <1>1 DEF PlacesInv
<1>3. /\ DOMAIN upc' = Un!Procs /\ DOMAIN copy' = Un!Procs
      /\ upc' = [q \in Un!Procs |-> upc'[q]] /\ copy' = [q \in Un!Procs |-> copy'[q]]
  BY DEF PlacesInv
<1>4. \A q \in People : PersonFits(upc'[q], copy'[q])
  <2> SUFFICES ASSUME NEW q \in People PROVE PersonFits(upc'[q], copy'[q])
    OBVIOUS
  <2>1. CASE q = p
    BY <1>1, <1>2, <2>1 DEF PersonFits
  <2>2. CASE q # p
    <3>1. upc'[q] = upc[q] /\ copy'[q] = copy[q]
      BY <1>1, <1>2, <2>2
    <3> QED  BY <3>1 DEF PlacesInv, PersonFits
  <2> QED  BY <2>1, <2>2
<1>5. \A h \in Hooks : upc'[h] = upc[h] /\ copy'[h] = copy[h]
  BY <1>1, <1>2
<1>6. \A h \in Hooks : HookFits(upc'[h], copy'[h])
  BY <1>5 DEF PlacesInv, HookFits
<1>7. orphans' \subseteq {q \in People : upc'[q] \in Writing}
  BY <1>1, <1>2
<1> QED  BY <1>3, <1>4, <1>5, <1>6, <1>7 DEF PlacesInv

\* A hook moves, and nobody else.
LEMMA HookMoves ==
  ASSUME PlacesInv, NEW h \in Hooks, NEW l, NEW r, HookFits(l, r),
         upc' = [upc EXCEPT ![h] = l], copy' = [copy EXCEPT ![h] = r],
         orphans' \subseteq {q \in People : upc[q] \in Writing}
  PROVE  PlacesInv' /\ upc'[h] = l /\ \A g \in Hooks \ {h} : upc'[g] = upc[g]
<1>1. h \in Un!Procs /\ People \cap Hooks = {} /\ People \subseteq Un!Procs /\ Hooks \subseteq Un!Procs
  BY PartsAssumption DEF Un!Procs, Un!ConstantsOK
<1>2. \A q \in Un!Procs : upc'[q] = (IF q = h THEN l ELSE upc[q]) /\ copy'[q] = (IF q = h THEN r ELSE copy[q])
  BY <1>1 DEF PlacesInv
<1>3. /\ DOMAIN upc' = Un!Procs /\ DOMAIN copy' = Un!Procs
      /\ upc' = [q \in Un!Procs |-> upc'[q]] /\ copy' = [q \in Un!Procs |-> copy'[q]]
  BY DEF PlacesInv
<1>4. \A q \in People : upc'[q] = upc[q] /\ copy'[q] = copy[q]
  BY <1>1, <1>2
<1>5. \A q \in People : PersonFits(upc'[q], copy'[q])
  BY <1>4 DEF PlacesInv, PersonFits
<1>6. \A g \in Hooks : HookFits(upc'[g], copy'[g])
  <2> SUFFICES ASSUME NEW g \in Hooks PROVE HookFits(upc'[g], copy'[g])
    OBVIOUS
  <2>1. CASE g = h
    BY <1>1, <1>2, <2>1 DEF HookFits
  <2>2. CASE g # h
    <3>1. upc'[g] = upc[g] /\ copy'[g] = copy[g]
      BY <1>1, <1>2, <2>2
    <3> QED  BY <3>1 DEF PlacesInv, HookFits
  <2> QED  BY <2>1, <2>2
<1>7. orphans' \subseteq {q \in People : upc'[q] \in Writing}
  BY <1>4
<1>8. upc'[h] = l /\ \A g \in Hooks \ {h} : upc'[g] = upc[g]
  BY <1>1, <1>2
<1> QED  BY <1>3, <1>5, <1>6, <1>7, <1>8 DEF PlacesInv

\* What a step does to the hooks: none finds a window open but with the key in force.
Earned == \A h \in Hooks : (upc[h] = "key" /\ upc'[h] = "open") => restored \/ copy[h].key = latest

LEMMA StillEarned == ASSUME \A h \in Hooks : upc'[h] = upc[h] PROVE Earned
BY DEF Earned

\* What a place says of the record held there, of a process that moves or stays.
LEMMA PersonAt ==
  ASSUME PlacesInv, NEW p \in People
  PROVE  /\ PersonFits(upc[p], copy[p])
         /\ copy = [copy EXCEPT ![p] = copy[p]]
         /\ upc[p] \in Elsewhere => copy[p] = None
         /\ upc[p] \in Recording => copy[p] \in Un!Creds
         /\ upc[p] \in Granting => copy[p] \in Un!Grants
         /\ upc[p] \notin Writing => p \notin orphans
         /\ orphans \subseteq {q \in People : upc[q] \in Writing}
<1>1. PersonFits(upc[p], copy[p]) /\ orphans \subseteq {q \in People : upc[q] \in Writing}
  BY DEF PlacesInv
<1>2. copy = [copy EXCEPT ![p] = copy[p]]
  BY DEF PlacesInv
<1> QED  BY <1>1, <1>2 DEF PersonFits, Elsewhere, Recording, Granting

\* The commands that touch no file.
LEMMA UnlockCommands ==
  ASSUME UnlockInv, NEW p \in People,
         Un!BeginUnlock(p) \/ Un!BeginSet(p) \/ Un!Turned(p) \/ Un!Compare(p) \/ Un!ReadAttempt(p) \/ Un!Open(p)
  PROVE  UnlockInv' /\ Earned
<1>1. PlacesInv
  BY DEF UnlockInv
<1>2. FilesInv' /\ orphans' = orphans
  BY DEF UnlockInv, FilesInv, Un!BeginUnlock, Un!BeginSet, Un!Turned, Un!Compare, Un!ReadAttempt, Un!Open, Un!filev, Un!histv
<1>3. upc[p] \in Elsewhere \ Writing
  BY DEF Un!BeginUnlock, Un!BeginSet, Un!Turned, Un!Compare, Un!ReadAttempt, Un!Open, Elsewhere, Writing
<1>4. \E l, r : /\ upc' = [upc EXCEPT ![p] = l] /\ copy' = [copy EXCEPT ![p] = r]
                /\ PersonFits(l, r)
  <2>1. CASE Un!BeginUnlock(p) \/ Un!BeginSet(p) \/ Un!Compare(p)
    <3>1. copy' = [copy EXCEPT ![p] = None]
      BY <1>1, <1>3, <2>1, PersonAt DEF Un!BeginUnlock, Un!BeginSet, Un!Compare
    <3>2. PICK l \in {"verify", "store", "attempt"} : upc' = [upc EXCEPT ![p] = l]
      BY <2>1 DEF Un!BeginUnlock, Un!BeginSet, Un!Compare, Un!Goto
    <3>3. PersonFits(l, None)
      BY DEF PersonFits, Elsewhere
    <3> QED  BY <3>1, <3>2, <3>3
  <2>2. CASE Un!Turned(p)
    BY <2>2 DEF Un!Turned, Un!End, Un!Goto, Un!Keep, PersonFits, Elsewhere
  <2>3. CASE Un!ReadAttempt(p)
    <3>1. CASE cred = None
      <4>1. Un!Go(p)
        BY <2>3, <3>1 DEF Un!ReadAttempt
      <4>2. PICK l \in {"open", "store", "idle"} : upc' = [upc EXCEPT ![p] = l] /\ copy' = [copy EXCEPT ![p] = None]
        BY <4>1 DEF Un!Go, Un!Goto, Un!Keep, Un!End
      <4>3. PersonFits(l, None)
        BY DEF PersonFits, Elsewhere
      <4> QED  BY <4>2, <4>3
    <3>2. CASE cred # None
      <4>1. upc' = [upc EXCEPT ![p] = "record"] /\ copy' = [copy EXCEPT ![p] = Un!Attempted(cred, cmd[p])]
        BY <2>3, <3>2 DEF Un!ReadAttempt, Un!Goto, Un!Keep
      <4>2. cred \in Un!Creds /\ now \in 0 .. MaxTime
        BY <3>2 DEF UnlockInv, FilesInv
      <4>3. /\ cred.id \in 1 .. MaxSets /\ cred.failed \in 0 .. FreeAttempts + 1 /\ cred.until \in 0 .. MaxTime + Lockout
            /\ FreeAttempts \in Nat /\ Lockout \in Nat /\ MaxTime \in Nat
        BY <4>2, PartsAssumption DEF Un!Creds, Un!ConstantsOK
      <4>4. Un!Attempted(cred, cmd[p]) \in Un!Creds
        BY <4>2, <4>3 DEF Un!Attempted, Un!Creds
      <4>5. PersonFits("record", Un!Attempted(cred, cmd[p]))
        BY <4>4 DEF PersonFits, Recording
      <4> QED  BY <4>1, <4>5
    <3> QED  BY <3>1, <3>2
  <2>4. CASE Un!Open(p)
    <3> DEFINE g == [key |-> IF cred = None THEN None ELSE cred.id, until |-> now + Window]
    <3>1. upc' = [upc EXCEPT ![p] = "empty"] /\ copy' = [copy EXCEPT ![p] = g]
      BY <2>4 DEF Un!Open, Un!Goto, Un!Keep
    <3>2. now \in 0 .. MaxTime /\ Window \in Nat /\ MaxTime \in Nat /\ (cred # None => cred.id \in 1 .. MaxSets)
      BY PartsAssumption DEF UnlockInv, FilesInv, Un!Creds, Un!ConstantsOK
    <3>3. g \in Un!Grants
      BY <3>2 DEF Un!Grants
    <3>4. PersonFits("empty", g)
      BY <3>3 DEF PersonFits, Granting
    <3> QED  BY <3>1, <3>4
  <2> QED  BY <2>1, <2>2, <2>3, <2>4
<1>5. PICK l, r : upc' = [upc EXCEPT ![p] = l] /\ copy' = [copy EXCEPT ![p] = r] /\ PersonFits(l, r)
  BY <1>4
<1>6. p \notin orphans' /\ orphans' \subseteq {q \in People : upc[q] \in Writing}
  BY <1>1, <1>2, <1>3, PersonAt
<1>7. PlacesInv' /\ \A h \in Hooks : upc'[h] = upc[h]
  BY <1>1, <1>5, <1>6, PersonMoves
<1> QED  BY <1>2, <1>7, StillEarned DEF UnlockInv

\* A file is emptied.
LEMMA UnlockEmpties ==
  ASSUME UnlockInv, NEW p \in People,
         Un!EmptyRecord(p) \/ Un!EmptyStore(p) \/ Un!EmptyGrant(p)
  PROVE  UnlockInv' /\ Earned
<1>1. PlacesInv
  BY DEF UnlockInv
<1>2. FilesInv' /\ orphans' = orphans
  BY DEF UnlockInv, FilesInv, Un!EmptyRecord, Un!EmptyStore, Un!EmptyGrant, Un!histv
<1>3. copy' = [copy EXCEPT ![p] = copy[p]]
  BY <1>1, PersonAt DEF Un!EmptyRecord, Un!EmptyStore, Un!EmptyGrant
<1>4. PICK l \in Writing : upc' = [upc EXCEPT ![p] = l] /\ PersonFits(l, copy[p])
  <2>1. CASE Un!EmptyRecord(p)
    <3>1. copy[p] \in Un!Creds
      BY <1>1, <2>1, PersonAt DEF Un!EmptyRecord, Recording
    <3> QED  BY <2>1, <3>1 DEF Un!EmptyRecord, Un!Goto, PersonFits, Recording, Writing
  <2>2. CASE Un!EmptyStore(p)
    <3>1. copy[p] = None
      BY <1>1, <2>2, PersonAt DEF Un!EmptyStore, Elsewhere
    <3> QED  BY <2>2, <3>1 DEF Un!EmptyStore, Un!Goto, PersonFits, Elsewhere, Writing
  <2>3. CASE Un!EmptyGrant(p)
    <3>1. copy[p] \in Un!Grants
      BY <1>1, <2>3, PersonAt DEF Un!EmptyGrant, Granting
    <3> QED  BY <2>3, <3>1 DEF Un!EmptyGrant, Un!Goto, PersonFits, Granting, Writing
  <2> QED  BY <2>1, <2>2, <2>3
<1>5. PlacesInv' /\ \A h \in Hooks : upc'[h] = upc[h]
  BY <1>1, <1>2, <1>3, <1>4, PersonAt, PersonMoves
<1> QED  BY <1>2, <1>5, StillEarned DEF UnlockInv

\* A file is filled.
LEMMA UnlockFills ==
  ASSUME UnlockInv, NEW p \in People,
         Un!FillRecord(p) \/ Un!FillStore(p) \/ Un!FillGrant(p)
  PROVE  UnlockInv' /\ Earned
<1>1. PlacesInv
  BY DEF UnlockInv
<1>2. orphans' = orphans \ {p}
  BY DEF Un!FillRecord, Un!FillStore, Un!FillGrant, Un!Fill
<1>3. FilesInv'
  <2>1. CASE Un!FillRecord(p)
    <3>1. copy[p] \in Un!Creds
      BY <1>1, <2>1, PersonAt DEF Un!FillRecord, Recording
    <3>2. /\ cred' \in {cred, copy[p], None} /\ restored' = (restored \/ (cred' = copy[p] /\ copy[p].id # latest))
          /\ UNCHANGED <<grant, barred, now, sets, latest>>
      BY <2>1 DEF Un!FillRecord, Un!Fill
    <3> QED  BY <3>1, <3>2 DEF UnlockInv, FilesInv
  <2>2. CASE Un!FillStore(p)
    <3> DEFINE c == [id |-> sets', failed |-> 0, until |-> 0]
    <3>1. /\ sets < MaxSets /\ sets' = sets + 1 /\ UNCHANGED <<grant, barred, now, restored>>
          /\ IF p \in orphans THEN cred' = cred /\ latest' = latest ELSE cred' \in {c, None} /\ latest' = sets'
      BY <2>2 DEF Un!FillStore, Un!Fill
    <3>2. sets' \in 1 .. MaxSets /\ c \in Un!Creds
      BY <3>1, PartsAssumption DEF UnlockInv, FilesInv, Un!Creds, Un!ConstantsOK
    <3> QED  BY <3>1, <3>2 DEF UnlockInv, FilesInv
  <2>3. CASE Un!FillGrant(p)
    <3>1. copy[p] \in Un!Grants
      BY <1>1, <2>3, PersonAt DEF Un!FillGrant, Granting
    <3>2. grant' \in {grant, copy[p], None} /\ UNCHANGED <<cred, barred, now, sets, latest, restored>>
      BY <2>3 DEF Un!FillGrant, Un!Fill, Un!histv
    <3> QED  BY <3>1, <3>2 DEF UnlockInv, FilesInv
  <2> QED  BY <2>1, <2>2, <2>3
<1>4. PICK l \in {"open", "store", "idle"} : upc' = [upc EXCEPT ![p] = l] /\ copy' = [copy EXCEPT ![p] = None]
  BY DEF Un!FillRecord, Un!FillStore, Un!FillGrant, Un!Go, Un!Goto, Un!Keep, Un!End
<1>5. PersonFits(l, None)
  BY DEF PersonFits, Elsewhere
<1>6. PlacesInv' /\ \A h \in Hooks : upc'[h] = upc[h]
  BY <1>1, <1>2, <1>4, <1>5, PersonAt, PersonMoves
<1> QED  BY <1>3, <1>6, StillEarned DEF UnlockInv

\* A file is removed, by a person or by a hook that finds the grant too old.
LEMMA UnlockRemoves ==
  ASSUME UnlockInv, NEW p \in People, Un!Lock(p) \/ Un!Forget(p) \/ Un!Forgotten(p)
  PROVE  UnlockInv' /\ Earned
<1>1. PlacesInv
  BY DEF UnlockInv
<1>2. FilesInv'
  BY DEF UnlockInv, FilesInv, Un!Lock, Un!Forget, Un!Forgotten, Un!RemoveGrant, Un!histv
<1>3. /\ upc[p] \in Elsewhere \ Writing
      /\ orphans' \in {orphans \cup {q \in People : upc[q] = "fill"}, orphans \cup {q \in People : upc[q] \in {"recording", "storing"}}}
  BY DEF Un!Lock, Un!Forget, Un!Forgotten, Un!RemoveGrant, Elsewhere, Writing
<1>4. copy[p] = None /\ p \notin orphans /\ orphans \subseteq {q \in People : upc[q] \in Writing}
  BY <1>1, <1>3, PersonAt
<1>5. orphans' \subseteq {q \in People : upc[q] \in Writing} /\ p \notin orphans'
  BY <1>3, <1>4 DEF Writing
<1>6. PICK l \in {"idle", "forget"} : upc' = [upc EXCEPT ![p] = l] /\ copy' = [copy EXCEPT ![p] = None]
  <2>1. CASE Un!Lock(p)
    <3>1. upc[p] = "idle" /\ upc' = upc /\ copy' = copy
      BY <2>1 DEF Un!Lock
    <3>2. upc = [upc EXCEPT ![p] = "idle"]
      BY <1>1, <3>1 DEF PlacesInv
    <3> QED  BY <1>1, <1>4, <3>1, <3>2, PersonAt
  <2>2. CASE Un!Forget(p)
    BY <1>1, <1>4, <2>2, PersonAt DEF Un!Forget, Un!Goto
  <2>3. CASE Un!Forgotten(p)
    BY <2>3 DEF Un!Forgotten, Un!End, Un!Goto, Un!Keep
  <2> QED  BY <2>1, <2>2, <2>3
<1>7. PersonFits(l, None)
  BY DEF PersonFits, Elsewhere
<1>8. PlacesInv' /\ \A h \in Hooks : upc'[h] = upc[h]
  BY <1>1, <1>5, <1>6, <1>7, PersonMoves
<1> QED  BY <1>2, <1>8, StillEarned DEF UnlockInv

\* A hook asks: the only step that finds a window open is Decide, with a grant whose
\* key is the credential on disk.
LEMMA UnlockHooks ==
  ASSUME UnlockInv, NEW h \in Hooks, Un!Look(h) \/ Un!Heal(h) \/ Un!Decide(h)
  PROVE  UnlockInv' /\ Earned
<1>1. PlacesInv /\ HookFits(upc[h], copy[h]) /\ orphans \subseteq {q \in People : upc[q] \in Writing}
  BY DEF UnlockInv, PlacesInv
<1>2. FilesInv' /\ UNCHANGED <<cred, latest, restored>>
  BY DEF UnlockInv, FilesInv, Un!Look, Un!Heal, Un!Decide, Un!RemoveGrant, Un!filev, Un!histv
<1>3. orphans' \subseteq {q \in People : upc[q] \in Writing}
  BY <1>1 DEF Un!Look, Un!Heal, Un!Decide, Un!RemoveGrant, Un!filev, Writing
<1>4. copy[h] \in Un!Grants \cup {None} /\ copy = [copy EXCEPT ![h] = copy[h]]
  <2>1. copy = [copy EXCEPT ![h] = copy[h]]
    BY <1>1 DEF PlacesInv
  <2> QED  BY <1>1, <2>1 DEF HookFits
<1>5. \E l, r : /\ upc' = [upc EXCEPT ![h] = l] /\ copy' = [copy EXCEPT ![h] = r] /\ HookFits(l, r)
                /\ (upc[h] = "key" /\ l = "open") => restored \/ copy[h].key = latest
  <2>1. CASE Un!Look(h)
    <3>0. upc[h] # "key"
      BY <2>1 DEF Un!Look
    <3>1. CASE barred \/ grant = None
      <4>1. upc' = [upc EXCEPT ![h] = "idle"] /\ copy' = [copy EXCEPT ![h] = copy[h]]
        BY <1>4, <2>1, <3>1 DEF Un!Look, Un!Goto
      <4>2. HookFits("idle", copy[h])
        BY <1>4 DEF HookFits
      <4> QED  BY <3>0, <4>1, <4>2
    <3>2. CASE ~ (barred \/ grant = None)
      <4>1. PICK l \in {"heal", "key"} : upc' = [upc EXCEPT ![h] = l] /\ copy' = [copy EXCEPT ![h] = grant]
        BY <2>1, <3>2 DEF Un!Look, Un!Goto, Un!Keep
      <4>2. HookFits(l, grant)
        BY <3>2 DEF UnlockInv, FilesInv, HookFits
      <4> QED  BY <3>0, <4>1, <4>2
    <3> QED  BY <3>1, <3>2
  <2>2. CASE Un!Heal(h)
    <3>1. HookFits("idle", None)
      BY DEF HookFits
    <3> QED  BY <2>2, <3>1 DEF Un!Heal, Un!Goto, Un!Keep
  <2>3. CASE Un!Decide(h)
    <3>1. HookFits("idle", None) /\ HookFits("open", None)
      BY DEF HookFits
    <3>2. CASE Un!KeyFits(copy[h])
      <4>1. upc' = [upc EXCEPT ![h] = "open"] /\ copy' = [copy EXCEPT ![h] = None]
        BY <2>3, <3>2 DEF Un!Decide, Un!Goto, Un!Keep
      <4>2. restored \/ copy[h].key = latest
        BY <3>2 DEF Un!KeyFits, UnlockInv, FilesInv
      <4> QED  BY <3>1, <4>1, <4>2
    <3>3. CASE ~ Un!KeyFits(copy[h])
      <4>1. upc' = [upc EXCEPT ![h] = "idle"] /\ copy' = [copy EXCEPT ![h] = None]
        BY <2>3, <3>3 DEF Un!Decide, Un!Goto, Un!Keep
      <4>2. ~ (upc[h] = "key" /\ "idle" = "open")
        OBVIOUS
      <4> QED  BY <3>1, <4>1, <4>2
    <3> QED  BY <3>2, <3>3
  <2> QED  BY <2>1, <2>2, <2>3
<1>6. PICK l, r : /\ upc' = [upc EXCEPT ![h] = l] /\ copy' = [copy EXCEPT ![h] = r] /\ HookFits(l, r)
                  /\ (upc[h] = "key" /\ l = "open") => restored \/ copy[h].key = latest
  BY <1>5
<1>7. PlacesInv' /\ upc'[h] = l /\ \A g \in Hooks \ {h} : upc'[g] = upc[g]
  BY <1>1, <1>3, <1>6, HookMoves
<1>8. Earned
  BY <1>6, <1>7 DEF Earned
<1> QED  BY <1>2, <1>7, <1>8 DEF UnlockInv

LEMMA UnlockKept == UnlockInv /\ [Un!Next]_unlockVars => UnlockInv' /\ Earned
<1> SUFFICES ASSUME UnlockInv, [Un!Next]_unlockVars PROVE UnlockInv' /\ Earned
  OBVIOUS
<1>1. CASE UNCHANGED unlockVars
  <2>1. FilesInv' /\ UNCHANGED <<upc, copy, orphans>>
    BY <1>1 DEF unlockVars, UnlockInv, FilesInv
  <2>2. PlacesInv'
    BY <2>1 DEF UnlockInv, PlacesInv, PersonFits, HookFits
  <2> QED  BY <2>1, <2>2, StillEarned DEF UnlockInv
<1>2. CASE Un!Tick \/ Un!Bar
  <2>1. FilesInv' /\ UNCHANGED <<upc, copy, orphans>>
    <3>1. UNCHANGED <<cred, grant, orphans, upc, copy, sets, latest, restored>>
      BY <1>2 DEF Un!Tick, Un!Bar, Un!filev, Un!histv
    <3>2. now' \in 0 .. MaxTime
      <4>1. MaxTime \in Nat /\ now \in 0 .. MaxTime
        BY PartsAssumption DEF Un!ConstantsOK, UnlockInv, FilesInv
      <4> QED  BY <1>2, <4>1 DEF Un!Tick, Un!Bar
    <3>3. barred' \in BOOLEAN
      BY <1>2 DEF Un!Tick, Un!Bar, Un!filev, UnlockInv, FilesInv
    <3> QED  BY <3>1, <3>2, <3>3 DEF UnlockInv, FilesInv
  <2>2. PlacesInv'
    BY <2>1 DEF UnlockInv, PlacesInv, PersonFits, HookFits
  <2> QED  BY <2>1, <2>2, StillEarned DEF UnlockInv
<1>3. CASE \E p \in People : \/ Un!BeginUnlock(p) \/ Un!BeginSet(p) \/ Un!Turned(p) \/ Un!Compare(p)
                             \/ Un!ReadAttempt(p) \/ Un!EmptyRecord(p) \/ Un!FillRecord(p)
                             \/ Un!EmptyStore(p) \/ Un!FillStore(p) \/ Un!Open(p) \/ Un!EmptyGrant(p) \/ Un!FillGrant(p)
                             \/ Un!Lock(p) \/ Un!Forget(p) \/ Un!Forgotten(p)
  BY <1>3, UnlockCommands, UnlockEmpties, UnlockFills, UnlockRemoves
<1>4. CASE \E h \in Hooks : Un!Look(h) \/ Un!Heal(h) \/ Un!Decide(h)
  BY <1>4, UnlockHooks
<1> QED  BY <1>1, <1>2, <1>3, <1>4 DEF Un!Next

LEMMA UnlockTypes == UnlockInv => Un!TypeOK
<1> SUFFICES ASSUME UnlockInv PROVE Un!TypeOK
  OBVIOUS
<1>1. \A p \in People : copy[p] = None \/ (IF upc[p] \in {"empty", "fill"} THEN copy[p] \in Un!Grants ELSE copy[p] \in Un!Creds)
  BY DEF UnlockInv, PlacesInv, PersonFits, Granting, Recording
<1>2. \A h \in Hooks : upc[h] \in {"idle", "heal", "key", "open"} /\ (copy[h] = None \/ copy[h] \in Un!Grants)
  BY DEF UnlockInv, PlacesInv, HookFits
<1> QED  BY <1>1, <1>2 DEF UnlockInv, PlacesInv, FilesInv, Un!TypeOK, Writing

-----------------------------------------------------------------------------
(* Telemetry: sequences of records.                                        *)

Distinct(s) == \A i, j \in 1 .. Len(s) : s[i].id = s[j].id => i = j

\* s holds some of t's records, no more often than t does.
Part(s, t) == /\ s \in Seq(Te!Records) /\ Len(s) <= Len(t)
              /\ \A i \in 1 .. Len(s) : \E j \in 1 .. Len(t) : s[i] = t[j]
              /\ Distinct(t) => Distinct(s)

LEMMA IdsIn ==
  ASSUME NEW s \in Seq(Te!Records)
  PROVE  /\ \A x : x \in Te!ToSet(s) <=> \E i \in 1 .. Len(s) : s[i] = x
         /\ \A x : x \in Te!IdsOf(s) <=> \E i \in 1 .. Len(s) : s[i].id = x
         /\ Te!IdsOf(s) \subseteq Te!Ids /\ Te!ToSet(s) \subseteq Te!Records
<1>1. DOMAIN s = 1 .. Len(s) /\ \A i \in 1 .. Len(s) : s[i] \in Te!Records
  OBVIOUS
<1>2. \A x : x \in Te!ToSet(s) <=> \E i \in 1 .. Len(s) : s[i] = x
  BY <1>1 DEF Te!ToSet
<1>3. \A x : x \in Te!IdsOf(s) <=> \E i \in 1 .. Len(s) : s[i].id = x
  BY <1>2 DEF Te!IdsOf
<1>4. \A i \in 1 .. Len(s) : s[i].id \in Te!Ids
  BY <1>1 DEF Te!Records
<1> QED  BY <1>1, <1>2, <1>3, <1>4

LEMMA NoIds == Te!IdsOf(<<>>) = {} /\ Te!ToSet(<<>>) = {} /\ <<>> \in Seq(Te!Records) /\ Distinct(<<>>) /\ Len(<<>>) = 0
<1>1. <<>> \in Seq(Te!Records) /\ Len(<<>>) = 0
  OBVIOUS
<1>2. \A i : i \notin 1 .. 0
  OBVIOUS
<1> QED  BY <1>1, <1>2, IdsIn DEF Distinct

LEMMA OneId ==
  ASSUME NEW r \in Te!Records
  PROVE  /\ <<r>> \in Seq(Te!Records) /\ Distinct(<<r>>)
         /\ Te!IdsOf(<<r>>) = {r.id} /\ Te!ToSet(<<r>>) = {r}
<1>1. <<r>> \in Seq(Te!Records) /\ Len(<<r>>) = 1 /\ <<r>>[1] = r
  OBVIOUS
<1>2. \A i : i \in 1 .. 1 <=> i = 1
  OBVIOUS
<1>3. Distinct(<<r>>)
  BY <1>1, <1>2 DEF Distinct
<1>4. Te!ToSet(<<r>>) = {r}
  <2>1. DOMAIN <<r>> = {1}
    BY <1>1, <1>2
  <2> QED  BY <1>1, <2>1 DEF Te!ToSet
<1>5. Te!IdsOf(<<r>>) = {r.id}
  BY <1>4 DEF Te!IdsOf
<1> QED  BY <1>1, <1>3, <1>4, <1>5

LEMMA PartIds ==
  ASSUME NEW s, NEW t \in Seq(Te!Records), Part(s, t)
  PROVE  /\ s \in Seq(Te!Records)
         /\ Te!IdsOf(s) \subseteq Te!IdsOf(t) /\ Te!ToSet(s) \subseteq Te!ToSet(t)
         /\ Distinct(t) => Distinct(s)
<1>1. s \in Seq(Te!Records) /\ (Distinct(t) => Distinct(s))
  BY DEF Part
<1>2. \A i \in 1 .. Len(s) : \E j \in 1 .. Len(t) : s[i] = t[j]
  BY DEF Part
<1>3. Te!ToSet(s) \subseteq Te!ToSet(t)
  BY <1>1, <1>2, IdsIn
<1>4. Te!IdsOf(s) \subseteq Te!IdsOf(t)
  BY <1>3 DEF Te!IdsOf
<1> QED  BY <1>1, <1>3, <1>4

LEMMA PartOfPart ==
  ASSUME NEW s, NEW t \in Seq(Te!Records), NEW u \in Seq(Te!Records), Part(s, t), Part(t, u)
  PROVE  Part(s, u)
<1>1. s \in Seq(Te!Records) /\ Len(s) <= Len(t) /\ Len(t) <= Len(u)
  BY DEF Part
<1>2. Len(s) \in Nat /\ Len(t) \in Nat /\ Len(u) \in Nat
  BY <1>1
<1>3. Len(s) <= Len(u)
  BY <1>1, <1>2
<1>4. \A i \in 1 .. Len(s) : \E j \in 1 .. Len(u) : s[i] = u[j]
  <2> SUFFICES ASSUME NEW i \in 1 .. Len(s) PROVE \E j \in 1 .. Len(u) : s[i] = u[j]
    OBVIOUS
  <2>1. PICK k \in 1 .. Len(t) : s[i] = t[k]
    BY DEF Part
  <2>2. PICK j \in 1 .. Len(u) : t[k] = u[j]
    BY DEF Part
  <2> QED  BY <2>1, <2>2
<1>5. Distinct(u) => Distinct(s)
  BY DEF Part
<1> QED  BY <1>1, <1>3, <1>4, <1>5 DEF Part

\* The records at increasing, or at least different, positions are a part.
LEMMA PartAt ==
  ASSUME NEW t \in Seq(Te!Records), NEW s \in Seq(Te!Records), NEW f,
         \A i \in 1 .. Len(s) : f[i] \in 1 .. Len(t) /\ s[i] = t[f[i]],
         \A i, j \in 1 .. Len(s) : f[i] = f[j] => i = j,
         Len(s) <= Len(t)
  PROVE  Part(s, t)
<1>1. Distinct(t) => Distinct(s)
  <2> SUFFICES ASSUME Distinct(t), NEW i \in 1 .. Len(s), NEW j \in 1 .. Len(s), s[i].id = s[j].id PROVE i = j
    BY DEF Distinct
  <2>1. f[i] \in 1 .. Len(t) /\ f[j] \in 1 .. Len(t) /\ t[f[i]].id = t[f[j]].id
    OBVIOUS
  <2>2. f[i] = f[j]
    BY <2>1 DEF Distinct
  <2> QED  BY <2>2
<1> QED  BY <1>1 DEF Part

LEMMA SubSeqPart ==
  ASSUME NEW t \in Seq(Te!Records), NEW m \in 1 .. Len(t) + 1, NEW n \in 0 .. Len(t), m <= n + 1
  PROVE  /\ Part(SubSeq(t, m, n), t) /\ Len(SubSeq(t, m, n)) = n - m + 1
         /\ \A i \in 1 .. n - m + 1 : SubSeq(t, m, n)[i] = t[m + i - 1]
<1>1. Len(t) \in Nat /\ m \in Nat /\ n \in Nat /\ m >= 1 /\ n <= Len(t)
  OBVIOUS
<1>2. \A i \in m .. n : t[i] \in Te!Records
  <2> SUFFICES ASSUME NEW i \in m .. n PROVE t[i] \in Te!Records
    OBVIOUS
  <2>1. i \in 1 .. Len(t)
    BY <1>1
  <2> QED  BY <2>1
<1> DEFINE s == SubSeq(t, m, n)
<1>3. /\ s \in Seq(Te!Records) /\ Len(s) = (IF m <= n THEN n - m + 1 ELSE 0)
      /\ \A i \in 1 .. n - m + 1 : s[i] = t[m + i - 1]
  BY <1>1, <1>2, SubSeqProperties
<1> HIDE DEF s
<1>4. Len(s) = n - m + 1 /\ Len(s) <= Len(t)
  BY <1>1, <1>3
<1> DEFINE f == [i \in 1 .. Len(s) |-> m + i - 1]
<1>5. \A i \in 1 .. Len(s) : f[i] = m + i - 1 /\ f[i] \in 1 .. Len(t)
  BY <1>1, <1>4
<1>6. \A i, j \in 1 .. Len(s) : f[i] = f[j] => i = j
  BY <1>1, <1>5
<1> HIDE DEF f
<1>7. \A i \in 1 .. Len(s) : f[i] \in 1 .. Len(t) /\ s[i] = t[f[i]]
  BY <1>3, <1>4, <1>5
<1>8. Part(s, t)
  BY <1>3, <1>4, <1>6, <1>7, PartAt
<1> QED  BY <1>3, <1>4, <1>8 DEF s

\* Two sequences without a common record.
LEMMA ConcatDistinct ==
  ASSUME NEW s \in Seq(Te!Records), NEW t \in Seq(Te!Records)
  PROVE  /\ s \o t \in Seq(Te!Records)
         /\ Te!ToSet(s \o t) = Te!ToSet(s) \cup Te!ToSet(t)
         /\ Te!IdsOf(s \o t) = Te!IdsOf(s) \cup Te!IdsOf(t)
         /\ Distinct(s) /\ Distinct(t) /\ Te!IdsOf(s) \cap Te!IdsOf(t) = {} => Distinct(s \o t)
<1> DEFINE u == s \o t
<1>1. /\ u \in Seq(Te!Records) /\ Len(u) = Len(s) + Len(t)
      /\ \A i \in 1 .. Len(s) + Len(t) : u[i] = IF i <= Len(s) THEN s[i] ELSE t[i - Len(s)]
  BY ConcatProperties
<1> HIDE DEF u
<1>2. Len(s) \in Nat /\ Len(t) \in Nat
  OBVIOUS
<1>3. \A i \in 1 .. Len(u) : \/ i \in 1 .. Len(s) /\ u[i] = s[i]
                             \/ i - Len(s) \in 1 .. Len(t) /\ u[i] = t[i - Len(s)]
  BY <1>1, <1>2
<1>4. \A i \in 1 .. Len(s) : i \in 1 .. Len(u) /\ u[i] = s[i]
  BY <1>1, <1>2
<1>5. \A i \in 1 .. Len(t) : i + Len(s) \in 1 .. Len(u) /\ u[i + Len(s)] = t[i]
  <2> SUFFICES ASSUME NEW i \in 1 .. Len(t) PROVE i + Len(s) \in 1 .. Len(u) /\ u[i + Len(s)] = t[i]
    OBVIOUS
  <2>1. i + Len(s) \in 1 .. Len(s) + Len(t) /\ ~ (i + Len(s) <= Len(s)) /\ (i + Len(s)) - Len(s) = i
    BY <1>2
  <2> QED  BY <1>1, <2>1
<1>6. Te!ToSet(u) = Te!ToSet(s) \cup Te!ToSet(t)
  <2>1. \A x : (\E i \in 1 .. Len(u) : u[i] = x) <=> (\E i \in 1 .. Len(s) : s[i] = x) \/ (\E i \in 1 .. Len(t) : t[i] = x)
    BY <1>3, <1>4, <1>5
  <2> QED  BY <1>1, <2>1, IdsIn
<1>7. Te!IdsOf(u) = Te!IdsOf(s) \cup Te!IdsOf(t)
  BY <1>6 DEF Te!IdsOf
<1>8. ASSUME Distinct(s), Distinct(t), Te!IdsOf(s) \cap Te!IdsOf(t) = {} PROVE Distinct(u)
  <2>0. \A i \in 1 .. Len(s), j \in 1 .. Len(t) : s[i].id # t[j].id
    BY <1>8, IdsIn
  <2> SUFFICES ASSUME NEW i \in 1 .. Len(u), NEW j \in 1 .. Len(u), u[i].id = u[j].id PROVE i = j
    BY DEF Distinct
  <2>1. CASE i \in 1 .. Len(s) /\ u[i] = s[i]
    <3>1. j \in 1 .. Len(s) /\ u[j] = s[j]
      BY <1>3, <2>0, <2>1
    <3> QED  BY <1>8, <2>1, <3>1 DEF Distinct
  <2>2. CASE i - Len(s) \in 1 .. Len(t) /\ u[i] = t[i - Len(s)]
    <3>1. j - Len(s) \in 1 .. Len(t) /\ u[j] = t[j - Len(s)]
      BY <1>3, <2>0, <2>2
    <3>2. i - Len(s) = j - Len(s)
      BY <1>8, <2>2, <3>1 DEF Distinct
    <3>3. i \in Int /\ j \in Int
      OBVIOUS
    <3> QED  BY <1>2, <3>2, <3>3
  <2> QED  BY <1>3, <2>1, <2>2
<1> QED  BY <1>1, <1>6, <1>7, <1>8 DEF u

\* A sequence cut in two: each record is on one side.
LEMMA CutInTwo ==
  ASSUME NEW t \in Seq(Te!Records), NEW n \in 0 .. Len(t)
  PROVE  LET a == SubSeq(t, 1, n)  b == SubSeq(t, n + 1, Len(t))
         IN  /\ Part(a, t) /\ Part(b, t)
             /\ Te!IdsOf(a) \cup Te!IdsOf(b) = Te!IdsOf(t)
             /\ Distinct(t) => Te!IdsOf(a) \cap Te!IdsOf(b) = {}
<1> DEFINE a == SubSeq(t, 1, n)
           b == SubSeq(t, n + 1, Len(t))
<1>1. Len(t) \in Nat /\ n \in Nat /\ n <= Len(t) /\ 1 \in 1 .. Len(t) + 1 /\ n + 1 \in 1 .. Len(t) + 1
      /\ Len(t) \in 0 .. Len(t) /\ 1 <= n + 1 /\ n + 1 <= Len(t) + 1
  OBVIOUS
<1>2. /\ Part(a, t) /\ Len(a) = n - 1 + 1
      /\ \A i \in 1 .. n - 1 + 1 : a[i] = t[1 + i - 1]
  BY <1>1, SubSeqPart
<1>3. /\ Part(b, t) /\ Len(b) = Len(t) - (n + 1) + 1
      /\ \A i \in 1 .. Len(t) - (n + 1) + 1 : b[i] = t[n + 1 + i - 1]
  BY <1>1, SubSeqPart
<1> HIDE DEF a, b
<1>4. Len(a) = n /\ \A i \in 1 .. n : a[i] = t[i] /\ i \in 1 .. Len(t)
  <2>1. n - 1 + 1 = n /\ \A i \in 1 .. n : 1 + i - 1 = i /\ i \in 1 .. Len(t)
    BY <1>1
  <2> QED  BY <1>2, <2>1
<1>5. Len(b) = Len(t) - n /\ \A i \in 1 .. Len(t) - n : b[i] = t[n + i] /\ n + i \in 1 .. Len(t)
  <2>1. Len(t) - (n + 1) + 1 = Len(t) - n /\ \A i \in 1 .. Len(t) - n : n + 1 + i - 1 = n + i /\ n + i \in 1 .. Len(t)
    BY <1>1
  <2> QED  BY <1>3, <2>1
<1>6. a \in Seq(Te!Records) /\ b \in Seq(Te!Records)
  BY <1>2, <1>3 DEF Part
<1>7. Te!IdsOf(t) \subseteq Te!IdsOf(a) \cup Te!IdsOf(b)
  <2> SUFFICES ASSUME NEW i \in 1 .. Len(t) PROVE t[i].id \in Te!IdsOf(a) \cup Te!IdsOf(b)
    BY IdsIn
  <2>1. CASE i <= n
    <3>1. i \in 1 .. n
      BY <1>1, <2>1
    <3> QED  BY <1>4, <1>6, <3>1, IdsIn
  <2>2. CASE i > n
    <3>1. i - n \in 1 .. Len(t) - n /\ n + (i - n) = i
      BY <1>1, <2>2
    <3>2. b[i - n] = t[i]
      BY <1>5, <3>1
    <3> QED  BY <1>5, <1>6, <3>1, <3>2, IdsIn
  <2> QED  BY <1>1, <2>1, <2>2
<1>8. Te!IdsOf(a) \cup Te!IdsOf(b) \subseteq Te!IdsOf(t)
  BY <1>2, <1>3, PartIds
<1>9. ASSUME Distinct(t), NEW x \in Te!IdsOf(a) \cap Te!IdsOf(b) PROVE FALSE
  <2>1. PICK i \in 1 .. n : a[i].id = x
    BY <1>4, <1>6, <1>9, IdsIn
  <2>2. PICK j \in 1 .. Len(t) - n : b[j].id = x
    BY <1>5, <1>6, <1>9, IdsIn
  <2>3. t[i].id = t[n + j].id /\ i \in 1 .. Len(t) /\ n + j \in 1 .. Len(t)
    BY <1>4, <1>5, <2>1, <2>2
  <2>4. i = n + j
    BY <1>9, <2>3 DEF Distinct
  <2> QED  BY <1>1, <2>4
<1> QED  BY <1>2, <1>3, <1>7, <1>8, <1>9 DEF a, b

\* No record twice: as many as there are lines.
LEMMA DistinctCount ==
  ASSUME NEW s \in Seq(Te!Records), Distinct(s)
  PROVE  Cardinality(Te!IdsOf(s)) = Len(s)
<1> DEFINE f == [i \in 1 .. Len(s) |-> s[i].id]
<1>1. f \in [1 .. Len(s) -> Te!IdsOf(s)]
  BY IdsIn
<1>2. \A i, j \in 1 .. Len(s) : f[i] = f[j] => i = j
  BY DEF Distinct
<1>3. \A x \in Te!IdsOf(s) : \E i \in 1 .. Len(s) : f[i] = x
  BY IdsIn
<1> HIDE DEF f
<1>4. f \in Bijection(1 .. Len(s), Te!IdsOf(s))
  BY <1>1, <1>2, <1>3, Fun_IsBij
<1>5. ExistsBijection(1 .. Len(s), Te!IdsOf(s))
  BY <1>4 DEF ExistsBijection
<1> QED  BY <1>5, FS_CountingElements

-----------------------------------------------------------------------------
\* Finite sets of positions can be enumerated upwards.
LEMMA Enumeration ==
  ASSUME NEW I \in SUBSET Nat, IsFiniteSet(I)
  PROVE  \E f \in [1 .. Cardinality(I) -> I] : \A j, k \in 1 .. Cardinality(I) : j < k => f[j] < f[k]
<1> DEFINE Ordered(J, f) == f \in [1 .. Cardinality(J) -> J] /\ \A j, k \in 1 .. Cardinality(J) : j < k => f[j] < f[k]
           T == {n \in Nat : \E J \in SUBSET Nat : IsFiniteSet(J) /\ Cardinality(J) = n /\ \A f : ~ Ordered(J, f)}
<1>1. CASE T = {}
  <2>1. Cardinality(I) \in Nat
    BY FS_CardinalityType
  <2>2. \E f : Ordered(I, f)
    BY <1>1, <2>1
  <2> QED  BY <2>2
<1>2. CASE T # {}
  <2>1. T \in SUBSET Nat
    OBVIOUS
  <2>2. PICK n \in T : \A m \in T : n <= m
    BY <1>2, <2>1, Least
  <2>3. PICK J \in SUBSET Nat : IsFiniteSet(J) /\ Cardinality(J) = n /\ \A f : ~ Ordered(J, f)
    BY <2>2
  <2>4. n \in Nat /\ \A K \in SUBSET Nat : IsFiniteSet(K) /\ Cardinality(K) < n => \E f : Ordered(K, f)
    <3>1. n \in Nat
      OBVIOUS
    <3> SUFFICES ASSUME NEW K \in SUBSET Nat, IsFiniteSet(K), Cardinality(K) < n PROVE \E f : Ordered(K, f)
      BY <3>1
    <3>2. Cardinality(K) \in Nat
      BY FS_CardinalityType
    <3>3. Cardinality(K) \notin T
      BY <2>2, <3>1, <3>2
    <3> QED  BY <3>2, <3>3
  <2>5. CASE J = {}
    <3>1. n = 0 /\ \A i : i \notin 1 .. 0
      BY <2>3, <2>5, FS_EmptySet
    <3> DEFINE e == [i \in 1 .. 0 |-> i]
    <3>2. e \in [1 .. 0 -> J]
      BY <3>1
    <3>3. Ordered(J, e)
      BY <2>3, <3>1, <3>2
    <3> QED  BY <2>3, <3>3
  <2>6. CASE J # {}
    <3>1. PICK x \in J : \A y \in J : x <= y
      BY <2>6, Least
    <3> DEFINE K == J \ {x}
    <3>2. IsFiniteSet(K) /\ Cardinality(K) = n - 1 /\ K \in SUBSET Nat
      BY <2>3, FS_RemoveElement
    <3>3. Cardinality(K) < n /\ n >= 1
      <4>1. Cardinality(K) \in Nat
        BY <3>2, FS_CardinalityType
      <4> QED  BY <2>4, <3>2, <4>1
    <3>4. PICK g : Ordered(K, g)
      BY <2>4, <3>2, <3>3
    <3>5. g \in [1 .. n - 1 -> K] /\ \A j, k \in 1 .. n - 1 : j < k => g[j] < g[k]
      BY <3>2, <3>4
    <3> DEFINE f == [k \in 1 .. n |-> IF k = 1 THEN x ELSE g[k - 1]]
    <3>6. \A k \in 1 .. n : k # 1 => k - 1 \in 1 .. n - 1 /\ f[k] = g[k - 1]
      BY <2>4
    <3>7. 1 \in 1 .. n /\ f[1] = x
      BY <2>4, <3>3
    <3>8. \A k \in 1 .. n : f[k] \in J
      BY <3>5, <3>6, <3>7
    <3>9. f \in [1 .. n -> J]
      BY <3>8
    <3>10. \A j, k \in 1 .. n : j < k => f[j] < f[k]
      <4> SUFFICES ASSUME NEW j \in 1 .. n, NEW k \in 1 .. n, j < k PROVE f[j] < f[k]
        OBVIOUS
      <4>1. k # 1 /\ k - 1 \in 1 .. n - 1 /\ f[k] = g[k - 1] /\ g[k - 1] \in K
        <5>1. k # 1
          BY <2>4
        <5> QED  BY <3>5, <3>6, <5>1
      <4>2. CASE j = 1
        <5>1. x <= g[k - 1] /\ x # g[k - 1] /\ x \in Nat /\ g[k - 1] \in Nat
          BY <3>1, <4>1
        <5>2. x < g[k - 1]
          BY <5>1
        <5> QED  BY <3>7, <4>1, <4>2, <5>2
      <4>3. CASE j # 1
        <5>1. j - 1 \in 1 .. n - 1 /\ f[j] = g[j - 1] /\ j - 1 < k - 1
          BY <2>4, <3>6, <4>3
        <5> QED  BY <3>5, <4>1, <5>1
      <4> QED  BY <4>2, <4>3
    <3> HIDE DEF f
    <3>11. Ordered(J, f)
      BY <2>3, <3>9, <3>10
    <3> QED  BY <2>3, <3>11
  <2> QED  BY <2>5, <2>6
<1> QED  BY <1>1, <1>2

LEMMA OneCardinality == \A S : Te!Cardinality(S) = Cardinality(S)
BY DEF Te!Cardinality, Cardinality

LEMMA UpwardsOrdered ==
  ASSUME NEW I \in SUBSET Nat, IsFiniteSet(I)
  PROVE  /\ Te!Upwards(I) \in [1 .. Cardinality(I) -> I]
         /\ \A j, k \in 1 .. Cardinality(I) : j < k => Te!Upwards(I)[j] < Te!Upwards(I)[k]
<1>1. \E f \in [1 .. Cardinality(I) -> I] : \A j, k \in 1 .. Cardinality(I) : j < k => f[j] < f[k]
  BY Enumeration
<1>2. /\ Te!Upwards(I) \in [1 .. Te!Cardinality(I) -> I]
      /\ \A j, k \in 1 .. Te!Cardinality(I) : j < k => Te!Upwards(I)[j] < Te!Upwards(I)[k]
  <2>1. \E f \in [1 .. Te!Cardinality(I) -> I] : \A j, k \in 1 .. Te!Cardinality(I) : j < k => f[j] < f[k]
    BY <1>1, OneCardinality
  <2> QED  BY <2>1, Zenon DEF Te!Upwards
<1> QED  BY <1>2, OneCardinality

\* What is young enough is a part of the spool.
LEMMA FreshPart ==
  ASSUME NEW s \in Seq(Te!Records)
  PROVE  Part(Te!Fresh(s), s)
<1> DEFINE young == {i \in DOMAIN s : s[i].id > old}
           n == Cardinality(young)
           u == Te!Upwards(young)
<1>1. Len(s) \in Nat /\ DOMAIN s = 1 .. Len(s) /\ young \in SUBSET (1 .. Len(s)) /\ young \in SUBSET Nat
  OBVIOUS
<1>2. IsFiniteSet(1 .. Len(s)) /\ Cardinality(1 .. Len(s)) = Len(s)
  <2>1. 1 \in Int /\ Len(s) \in Int /\ (IF 1 > Len(s) THEN 0 ELSE Len(s) - 1 + 1) = Len(s)
    BY <1>1
  <2> QED  BY <2>1, FS_Interval
<1>5. Te!Fresh(s) = [k \in 1 .. n |-> s[u[k]]]
  <2>1. Te!Fresh(s) = [k \in 1 .. Te!Cardinality(young) |-> s[u[k]]]
    BY Zenon DEF Te!Fresh
  <2> QED  BY <2>1, OneCardinality
<1> HIDE DEF young
<1>3. IsFiniteSet(young) /\ n <= Len(s) /\ n \in Nat
  <2>1. IsFiniteSet(young) /\ Cardinality(young) <= Cardinality(1 .. Len(s))
    BY <1>1, <1>2, FS_Subset
  <2>2. Cardinality(young) \in Nat
    BY <2>1, FS_CardinalityType
  <2> QED  BY <1>2, <2>1, <2>2
<1>4. u \in [1 .. n -> young] /\ \A j, k \in 1 .. n : j < k => u[j] < u[k]
  BY <1>1, <1>3, UpwardsOrdered
<1> HIDE DEF n, u
<1>6. \A k \in 1 .. n : u[k] \in 1 .. Len(s) /\ s[u[k]] \in Te!Records
  <2> SUFFICES ASSUME NEW k \in 1 .. n PROVE u[k] \in 1 .. Len(s) /\ s[u[k]] \in Te!Records
    OBVIOUS
  <2>1. u[k] \in young
    BY <1>4
  <2>2. u[k] \in 1 .. Len(s)
    BY <1>1, <2>1
  <2> QED  BY <2>2
<1>7. \A j, k \in 1 .. n : u[j] = u[k] => j = k
  <2> SUFFICES ASSUME NEW j \in 1 .. n, NEW k \in 1 .. n, u[j] = u[k], j # k PROVE FALSE
    OBVIOUS
  <2>1. u[j] \in Int /\ u[k] \in Int /\ (j < k \/ k < j)
    BY <1>3, <1>6
  <2>2. u[j] < u[k] \/ u[k] < u[j]
    BY <1>4, <2>1
  <2> QED  BY <2>1, <2>2
<1> DEFINE t == [k \in 1 .. n |-> s[u[k]]]
<1>8. t \in Seq(Te!Records) /\ Len(t) = n /\ \A k \in 1 .. n : t[k] = s[u[k]]
  BY <1>3, <1>6
<1> HIDE DEF t
<1>9. Part(t, s)
  BY <1>3, <1>6, <1>7, <1>8, PartAt
<1> QED  BY <1>5, <1>9 DEF t

\* What an append keeps: a part of it, up to the cap.
LEMMA KeptPart ==
  ASSUME NEW s \in Seq(Te!Records)
  PROVE  Part(Te!Kept(s), s) /\ Len(Te!Kept(s)) <= SpoolMax
<1> DEFINE f == Te!Fresh(s)
           m == IF Len(f) > SpoolMax THEN Len(f) - SpoolMax + 1 ELSE 1
<1>1. Part(f, s)
  BY FreshPart
<1> HIDE DEF f
<1>2. f \in Seq(Te!Records) /\ Len(f) \in Nat /\ SpoolMax \in Nat \ {0}
  BY <1>1, PartsAssumption DEF Part, Te!ConstantsOK
<1>3. /\ m \in 1 .. Len(f) + 1 /\ Len(f) \in 0 .. Len(f) /\ m <= Len(f) + 1
      /\ Len(f) - m + 1 <= SpoolMax
  BY <1>2
<1>4. Te!Kept(s) = SubSeq(f, m, Len(f))
  BY DEF Te!Kept, f
<1> HIDE DEF m
<1>5. Part(SubSeq(f, m, Len(f)), f) /\ Len(SubSeq(f, m, Len(f))) = Len(f) - m + 1
  BY <1>2, <1>3, SubSeqPart
<1>6. Part(SubSeq(f, m, Len(f)), s)
  BY <1>1, <1>2, <1>5, PartOfPart
<1> QED  BY <1>3, <1>4, <1>5, <1>6

-----------------------------------------------------------------------------
(* Telemetry: no record in two places, and none that disappears.           *)

Handless == {"idle", "pending", "note", "noting", "clear", "drops"}

TypesInv ==
  /\ Len(spool) <= SpoolMax
  /\ drops \subseteq Te!Ids /\ failures \in 0 .. MaxFailures
  /\ waiting \in BOOLEAN /\ revoked \in BOOLEAN /\ kick \in BOOLEAN
  /\ nextSeq \in 1 .. MaxSealed + 1 /\ old \in 0 .. MaxAged
  /\ tpc \in [Te!Procs -> Te!Pcs] /\ seen \in [Te!Procs -> 0 .. MaxFailures]
  /\ received \subseteq Te!Records /\ tried \subseteq Te!Ids /\ counted \subseteq Te!Ids
  /\ gone \subseteq Te!Ids /\ refused \subseteq Te!Ids

\* Every record in the spool and in hands was sealed, and is there once.
OnceInv ==
  /\ spool \in Seq(Te!Records) /\ held \in [Te!Procs -> Seq(Te!Records)]
  /\ Distinct(spool) /\ Te!IdsOf(spool) \subseteq 1 .. nextSeq - 1
  /\ \A p \in Te!Procs : Distinct(held[p]) /\ Te!IdsOf(held[p]) \subseteq 1 .. nextSeq - 1
  /\ \A p \in Te!Procs : Te!IdsOf(held[p]) \cap Te!IdsOf(spool) = {}
  /\ \A p, q \in Te!Procs : p # q => Te!IdsOf(held[p]) \cap Te!IdsOf(held[q]) = {}

\* Where a process seals a record, or ends, its hands are empty.
HandsInv == \A p \in Te!Procs : tpc[p] \in Handless => held[p] = <<>>

\* Outside a server, what goes to the spool without a POST is no alert.
AlertsInv == ~ InServer =>
  /\ \A r \in Te!ToSet(spool) : r.blocked => r.id \in tried
  /\ \A p \in Te!Procs :
       /\ tpc[p] = "spool" => \A r \in Te!ToSet(held[p]) : ~ r.blocked
       /\ tpc[p] = "respool" => Te!IdsOf(held[p]) \subseteq tried

PassInv == OnceInv /\ HandsInv /\ AlertsInv /\ Te!Traceable
TelemetryInv == TypesInv /\ PassInv

LEMMA TelemetryBegin == Te!Init => TelemetryInv
<1> SUFFICES ASSUME Te!Init PROVE TelemetryInv
  OBVIOUS
<1>1. /\ MaxSealed \in Nat /\ MaxAged \in Nat /\ MaxFailures \in Nat /\ SpoolMax \in Nat
  BY PartsAssumption DEF Te!ConstantsOK
<1>2. /\ spool = <<>> /\ nextSeq = 1 /\ old = 0 /\ failures = 0
      /\ held = [p \in Te!Procs |-> <<>>] /\ tpc = [p \in Te!Procs |-> "idle"] /\ seen = [p \in Te!Procs |-> 0]
  BY DEF Te!Init
<1>3. TypesInv
  <2>1. nextSeq \in 1 .. MaxSealed + 1 /\ old \in 0 .. MaxAged /\ failures \in 0 .. MaxFailures /\ Len(spool) <= SpoolMax
        /\ 0 \in 0 .. MaxFailures
    BY <1>1, <1>2
  <2>2. tpc \in [Te!Procs -> Te!Pcs] /\ seen \in [Te!Procs -> 0 .. MaxFailures]
    BY <1>2, <2>1 DEF Te!Pcs
  <2> QED  BY <2>1, <2>2 DEF Te!Init, TypesInv
<1>4. OnceInv
  <2>1. held \in [Te!Procs -> Seq(Te!Records)] /\ \A p \in Te!Procs : held[p] = <<>>
    BY <1>2, NoIds
  <2> QED  BY <1>2, <2>1, NoIds DEF OnceInv
<1>5. HandsInv /\ AlertsInv
  <2>1. \A p \in Te!Procs : held[p] = <<>>
    BY <1>2
  <2> QED  BY <1>2, <2>1, NoIds DEF HandsInv, AlertsInv
<1>6. Te!Traceable
  <2>1. 1 .. nextSeq - 1 = {}
    BY <1>2
  <2> QED  BY <2>1 DEF Te!Traceable
<1> QED  BY <1>3, <1>4, <1>5, <1>6 DEF TelemetryInv, PassInv

LEMMA HeldFacts ==
  ASSUME TelemetryInv, NEW p \in Te!Procs
  PROVE  /\ held[p] \in Seq(Te!Records) /\ Distinct(held[p]) /\ Te!IdsOf(held[p]) \subseteq Te!Ids
         /\ held = [held EXCEPT ![p] = held[p]]
         /\ spool \in Seq(Te!Records) /\ Distinct(spool) /\ Te!IdsOf(spool) \subseteq Te!Ids
         /\ Te!IdsOf(held[p]) \cap Te!IdsOf(spool) = {}
         /\ tpc[p] \in Handless => held[p] = <<>>
BY IdsIn DEF TelemetryInv, PassInv, OnceInv, HandsInv

\* Records pass between the spool and one process, or leave both.
LEMMA RecordsPass ==
  ASSUME TelemetryInv, NEW p \in Te!Procs, NEW l, NEW t, NEW s,
         tpc' = [tpc EXCEPT ![p] = l], held' = [held EXCEPT ![p] = t], spool' = s, nextSeq' = nextSeq,
         s \in Seq(Te!Records), Distinct(s), t \in Seq(Te!Records), Distinct(t),
         Te!IdsOf(s) \subseteq Te!IdsOf(spool) \cup Te!IdsOf(held[p]),
         Te!IdsOf(t) \subseteq Te!IdsOf(spool) \cup Te!IdsOf(held[p]),
         Te!IdsOf(s) \cap Te!IdsOf(t) = {},
         l \in Handless => t = <<>>,
         received \subseteq received', tried \subseteq tried', counted \subseteq counted',
         gone \subseteq gone', refused \subseteq refused',
         Te!IdsOf(spool) \cup Te!IdsOf(held[p]) \subseteq
           Te!IdsOf(s) \cup Te!IdsOf(t) \cup {r.id : r \in received'} \cup counted' \cup gone' \cup refused',
         ~ InServer => /\ \A r \in Te!ToSet(s) : r.blocked => r \in Te!ToSet(spool) \/ r.id \in tried'
                       /\ l = "spool" => \A r \in Te!ToSet(t) : ~ r.blocked
                       /\ l = "respool" => Te!IdsOf(t) \subseteq tried'
  PROVE  PassInv'
<1>1. OnceInv /\ HandsInv /\ AlertsInv /\ Te!Traceable /\ tpc \in [Te!Procs -> Te!Pcs]
  BY DEF TelemetryInv, PassInv, TypesInv
<1>2. \A q \in Te!Procs : held'[q] = (IF q = p THEN t ELSE held[q]) /\ tpc'[q] = (IF q = p THEN l ELSE tpc[q])
  BY <1>1 DEF OnceInv
<1>3. held' \in [Te!Procs -> Seq(Te!Records)]
  BY <1>1 DEF OnceInv
<1>4. ASSUME NEW q \in Te!Procs, q # p
      PROVE  /\ Te!IdsOf(held[q]) \cap Te!IdsOf(s) = {} /\ Te!IdsOf(held[q]) \cap Te!IdsOf(t) = {}
  <2>1. Te!IdsOf(held[q]) \cap Te!IdsOf(spool) = {} /\ Te!IdsOf(held[q]) \cap Te!IdsOf(held[p]) = {}
    BY <1>1, <1>4 DEF OnceInv
  <2> QED  BY <2>1
<1>5. Te!IdsOf(s) \subseteq 1 .. nextSeq - 1 /\ Te!IdsOf(t) \subseteq 1 .. nextSeq - 1
  <2>1. Te!IdsOf(spool) \subseteq 1 .. nextSeq - 1 /\ Te!IdsOf(held[p]) \subseteq 1 .. nextSeq - 1
    BY <1>1 DEF OnceInv
  <2> QED  BY <2>1
<1>6. ASSUME NEW q \in Te!Procs
      PROVE  /\ Distinct(held'[q]) /\ Te!IdsOf(held'[q]) \subseteq 1 .. nextSeq - 1
             /\ Te!IdsOf(held'[q]) \cap Te!IdsOf(s) = {}
  <2>1. CASE q = p
    <3>1. held'[q] = t
      BY <1>2, <2>1
    <3> QED  BY <1>5, <3>1
  <2>2. CASE q # p
    <3>1. held'[q] = held[q] /\ Distinct(held[q]) /\ Te!IdsOf(held[q]) \subseteq 1 .. nextSeq - 1
      BY <1>1, <1>2, <2>2 DEF OnceInv
    <3> QED  BY <1>4, <2>2, <3>1
  <2> QED  BY <2>1, <2>2
<1>7. ASSUME NEW q \in Te!Procs, NEW u \in Te!Procs, q # u PROVE Te!IdsOf(held'[q]) \cap Te!IdsOf(held'[u]) = {}
  <2>1. CASE q = p
    <3>1. held'[q] = t /\ held'[u] = held[u] /\ u # p
      BY <1>2, <1>7, <2>1
    <3> QED  BY <1>4, <3>1
  <2>2. CASE u = p
    <3>1. held'[u] = t /\ held'[q] = held[q] /\ q # p
      BY <1>2, <1>7, <2>2
    <3> QED  BY <1>4, <3>1
  <2>3. CASE q # p /\ u # p
    <3>1. held'[q] = held[q] /\ held'[u] = held[u]
      BY <1>2, <2>3
    <3> QED  BY <1>1, <1>7, <3>1 DEF OnceInv
  <2> QED  BY <2>1, <2>2, <2>3
<1>8. OnceInv'
  BY <1>3, <1>5, <1>6, <1>7 DEF OnceInv
<1>9. HandsInv'
  <2> SUFFICES ASSUME NEW q \in Te!Procs, tpc'[q] \in Handless PROVE held'[q] = <<>>
    BY DEF HandsInv
  <2> QED  BY <1>1, <1>2 DEF HandsInv
<1>10. AlertsInv'
  <2> SUFFICES ASSUME ~ InServer
               PROVE  /\ \A r \in Te!ToSet(s) : r.blocked => r.id \in tried'
                      /\ \A q \in Te!Procs :
                           /\ tpc'[q] = "spool" => \A r \in Te!ToSet(held'[q]) : ~ r.blocked
                           /\ tpc'[q] = "respool" => Te!IdsOf(held'[q]) \subseteq tried'
    BY DEF AlertsInv
  <2>1. \A r \in Te!ToSet(s) : r.blocked => r.id \in tried'
    BY <1>1 DEF AlertsInv
  <2>2. ASSUME NEW q \in Te!Procs
        PROVE  /\ tpc'[q] = "spool" => \A r \in Te!ToSet(held'[q]) : ~ r.blocked
               /\ tpc'[q] = "respool" => Te!IdsOf(held'[q]) \subseteq tried'
    <3>1. CASE q = p
      <4>1. held'[q] = t /\ tpc'[q] = l
        BY <1>2, <3>1
      <4> QED  BY <4>1
    <3>2. CASE q # p
      <4>1. held'[q] = held[q] /\ tpc'[q] = tpc[q]
        BY <1>2, <3>2
      <4> QED  BY <1>1, <4>1 DEF AlertsInv
    <3> QED  BY <3>1, <3>2
  <2> QED  BY <2>1, <2>2
<1>11. Te!Traceable'
  <2> SUFFICES ASSUME NEW i \in 1 .. nextSeq - 1
               PROVE  \/ i \in {r.id : r \in received'} \/ i \in Te!IdsOf(s)
                      \/ \E q \in Te!Procs : i \in Te!IdsOf(held'[q])
                      \/ i \in counted' \/ i \in gone' \/ i \in refused'
    BY DEF Te!Traceable, Te!InHands
  <2>1. \/ i \in {r.id : r \in received} \/ i \in Te!IdsOf(spool)
        \/ \E q \in Te!Procs : i \in Te!IdsOf(held[q])
        \/ i \in counted \/ i \in gone \/ i \in refused
    BY <1>1 DEF Te!Traceable, Te!InHands
  <2>2. CASE i \in {r.id : r \in received} \/ i \in counted \/ i \in gone \/ i \in refused
    BY <2>2
  <2>3. CASE i \in Te!IdsOf(spool) \/ i \in Te!IdsOf(held[p])
    <3>1. i \in Te!IdsOf(s) \cup Te!IdsOf(t) \cup {r.id : r \in received'} \cup counted' \cup gone' \cup refused'
      BY <2>3
    <3>2. held'[p] = t
      BY <1>2
    <3> QED  BY <3>1, <3>2
  <2>4. ASSUME NEW q \in Te!Procs, q # p, i \in Te!IdsOf(held[q]) PROVE i \in Te!IdsOf(held'[q])
    BY <1>2, <2>4
  <2> QED  BY <2>1, <2>2, <2>3, <2>4
<1> QED  BY <1>8, <1>9, <1>10, <1>11 DEF PassInv

\* A process seals the next record, with empty hands.
LEMMA RecordSealed ==
  ASSUME TelemetryInv, NEW p \in Te!Procs, held[p] = <<>>, NEW l \in {"upload", "spool"},
         NEW r \in Te!Records, r.id = nextSeq, l = "spool" => ~ r.blocked,
         tpc' = [tpc EXCEPT ![p] = l], held' = [held EXCEPT ![p] = <<r>>], nextSeq' = nextSeq + 1,
         UNCHANGED <<spool, received, tried, counted, gone, refused>>
  PROVE  PassInv'
<1>1. OnceInv /\ HandsInv /\ AlertsInv /\ Te!Traceable /\ tpc \in [Te!Procs -> Te!Pcs] /\ nextSeq \in Nat
  <2>1. nextSeq \in 1 .. MaxSealed + 1 /\ MaxSealed \in Nat
    BY PartsAssumption DEF TelemetryInv, TypesInv, Te!ConstantsOK
  <2> QED  BY <2>1 DEF TelemetryInv, PassInv, TypesInv
<1>2. \A q \in Te!Procs : held'[q] = (IF q = p THEN <<r>> ELSE held[q]) /\ tpc'[q] = (IF q = p THEN l ELSE tpc[q])
  BY <1>1 DEF OnceInv
<1>3. /\ <<r>> \in Seq(Te!Records) /\ Distinct(<<r>>) /\ Te!IdsOf(<<r>>) = {nextSeq} /\ Te!ToSet(<<r>>) = {r}
  BY OneId
<1>4. held' \in [Te!Procs -> Seq(Te!Records)]
  BY <1>1, <1>3 DEF OnceInv
<1>5. 1 .. nextSeq' - 1 = (1 .. nextSeq - 1) \cup {nextSeq} /\ nextSeq \notin 1 .. nextSeq - 1
  <2>1. nextSeq' - 1 = nextSeq
    BY <1>1
  <2>2. nextSeq \in Nat /\ nextSeq >= 1
    <3>1. nextSeq \in 1 .. MaxSealed + 1 /\ MaxSealed \in Nat
      BY PartsAssumption DEF TelemetryInv, TypesInv, Te!ConstantsOK
    <3> QED  BY <3>1
  <2>3. \A n \in Nat : n >= 1 => 1 .. n = (1 .. n - 1) \cup {n} /\ n \notin 1 .. n - 1
    OBVIOUS
  <2> QED  BY <2>1, <2>2, <2>3
<1>6. nextSeq \notin Te!IdsOf(spool) /\ \A q \in Te!Procs : nextSeq \notin Te!IdsOf(held[q])
  BY <1>1, <1>5 DEF OnceInv
<1>7. ASSUME NEW q \in Te!Procs
      PROVE  /\ Distinct(held'[q]) /\ Te!IdsOf(held'[q]) \subseteq 1 .. nextSeq' - 1
             /\ Te!IdsOf(held'[q]) \cap Te!IdsOf(spool) = {}
  <2>1. CASE q = p
    <3>1. held'[q] = <<r>>
      BY <1>2, <2>1
    <3> QED  BY <1>3, <1>5, <1>6, <3>1
  <2>2. CASE q # p
    <3>1. held'[q] = held[q]
      BY <1>2, <2>2
    <3> QED  BY <1>1, <1>5, <3>1 DEF OnceInv
  <2> QED  BY <2>1, <2>2
<1>8. ASSUME NEW q \in Te!Procs, NEW u \in Te!Procs, q # u PROVE Te!IdsOf(held'[q]) \cap Te!IdsOf(held'[u]) = {}
  <2>1. CASE q = p
    <3>1. held'[q] = <<r>> /\ held'[u] = held[u]
      BY <1>2, <1>8, <2>1
    <3> QED  BY <1>3, <1>6, <3>1
  <2>2. CASE u = p
    <3>1. held'[u] = <<r>> /\ held'[q] = held[q]
      BY <1>2, <1>8, <2>2
    <3> QED  BY <1>3, <1>6, <3>1
  <2>3. CASE q # p /\ u # p
    <3>1. held'[q] = held[q] /\ held'[u] = held[u]
      BY <1>2, <2>3
    <3> QED  BY <1>1, <1>8, <3>1 DEF OnceInv
  <2> QED  BY <2>1, <2>2, <2>3
<1>9. OnceInv'
  <2>1. Distinct(spool) /\ spool \in Seq(Te!Records) /\ Te!IdsOf(spool) \subseteq 1 .. nextSeq' - 1
    BY <1>1, <1>5 DEF OnceInv
  <2> QED  BY <1>4, <1>7, <1>8, <2>1 DEF OnceInv
<1>10. HandsInv'
  <2>1. l \notin Handless
    BY DEF Handless
  <2> SUFFICES ASSUME NEW q \in Te!Procs, tpc'[q] \in Handless PROVE held'[q] = <<>>
    BY DEF HandsInv
  <2> QED  BY <1>1, <1>2, <2>1 DEF HandsInv
<1>11. AlertsInv'
  <2> SUFFICES ASSUME ~ InServer, NEW q \in Te!Procs
               PROVE  /\ \A x \in Te!ToSet(spool) : x.blocked => x.id \in tried
                      /\ tpc'[q] = "spool" => \A x \in Te!ToSet(held'[q]) : ~ x.blocked
                      /\ tpc'[q] = "respool" => Te!IdsOf(held'[q]) \subseteq tried
    <3>1. \A x \in Te!ToSet(spool) : ~ InServer => (x.blocked => x.id \in tried)
      BY <1>1 DEF AlertsInv
    <3> QED  BY <3>1 DEF AlertsInv
  <2>1. CASE q = p
    <3>1. held'[q] = <<r>> /\ tpc'[q] = l
      BY <1>2, <2>1
    <3> QED  BY <1>1, <1>3, <3>1 DEF AlertsInv
  <2>2. CASE q # p
    <3>1. held'[q] = held[q] /\ tpc'[q] = tpc[q]
      BY <1>2, <2>2
    <3> QED  BY <1>1, <3>1 DEF AlertsInv
  <2> QED  BY <2>1, <2>2
<1>12. Te!Traceable'
  <2> SUFFICES ASSUME NEW i \in 1 .. nextSeq' - 1
               PROVE  \/ i \in {x.id : x \in received} \/ i \in Te!IdsOf(spool)
                      \/ \E q \in Te!Procs : i \in Te!IdsOf(held'[q])
                      \/ i \in counted \/ i \in gone \/ i \in refused
    BY DEF Te!Traceable, Te!InHands
  <2>1. CASE i = nextSeq
    <3>1. held'[p] = <<r>>
      BY <1>2
    <3> QED  BY <1>3, <2>1, <3>1
  <2>2. CASE i \in 1 .. nextSeq - 1
    <3>1. \/ i \in {x.id : x \in received} \/ i \in Te!IdsOf(spool)
          \/ \E q \in Te!Procs : i \in Te!IdsOf(held[q])
          \/ i \in counted \/ i \in gone \/ i \in refused
      BY <1>1, <2>2 DEF Te!Traceable, Te!InHands
    <3>2. ASSUME NEW q \in Te!Procs, i \in Te!IdsOf(held[q]) PROVE q # p /\ i \in Te!IdsOf(held'[q])
      <4>1. q # p
        BY <3>2, NoIds
      <4> QED  BY <1>2, <3>2, <4>1
    <3> QED  BY <3>1, <3>2
  <2> QED  BY <1>5, <2>1, <2>2
<1> QED  BY <1>9, <1>10, <1>11, <1>12 DEF PassInv

-----------------------------------------------------------------------------
\* What the spool's append does with the records in hand.
LEMMA Appended ==
  ASSUME TelemetryInv, NEW p \in Te!Procs, Te!SpoolAppend(held[p])
  PROVE  /\ spool' \in Seq(Te!Records) /\ Distinct(spool') /\ Len(spool') <= SpoolMax
         /\ Te!IdsOf(spool') \subseteq Te!IdsOf(spool) \cup Te!IdsOf(held[p])
         /\ Te!ToSet(spool') \subseteq Te!ToSet(spool) \cup Te!ToSet(held[p])
         /\ Te!IdsOf(spool) \cup Te!IdsOf(held[p]) \subseteq Te!IdsOf(spool') \cup counted'
         /\ counted \subseteq counted' /\ counted' \subseteq Te!Ids /\ drops' \subseteq Te!Ids
<1>1. /\ held[p] \in Seq(Te!Records) /\ Distinct(held[p]) /\ spool \in Seq(Te!Records) /\ Distinct(spool)
      /\ Te!IdsOf(held[p]) \cap Te!IdsOf(spool) = {}
  BY HeldFacts
<1>2. counted \subseteq Te!Ids /\ drops \subseteq Te!Ids /\ Len(spool) <= SpoolMax
  BY DEF TelemetryInv, TypesInv
<1>3. CASE held[p] = <<>>
  <2>1. UNCHANGED <<spool, drops, counted>>
    BY <1>3 DEF Te!SpoolAppend
  <2> QED  BY <1>1, <1>2, <1>3, <2>1, NoIds
<1>4. CASE held[p] # <<>>
  <2> DEFINE b == spool \o held[p]
             k == Te!Kept(b)
  <2>1. /\ spool' = k /\ drops' = drops \cup (Te!IdsOf(b) \ Te!IdsOf(k))
        /\ counted' = counted \cup (Te!IdsOf(b) \ Te!IdsOf(k))
    BY <1>4 DEF Te!SpoolAppend, Te!CountDropped
  <2>2. /\ b \in Seq(Te!Records) /\ Distinct(b)
        /\ Te!IdsOf(b) = Te!IdsOf(spool) \cup Te!IdsOf(held[p])
        /\ Te!ToSet(b) = Te!ToSet(spool) \cup Te!ToSet(held[p])
    BY <1>1, ConcatDistinct
  <2> HIDE DEF b
  <2>3. Part(k, b) /\ Len(k) <= SpoolMax
    BY <2>2, KeptPart
  <2> HIDE DEF k
  <2>4. /\ k \in Seq(Te!Records) /\ Distinct(k)
        /\ Te!IdsOf(k) \subseteq Te!IdsOf(b) /\ Te!ToSet(k) \subseteq Te!ToSet(b)
    BY <2>2, <2>3, PartIds
  <2>5. Te!IdsOf(b) \subseteq Te!Ids
    BY <2>2, IdsIn
  <2> QED  BY <1>2, <2>1, <2>2, <2>3, <2>4, <2>5
<1> QED  BY <1>3, <1>4

\* Its effect on the ids of the records in hand, and on what was tried.
LEMMA InHand ==
  ASSUME TelemetryInv, NEW p \in Te!Procs
  PROVE  /\ Te!IdsOf(held[p]) \subseteq Te!Ids /\ Te!ToSet(held[p]) \subseteq Te!Records
         /\ Te!IdsOf(held[p]) = {r.id : r \in Te!ToSet(held[p])}
         /\ tpc[p] \in Te!Pcs
<1>1. held[p] \in Seq(Te!Records) /\ tpc[p] \in Te!Pcs
  BY DEF TelemetryInv, TypesInv, PassInv, OnceInv
<1> QED  BY <1>1, IdsIn DEF Te!IdsOf

LEMMA NextPlace ==
  ASSUME TelemetryInv, NEW p \in Te!Procs, NEW l \in Te!Pcs, tpc' = [tpc EXCEPT ![p] = l]
  PROVE  tpc' \in [Te!Procs -> Te!Pcs]
BY DEF TelemetryInv, TypesInv

\* A record is sealed: by a caller, or for the drops.
LEMMA TelemetrySeals ==
  ASSUME TelemetryInv, NEW p \in Te!Procs,
         \/ \E b \in BOOLEAN : Te!Dispatch(p, b)
         \/ Te!TakeDrops(p) /\ drops # {} /\ nextSeq' # nextSeq
  PROVE  TelemetryInv'
<1>1. PICK l \in {"upload", "spool"}, b \in BOOLEAN, c \in SUBSET Te!Ids :
        /\ tpc[p] \in {"idle", "drops"} /\ nextSeq <= MaxSealed
        /\ tpc' = [tpc EXCEPT ![p] = l] /\ held' = [held EXCEPT ![p] = <<Te!NewRecord(b, c)>>]
        /\ nextSeq' = nextSeq + 1 /\ drops' \in {drops, {}} /\ (l = "spool" => ~ b)
        /\ UNCHANGED <<spool, failures, waiting, revoked, seen, kick, received, tried, counted, gone, refused, old>>
  <2>1. CASE \E b \in BOOLEAN : Te!Dispatch(p, b)
    <3>1. PICK b \in BOOLEAN : Te!Dispatch(p, b)
      BY <2>1
    <3> DEFINE l == IF b THEN "upload" ELSE "spool"
    <3>2. /\ tpc[p] = "idle" /\ nextSeq <= MaxSealed
          /\ tpc' = [tpc EXCEPT ![p] = l] /\ held' = [held EXCEPT ![p] = <<Te!NewRecord(b, {})>>]
          /\ nextSeq' = nextSeq + 1 /\ drops' = drops
          /\ UNCHANGED <<spool, failures, waiting, revoked, seen, kick, received, tried, counted, gone, refused, old>>
      BY <3>1 DEF Te!Dispatch, Te!Goto, Te!Hold, Te!filev, Te!histv
    <3>3. l \in {"upload", "spool"} /\ (l = "spool" => ~ b) /\ {} \in SUBSET Te!Ids
      OBVIOUS
    <3> HIDE DEF l
    <3> QED  BY <3>2, <3>3
  <2>2. CASE Te!TakeDrops(p) /\ drops # {} /\ nextSeq' # nextSeq
    <3>1. /\ tpc[p] = "drops" /\ nextSeq <= MaxSealed
          /\ tpc' = [tpc EXCEPT ![p] = "upload"] /\ held' = [held EXCEPT ![p] = <<Te!NewRecord(FALSE, drops)>>]
          /\ nextSeq' = nextSeq + 1 /\ drops' = {}
          /\ UNCHANGED <<spool, failures, waiting, revoked, seen, kick, received, tried, counted, gone, refused, old>>
      BY <2>2 DEF Te!TakeDrops, Te!Goto, Te!Hold, Te!histv
    <3>2. drops \in SUBSET Te!Ids /\ "upload" \in {"upload", "spool"} /\ ~ ("upload" = "spool") /\ FALSE \in BOOLEAN
      BY DEF TelemetryInv, TypesInv
    <3> QED  BY <3>1, <3>2
  <2> QED  BY <2>1, <2>2
<1>2. nextSeq \in Te!Ids /\ nextSeq' \in 1 .. MaxSealed + 1
  <2>1. nextSeq \in 1 .. MaxSealed + 1 /\ MaxSealed \in Nat
    BY PartsAssumption DEF TelemetryInv, TypesInv, Te!ConstantsOK
  <2> QED  BY <1>1, <2>1 DEF Te!Ids
<1> DEFINE r == Te!NewRecord(b, c)
<1>3. r \in Te!Records /\ r.id = nextSeq /\ (l = "spool" => ~ r.blocked)
  BY <1>1, <1>2 DEF Te!NewRecord, Te!Records
<1> HIDE DEF r
<1>4. held[p] = <<>>
  BY <1>1, HeldFacts DEF Handless
<1>5. PassInv'
  <2>1. held' = [held EXCEPT ![p] = <<r>>]
    BY <1>1 DEF r
  <2> QED  BY <1>1, <1>3, <1>4, <2>1, RecordSealed
<1>6. tpc' \in [Te!Procs -> Te!Pcs]
  BY <1>1, NextPlace DEF Te!Pcs
<1>7. TypesInv'
  BY <1>1, <1>2, <1>6 DEF TelemetryInv, TypesInv
<1> QED  BY <1>5, <1>7 DEF TelemetryInv

\* Steps that pass no record: the process goes on, or ends with empty hands.
LEMMA TelemetryGoes ==
  ASSUME TelemetryInv, NEW p \in Te!Procs,
         \/ Te!Pending(p) \/ Te!Tick(p) \/ Te!UploadNow(p) \/ Te!NoteRead(p) \/ Te!NoteWrite(p)
         \/ Te!Clear(p) \/ (Te!TakeDrops(p) /\ nextSeq' = nextSeq) \/ (p = Bg /\ Te!BgWake)
  PROVE  TelemetryInv'
<1>1. PICK l \in {"idle", "upload", "drain", "noting", "drops"} :
        /\ tpc[p] \in Handless \cup {"upload"} /\ tpc' = [tpc EXCEPT ![p] = l]
        /\ held' \in {held, [held EXCEPT ![p] = <<>>]}
        /\ (tpc[p] = "upload" => l = "drain" /\ held' = held)
        /\ UNCHANGED <<spool, nextSeq, old, received, tried, counted, gone, refused>>
  <2>1. CASE Te!Pending(p)
    BY <2>1 DEF Te!Pending, Te!Goto, Te!filev, Te!histv, Handless
  <2>2. CASE Te!Tick(p) \/ (p = Bg /\ Te!BgWake)
    BY <2>2 DEF Te!Tick, Te!BgWake, Te!Goto, Te!filev, Te!histv, Handless
  <2>3. CASE Te!UploadNow(p)
    BY <2>3 DEF Te!UploadNow, Te!Goto, Te!filev, Te!histv, Handless
  <2>4. CASE Te!NoteRead(p)
    BY <2>4 DEF Te!NoteRead, Te!Goto, Te!filev, Te!histv, Handless
  <2>5. CASE Te!NoteWrite(p)
    BY <2>5 DEF Te!NoteWrite, Te!Done, Te!Hold, Te!Goto, Te!histv, Handless
  <2>6. CASE Te!Clear(p)
    BY <2>6 DEF Te!Clear, Te!Goto, Te!histv, Handless
  <2>7. CASE Te!TakeDrops(p) /\ nextSeq' = nextSeq
    <3>1. nextSeq \in Int /\ nextSeq # nextSeq + 1
      <4>1. nextSeq \in 1 .. MaxSealed + 1 /\ MaxSealed \in Nat
        BY PartsAssumption DEF TelemetryInv, TypesInv, Te!ConstantsOK
      <4> QED  BY <4>1
    <3> QED  BY <2>7, <3>1 DEF Te!TakeDrops, Te!Done, Te!Hold, Te!Goto, Te!histv, Handless
  <2> QED  BY <2>1, <2>2, <2>3, <2>4, <2>5, <2>6, <2>7
<1>2. held' = [held EXCEPT ![p] = held[p]] /\ (l # "drain" => held[p] = <<>>)
  <2>1. held = [held EXCEPT ![p] = held[p]] /\ (tpc[p] \in Handless => held[p] = <<>>)
    BY HeldFacts
  <2>2. tpc[p] # "upload" => held' = [held EXCEPT ![p] = held[p]] /\ held[p] = <<>>
    BY <1>1, <2>1
  <2> QED  BY <1>1, <2>1, <2>2
<1>3. l \in Handless => held[p] = <<>>
  BY <1>2 DEF Handless
<1>4. l # "spool" /\ l # "respool"
  OBVIOUS
<1>5. PassInv'
  <2>1. \A x \in Te!ToSet(spool) : x.blocked => x \in Te!ToSet(spool) \/ x.id \in tried'
    OBVIOUS
  <2>2. /\ held[p] \in Seq(Te!Records) /\ Distinct(held[p]) /\ spool \in Seq(Te!Records) /\ Distinct(spool)
        /\ Te!IdsOf(spool) \cap Te!IdsOf(held[p]) = {}
    BY HeldFacts
  <2>3. /\ tpc' = [tpc EXCEPT ![p] = l] /\ spool' = spool /\ nextSeq' = nextSeq
        /\ received \subseteq received' /\ tried \subseteq tried' /\ counted \subseteq counted'
        /\ gone \subseteq gone' /\ refused \subseteq refused'
    BY <1>1
  <2>4. Te!IdsOf(spool) \cup Te!IdsOf(held[p]) \subseteq
          Te!IdsOf(spool) \cup Te!IdsOf(held[p]) \cup {r.id : r \in received'} \cup counted' \cup gone' \cup refused'
    OBVIOUS
  <2> QED  BY <1>2, <1>3, <1>4, <2>1, <2>2, <2>3, <2>4, RecordsPass
<1>6. tpc' \in [Te!Procs -> Te!Pcs]
  BY <1>1, NextPlace DEF Te!Pcs
<1>7. /\ failures' \in 0 .. MaxFailures /\ seen' \in [Te!Procs -> 0 .. MaxFailures]
      /\ waiting' \in BOOLEAN /\ revoked' \in BOOLEAN /\ kick' \in BOOLEAN /\ drops' \subseteq Te!Ids
  <2>1. /\ failures \in 0 .. MaxFailures /\ seen \in [Te!Procs -> 0 .. MaxFailures] /\ MaxFailures \in Nat
        /\ seen[p] \in 0 .. MaxFailures
        /\ waiting \in BOOLEAN /\ revoked \in BOOLEAN /\ kick \in BOOLEAN /\ drops \subseteq Te!Ids
    BY PartsAssumption DEF TelemetryInv, TypesInv, Te!ConstantsOK
  <2>2. Te!Bump(seen[p]) \in 0 .. MaxFailures /\ 0 \in 0 .. MaxFailures
    BY <2>1 DEF Te!Bump
  <2>3. CASE Te!Pending(p) \/ Te!Tick(p) \/ (p = Bg /\ Te!BgWake) \/ Te!UploadNow(p)
    BY <2>1, <2>3 DEF Te!Pending, Te!Tick, Te!BgWake, Te!UploadNow, Te!filev
  <2>4. CASE Te!NoteRead(p)
    BY <2>1, <2>4 DEF Te!NoteRead, Te!filev
  <2>5. CASE Te!NoteWrite(p)
    BY <2>1, <2>2, <2>5 DEF Te!NoteWrite
  <2>6. CASE Te!Clear(p)
    BY <2>1, <2>2, <2>6 DEF Te!Clear
  <2>7. CASE Te!TakeDrops(p)
    BY <2>1, <2>7 DEF Te!TakeDrops
  <2> QED  BY <2>3, <2>4, <2>5, <2>6, <2>7
<1>8. TypesInv'
  BY <1>1, <1>6, <1>7 DEF TelemetryInv, TypesInv
<1> QED  BY <1>5, <1>8 DEF TelemetryInv

\* The records in hand are spooled, and the hands empty.
LEMMA TelemetrySpools ==
  ASSUME TelemetryInv, NEW p \in Te!Procs,
         Te!Spool(p) \/ Te!UploadLater(p) \/ Te!PostRefused(p) \/ Te!Respool(p)
  PROVE  TelemetryInv'
<1>0. PICK l \in {"pending", "idle", "note"} : tpc' = [tpc EXCEPT ![p] = l]
  BY DEF Te!Spool, Te!UploadLater, Te!PostRefused, Te!Respool, Te!Done, Te!Goto
<1>1. /\ Te!SpoolAppend(held[p]) /\ held' = [held EXCEPT ![p] = <<>>]
      /\ UNCHANGED <<failures, waiting, revoked, nextSeq, old, seen, received, gone, refused>>
      /\ tried' \in {tried, tried \cup Te!IdsOf(held[p])}
  BY DEF Te!Spool, Te!UploadLater, Te!PostRefused, Te!Respool, Te!Sent, Te!Done, Te!Hold
<1>11. kick' \in BOOLEAN
  <2>1. kick \in BOOLEAN
    BY DEF TelemetryInv, TypesInv
  <2> QED  BY <2>1 DEF Te!Spool, Te!UploadLater, Te!PostRefused, Te!Respool
<1>12. \/ InServer \/ tpc[p] = "spool" \/ tpc[p] = "respool" \/ ~ Te!Alert(held[p])
       \/ tried' = tried \cup Te!IdsOf(held[p])
  BY DEF Te!Spool, Te!UploadLater, Te!PostRefused, Te!Respool, Te!Sent, Te!Background, Te!BackedOff
<1>2. /\ spool' \in Seq(Te!Records) /\ Distinct(spool') /\ Len(spool') <= SpoolMax
      /\ Te!IdsOf(spool') \subseteq Te!IdsOf(spool) \cup Te!IdsOf(held[p])
      /\ Te!ToSet(spool') \subseteq Te!ToSet(spool) \cup Te!ToSet(held[p])
      /\ Te!IdsOf(spool) \cup Te!IdsOf(held[p]) \subseteq Te!IdsOf(spool') \cup counted'
      /\ counted \subseteq counted' /\ counted' \subseteq Te!Ids /\ drops' \subseteq Te!Ids
  BY <1>1, Appended
<1>3. Te!IdsOf(held[p]) \subseteq Te!Ids /\ Te!IdsOf(held[p]) = {r.id : r \in Te!ToSet(held[p])}
  BY InHand
<1>4. ASSUME ~ InServer PROVE \A r \in Te!ToSet(spool') : r.blocked => r \in Te!ToSet(spool) \/ r.id \in tried'
  <2> SUFFICES ASSUME NEW r \in Te!ToSet(held[p]), r.blocked PROVE r.id \in tried'
    BY <1>2
  <2>0. r.id \in Te!IdsOf(held[p]) /\ tried \subseteq tried'
    BY <1>1, <1>3
  <2>1. CASE tpc[p] = "spool"
    BY <1>4, <2>1 DEF TelemetryInv, PassInv, AlertsInv
  <2>2. CASE tpc[p] = "respool"
    <3>1. Te!IdsOf(held[p]) \subseteq tried
      BY <1>4, <2>2 DEF TelemetryInv, PassInv, AlertsInv
    <3> QED  BY <2>0, <3>1
  <2>3. CASE ~ Te!Alert(held[p])
    BY <2>3 DEF Te!Alert
  <2>4. CASE tried' = tried \cup Te!IdsOf(held[p])
    BY <2>0, <2>4
  <2> QED  BY <1>4, <1>12, <2>1, <2>2, <2>3, <2>4
<1>5. PassInv'
  <2> DEFINE s == spool'
  <2>1. /\ s \in Seq(Te!Records) /\ Distinct(s) /\ <<>> \in Seq(Te!Records) /\ Distinct(<<>>)
        /\ Te!IdsOf(s) \subseteq Te!IdsOf(spool) \cup Te!IdsOf(held[p])
        /\ Te!IdsOf(<<>>) \subseteq Te!IdsOf(spool) \cup Te!IdsOf(held[p])
        /\ Te!IdsOf(s) \cap Te!IdsOf(<<>>) = {}
    BY <1>2, NoIds
  <2>2. /\ tpc' = [tpc EXCEPT ![p] = l] /\ held' = [held EXCEPT ![p] = <<>>] /\ nextSeq' = nextSeq
        /\ received \subseteq received' /\ tried \subseteq tried' /\ counted \subseteq counted'
        /\ gone \subseteq gone' /\ refused \subseteq refused'
    BY <1>0, <1>1, <1>2
  <2>3. Te!IdsOf(spool) \cup Te!IdsOf(held[p]) \subseteq
          Te!IdsOf(s) \cup Te!IdsOf(<<>>) \cup {r.id : r \in received'} \cup counted' \cup gone' \cup refused'
    BY <1>2
  <2>4. l # "spool" /\ l # "respool"
    OBVIOUS
  <2>5. PICK u : u = spool'
    OBVIOUS
  <2> HIDE DEF s
  <2>6. s = u
    BY <2>5 DEF s
  <2>7. ~ InServer => \A r \in Te!ToSet(u) : r.blocked => r \in Te!ToSet(spool) \/ r.id \in tried'
    BY <1>4, <2>5
  <2> QED  BY <2>1, <2>2, <2>3, <2>4, <2>5, <2>6, <2>7, RecordsPass
<1>6. tpc' \in [Te!Procs -> Te!Pcs]
  BY <1>0, NextPlace DEF Te!Pcs
<1>7. kick' \in BOOLEAN /\ tried' \subseteq Te!Ids
  BY <1>1, <1>3, <1>11 DEF TelemetryInv, TypesInv
<1>8. TypesInv'
  BY <1>1, <1>2, <1>6, <1>7 DEF TelemetryInv, TypesInv
<1> QED  BY <1>5, <1>8 DEF TelemetryInv

\* The records in hand are answered for: delivered, refused, or still in hand after a
\* POST that failed; or an append of them fails.
LEMMA TelemetryAnswers ==
  ASSUME TelemetryInv, NEW p \in Te!Procs,
         Te!UploadRevoked(p) \/ Te!PostOk(p) \/ Te!PostFails(p) \/ Te!PostRevoked(p) \/ Te!AppendFails(p)
  PROVE  TelemetryInv'
<1> DEFINE mine == Te!IdsOf(held[p])
<1>1. /\ mine \subseteq Te!Ids /\ Te!ToSet(held[p]) \subseteq Te!Records
      /\ mine = {r.id : r \in Te!ToSet(held[p])}
  BY InHand
<1>2. PICK l \in {"idle", "clear", "respool", "pending", "note"}, t \in {<<>>, held[p]} :
        /\ tpc' = [tpc EXCEPT ![p] = l] /\ held' = [held EXCEPT ![p] = t]
        /\ (l # "respool" => t = <<>>) /\ (l = "respool" => tried' = tried \cup mine)
        /\ UNCHANGED <<spool, failures, waiting, seen, kick, nextSeq, old>>
        /\ revoked' \in {revoked, TRUE} /\ tried' \in {tried, tried \cup mine}
        /\ received' \in {received, received \cup Te!ToSet(held[p])}
        /\ gone' \in {gone, gone \cup mine} /\ refused' \in {refused, refused \cup mine}
        /\ counted \subseteq counted'
        /\ t = <<>> => received' = received \cup Te!ToSet(held[p]) \/ gone' = gone \cup mine \/ refused' = refused \cup mine
  <2>0. held = [held EXCEPT ![p] = held[p]]
    BY HeldFacts
  <2>1. CASE Te!UploadRevoked(p)
    BY <2>1 DEF Te!UploadRevoked, Te!Done, Te!Hold, Te!Goto, Te!filev
  <2>2. CASE Te!PostOk(p)
    BY <2>2 DEF Te!PostOk, Te!Sent, Te!Hold, Te!Goto, Te!filev
  <2>3. CASE Te!PostFails(p)
    <3>1. /\ tpc' = [tpc EXCEPT ![p] = "respool"] /\ held' = held /\ tried' = tried \cup mine
          /\ received' \in {received, received \cup Te!ToSet(held[p])}
          /\ UNCHANGED <<spool, failures, waiting, revoked, seen, kick, nextSeq, old, gone, refused, counted>>
      BY <2>3 DEF Te!PostFails, Te!Sent, Te!Goto, Te!filev
    <3>2. CASE held[p] = <<>>
      <4>1. received' = received \cup Te!ToSet(held[p]) \/ gone' = gone \cup mine
        BY <3>1, <3>2, NoIds
      <4> QED  BY <2>0, <3>1, <4>1
    <3>3. CASE held[p] # <<>>
      BY <2>0, <3>1, <3>3
    <3> QED  BY <3>2, <3>3
  <2>4. CASE Te!PostRevoked(p)
    BY <2>4 DEF Te!PostRevoked, Te!Sent, Te!Done, Te!Hold, Te!Goto
  <2>5. CASE Te!AppendFails(p)
    <3>1. PICK l \in {"pending", "note"} : tpc' = [tpc EXCEPT ![p] = l] /\ held' = [held EXCEPT ![p] = <<>>]
      BY <2>5 DEF Te!AppendFails, Te!Hold, Te!Goto
    <3>2. /\ gone' = gone \cup mine /\ counted \subseteq counted'
          /\ UNCHANGED <<spool, failures, waiting, revoked, seen, kick, received, tried, refused, nextSeq, old>>
      BY <2>5 DEF Te!AppendFails, Te!CountDropped
    <3> QED  BY <3>1, <3>2
  <2> QED  BY <2>1, <2>2, <2>3, <2>4, <2>5
<1>3. counted' \subseteq Te!Ids /\ drops' \subseteq Te!Ids
  <2>1. counted \subseteq Te!Ids /\ drops \subseteq Te!Ids
    BY DEF TelemetryInv, TypesInv
  <2>2. CASE ~ Te!AppendFails(p)
    BY <2>1, <2>2 DEF Te!UploadRevoked, Te!PostOk, Te!PostFails, Te!PostRevoked, Te!filev
  <2>3. CASE Te!AppendFails(p)
    <3> DEFINE b == spool \o held[p]
               lost == Te!IdsOf(b) \ Te!IdsOf(Te!Kept(b))
    <3>1. b \in Seq(Te!Records)
      BY HeldFacts, ConcatDistinct
    <3>2. Te!IdsOf(b) \subseteq Te!Ids
      BY <3>1, IdsIn
    <3>3. (drops' = drops /\ counted' = counted) \/ (drops' = drops \cup lost /\ counted' = counted \cup lost)
      BY <2>3 DEF Te!AppendFails, Te!CountDropped
    <3> QED  BY <2>1, <3>2, <3>3
  <2> QED  BY <2>2, <2>3
<1>4. PassInv'
  <2>1. /\ t \in Seq(Te!Records) /\ Distinct(t) /\ spool \in Seq(Te!Records) /\ Distinct(spool)
        /\ Te!IdsOf(t) \subseteq Te!IdsOf(spool) \cup Te!IdsOf(held[p])
        /\ Te!IdsOf(spool) \cap Te!IdsOf(t) = {} /\ Te!IdsOf(t) \subseteq mine
    BY <1>2, HeldFacts, NoIds
  <2>2. /\ tpc' = [tpc EXCEPT ![p] = l] /\ held' = [held EXCEPT ![p] = t] /\ spool' = spool /\ nextSeq' = nextSeq
        /\ received \subseteq received' /\ tried \subseteq tried' /\ counted \subseteq counted'
        /\ gone \subseteq gone' /\ refused \subseteq refused'
    BY <1>2
  <2>3. Te!IdsOf(spool) \cup Te!IdsOf(held[p]) \subseteq
          Te!IdsOf(spool) \cup Te!IdsOf(t) \cup {r.id : r \in received'} \cup counted' \cup gone' \cup refused'
    <3>1. CASE t = held[p]
      BY <3>1
    <3>2. CASE t = <<>>
      <4>1. received' = received \cup Te!ToSet(held[p]) => mine \subseteq {r.id : r \in received'}
        BY <1>1
      <4>2. mine \subseteq {r.id : r \in received'} \/ mine \subseteq gone' \/ mine \subseteq refused'
        BY <1>2, <3>2, <4>1
      <4> QED  BY <4>2
    <3> QED  BY <1>2, <3>1, <3>2
  <2>4. (l \in Handless => t = <<>>) /\ l # "spool" /\ (l = "respool" => Te!IdsOf(t) \subseteq tried')
    BY <1>2, <2>1 DEF Handless
  <2>5. \A r \in Te!ToSet(spool) : r.blocked => r \in Te!ToSet(spool) \/ r.id \in tried'
    OBVIOUS
  <2> QED  BY <2>1, <2>2, <2>3, <2>4, <2>5, RecordsPass
<1>5. tpc' \in [Te!Procs -> Te!Pcs]
  BY <1>2, NextPlace DEF Te!Pcs
<1>6. /\ received' \subseteq Te!Records /\ tried' \subseteq Te!Ids /\ gone' \subseteq Te!Ids /\ refused' \subseteq Te!Ids
      /\ revoked' \in BOOLEAN
  BY <1>1, <1>2 DEF TelemetryInv, TypesInv
<1>7. TypesInv'
  BY <1>2, <1>3, <1>5, <1>6 DEF TelemetryInv, TypesInv
<1> QED  BY <1>4, <1>7 DEF TelemetryInv

\* The batch is filled from the spool.
LEMMA TelemetryDrains ==
  ASSUME TelemetryInv, NEW p \in Te!Procs, Te!Drain(p)
  PROVE  TelemetryInv'
<1> DEFINE Left(l, t, s) ==
        /\ l \in {"idle", "post"}
        /\ tpc' = [tpc EXCEPT ![p] = l] /\ held' = [held EXCEPT ![p] = t] /\ spool' = s
        /\ s \in Seq(Te!Records) /\ Distinct(s) /\ t \in Seq(Te!Records) /\ Distinct(t)
        /\ Te!IdsOf(s) \subseteq Te!IdsOf(spool) /\ Te!ToSet(s) \subseteq Te!ToSet(spool)
        /\ Te!IdsOf(t) \subseteq Te!IdsOf(spool) \cup Te!IdsOf(held[p])
        /\ Te!IdsOf(s) \cap Te!IdsOf(t) = {}
        /\ (l = "idle" => t = <<>>) /\ Len(s) <= Len(spool)
        /\ Te!IdsOf(spool) \cup Te!IdsOf(held[p]) \subseteq Te!IdsOf(s) \cup Te!IdsOf(t) \cup counted'
        /\ counted \subseteq counted' /\ counted' \subseteq Te!Ids /\ drops' \subseteq Te!Ids
<1>1. \E l, t, s : Left(l, t, s)
  <2>1. /\ held[p] \in Seq(Te!Records) /\ Distinct(held[p]) /\ spool \in Seq(Te!Records) /\ Distinct(spool)
        /\ Te!IdsOf(held[p]) \cap Te!IdsOf(spool) = {} /\ Te!IdsOf(spool) \subseteq Te!Ids
    BY HeldFacts
  <2>2. Len(spool) \in Nat /\ counted \subseteq Te!Ids /\ drops \subseteq Te!Ids
    BY <2>1 DEF TelemetryInv, TypesInv
  <2>3. ASSUME NEW b, Te!Post(p, b)
        PROVE  \E l \in {"idle", "post"} :
                 tpc' = [tpc EXCEPT ![p] = l] /\ held' = [held EXCEPT ![p] = b] /\ (l = "idle" => b = <<>>)
    <3>1. CASE b = <<>>
      BY <2>3, <3>1 DEF Te!Post, Te!Done, Te!Goto, Te!Hold
    <3>2. CASE b # <<>>
      BY <2>3, <3>2 DEF Te!Post, Te!Goto, Te!Hold
    <3> QED  BY <3>1, <3>2
  <2>4. CASE Len(held[p]) < BatchMax
    <3> DEFINE all == Te!Fresh(spool)
               limit == BatchMax - Len(held[p])
               n == IF Len(all) < limit THEN Len(all) ELSE limit
               a == SubSeq(all, 1, n)
               s == SubSeq(all, n + 1, Len(all))
               t == a \o held[p]
    <3>1. /\ spool' = s /\ Te!Post(p, t)
          /\ drops' = drops \cup (Te!IdsOf(spool) \ Te!IdsOf(all))
          /\ counted' = counted \cup (Te!IdsOf(spool) \ Te!IdsOf(all))
      BY <2>4 DEF Te!Drain, Te!Take, Te!CountDropped
    <3>2. Part(all, spool)
      BY <2>1, FreshPart
    <3> HIDE DEF all
    <3>3. /\ all \in Seq(Te!Records) /\ Distinct(all) /\ Len(all) \in Nat
          /\ Te!IdsOf(all) \subseteq Te!IdsOf(spool) /\ Te!ToSet(all) \subseteq Te!ToSet(spool)
      BY <2>1, <3>2, PartIds
    <3>4. n \in 0 .. Len(all)
      <4>1. BatchMax \in Nat /\ Len(held[p]) \in Nat
        BY <2>1, PartsAssumption DEF Te!ConstantsOK
      <4> QED  BY <2>4, <3>3, <4>1
    <3> HIDE DEF n
    <3>5. /\ Part(a, all) /\ Part(s, all) /\ Te!IdsOf(a) \cup Te!IdsOf(s) = Te!IdsOf(all)
          /\ Te!IdsOf(a) \cap Te!IdsOf(s) = {}
      BY <3>3, <3>4, CutInTwo
    <3> HIDE DEF a, s
    <3>6. /\ a \in Seq(Te!Records) /\ Distinct(a) /\ s \in Seq(Te!Records) /\ Distinct(s)
          /\ Te!ToSet(s) \subseteq Te!ToSet(all)
      BY <3>3, <3>5, PartIds
    <3>7. Len(s) <= Len(spool)
      <4>1. Len(s) <= Len(all) /\ Len(all) <= Len(spool) /\ Len(s) \in Nat
        BY <3>2, <3>5, <3>6 DEF Part
      <4> QED  BY <2>2, <3>3, <4>1
    <3>8. Te!IdsOf(a) \cap Te!IdsOf(held[p]) = {}
      BY <2>1, <3>3, <3>5
    <3>9. t \in Seq(Te!Records) /\ Distinct(t) /\ Te!IdsOf(t) = Te!IdsOf(a) \cup Te!IdsOf(held[p])
      BY <2>1, <3>6, <3>8, ConcatDistinct
    <3> HIDE DEF t
    <3>10. PICK l \in {"idle", "post"} :
             tpc' = [tpc EXCEPT ![p] = l] /\ held' = [held EXCEPT ![p] = t] /\ (l = "idle" => t = <<>>)
      BY <2>3, <3>1
    <3>11. /\ Te!IdsOf(s) \subseteq Te!IdsOf(spool) /\ Te!ToSet(s) \subseteq Te!ToSet(spool)
           /\ Te!IdsOf(t) \subseteq Te!IdsOf(spool) \cup Te!IdsOf(held[p])
           /\ Te!IdsOf(s) \cap Te!IdsOf(t) = {}
      BY <2>1, <3>3, <3>5, <3>6, <3>9
    <3>12. /\ Te!IdsOf(spool) \cup Te!IdsOf(held[p]) \subseteq Te!IdsOf(s) \cup Te!IdsOf(t) \cup counted'
           /\ counted \subseteq counted' /\ counted' \subseteq Te!Ids /\ drops' \subseteq Te!Ids
      BY <2>1, <2>2, <3>1, <3>5, <3>9
    <3>13. Left(l, t, s)
      BY <3>1, <3>6, <3>7, <3>9, <3>10, <3>11, <3>12
    <3> HIDE DEF Left
    <3> QED  BY <3>13
  <2>5. CASE ~ (Len(held[p]) < BatchMax)
    <3>1. Te!Post(p, held[p]) /\ UNCHANGED <<spool, drops, counted>>
      BY <2>5 DEF Te!Drain
    <3>2. PICK l \in {"idle", "post"} :
             tpc' = [tpc EXCEPT ![p] = l] /\ held' = [held EXCEPT ![p] = held[p]] /\ (l = "idle" => held[p] = <<>>)
      BY <2>3, <3>1
    <3>3. Len(spool) <= Len(spool) /\ Te!IdsOf(spool) \cap Te!IdsOf(held[p]) = {}
      BY <2>1, <2>2
    <3>4. Left(l, held[p], spool)
      BY <2>1, <2>2, <3>1, <3>2, <3>3
    <3> HIDE DEF Left
    <3> QED  BY <3>4
  <2> QED  BY <2>4, <2>5
<1>2. PICK l, t, s : Left(l, t, s)
  BY <1>1
<1>3. UNCHANGED <<failures, waiting, revoked, seen, kick, received, tried, gone, refused, nextSeq, old>>
  BY DEF Te!Drain
<1>4. PassInv'
  <2>1. /\ nextSeq' = nextSeq /\ received \subseteq received' /\ tried \subseteq tried' /\ counted \subseteq counted'
        /\ gone \subseteq gone' /\ refused \subseteq refused'
    BY <1>2, <1>3
  <2>2. Te!IdsOf(s) \subseteq Te!IdsOf(spool) \cup Te!IdsOf(held[p])
    BY <1>2
  <2>3. Te!IdsOf(spool) \cup Te!IdsOf(held[p]) \subseteq
          Te!IdsOf(s) \cup Te!IdsOf(t) \cup {r.id : r \in received'} \cup counted' \cup gone' \cup refused'
    BY <1>2
  <2>4. (l \in Handless => t = <<>>) /\ l # "spool" /\ l # "respool"
    BY <1>2 DEF Handless
  <2>5. \A r \in Te!ToSet(s) : r.blocked => r \in Te!ToSet(spool) \/ r.id \in tried'
    BY <1>2
  <2> QED  BY <1>2, <2>1, <2>2, <2>3, <2>4, <2>5, RecordsPass
<1>5. tpc' \in [Te!Procs -> Te!Pcs]
  BY <1>2, NextPlace DEF Te!Pcs
<1>6. Len(spool') <= SpoolMax
  <2>1. Len(spool) <= SpoolMax /\ Len(spool) \in Nat /\ Len(s) \in Nat /\ SpoolMax \in Nat
    BY <1>2, HeldFacts, PartsAssumption, SMTT(30) DEF TelemetryInv, TypesInv, Te!ConstantsOK
  <2> QED  BY <1>2, <2>1
<1>7. TypesInv'
  BY <1>2, <1>3, <1>5, <1>6 DEF TelemetryInv, TypesInv
<1> QED  BY <1>4, <1>7 DEF TelemetryInv

\* A process dies, or a server with its threads.
LEMMA TelemetryDies ==
  ASSUME TelemetryInv, NEW p \in Te!Procs, Te!Die(p)
  PROVE  TelemetryInv'
<1> DEFINE dead == IF InServer THEN Te!Procs ELSE {p}
<1>1. /\ gone' = gone \cup UNION {Te!IdsOf(held[q]) : q \in dead}
      /\ tpc' = [q \in Te!Procs |-> IF q \in dead THEN "idle" ELSE tpc[q]]
      /\ held' = [q \in Te!Procs |-> IF q \in dead THEN <<>> ELSE held[q]]
      /\ kick' = (kick /\ ~ InServer)
      /\ UNCHANGED <<spool, drops, failures, waiting, revoked, seen, received, tried, counted, refused, nextSeq, old>>
  BY DEF Te!Die, Te!filev
<1>2. dead \subseteq Te!Procs
  OBVIOUS
<1> HIDE DEF dead
<1>3. OnceInv /\ HandsInv /\ AlertsInv /\ Te!Traceable /\ tpc \in [Te!Procs -> Te!Pcs] /\ kick \in BOOLEAN
  BY DEF TelemetryInv, PassInv, TypesInv
<1>4. \A q \in Te!Procs : \/ (held'[q] = <<>> /\ tpc'[q] = "idle" /\ q \in dead)
                          \/ (held'[q] = held[q] /\ tpc'[q] = tpc[q] /\ q \notin dead)
  BY <1>1
<1>5. OnceInv'
  <2>1. held' \in [Te!Procs -> Seq(Te!Records)]
    BY <1>1, <1>3, NoIds DEF OnceInv
  <2>2. ASSUME NEW q \in Te!Procs
        PROVE  /\ Distinct(held'[q]) /\ Te!IdsOf(held'[q]) \subseteq Te!IdsOf(held[q])
    <3>1. CASE held'[q] = <<>>
      BY <3>1, NoIds
    <3>2. CASE held'[q] = held[q]
      <4>1. Distinct(held[q])
        BY <1>3 DEF OnceInv
      <4> QED  BY <3>2, <4>1
    <3> QED  BY <1>4, <3>1, <3>2
  <2>3. ASSUME NEW q \in Te!Procs PROVE Te!IdsOf(held'[q]) \subseteq 1 .. nextSeq - 1 /\ Te!IdsOf(held'[q]) \cap Te!IdsOf(spool) = {}
    BY <1>3, <2>2 DEF OnceInv
  <2>4. ASSUME NEW q \in Te!Procs, NEW u \in Te!Procs, q # u PROVE Te!IdsOf(held'[q]) \cap Te!IdsOf(held'[u]) = {}
    <3>1. Te!IdsOf(held[q]) \cap Te!IdsOf(held[u]) = {}
      BY <1>3, <2>4 DEF OnceInv
    <3> QED  BY <2>2, <3>1
  <2>5. Distinct(spool) /\ spool \in Seq(Te!Records) /\ Te!IdsOf(spool) \subseteq 1 .. nextSeq - 1
    BY <1>3 DEF OnceInv
  <2> QED  BY <1>1, <2>1, <2>2, <2>3, <2>4, <2>5 DEF OnceInv
<1>6. HandsInv'
  <2> SUFFICES ASSUME NEW q \in Te!Procs, tpc'[q] \in Handless PROVE held'[q] = <<>>
    BY DEF HandsInv
  <2> QED  BY <1>3, <1>4 DEF HandsInv
<1>7. AlertsInv'
  <2> SUFFICES ASSUME ~ InServer
               PROVE  /\ \A r \in Te!ToSet(spool) : r.blocked => r.id \in tried
                      /\ \A q \in Te!Procs :
                           /\ tpc'[q] = "spool" => \A r \in Te!ToSet(held'[q]) : ~ r.blocked
                           /\ tpc'[q] = "respool" => Te!IdsOf(held'[q]) \subseteq tried
    BY <1>1 DEF AlertsInv
  <2>1. ASSUME NEW q \in Te!Procs
        PROVE  /\ tpc'[q] = "spool" => \A r \in Te!ToSet(held'[q]) : ~ r.blocked
               /\ tpc'[q] = "respool" => Te!IdsOf(held'[q]) \subseteq tried
    <3>1. CASE tpc'[q] = "idle"
      BY <3>1
    <3>2. CASE held'[q] = held[q] /\ tpc'[q] = tpc[q]
      BY <1>3, <3>2 DEF AlertsInv
    <3> QED  BY <1>4, <3>1, <3>2
  <2> QED  BY <1>3, <2>1 DEF AlertsInv
<1>8. Te!Traceable'
  <2> SUFFICES ASSUME NEW i \in 1 .. nextSeq - 1
               PROVE  \/ i \in {r.id : r \in received} \/ i \in Te!IdsOf(spool)
                      \/ \E q \in Te!Procs : i \in Te!IdsOf(held'[q])
                      \/ i \in counted \/ i \in gone' \/ i \in refused
    BY <1>1 DEF Te!Traceable, Te!InHands
  <2>1. \/ i \in {r.id : r \in received} \/ i \in Te!IdsOf(spool)
        \/ \E q \in Te!Procs : i \in Te!IdsOf(held[q])
        \/ i \in counted \/ i \in gone \/ i \in refused
    BY <1>3 DEF Te!Traceable, Te!InHands
  <2>2. ASSUME NEW q \in Te!Procs, i \in Te!IdsOf(held[q]) PROVE i \in gone' \/ i \in Te!IdsOf(held'[q])
    <3>1. CASE q \in dead
      BY <1>1, <2>2, <3>1
    <3>2. CASE q \notin dead
      <4>1. held'[q] = held[q]
        BY <1>4, <3>2
      <4> QED  BY <2>2, <4>1
    <3> QED  BY <3>1, <3>2
  <2> QED  BY <1>1, <2>1, <2>2
<1>9. TypesInv'
  <2>1. UNION {Te!IdsOf(held[q]) : q \in dead} \subseteq Te!Ids
    <3>1. \A q \in dead : Te!IdsOf(held[q]) \subseteq Te!Ids
      BY <1>2, InHand
    <3> QED  BY <3>1
  <2>2. tpc' \in [Te!Procs -> Te!Pcs]
    BY <1>1, <1>3 DEF Te!Pcs
  <2>3. gone' \subseteq Te!Ids /\ kick' \in BOOLEAN
    BY <1>1, <2>1 DEF TelemetryInv, TypesInv
  <2> QED  BY <1>1, <2>2, <2>3 DEF TelemetryInv, TypesInv
<1> QED  BY <1>5, <1>6, <1>7, <1>8, <1>9 DEF TelemetryInv, PassInv

LEMMA TelemetryKept == TelemetryInv /\ [Te!Next]_telemetryVars => TelemetryInv'
<1> SUFFICES ASSUME TelemetryInv, [Te!Next]_telemetryVars PROVE TelemetryInv'
  OBVIOUS
<1>1. CASE UNCHANGED telemetryVars \/ Te!BackoffLapse \/ Te!RevokedLapse \/ Te!Age
  <2>1. UNCHANGED <<spool, drops, failures, nextSeq, tpc, held, seen, kick, received, tried, counted, gone, refused>>
    BY <1>1 DEF telemetryVars, Te!BackoffLapse, Te!RevokedLapse, Te!Age, Te!procv, Te!histv, Te!filev
  <2>2. PassInv'
    BY <2>1 DEF TelemetryInv, PassInv, OnceInv, HandsInv, AlertsInv, Te!Traceable, Te!InHands, Distinct
  <2>3. waiting' \in BOOLEAN /\ revoked' \in BOOLEAN
    BY <1>1 DEF telemetryVars, Te!BackoffLapse, Te!RevokedLapse, Te!Age, Te!filev, TelemetryInv, TypesInv
  <2>4. old' \in 0 .. MaxAged
    <3>1. old \in 0 .. MaxAged /\ MaxAged \in Nat
      BY PartsAssumption DEF TelemetryInv, TypesInv, Te!ConstantsOK
    <3> QED  BY <1>1, <3>1 DEF telemetryVars, Te!BackoffLapse, Te!RevokedLapse, Te!Age
  <2>5. TypesInv'
    BY <2>1, <2>3, <2>4 DEF TelemetryInv, TypesInv
  <2> QED  BY <2>2, <2>5 DEF TelemetryInv
<1>2. ASSUME NEW p \in Te!Procs, Te!Step(p) \/ Te!Die(p) \/ Te!AppendFails(p) \/ Te!Tick(p)
      PROVE  TelemetryInv'
  <2>1. CASE Te!TakeDrops(p)
    <3>1. CASE nextSeq' = nextSeq
      <4>1. Te!TakeDrops(p) /\ nextSeq' = nextSeq
        BY <2>1, <3>1
      <4> QED  BY <4>1, TelemetryGoes
    <3>2. CASE nextSeq' # nextSeq
      <4>1. Te!TakeDrops(p) /\ drops # {} /\ nextSeq' # nextSeq
        BY <2>1, <3>2 DEF Te!TakeDrops
      <4> QED  BY <4>1, TelemetrySeals
    <3> QED  BY <3>1, <3>2
  <2>2. CASE Te!Pending(p) \/ Te!Tick(p) \/ Te!UploadNow(p) \/ Te!NoteRead(p) \/ Te!NoteWrite(p) \/ Te!Clear(p)
    BY <2>2, TelemetryGoes
  <2>3. CASE Te!Spool(p) \/ Te!UploadLater(p) \/ Te!PostRefused(p) \/ Te!Respool(p)
    BY <2>3, TelemetrySpools
  <2>4. CASE Te!UploadRevoked(p) \/ Te!PostOk(p) \/ Te!PostFails(p) \/ Te!PostRevoked(p) \/ Te!AppendFails(p)
    BY <2>4, TelemetryAnswers
  <2>5. CASE Te!Drain(p)
    BY <2>5, TelemetryDrains
  <2>6. CASE Te!Die(p)
    BY <2>6, TelemetryDies
  <2> QED  BY <1>2, <2>1, <2>2, <2>3, <2>4, <2>5, <2>6 DEF Te!Step, Te!Upload, Te!Answer
<1>3. CASE \E p \in Te!Procs, b \in BOOLEAN : Te!Dispatch(p, b)
  BY <1>3, TelemetrySeals
<1>4. CASE Te!BgWake
  <2>1. Bg \in Te!Procs
    BY <1>4 DEF Te!BgWake, Te!Procs
  <2> QED  BY <1>4, <2>1, TelemetryGoes
<1> QED  BY <1>1, <1>2, <1>3, <1>4 DEF Te!Next

LEMMA TelemetryHolds ==
  ASSUME TelemetryInv
  PROVE  Te!TypeOK /\ Te!HeldOnce /\ Te!Traceable /\ (~ InServer => Te!AlertsWereTried)
<1>1. Te!TypeOK
  BY DEF TelemetryInv, TypesInv, PassInv, OnceInv, Te!TypeOK
<1>2. Te!HeldOnce
  <2>1. Te!Cardinality(Te!IdsOf(spool)) = Len(spool)
    BY OneCardinality, DistinctCount DEF TelemetryInv, PassInv, OnceInv
  <2>2. \A p \in Te!Procs : Te!Cardinality(Te!IdsOf(held[p])) = Len(held[p])
    BY OneCardinality, DistinctCount DEF TelemetryInv, PassInv, OnceInv
  <2> QED  BY <2>1, <2>2 DEF TelemetryInv, PassInv, OnceInv, Te!HeldOnce
<1>3. Te!Traceable
  BY DEF TelemetryInv, PassInv
<1>4. ~ InServer => Te!AlertsWereTried
  BY DEF TelemetryInv, PassInv, AlertsInv, Te!AlertsWereTried
<1> QED  BY <1>1, <1>2, <1>3, <1>4

-----------------------------------------------------------------------------
(* The composition.                                                        *)

Parts == {"audit", "telemetry", "unlock", "notices"}

\* A step of the composition is one of each part or leaves it alone.
LEMMA RecordsMove ==
  [RecordsNext]_recordsVars =>
    /\ [Next]_vars /\ [Te!Next]_telemetryVars
    /\ [Un!Next]_unlockVars /\ [No!Next]_noticesVars
    /\ UNCHANGED focus
BY DEF RecordsNext, AuditNext, TelemetryNext, UnlockNext, NoticesNext, recordsVars

RecordsInv ==
  /\ focus \in Parts
  /\ AuditInv /\ TelemetryInv /\ UnlockInv /\ NoticesInv

LEMMA RecordsBegin == RecordsInit => RecordsInv
BY AuditBegin, TelemetryBegin, UnlockBegin, NoticesBegin DEF RecordsInit, RecordsInv, Parts

LEMMA RecordsKept == RecordsInv /\ [RecordsNext]_recordsVars => RecordsInv'
<1> SUFFICES ASSUME RecordsInv, [RecordsNext]_recordsVars PROVE RecordsInv'
  OBVIOUS
<1>1. AuditInv' /\ TelemetryInv'
  BY RecordsMove, AuditKept, TelemetryKept DEF RecordsInv
<1>2. UnlockInv' /\ NoticesInv'
  BY RecordsMove, UnlockKept, NoticesKept DEF RecordsInv
<1> QED  BY <1>1, <1>2, RecordsMove DEF RecordsInv

LEMMA RecordsInvariant == RecordsSpec => []RecordsInv
BY RecordsBegin, RecordsKept, PTL DEF RecordsSpec

\* The composition does to the trail what the trail's own specification says, so
\* that what is proved of Spec holds in every run of RecordsSpec.
THEOREM RecordsRunTheTrail == RecordsSpec => Spec
BY RecordsMove, PTL DEF RecordsSpec, RecordsInit, Spec

\* The variables of the part that moves keep their types: among them, the spool is
\* never longer than its cap, a terminal about to write a window holds one and
\* anywhere else at most a credential, and a half-written file has its writer.
THEOREM PartsTypeCorrect == RecordsSpec => []PartsTypeOK
<1>1. RecordsInv => PartsTypeOK
  BY TelemetryHolds, UnlockTypes DEF RecordsInv, AuditInv, IInv, NoticesInv, Parts, PartsTypeOK
<1> QED  BY <1>1, RecordsInvariant, PTL

\* A sealed record is in the spool or in one process' hands, and there once: what
\* is taken to be posted leaves the spool, what comes back was not there
\* (TelemetrySpool.take and append).
THEOREM RecordsHeldOnce == RecordsSpec => []HeldOnce
<1>1. RecordsInv => HeldOnce
  BY TelemetryHolds DEF RecordsInv, HeldOnce
<1> QED  BY <1>1, RecordsInvariant, PTL

\* Every sequence number that was given belongs to a record that is somewhere or
\* that a cap counted, a fault lost or a revocation refused.
THEOREM RecordsTraceable == RecordsSpec => []Traceable
<1>1. RecordsInv => Traceable
  BY TelemetryHolds DEF RecordsInv, Traceable
<1> QED  BY <1>1, RecordsInvariant, PTL

\* Outside a server, where an upload is made by its caller, no alert is spooled
\* before a POST of it was tried (dispatch, _upload).
THEOREM AlertsAreTried ==
  ASSUME ~ InServer
  PROVE  RecordsSpec => []AlertsWereTried
<1>1. RecordsInv => AlertsWereTried
  BY TelemetryHolds DEF RecordsInv, AlertsWereTried
<1> QED  BY <1>1, RecordsInvariant, PTL

\* A line of a subagent is shown once, and is lost only to a write that came after
\* its file was read.
THEOREM NoticesShownOnce == RecordsSpec => []NoticeShownOnce
<1>1. RecordsInv => NoticeShownOnce
  BY DEF RecordsInv, NoticesInv, NoticeShownOnce
<1> QED  BY <1>1, RecordsInvariant, PTL

\* A hook lets a prompt through only by a window of the password in force, unless
\* an attempt had written an older password back.
THEOREM WindowsAreEarned == RecordsSpec => WindowIsEarned
<1>1. RecordsInv /\ [RecordsNext]_recordsVars => Earned \/ UNCHANGED unlockVars
  BY RecordsMove, UnlockKept DEF RecordsInv
<1>2. UNCHANGED unlockVars => UNCHANGED Un!vars
  BY DEF unlockVars, Un!vars, Un!filev, Un!histv
<1>3. RecordsInv /\ [RecordsNext]_recordsVars => [Earned]_(Un!vars)
  BY <1>1, <1>2
<1>4. RecordsSpec => [][Earned]_(Un!vars)
  BY <1>3, RecordsInvariant, PTL DEF RecordsSpec
<1> QED  BY <1>4 DEF Earned, WindowIsEarned, Un!WindowIsEarned

=============================================================================
