---------------------------- MODULE Verdict_proofs ---------------------------
(***************************************************************************)
(* For any set of screens and devices: a call runs only when a counting    *)
(* finding was set aside, an observe mode sets no order aside, and deny    *)
(* wins.  The invariant follows the governing finding through the hook.    *)
(***************************************************************************)
EXTENDS Verdict, TLAPS, WellFoundedInduction

\* A set of natural numbers has a least element: `strongest` has a first.
LEMMA LeastElement ==
  ASSUME NEW S \in SUBSET Nat, S # {}
  PROVE  \E m \in S : \A n \in S : m <= n
<1> DEFINE R == {ss \in Nat \X Nat : ss[1] < ss[2]}
<1>1. IsWellFoundedOn(R, Nat)
  BY NatLessThanWellFounded, Zenon DEF OpToRel
<1>2. \A n \in Nat : \A m \in Nat : n < m => <<n, m>> \in R
  OBVIOUS
<1> HIDE DEF R
<1>3. PICK m \in S : \A n \in S : ~ (<<n, m>> \in R)
  BY <1>1, WFMin, Zenon
<1>4. \A n \in S : ~ (n < m)
  BY <1>2, <1>3, Zenon
<1> QED BY <1>4

LEMMA FirstIsIn ==
  ASSUME NEW S \in SUBSET Nat, S # {}
  PROVE  First(S) \in S
BY LeastElement DEF First

LEMMA RankIsNat == \A v \in Verdicts : Rank(v) \in Nat
BY DEF Rank, Verdicts

\* strongest() yields one of the findings given, none of which is stronger.
LEMMA StrongestGoverns ==
  ASSUME findings \in Seq(Findings), NEW S \in SUBSET DOMAIN findings, S # {}
  PROVE  /\ Strongest(S) \in Findings
         /\ \E i \in S : Strongest(S) = findings[i]
         /\ \A j \in S : Rank(Strongest(S).verdict) <= Rank(findings[j].verdict)
<1> DEFINE rank(i) == Rank(findings[i].verdict)
           Ranks   == {rank(i) : i \in S}
           T       == {i \in S : \A j \in S : rank(i) <= rank(j)}
<1>1. S \subseteq Nat /\ \A i \in S : findings[i] \in Findings
  OBVIOUS
<1>2. \A i \in S : rank(i) \in Nat
  BY <1>1, RankIsNat DEF Findings
<1>3. Ranks \in SUBSET Nat /\ Ranks # {}
  BY <1>2
<1>4. PICK r \in Ranks : \A q \in Ranks : r <= q
  <2> HIDE DEF Ranks
  <2> QED BY <1>3, LeastElement
<1>5. T # {} /\ T \in SUBSET Nat
  BY <1>4, <1>1, SMTT(30)
<1>6. First(T) \in T
  <2> HIDE DEF T
  <2> QED BY <1>5, FirstIsIn
<1>7. Strongest(S) = findings[First(T)]
  BY DEF Strongest
<1> HIDE DEF rank
<1>8. First(T) \in S /\ \A j \in S : rank(First(T)) <= rank(j)
  BY <1>6
<1> QED BY <1>1, <1>7, <1>8 DEF rank

-----------------------------------------------------------------------------
Undecided == {"unlock", "pause", "approve", "render"}

\* Before the verdict nothing is set aside; while the hook decides, the governing
\* finding is at least as strong as every finding in force, and gone only by an
\* unlock window; what is told in the end satisfies the properties.
Governs ==
  pc \in Undecided =>
    /\ lifts \subseteq {"observe", "unlock"}
    /\ blocking # None => \A i \in Demanding : Rank(blocking.verdict) <= Rank(findings[i].verdict)
    /\ Demanding # {} => blocking # None \/ "unlock" \in lifts
    /\ pc \in {"approve", "render"} => blocking # None
Early == pc \in {"start", "judge"} => lifts = {}
Told  == pc # "done" => outcome = "none"
Observed == "observe" \in lifts => MayObserve

IInv == TypeOK /\ Governs /\ Early /\ Told /\ Observed /\ NeverSilent /\ ObserveSparesOrders /\ DenyWins

LEMMA OrdersCount == Orders \subseteq Counting /\ Counting \subseteq DOMAIN findings
BY DEF Orders, Counting

LEMMA InForce ==
  ASSUME findings \in Seq(Findings)
  PROVE  /\ Demanding \subseteq Counting
         /\ \A i \in Counting : findings[i] \in Findings
<1>1. \A i \in DOMAIN findings : findings[i] \in Findings
  OBVIOUS
<1>2. Demanding \subseteq Counting
  BY OrdersCount DEF Demanding
<1> QED BY <1>1, <1>2, OrdersCount, Zenon

LEMMA InitInv == Init => IInv
<1> SUFFICES ASSUME Init PROVE IInv
  OBVIOUS
<1> QED BY ContractAssumption
  DEF Init, IInv, TypeOK, Governs, Early, Told, Observed, NeverSilent, ObserveSparesOrders, DenyWins, Undecided, Pcs, Outcomes

\* The gate: what governs is at least as strong as all that is in force.
LEMMA JudgeInv == ASSUME IInv, Judge PROVE IInv'
<1> USE DEF IInv, Judge
<1>0. findings \in Seq(Findings) /\ lifts = {} /\ pc = "judge" /\ outcome = "none"
  BY DEF TypeOK, Early, Told
<1>1. UNCHANGED <<dev, findings, outcome, Orders, Counting, MayObserve>>
  BY DEF Orders, Counting, MayObserve, IsOrder
<1>2. Governing \in Findings \cup {None} /\ Rescan \in Findings \cup {None}
  <2>1. Strongest(Counting) \in Findings \cup {None} /\ Rescan \in Findings \cup {None}
    BY <1>0, OrdersCount, StrongestGoverns DEF Strongest, Rescan
  <2>2. LegacyFindings # {} => findings[First(LegacyFindings)] \in Findings
    BY <1>0, FirstIsIn DEF LegacyFindings
  <2> QED BY <2>1, <2>2 DEF Governing
<1>3. CASE SetAside(Governing)
  <2>1. Demanding' = Orders /\ lifts' = {"observe"} /\ blocking' = Rescan /\ MayObserve
    BY <1>3, <1>1 DEF Demanding, SetAside
  <2>2. Orders # {} => /\ blocking' # None
                       /\ \A i \in Orders : Rank(blocking'.verdict) <= Rank(findings[i].verdict)
    BY <1>0, <2>1, OrdersCount, StrongestGoverns, ContractAssumption DEF Rescan
  <2> QED BY <1>0, <1>1, <1>2, <2>1, <2>2
    DEF TypeOK, Governs, Early, Told, Observed, NeverSilent, ObserveSparesOrders, DenyWins, Undecided, Pcs, Lifts, MayObserve
<1>4. CASE ~ SetAside(Governing)
  <2>1. Demanding' = Counting /\ lifts' = {} /\ blocking' = Governing
    BY <1>4, <1>1 DEF Demanding
  <2>2. Counting # {} => /\ blocking' # None
                         /\ \A i \in Counting : Rank(blocking'.verdict) <= Rank(findings[i].verdict)
    BY <1>0, <2>1, OrdersCount, StrongestGoverns, ContractAssumption DEF Governing
  <2> QED BY <1>0, <1>1, <1>2, <2>1, <2>2
    DEF TypeOK, Governs, Early, Told, Observed, NeverSilent, ObserveSparesOrders, DenyWins, Undecided, Pcs, Lifts, Demanding
<1> QED BY <1>3, <1>4

LEMMA NextInv == IInv /\ [Next]_vars => IInv'
<1> SUFFICES ASSUME IInv, [Next]_vars PROVE IInv'
  OBVIOUS
<1> USE DEF IInv
<1>0. findings \in Seq(Findings) /\ blocking \in Findings \cup {None} /\ lifts \in SUBSET Lifts
  BY DEF TypeOK, Lifts
<1>1. dev' = dev /\ findings' = findings => UNCHANGED <<Orders, Counting, MayObserve>>
  BY DEF Orders, Counting, MayObserve, IsOrder
<1>2. CASE Judge
  BY <1>2, JudgeInv
<1>3. CASE JudgeUnaudited
  <2>1. blocking' = AuditStrict /\ AuditStrict \in Findings /\ lifts' = {} /\ pc' = "unlock" /\ pc = "judge"
    BY <1>3 DEF JudgeUnaudited, AuditStrict, Findings, Classes, Verdicts, Forces
  <2>2. \A i \in Counting : Rank(AuditStrict.verdict) <= Rank(findings[i].verdict)
    <3>1. \A i \in Counting : findings[i].verdict \in Verdicts
      BY <1>0, InForce DEF Findings
    <3> QED BY <3>1, RankIsNat DEF AuditStrict, Rank, Verdicts
  <2> QED BY <1>0, <1>1, <1>3, <2>1, <2>2, ContractAssumption
    DEF JudgeUnaudited, TypeOK, Governs, Early, Told, Observed, NeverSilent, ObserveSparesOrders, DenyWins, Undecided, Pcs, Lifts, Demanding
<1>4. CASE ReadPause
  BY <1>0, <1>1, <1>4 DEF ReadPause, TypeOK, Governs, Early, Told, Observed, NeverSilent, ObserveSparesOrders, DenyWins, Undecided, Pcs, Lifts, Demanding
<1>5. CASE UnderUnlock
  BY <1>0, <1>1, <1>5 DEF UnderUnlock, Lift, TypeOK, Governs, Early, Told, Observed, NeverSilent, ObserveSparesOrders, DenyWins, Undecided, Pcs, Lifts, Demanding
<1>6. CASE NoUnlock
  BY <1>0, <1>1, <1>6 DEF NoUnlock, TypeOK, Governs, Early, Told, Observed, NeverSilent, ObserveSparesOrders, DenyWins, Undecided, Pcs, Lifts, Demanding
<1>7. CASE Silence
  <2>1. /\ lifts \subseteq {"observe", "unlock"} /\ (Demanding # {} => blocking # None \/ "unlock" \in lifts)
        /\ pc' = "done" /\ outcome' = "run" /\ UNCHANGED <<dev, findings, unlocked, paused, silenced, blocking>>
    BY <1>7 DEF Silence, Tell, Governs, Undecided
  <2>2. \/ blocking = None /\ lifts' = lifts
        \/ lifts' = lifts \cup {"pause"}
        \/ lifts' = lifts \cup {"dry run"}
    BY <1>7 DEF Silence
  <2>3. lifts' \subseteq Lifts /\ lifts' \cap {"judge", "report"} = {} /\ ("observe" \in lifts' => "observe" \in lifts)
    BY <2>1, <2>2 DEF Lifts
  <2>4. /\ Counting # {} => lifts' # {}
        /\ Orders # {} => lifts' \ {"observe"} # {}
    <3>1. CASE "unlock" \in lifts
      <4>1. "unlock" \in lifts' \ {"observe"}
        BY <2>2, <3>1
      <4> QED BY <4>1
    <3>2. CASE blocking # None
      <4>1. "pause" \in lifts' \ {"observe"} \/ "dry run" \in lifts' \ {"observe"}
        BY <2>2, <3>2
      <4> QED BY <4>1
    <3>3. CASE Demanding = {}
      <4>1. Orders = {} /\ (Counting # {} => "observe" \in lifts)
        BY <3>3, OrdersCount DEF Demanding
      <4> QED BY <4>1, <2>2
    <3> QED BY <2>1, <3>1, <3>2, <3>3
  <2> QED BY <1>1, <2>1, <2>3, <2>4
    DEF TypeOK, Governs, Early, Told, Observed, NeverSilent, ObserveSparesOrders, DenyWins, Undecided, Pcs, Outcomes
<1>8. CASE NotSilenced
  BY <1>0, <1>1, <1>8 DEF NotSilenced, TypeOK, Governs, Early, Told, Observed, NeverSilent, ObserveSparesOrders, DenyWins, Undecided, Pcs, Lifts, Demanding
<1>9. CASE Approved
  <2>1. /\ lifts \subseteq {"observe", "unlock"} /\ lifts' = lifts \cup {"approval"} /\ blocking' = None
        /\ pc' = "done" /\ outcome' = "run" /\ UNCHANGED <<dev, findings, unlocked, paused, silenced>>
    BY <1>9 DEF Approved, Lift, Tell, Governs, Undecided
  <2>2. /\ lifts' \subseteq Lifts /\ lifts' \cap {"judge", "report"} = {}
        /\ "observe" \in lifts' => "observe" \in lifts
    BY <2>1 DEF Lifts
  <2>3. "approval" \in lifts' \ {"observe"}
    BY <2>1
  <2> QED BY <1>1, <2>1, <2>2, <2>3
    DEF TypeOK, Governs, Early, Told, Observed, NeverSilent, ObserveSparesOrders, DenyWins, Undecided, Pcs, Outcomes
<1>10. CASE NotApproved
  BY <1>0, <1>1, <1>10 DEF NotApproved, TypeOK, Governs, Early, Told, Observed, NeverSilent, ObserveSparesOrders, DenyWins, Undecided, Pcs, Lifts, Demanding
<1>11. CASE Cleared \/ AskPerson \/ Rewrite \/ Report
  <2>1. /\ pc = "render" /\ blocking \in Findings /\ blocking.verdict # "block"
        /\ pc' = "done" /\ outcome' \in {"run", "ask", "rewrite"} /\ UNCHANGED <<dev, findings, unlocked, paused, silenced>>
        /\ lifts \subseteq lifts' /\ blocking' \in Findings \cup {None} /\ lifts' \in SUBSET Lifts
        /\ "observe" \in lifts' => "observe" \in lifts
        /\ outcome' = "run" => lifts' \ {"observe"} # {}
    BY <1>0, <1>11 DEF Governs, Undecided, Cleared, AskPerson, Rewrite, Report, Render, Tell, Lift, Keep, Lifts
  <2>2. \A i \in Demanding : findings[i].verdict # "block"
    <3>1. \A i \in Demanding : findings[i].verdict \in Verdicts /\ Rank(blocking.verdict) <= Rank(findings[i].verdict)
      BY <1>0, <2>1, InForce DEF Governs, Undecided, Findings
    <3>2. blocking.verdict \in Verdicts \ {"block"}
      BY <2>1 DEF Findings
    <3> QED BY <3>1, <3>2 DEF Rank, Verdicts
  <2>3. Demanding' = Demanding
    BY <1>1, <2>1 DEF Demanding
  <2> QED BY <1>1, <2>1, <2>2, <2>3
    DEF TypeOK, Governs, Early, Told, Observed, NeverSilent, ObserveSparesOrders, DenyWins, Undecided, Pcs, Outcomes, Lifts
<1>12. CASE Refuse
  BY <1>0, <1>1, <1>12 DEF Refuse, Keep, Tell, Outcomes, TypeOK, Governs, Early, Told, Observed, NeverSilent, ObserveSparesOrders, DenyWins, Undecided, Pcs, Lifts, Demanding
<1>13. CASE Meanwhile
  BY <1>0, <1>1, <1>13 DEF Meanwhile, TypeOK, Governs, Early, Told, Observed, NeverSilent, ObserveSparesOrders, DenyWins, Undecided, Pcs, Lifts, Demanding
<1>14. CASE UNCHANGED vars
  <2>1. UNCHANGED <<dev, findings, unlocked, paused, pc, silenced, blocking, lifts, outcome, Demanding>>
    BY <1>1, <1>14 DEF vars, Demanding
  <2> QED BY <1>1, <2>1
    DEF TypeOK, Governs, Early, Told, Observed, NeverSilent, ObserveSparesOrders, DenyWins
<1> QED BY <1>2, <1>3, <1>4, <1>5, <1>6, <1>7, <1>8, <1>9, <1>10, <1>11, <1>12, <1>13, <1>14 DEF Next

LEMMA Invariant == Spec => []IInv
BY InitInv, NextInv, PTL DEF Spec

-----------------------------------------------------------------------------
\* The hook's variables keep their types.
THEOREM TypeCorrect == Spec => []TypeOK
<1>1. IInv => TypeOK
  BY DEF IInv
<1> QED BY <1>1, Invariant, PTL

\* Never a silent ALLOW, for any findings and surfaces.
THEOREM SilentNever == Spec => []NeverSilent
<1>1. IInv => NeverSilent
  BY DEF IInv
<1> QED BY <1>1, Invariant, PTL

\* An observe mode sets no order aside.
THEOREM OrdersSpared == Spec => []ObserveSparesOrders
<1>1. IInv => ObserveSparesOrders
  BY DEF IInv
<1> QED BY <1>1, Invariant, PTL

\* Deny wins.
THEOREM DenyWinsAlways == Spec => []DenyWins
<1>1. IInv => DenyWins
  BY DEF IInv
<1> QED BY <1>1, Invariant, PTL

=============================================================================
