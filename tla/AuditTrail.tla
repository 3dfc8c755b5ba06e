------------------------------ MODULE AuditTrail ------------------------------
(***************************************************************************)
(* The signed audit trail (prismor/runtime/enterprise/audit_trail.py):     *)
(* a chain head chain.json and an append-only trail.jsonl, written under   *)
(* a file lock by every hook process and walked, without the lock, by      *)
(* `prismor trail verify`.                                                 *)
(*                                                                         *)
(* A record's hash is collision free, so the pair of its position and its  *)
(* writer stands for it.  Nobody edits the files here: whatever the        *)
(* verifier reports is about crashes, failed writes and concurrency.       *)
(***************************************************************************)
EXTENDS Integers, Sequences, FiniteSets

CONSTANTS
  Writers,       \* hook processes that append records
  MaxRecords,    \* bound: chain positions ever taken
  MaxSkips,      \* bound: appends that fail before the chain advances
  TornWrites     \* whether a failing write may leave part of its line

ASSUME ConstantsAssumption ==
  /\ MaxRecords \in Nat /\ MaxSkips \in Nat
  /\ TornWrites \in BOOLEAN
  /\ "none" \notin Writers

VARIABLES
  chain,      \* chain.json: the last position and hash
  there,      \* trail.jsonl exists
  trail,      \* its lines
  torn,       \* the last line has no newline yet
  lock,       \* who holds chain.json.lock
  pc, rec,    \* per writer: where it is, the record under way
  ran,        \* history: records of actions that ran after a clean append
  skipped,    \* history: appends that failed before the chain advanced
  vpc, vstate, vbusy, report   \* the verifier

files   == <<chain, there, trail, torn>>
writerv == <<lock, pc, rec, ran, skipped>>
verifyv == <<vpc, vstate, vbusy, report>>
vars    == <<files, writerv, verifyv>>

Seqs    == 0 .. (MaxRecords - 1)
Genesis == [seq |-> -1, by |-> "genesis"]
Hashes  == [seq : Seqs, by : Writers] \cup {Genesis}
Records == [hash : Hashes, prev : Hashes]
Garbage == [hash |-> Genesis, prev |-> Genesis]    \* a line that does not parse
NoOne   == "none"
Reports == {"none", "empty", "ok", "gaps", "tampered"}

Init ==
  /\ chain = Genesis /\ there = FALSE /\ trail = <<>> /\ torn = FALSE
  /\ lock = NoOne
  /\ pc  = [w \in Writers |-> "idle"]
  /\ rec = [w \in Writers |-> Garbage]
  /\ ran = {} /\ skipped = 0
  /\ vpc = "idle" /\ vstate = Genesis /\ vbusy = FALSE /\ report = "none"

Appending == {"locked", "advanced"}

-----------------------------------------------------------------------------
(* The writers: _append, called for every evaluated action.                *)

\* Mutant: the lock is not waited for.
AcquireUnserialized(w) ==
  /\ pc[w] = "idle"
  /\ chain.seq + 1 \in Seqs
  /\ lock' = w
  /\ pc' = [pc EXCEPT ![w] = "locked"]
  /\ vbusy' = TRUE
  /\ UNCHANGED <<files, rec, ran, skipped, vpc, vstate, report>>

Acquire(w) ==
  /\ pc[w] = "idle" /\ lock = NoOne
  /\ chain.seq + 1 \in Seqs
  /\ lock' = w
  /\ pc' = [pc EXCEPT ![w] = "locked"]
  /\ vbusy' = TRUE
  /\ UNCHANGED <<files, rec, ran, skipped, vpc, vstate, report>>

\* Mutant: the record is linked to the writer's own last one.
AdvanceOwnPrev(w) ==
  /\ pc[w] = "locked"
  /\ LET h == [seq |-> chain.seq + 1, by |-> w] IN
       rec' = [rec EXCEPT ![w] = [hash |-> h, prev |-> rec[w].hash]] /\ chain' = h
  /\ pc' = [pc EXCEPT ![w] = "advanced"]
  /\ UNCHANGED <<there, trail, torn, lock, ran, skipped, verifyv>>

\* Read the head, chain the record to it, and replace chain.json.
Advance(w) ==
  /\ pc[w] = "locked"
  /\ LET h == [seq |-> chain.seq + 1, by |-> w] IN
       /\ rec' = [rec EXCEPT ![w] = [hash |-> h, prev |-> chain]]
       /\ chain' = h
  /\ pc' = [pc EXCEPT ![w] = "advanced"]
  /\ UNCHANGED <<there, trail, torn, lock, ran, skipped, verifyv>>

\* The first append opens the trail, and so creates it, before it writes to it.
Create(w) ==
  /\ pc[w] = "advanced" /\ ~ there
  /\ there' = TRUE
  /\ UNCHANGED <<chain, trail, torn, writerv, verifyv>>

\* What appending x to the file makes of its lines.
AppendLine(x) == IF torn THEN [trail EXCEPT ![Len(trail)] = Garbage]
                 ELSE Append(trail, x)

Release(w) == lock' = NoOne /\ pc' = [pc EXCEPT ![w] = "idle"]

\* Write and fsync the line; the action is free to run.
Write(w) ==
  /\ pc[w] = "advanced" /\ there
  /\ trail' = AppendLine(rec[w])
  /\ torn' = FALSE
  /\ ran' = ran \cup {rec[w].hash}
  /\ Release(w)
  /\ UNCHANGED <<chain, there, rec, skipped, verifyv>>

\* The process dies or an error is raised: before the head is replaced, or
\* before the line is written, whether or not the trail was opened.  In strict
\* mode the caller blocks the action, otherwise it runs without a record.
FailEarly(w) ==
  /\ pc[w] = "locked"
  /\ skipped < MaxSkips
  /\ skipped' = skipped + 1
  /\ Release(w)
  /\ UNCHANGED <<files, rec, ran, verifyv>>

FailLate(w) ==
  /\ pc[w] = "advanced"
  /\ Release(w)
  /\ UNCHANGED <<files, rec, ran, skipped, verifyv>>

\* The disk fills up within the line or before its newline, or the fsync fails
\* after it.
FailTorn(w) ==
  /\ pc[w] = "advanced" /\ there
  /\ TornWrites
  /\ \E x \in {Garbage, rec[w]}, open \in BOOLEAN :
       /\ x = Garbage => open
       /\ trail' = AppendLine(x)
       /\ torn' = open
  /\ Release(w)
  /\ UNCHANGED <<chain, there, rec, ran, skipped, verifyv>>

-----------------------------------------------------------------------------
(* The verifier: verify_trail.                                             *)

Parses(x) == x # Garbage

\* The walk expects the position after the line before, and its hash.  A line
\* that does not parse resets both expectations.
Before(tr, i) == IF i = 1 THEN Genesis ELSE tr[i - 1].hash
\* Mutant: the walk starts from whatever the first line says.
AnchoredLate(tr, i) == i # 1 /\ Parses(tr[i - 1])
Anchored(tr, i) == i = 1 \/ Parses(tr[i - 1])

LineError(tr, i) ==
  \/ ~ Parses(tr[i])
  \/ /\ Anchored(tr, i)
     /\ \/ tr[i].hash.seq < Before(tr, i).seq + 1
        \/ tr[i].hash.seq = Before(tr, i).seq + 1 /\ tr[i].prev # Before(tr, i)

LineGap(tr, i) == /\ Parses(tr[i]) /\ Anchored(tr, i)
                  /\ tr[i].hash.seq > Before(tr, i).seq + 1

\* The head is the last line that parses.
HeadIndex(tr) == {i \in DOMAIN tr : Parses(tr[i]) /\ \A j \in DOMAIN tr : j > i => ~ Parses(tr[j])}
\* Mutant: the walk does not look at chain.json.
HeadGapUnseen(tr, st) == FALSE
HeadGap(tr, st)   == \E i \in HeadIndex(tr) : st.seq > tr[i].hash.seq
HeadError(tr, st) == \E i \in HeadIndex(tr) :
  \/ st.seq < tr[i].hash.seq
  \/ st.seq = tr[i].hash.seq /\ st # tr[i].hash

\* "empty" is said of a trail that is not there (ex), not of one without lines:
\* that one has no last line to compare with the head, and is "ok".
Verdict(ex, tr, st) ==
  IF ~ ex THEN "empty"
  ELSE IF (\E i \in DOMAIN tr : LineError(tr, i)) \/ HeadError(tr, st) THEN "tampered"
  ELSE IF (\E i \in DOMAIN tr : LineGap(tr, i)) \/ HeadGap(tr, st) THEN "gaps"
  ELSE "ok"

\* The chain state is read first, the trail afterwards; neither under the lock.
VerifyState ==
  /\ vpc = "idle"
  /\ vpc' = "walking"
  /\ vstate' = chain
  /\ vbusy' = (lock # NoOne)
  /\ report' = "none"
  /\ UNCHANGED <<files, writerv>>

VerifyTrail ==
  /\ vpc = "walking"
  /\ vpc' = "idle"
  /\ report' = Verdict(there, trail, vstate)
  /\ vstate' = Genesis
  /\ UNCHANGED <<files, writerv, vbusy>>

WriterStep(w) == \/ Acquire(w) \/ Advance(w) \/ Create(w) \/ Write(w)
                 \/ FailEarly(w) \/ FailLate(w) \/ FailTorn(w)

Next == (\E w \in Writers : WriterStep(w)) \/ VerifyState \/ VerifyTrail

Spec == Init /\ [][Next]_vars
-----------------------------------------------------------------------------
(* Properties.                                                             *)

\* Type invariant.
TypeOK ==
  /\ chain \in Hashes
  /\ there \in BOOLEAN /\ trail \in Seq(Records)
  /\ torn \in BOOLEAN
  /\ lock \in Writers \cup {NoOne}
  /\ pc \in [Writers -> {"idle"} \cup Appending]
  /\ rec \in [Writers -> Records]
  /\ ran \subseteq Hashes /\ skipped \in Nat
  /\ vpc \in {"idle", "walking"} /\ vstate \in Hashes
  /\ vbusy \in BOOLEAN /\ report \in Reports

Lines == {i \in DOMAIN trail : Parses(trail[i])}

\* Whatever fails or dies, the chain never forks (audit_trail.py:131-133): the
\* positions in the trail only grow, line after line.
ChainNeverForks ==
  \A i, j \in Lines : i < j => trail[i].hash.seq < trail[j].hash.seq

\* Records at neighbouring positions are linked by hash, whoever wrote them
\* and whatever failed before or between them.
NeighboursAreLinked ==
  \A i, j \in Lines : trail[j].hash.seq = trail[i].hash.seq + 1
                        => trail[j].prev = trail[i].hash

\* The state advances before the line is written: chain.json is never behind
\* the trail, and names the last record when it is level with it.
StateLeadsTrail ==
  \A i \in Lines : /\ trail[i].hash.seq <= chain.seq
                   /\ trail[i].hash.seq = chain.seq => trail[i].hash = chain

\* A verification that overlaps no append says what happened: tampered only if
\* a line is torn; ok only if every position taken has its line, or if the trail
\* was created and nothing ever written to it; gaps only if a position has no
\* line; empty only if no append ever succeeded.
QuietVerdictIsExact ==
  [][VerifyTrail /\ ~ vbusy =>
       LET complete == \A s \in 0 .. chain.seq : \E i \in Lines : trail[i].hash.seq = s
       IN  /\ report' = "tampered" => Lines # DOMAIN trail
           /\ report' = "ok" => complete \/ trail = <<>>
           /\ report' = "gaps" => ~ complete
           /\ report' = "empty" => ran = {}]_vars

\* Even while appends go on, a verification that says ok of a trail with a line
\* has found a line for every position that was taken when it began.
OkCoversTheChain ==
  [][VerifyTrail /\ report' = "ok" /\ trail # <<>> =>
       \A s \in 0 .. vstate.seq : \E i \in Lines : trail[i].hash.seq = s]_vars

\* "a crash between the two produces a verifiable seq gap"
\* (audit_trail.py:131-132): a trail whose verdict is ok has a line for every
\* position taken.
OkMeansComplete ==
  [][VerifyTrail /\ ~ vbusy /\ report' = "ok" =>
       \A s \in 0 .. chain.seq : \E i \in Lines : trail[i].hash.seq = s]_vars

\* verify_trail, "status is ok | gaps | tampered | empty. Gaps mean
\* skipped/missing records" (audit_trail.py:393-395): where nobody altered or
\* tore a line, no verification reports tampering.
NoFalseAlarm == report # "tampered"

\* "Errors degrade to a skipped record - visible later as a seq gap"
\* (audit_trail.py:37-38): a trail with a skipped record does not verify as ok.
SkipIsVisible ==
  [][VerifyTrail /\ ~ vbusy /\ skipped > 0 => report' # "ok"]_vars

\* "a crash between the two produces a verifiable seq gap"
\* (audit_trail.py:131-132): a verification that finds no trail at all has no
\* position taken to account for.
EmptyMeansUnused ==
  [][VerifyTrail /\ ~ vbusy /\ report' = "empty" => chain.seq = -1]_vars

\* Strict mode "fails the action closed when the record cannot be written"
\* (runtime.py:1272-1273): an action that ran has its record in the trail.
RanIsRecorded == \A h \in ran : \E i \in Lines : trail[i].hash = h
=============================================================================
