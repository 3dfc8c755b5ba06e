------------------------------- MODULE Heartbeat -------------------------------
(***************************************************************************)
(* Counting the inspected calls of an enrolled device and reporting the    *)
(* counts (prismor/runtime/enterprise/heartbeat.py).                       *)
(*                                                                         *)
(* Every change reads the whole counter file under its lock and writes it  *)
(* back in place, so a process that is killed within the write leaves a    *)
(* torn file behind.  A count, a number in the file, is the set of calls   *)
(* it counts.                                                              *)
(***************************************************************************)
EXTENDS Naturals, FiniteSets, Functions

CONSTANTS
  Hooks,         \* processes
  Calls,         \* inspected calls
  NameOf,        \* the key of each call: its agent's framework and name
  FrameworkOf,   \* the key of its framework alone: NameOf, where it has no name
  MaxKeys,       \* MAX_COUNTER_KEYS
  MaxFaults,     \* bound: processes killed and writes that fail
  None

ConstantsOK ==
  /\ DOMAIN NameOf = Calls /\ DOMAIN FrameworkOf = Calls /\ MaxKeys \in Nat \ {0} /\ MaxFaults \in Nat
  /\ None \notin Hooks \cup Calls /\ Calls \cap {"none", "status", "flush"} = {}

VARIABLES
  file,          \* heartbeat.json: [there, torn, counters]
  lock,          \* who holds its lock
  pc,
  job,           \* per hook: the call it counts, or "status" or "flush"
  copy,          \* per hook: the counters it read
  batch,         \* per hook: calls of the records it is to upload
  screened,      \* calls that were handed to record_call
  sent,          \* calls of records handed to upload_telemetry
  faults

vars == <<file, lock, pc, job, copy, batch, screened, sent, faults>>

Frameworks == {FrameworkOf[c] : c \in Calls}
Keys       == {NameOf[c] : c \in Calls} \cup Frameworks
NoCount    == [k \in {} |-> {}]
Counted(counters) == UNION Range(counters)
Counters   == UNION {[K -> SUBSET Calls] : K \in SUBSET Keys}

Init ==
  /\ file = [there |-> FALSE, torn |-> FALSE, counters |-> NoCount] /\ lock = None
  /\ pc = [h \in Hooks |-> "idle"] /\ job = [h \in Hooks |-> "none"]
  /\ copy = [h \in Hooks |-> NoCount] /\ batch = [h \in Hooks |-> {}]
  /\ screened = {} /\ sent = {} /\ faults = 0

Goto(h, l) == pc' = [pc EXCEPT ![h] = l]

-----------------------------------------------------------------------------
\* _load(): a file that does not parse counts nothing.
Load == IF file.torn THEN NoCount ELSE file.counters

\* Mutant: the file is read before the lock is there.
LockAndLoadEarly(h) ==
  \/ /\ pc[h] = "lock" /\ copy' = [copy EXCEPT ![h] = Load]
     /\ Goto(h, "locked") /\ UNCHANGED lock
  \/ /\ pc[h] = "locked" /\ lock = None /\ lock' = h
     /\ Goto(h, "write") /\ UNCHANGED copy
LockAndLoad(h) ==
  /\ pc[h] = "lock" /\ lock = None
  /\ lock' = h /\ copy' = [copy EXCEPT ![h] = Load] /\ Goto(h, "write")

Begin(h, j) ==
  /\ pc[h] = "idle" /\ Goto(h, "lock") /\ job' = [job EXCEPT ![h] = j]
  /\ screened' = screened \cup ({j} \cap Calls)
  /\ UNCHANGED <<file, lock, copy, batch, sent, faults>>

\* record_call(): one call of one agent instance.
RecordCall(h) == \E c \in Calls \ screened : Begin(h, c)
\* status_record_once().
StatusOnce(h) == Begin(h, "status")
\* maybe_flush(), on a tick of a hook or when a process exits.
Flush(h) == file.there /\ Begin(h, "flush")

\* Under the lock: a flush that is not due yet goes no further; a torn file looks
\* as if it had been flushed just now.
Read(h) ==
  /\ LockAndLoad(h)
  /\ UNCHANGED <<file, job, batch, screened, sent, faults>>
NotDue(h) ==
  /\ pc[h] = "write" /\ job[h] \in {"flush", "status"}
  /\ lock' = None /\ Goto(h, "idle") /\ job' = [job EXCEPT ![h] = "none"]
  /\ copy' = [copy EXCEPT ![h] = NoCount]
  /\ UNCHANGED <<file, batch, screened, sent, faults>>

\* write_text(): the file is emptied ...
Truncate(h) ==
  /\ pc[h] = "write" /\ Goto(h, "finish")
  /\ file' = [there |-> TRUE, torn |-> TRUE, counters |-> NoCount]
  /\ UNCHANGED <<lock, job, copy, batch, screened, sent, faults>>

\* _counter_key(): the key a call counts under; past the cap, its own framework's.
\* Mutant: there is no cap.
KeyOfUncapped(counters, c) == NameOf[c]
KeyOf(counters, c) ==
  IF NameOf[c] \notin DOMAIN counters /\ Cardinality(DOMAIN counters) >= MaxKeys
  THEN FrameworkOf[c] ELSE NameOf[c]
Plus(counters, c) ==
  LET k == KeyOf(counters, c)
  IN  [n \in DOMAIN counters \cup {k} |->
         (IF n \in DOMAIN counters THEN counters[n] ELSE {}) \cup IF n = k THEN {c} ELSE {}]

\* ... and written; a flush writes that nothing is counted and keeps the records.
Written(h) ==
  CASE job[h] = "flush"  -> NoCount
    [] job[h] = "status" -> copy[h]
    [] OTHER             -> Plus(copy[h], job[h])
Finish(h) ==
  /\ pc[h] = "finish" /\ lock' = None
  /\ file'  = [there |-> TRUE, torn |-> FALSE, counters |-> Written(h)]
  /\ copy'  = [copy EXCEPT ![h] = NoCount]
  /\ batch' = [batch EXCEPT ![h] = IF job[h] = "flush" THEN Counted(copy[h]) ELSE {}]
  /\ Goto(h, IF job[h] = "flush" THEN "upload" ELSE "idle")
  /\ job' = [job EXCEPT ![h] = "none"]
  /\ UNCHANGED <<screened, sent, faults>>

\* upload_telemetry(): from here the records are the spool's (Telemetry).
Upload(h) ==
  /\ pc[h] = "upload" /\ Goto(h, "idle")
  /\ sent' = sent \cup batch[h] /\ batch' = [batch EXCEPT ![h] = {}]
  /\ UNCHANGED <<file, lock, job, copy, screened, faults>>

\* The process is killed, or its write fails and the error is swallowed; either
\* way the lock is released and a file that was emptied stays so.
Stop(h) ==
  /\ faults < MaxFaults /\ faults' = faults + 1
  /\ pc[h] # "idle" /\ Goto(h, "idle")
  /\ lock' = IF lock = h THEN None ELSE lock
  /\ job' = [job EXCEPT ![h] = "none"] /\ copy' = [copy EXCEPT ![h] = NoCount] /\ batch' = [batch EXCEPT ![h] = {}]
  /\ UNCHANGED <<file, screened, sent>>

Next ==
  \E h \in Hooks :
    \/ RecordCall(h) \/ StatusOnce(h) \/ Flush(h)
    \/ Read(h) \/ NotDue(h) \/ Truncate(h) \/ Finish(h) \/ Upload(h) \/ Stop(h)

Spec == Init /\ [][Next]_vars

-----------------------------------------------------------------------------
\* Types of the counter file and of the processes; a file never names more agent
\* instances than the cap, and beyond them it has a key per framework at most.
TypeOK ==
  /\ file.there \in BOOLEAN /\ file.torn \in BOOLEAN /\ file.counters \in Counters
  /\ Cardinality(DOMAIN file.counters \ Frameworks) <= MaxKeys
  /\ lock \in Hooks \cup {None}
  /\ pc \in [Hooks -> {"idle", "lock", "write", "finish", "upload"}]
  /\ \A h \in Hooks : copy[h] \in Counters /\ batch[h] \subseteq Calls
  /\ screened \subseteq Calls /\ sent \subseteq screened /\ faults \in 0 .. MaxFaults

\* Counted and not yet reported: in the file, in the copy of the process that is
\* writing it, or in the records about to be uploaded.
InFile  == IF file.torn /\ lock # None THEN Counted(copy[lock]) ELSE Counted(file.counters)
Pending == InFile \cup UNION Range(batch)

\* "Counters are reset *before* the upload; [...] so counts are never lost and
\* never double-sent" (heartbeat.py:244): the counter file, its lock and its
\* uploads together are a counter that only a fault empties.
CountsOnce == INSTANCE Counter WITH pending <- Pending, reported <- sent
CountedOnce == CountsOnce!Spec

=============================================================================
