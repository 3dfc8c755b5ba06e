---------------------------- MODULE Heartbeat_proofs ----------------------------
(***************************************************************************)
(* For any hooks, calls and bounds: the counter file, its lock, the copies *)
(* under it and the uploads implement the counter of module Counter.       *)
(***************************************************************************)
EXTENDS Heartbeat, FiniteSetTheorems, TLAPS

\* The steps under the lock.
Locked == {"write", "finish"}

\* Who holds the lock, what it has read, and what a torn file counts.
LockInv ==
  /\ DOMAIN file = {"there", "torn", "counters"} /\ file.torn \in BOOLEAN
  /\ lock \in Hooks \cup {None}
  /\ pc \in [Hooks -> {"idle", "lock", "write", "finish", "upload"}]
  /\ DOMAIN copy = Hooks
  /\ \A h \in Hooks : /\ lock = h <=> pc[h] \in Locked
                      /\ pc[h] = "write" => copy[h] = Load
                      /\ pc[h] = "finish" => file.torn
  /\ file.torn => file.counters = NoCount

\* Records wait only between a flush and its upload; who is at work has a job.
BatchInv ==
  /\ batch \in [Hooks -> SUBSET Calls]
  /\ job \in [Hooks -> Calls \cup {"none", "status", "flush"}]
  /\ \A h \in Hooks : /\ pc[h] # "upload" => batch[h] = {}
                      /\ pc[h] \in {"lock", "write", "finish"} => job[h] # "none"

\* What is counted was screened; a call that is being counted is counted nowhere
\* yet, and by one hook only.
ScreenInv ==
  /\ InFile \subseteq screened /\ sent \subseteq screened /\ screened \subseteq Calls
  /\ \A h \in Hooks :
       /\ batch[h] \subseteq screened
       /\ job[h] \in Calls =>
            /\ job[h] \in screened /\ job[h] \notin InFile /\ job[h] \notin sent
            /\ \A g \in Hooks : /\ job[h] \notin batch[g]
                                /\ job[g] = job[h] => g = h

\* No call is counted twice.
ApartInv ==
  \A h \in Hooks : /\ batch[h] \cap InFile = {}
                   /\ \A g \in Hooks \ {h} : batch[g] \cap batch[h] = {}

HeartbeatInv == LockInv /\ BatchInv /\ ScreenInv /\ ApartInv

-----------------------------------------------------------------------------
(* What counters count.                                                    *)

LEMMA NoCountLemma == Counted(NoCount) = {}
BY DEF Counted, NoCount, Range

\* Counting one more call adds that call, whatever its key.
LEMMA PlusLemma ==
  ASSUME NEW counters, NEW c
  PROVE  Counted(Plus(counters, c)) = Counted(counters) \cup {c}
<1> DEFINE k    == KeyOf(counters, c)
           more == Plus(counters, c)
<1>1. /\ DOMAIN more = DOMAIN counters \cup {k}
      /\ \A n \in DOMAIN counters \cup {k} :
           more[n] = (IF n \in DOMAIN counters THEN counters[n] ELSE {}) \cup (IF n = k THEN {c} ELSE {})
  BY DEF Plus
<1> HIDE DEF k, more
<1>2. ASSUME NEW x  PROVE  x \in Counted(more) <=> \E n \in DOMAIN more : x \in more[n]
  BY DEF Counted, Range
<1>3. ASSUME NEW x  PROVE  x \in Counted(counters) <=> \E n \in DOMAIN counters : x \in counters[n]
  BY DEF Counted, Range
<1>4. ASSUME NEW x  PROVE  x \in Counted(more) <=> (x \in Counted(counters) \/ x = c)
  <2>1. ASSUME x \in Counted(more)  PROVE  x \in Counted(counters) \/ x = c
    <3>1. PICK n \in DOMAIN more : x \in more[n]  BY <1>2, <2>1
    <3> QED  BY <1>1, <1>3, <3>1
  <2>2. ASSUME x \in Counted(counters)  PROVE  x \in Counted(more)
    <3>1. PICK n \in DOMAIN counters : x \in counters[n]  BY <1>3, <2>2
    <3> QED  BY <1>1, <1>2, <3>1
  <2>3. c \in more[k] /\ k \in DOMAIN more  BY <1>1
  <2>4. c \in Counted(more)  BY <1>2, <2>3
  <2> QED  BY <2>1, <2>2, <2>4
<1> QED  BY <1>4 DEF more

\* What is pending, call by call.
LEMMA PendingLemma ==
  ASSUME BatchInv, NEW c
  PROVE  c \in Pending <=> (c \in InFile \/ \E h \in Hooks : c \in batch[h])
BY DEF Pending, Range, BatchInv

\* Outside the writing of the file, what it counts is what would be loaded.
LEMMA InFileLemma ==
  ASSUME LockInv, ConstantsOK
  PROVE  /\ ~ file.torn => InFile = Counted(file.counters)
         /\ (file.torn /\ lock = None) => InFile = {}
         /\ \A h \in Hooks : pc[h] \in Locked => InFile = Counted(copy[h])
         /\ Counted(Load) = Counted(file.counters)
<1>1. file.torn => Counted(file.counters) = {}  BY NoCountLemma DEF LockInv
<1>2. Counted(Load) = Counted(file.counters)  BY <1>1, NoCountLemma DEF Load
<1>3. ASSUME NEW h \in Hooks, pc[h] \in Locked  PROVE  InFile = Counted(copy[h])
  <2>1. lock = h /\ lock # None  BY <1>3 DEF LockInv, ConstantsOK
  <2>2. CASE file.torn  BY <2>1, <2>2 DEF InFile
  <2>3. CASE ~ file.torn
    <3>1. pc[h] = "write" /\ copy[h] = Load  BY <1>3, <2>3 DEF LockInv, Locked
    <3> QED  BY <1>2, <2>3, <3>1 DEF InFile
  <2> QED  BY <2>2, <2>3
<1> QED  BY <1>1, <1>2, <1>3 DEF InFile

-----------------------------------------------------------------------------
(* The lock and the file.                                                  *)

\* A step of one hook, by its kind.
HookStep(h) ==
  \/ RecordCall(h) \/ StatusOnce(h) \/ Flush(h)
  \/ Read(h) \/ NotDue(h) \/ Truncate(h) \/ Finish(h) \/ Upload(h) \/ Stop(h)

LEMMA LockLemma ==
  ASSUME ConstantsOK, LockInv, NEW h \in Hooks, HookStep(h)
  PROVE  LockInv'
<1>0. /\ None \notin Hooks
      /\ \A g \in Hooks : pc[g] \in Locked /\ pc[h] \in Locked => g = h
  BY DEF ConstantsOK, LockInv
<1>1. ASSUME NEW j, Begin(h, j)  PROVE LockInv'
  <2>1. Load' = Load  BY <1>1 DEF Begin, Load
  <2> QED  BY <1>1, <2>1 DEF Begin, Goto, LockInv, Locked
<1>2. CASE Read(h)
  <2>1. Load' = Load  BY <1>2 DEF Read, Load
  <2> QED  BY <1>0, <1>2, <2>1 DEF Read, LockAndLoad, Goto, LockInv, Locked
<1>3. CASE NotDue(h)
  <2>1. Load' = Load  BY <1>3 DEF NotDue, Load
  <2> QED  BY <1>0, <1>3, <2>1 DEF NotDue, Goto, LockInv, Locked
<1>4. CASE Truncate(h)
  <2>1. pc[h] = "write" /\ lock = h  BY <1>4 DEF Truncate, LockInv, Locked
  <2>2. \A g \in Hooks : pc'[g] = "write" => FALSE
    BY <1>0, <1>4, <2>1 DEF Truncate, Goto, LockInv, Locked
  <2>3. file' = [there |-> TRUE, torn |-> TRUE, counters |-> NoCount]  BY <1>4 DEF Truncate
  <2> QED  BY <1>4, <2>1, <2>2, <2>3 DEF Truncate, Goto, LockInv, Locked
<1>5. CASE Finish(h)
  <2>1. pc[h] = "finish" /\ lock = h  BY <1>5 DEF Finish, LockInv, Locked
  <2>2. \A g \in Hooks : pc'[g] \notin Locked
    BY <1>0, <1>5, <2>1 DEF Finish, Goto, LockInv, Locked
  <2>3. DOMAIN file' = {"there", "torn", "counters"} /\ file'.torn = FALSE  BY <1>5 DEF Finish
  <2>4. pc' \in [Hooks -> {"idle", "lock", "write", "finish", "upload"}]
    BY <1>5 DEF Finish, Goto, LockInv
  <2>5. lock' = None /\ DOMAIN copy' = Hooks  BY <1>5 DEF Finish, LockInv
  <2>6. \A g \in Hooks : pc'[g] # "write" /\ pc'[g] # "finish" /\ lock' # g
    BY <1>0, <2>2, <2>5 DEF Locked
  <2> QED  BY <2>2, <2>3, <2>4, <2>5, <2>6 DEF LockInv
<1>6. CASE Upload(h)
  <2>1. Load' = Load  BY <1>6 DEF Upload, Load
  <2> QED  BY <1>6, <2>1 DEF Upload, Goto, LockInv, Locked
<1>7. CASE Stop(h)
  <2>1. Load' = Load  BY <1>7 DEF Stop, Load
  <2>2. CASE lock = h
    <3>1. lock' = None  BY <1>7, <2>2 DEF Stop
    <3> QED  BY <1>0, <1>7, <2>1, <2>2, <3>1 DEF Stop, Goto, LockInv, Locked
  <2>3. CASE lock # h
    <3>1. lock' = lock  BY <1>7, <2>3 DEF Stop
    <3> QED  BY <1>0, <1>7, <2>1, <2>3, <3>1 DEF Stop, Goto, LockInv, Locked
  <2> QED  BY <2>2, <2>3
<1> QED
  BY <1>1, <1>2, <1>3, <1>4, <1>5, <1>6, <1>7 DEF HookStep, RecordCall, StatusOnce, Flush

-----------------------------------------------------------------------------
(* What the steps do to the counts.                                        *)

\* A process that begins or ends without writing leaves the counts as they are,
\* and so does emptying the file: its counts are in the copy.
LEMMA QuietLemma ==
  ASSUME ConstantsOK, LockInv, NEW h \in Hooks, LockInv',
         (\E j : Begin(h, j)) \/ Read(h) \/ NotDue(h) \/ Truncate(h) \/ Upload(h)
  PROVE  InFile' = InFile
<1>0. None \notin Hooks  BY DEF ConstantsOK
<1>1. ASSUME NEW j, Begin(h, j)  PROVE InFile' = InFile
  BY <1>1 DEF Begin, InFile
<1>2. CASE Read(h)
  <2>1. lock = None /\ file' = file /\ lock' = h /\ pc'[h] = "write" /\ copy'[h] = Load
    BY <1>2 DEF Read, LockAndLoad, Goto, LockInv
  <2>2. InFile = Counted(Load)  BY <2>1, InFileLemma, NoCountLemma DEF LockInv, Load
  <2>3. InFile' = Counted(copy'[h])
    <3>1. CASE file.torn  BY <1>0, <2>1, <3>1 DEF InFile
    <3>2. CASE ~ file.torn  BY <2>1, <3>2 DEF InFile, Load
    <3> QED  BY <3>1, <3>2
  <2> QED  BY <2>1, <2>2, <2>3
<1>3. CASE NotDue(h)
  <2>1. pc[h] \in Locked /\ copy[h] = Load /\ file' = file /\ lock' = None
    BY <1>3 DEF NotDue, LockInv, Locked
  <2>2. InFile = Counted(file.counters)  BY <2>1, InFileLemma
  <2>3. InFile' = Counted(file.counters)  BY <2>1 DEF InFile
  <2> QED  BY <2>2, <2>3
<1>4. CASE Truncate(h)
  <2>1. pc[h] \in Locked /\ copy' = copy /\ lock' = lock /\ lock = h /\ file'.torn
    BY <1>4 DEF Truncate, LockInv, Locked
  <2>2. InFile = Counted(copy[h])  BY <2>1, InFileLemma
  <2>3. InFile' = Counted(copy[h])  BY <1>0, <2>1 DEF InFile
  <2> QED  BY <2>2, <2>3
<1>5. CASE Upload(h)
  BY <1>5 DEF Upload, InFile
<1> QED  BY <1>1, <1>2, <1>3, <1>4, <1>5

\* Writing the file adds the call that is counted, or moves all counts into the
\* records of a flush.
LEMMA FinishLemma ==
  ASSUME ConstantsOK, LockInv, BatchInv, NEW h \in Hooks, Finish(h)
  PROVE  /\ job[h] = "flush" => InFile' = {} /\ batch'[h] = InFile
         /\ job[h] = "status" => InFile' = InFile
         /\ job[h] \notin {"flush", "status"} => InFile' = InFile \cup {job[h]}
         /\ job[h] # "flush" => batch'[h] = {}
         /\ \A g \in Hooks \ {h} : batch'[g] = batch[g]
<1>1. pc[h] = "finish" /\ InFile = Counted(copy[h])
  BY InFileLemma DEF Finish, Locked
<1>2. InFile' = Counted(Written(h))
  <2>1. file' = [there |-> TRUE, torn |-> FALSE, counters |-> Written(h)]  BY DEF Finish
  <2>2. ~ file'.torn /\ file'.counters = Written(h)  BY <2>1
  <2> QED  BY <2>2 DEF InFile
<1>3. job[h] = "flush" => InFile' = {} /\ batch'[h] = InFile
  BY <1>1, <1>2, NoCountLemma DEF Written, Finish, BatchInv
<1>4. job[h] = "status" => InFile' = InFile
  BY <1>1, <1>2 DEF Written
<1>5. job[h] \notin {"flush", "status"} => InFile' = InFile \cup {job[h]}
  BY <1>1, <1>2, PlusLemma DEF Written
<1>6. job[h] # "flush" => batch'[h] = {}
  BY DEF Finish, BatchInv
<1>7. \A g \in Hooks \ {h} : batch'[g] = batch[g]
  BY DEF Finish, BatchInv
<1> QED  BY <1>3, <1>4, <1>5, <1>6, <1>7

\* A fault takes the counts of a file that was emptied, and the records of the
\* process.
LEMMA StopLemma ==
  ASSUME ConstantsOK, LockInv, BatchInv, NEW h \in Hooks, Stop(h)
  PROVE  /\ InFile' \subseteq InFile
         /\ batch'[h] = {} /\ \A g \in Hooks \ {h} : batch'[g] = batch[g]
<1>1. file' = file  BY DEF Stop
<1>2. ASSUME ~ file.torn  PROVE InFile' = InFile
  BY <1>1, <1>2 DEF InFile
<1>3. ASSUME file.torn, lock = h \/ lock = None  PROVE InFile' = {}
  <2>1. lock' = None  BY <1>3 DEF Stop
  <2> QED  BY <1>1, <1>3, <2>1, NoCountLemma DEF InFile, LockInv
<1>4. ASSUME file.torn, lock # h, lock # None  PROVE InFile' = InFile
  <2>1. lock' = lock /\ lock \in Hooks  BY <1>4 DEF Stop, LockInv
  <2>2. copy'[lock] = copy[lock]  BY <1>4, <2>1 DEF Stop, LockInv
  <2> QED  BY <1>1, <1>4, <2>1, <2>2 DEF InFile
<1>5. batch'[h] = {} /\ \A g \in Hooks \ {h} : batch'[g] = batch[g]
  BY DEF Stop, BatchInv
<1> QED  BY <1>2, <1>3, <1>4, <1>5

-----------------------------------------------------------------------------
(* Each step counts, reports, loses or does nothing.                       *)

LEMMA BatchLemma ==
  ASSUME ConstantsOK, LockInv, BatchInv, ScreenInv, NEW h \in Hooks, HookStep(h)
  PROVE  BatchInv'
<1>0. {"none", "status", "flush"} \cap Calls = {}  BY DEF ConstantsOK
<1>1. ASSUME NEW j \in Calls \cup {"status", "flush"}, Begin(h, j)  PROVE BatchInv'
  BY <1>0, <1>1 DEF Begin, Goto, BatchInv, LockInv
<1>2. CASE Read(h)
  BY <1>2 DEF Read, LockAndLoad, Goto, BatchInv, LockInv
<1>3. CASE NotDue(h)
  BY <1>3 DEF NotDue, Goto, BatchInv, LockInv
<1>4. CASE Truncate(h)
  BY <1>4 DEF Truncate, Goto, BatchInv, LockInv
<1>5. CASE Finish(h)
  <2>1. \A g \in Hooks \ {h} : batch'[g] = batch[g] /\ pc'[g] = pc[g]
    BY <1>5 DEF Finish, Goto, BatchInv, LockInv
  <2>2. job[h] = "flush" => pc'[h] = "upload" /\ batch'[h] = InFile
    <3>1. job[h] = "flush" => batch'[h] = InFile  BY <1>5, FinishLemma
    <3> QED  BY <1>5, <3>1 DEF Finish, Goto, LockInv
  <2>3. job[h] # "flush" => batch'[h] = {}  BY <1>5, FinishLemma
  <2>4. DOMAIN batch' = Hooks /\ InFile \subseteq Calls /\ batch' = [g \in Hooks |-> batch'[g]]
    BY <1>5 DEF Finish, BatchInv, ScreenInv
  <2>5. \A g \in Hooks : batch'[g] \in SUBSET Calls  BY <2>1, <2>2, <2>3, <2>4 DEF BatchInv
  <2>6. batch' \in [Hooks -> SUBSET Calls]  BY <2>4, <2>5
  <2>7. \A g \in Hooks : pc'[g] # "upload" => batch'[g] = {}
    BY <2>1, <2>2, <2>3 DEF BatchInv
  <2>8. /\ job' \in [Hooks -> Calls \cup {"none", "status", "flush"}]
        /\ \A g \in Hooks : pc'[g] \in {"lock", "write", "finish"} => job'[g] # "none"
    BY <1>5 DEF Finish, Goto, BatchInv, LockInv
  <2> QED  BY <2>6, <2>7, <2>8 DEF BatchInv
<1>6. CASE Upload(h)
  BY <1>6 DEF Upload, Goto, BatchInv, LockInv
<1>7. CASE Stop(h)
  BY <1>7 DEF Stop, Goto, BatchInv, LockInv
<1> QED
  BY <1>1, <1>2, <1>3, <1>4, <1>5, <1>6, <1>7 DEF HookStep, RecordCall, StatusOnce, Flush

LEMMA ScreenLemma ==
  ASSUME ConstantsOK, HeartbeatInv, LockInv', BatchInv', NEW h \in Hooks, HookStep(h)
  PROVE  ScreenInv' /\ ApartInv'
<1> USE DEF HeartbeatInv
<1>0. {"none", "status", "flush"} \cap Calls = {}  BY DEF ConstantsOK
<1>1. CASE RecordCall(h)
  <2>1. PICK c \in Calls \ screened : Begin(h, c)  BY <1>1 DEF RecordCall
  <2>2. InFile' = InFile /\ batch' = batch /\ sent' = sent /\ screened' = screened \cup {c}
    BY <2>1, QuietLemma DEF Begin
  <2>3. job' = [job EXCEPT ![h] = c]  BY <2>1 DEF Begin
  <2>4. ScreenInv'  BY <2>1, <2>2, <2>3 DEF ScreenInv, BatchInv
  <2>5. ApartInv'   BY <2>2 DEF ApartInv
  <2> QED  BY <2>4, <2>5
<1>2. CASE StatusOnce(h) \/ Flush(h)
  <2>1. PICK j \in {"status", "flush"} : Begin(h, j)  BY <1>2 DEF StatusOnce, Flush
  <2>2. InFile' = InFile /\ batch' = batch /\ sent' = sent /\ screened' = screened
    BY <1>0, <2>1, QuietLemma DEF Begin
  <2>3. job' = [job EXCEPT ![h] = j]  BY <2>1 DEF Begin
  <2>4. ScreenInv'  BY <1>0, <2>1, <2>2, <2>3 DEF ScreenInv, BatchInv
  <2>5. ApartInv'   BY <2>2 DEF ApartInv
  <2> QED  BY <2>4, <2>5
<1>3. CASE Read(h) \/ Truncate(h)
  <2>1. InFile' = InFile /\ batch' = batch /\ sent' = sent /\ screened' = screened /\ job' = job
    BY <1>3, QuietLemma DEF Read, Truncate
  <2> QED  BY <2>1 DEF ScreenInv, ApartInv
<1>4. CASE NotDue(h)
  <2>1. InFile' = InFile /\ batch' = batch /\ sent' = sent /\ screened' = screened
    BY <1>4, QuietLemma DEF NotDue
  <2>2. job' = [job EXCEPT ![h] = "none"]  BY <1>4 DEF NotDue
  <2>3. ScreenInv'  BY <1>0, <2>1, <2>2 DEF ScreenInv, BatchInv
  <2> QED  BY <2>1, <2>3 DEF ApartInv
<1>5. CASE Finish(h)
  <2>1. job' = [job EXCEPT ![h] = "none"] /\ sent' = sent /\ screened' = screened  BY <1>5 DEF Finish
  <2>2. /\ job[h] = "flush" => InFile' = {} /\ batch'[h] = InFile
        /\ job[h] = "status" => InFile' = InFile
        /\ job[h] \notin {"flush", "status"} => InFile' = InFile \cup {job[h]}
        /\ job[h] # "flush" => batch'[h] = {}
        /\ \A g \in Hooks \ {h} : batch'[g] = batch[g]
    BY <1>5, FinishLemma
  <2>3. batch[h] = {} /\ job[h] # "none"
    BY <1>5 DEF Finish, BatchInv
  <2>4. DOMAIN job = Hooks /\ job[h] \in Calls \cup {"status", "flush"}  BY <2>3 DEF BatchInv
  <2>5. ScreenInv'  BY <1>0, <2>1, <2>2, <2>3, <2>4 DEF ScreenInv
  <2>6. ApartInv'   BY <1>0, <2>2, <2>3, <2>4 DEF ScreenInv, ApartInv
  <2> QED  BY <2>5, <2>6
<1>6. CASE Upload(h)
  <2>1. InFile' = InFile /\ screened' = screened /\ job' = job /\ sent' = sent \cup batch[h]
    BY <1>6, QuietLemma DEF Upload
  <2>2. batch'[h] = {} /\ \A g \in Hooks \ {h} : batch'[g] = batch[g]
    BY <1>6 DEF Upload, BatchInv
  <2>3. ScreenInv'  BY <2>1, <2>2 DEF ScreenInv
  <2>4. ApartInv'   BY <2>1, <2>2 DEF ApartInv
  <2> QED  BY <2>3, <2>4
<1>7. CASE Stop(h)
  <2>1. job' = [job EXCEPT ![h] = "none"] /\ sent' = sent /\ screened' = screened  BY <1>7 DEF Stop
  <2>2. InFile' \subseteq InFile /\ batch'[h] = {} /\ \A g \in Hooks \ {h} : batch'[g] = batch[g]
    BY <1>7, StopLemma
  <2>3. ScreenInv'  BY <1>0, <2>1, <2>2 DEF ScreenInv, BatchInv
  <2>4. ApartInv'   BY <2>2 DEF ApartInv
  <2> QED  BY <2>3, <2>4
<1> QED  BY <1>1, <1>2, <1>3, <1>4, <1>5, <1>6, <1>7 DEF HookStep

\* A step of the files is a step of the counter, or none.
LEMMA CounterLemma ==
  ASSUME ConstantsOK, HeartbeatInv, BatchInv', NEW h \in Hooks, HookStep(h)
  PROVE  CountsOnce!Next \/ UNCHANGED CountsOnce!vars
<1> USE DEF HeartbeatInv
<1>0a. \A c : c \in Pending <=> (c \in InFile \/ \E g \in Hooks : c \in batch[g])
  BY PendingLemma
<1>0b. \A c : c \in Pending' <=> (c \in InFile' \/ \E g \in Hooks : c \in batch'[g])
  BY DEF Pending, Range, BatchInv
<1>1. ASSUME InFile' = InFile, batch' = batch, sent' = sent, faults' = faults
      PROVE  UNCHANGED CountsOnce!vars
  BY <1>1 DEF Pending, CountsOnce!vars
<1>2. CASE (\E j : Begin(h, j)) \/ Read(h) \/ NotDue(h) \/ Truncate(h)
  <2>1. InFile' = InFile  BY <1>2, LockLemma, QuietLemma DEF Read
  <2>2. batch' = batch /\ sent' = sent /\ faults' = faults
    BY <1>2 DEF Begin, Read, NotDue, Truncate
  <2> QED  BY <1>1, <2>1, <2>2
<1>3. CASE Finish(h)
  <2>1. sent' = sent /\ faults' = faults  BY <1>3 DEF Finish
  <2>2. batch[h] = {} /\ job[h] \in Calls \cup {"status", "flush"}
    BY <1>3 DEF Finish, BatchInv
  <2>3. CASE job[h] \in {"status", "flush"}
    <3>1. ASSUME NEW c  PROVE c \in Pending' <=> c \in Pending
      BY <1>0a, <1>0b, <1>3, <2>2, <2>3, FinishLemma
    <3>2. Pending' = Pending  BY <3>1
    <3> QED  BY <2>1, <3>2 DEF CountsOnce!vars
  <2>4. CASE job[h] \in Calls
    <3>1. job[h] \notin {"status", "flush"}  BY <2>4 DEF ConstantsOK
    <3>2. InFile' = InFile \cup {job[h]} /\ batch'[h] = {} /\ \A g \in Hooks \ {h} : batch'[g] = batch[g]
      BY <1>3, <3>1, FinishLemma
    <3>3. ASSUME NEW c  PROVE c \in Pending' <=> (c \in Pending \/ c = job[h])
      BY <1>0a, <1>0b, <2>2, <3>2
    <3>4. Pending' = Pending \cup {job[h]}  BY <3>3
    <3>5. job[h] \notin Pending /\ job[h] \notin sent  BY <1>0a, <2>4 DEF ScreenInv
    <3> QED  BY <2>1, <2>4, <3>4, <3>5 DEF CountsOnce!Next, CountsOnce!Count
  <2> QED  BY <2>2, <2>3, <2>4
<1>4. CASE Upload(h)
  <2>1. InFile' = InFile /\ faults' = faults /\ sent' = sent \cup batch[h]
    BY <1>4, LockLemma, QuietLemma DEF Upload
  <2>2. batch'[h] = {} /\ \A g \in Hooks \ {h} : batch'[g] = batch[g]
    BY <1>4 DEF Upload, BatchInv
  <2>3. ASSUME NEW c  PROVE c \in batch[h] => c \in Pending  BY <1>0a
  <2>4. ASSUME NEW c  PROVE c \in Pending' <=> (c \in Pending /\ c \notin batch[h])
    BY <1>0a, <1>0b, <2>1, <2>2 DEF ApartInv
  <2>5. batch[h] \in SUBSET Pending /\ Pending' = Pending \ batch[h]  BY <2>3, <2>4
  <2> QED  BY <2>1, <2>5 DEF CountsOnce!Next, CountsOnce!Report
<1>5. CASE Stop(h)
  <2>1. sent' = sent /\ faults' = faults + 1  BY <1>5 DEF Stop
  <2>2. InFile' \subseteq InFile /\ batch'[h] = {} /\ \A g \in Hooks \ {h} : batch'[g] = batch[g]
    BY <1>5, StopLemma
  <2>3. ASSUME NEW c  PROVE c \in Pending' => c \in Pending  BY <1>0a, <1>0b, <2>2
  <2>4. Pending' \in SUBSET Pending  BY <2>3
  <2> QED  BY <2>1, <2>4 DEF CountsOnce!Next, CountsOnce!Fault
<1> QED
  BY <1>2, <1>3, <1>4, <1>5 DEF HookStep, RecordCall, StatusOnce, Flush

-----------------------------------------------------------------------------
(* The keys of a counter file.                                             *)

\* Past the cap a file has no more keys but those of frameworks.
Fits(counters) ==
  /\ counters \in Counters /\ IsFiniteSet(DOMAIN counters)
  /\ Cardinality(DOMAIN counters \ Frameworks) <= MaxKeys

KeysInv ==
  /\ file.there \in BOOLEAN /\ faults \in 0 .. MaxFaults
  /\ Fits(file.counters) /\ \A h \in Hooks : Fits(copy[h])

LEMMA CountersLemma ==
  ASSUME NEW K \in SUBSET Keys, NEW f \in [K -> SUBSET Calls]
  PROVE  f \in Counters
BY DEF Counters

LEMMA NoCountFits == ASSUME ConstantsOK PROVE Fits(NoCount)
<1>1. NoCount \in [{} -> SUBSET Calls] /\ DOMAIN NoCount = {} /\ {} \ Frameworks = {}
  BY DEF NoCount
<1>2. NoCount \in Counters
  BY <1>1, CountersLemma
<1> QED  BY <1>1, <1>2, FS_EmptySet DEF Fits, ConstantsOK

\* One more call keeps a file within the cap, whatever the agent is called.
LEMMA PlusFits ==
  ASSUME ConstantsOK, NEW counters, Fits(counters), NEW c \in Calls
  PROVE  Fits(Plus(counters, c))
<1> DEFINE k == KeyOf(counters, c)
           D == DOMAIN counters
           f == Plus(counters, c)
<1>1. MaxKeys \in Nat /\ IsFiniteSet(D) /\ Cardinality(D) \in Nat
  BY FS_CardinalityType DEF Fits, ConstantsOK
<1>2. PICK K \in SUBSET Keys : counters \in [K -> SUBSET Calls]
  BY DEF Fits, Counters
<1>3. k \in Keys
  BY DEF KeyOf, Keys, Frameworks
<1>4. D \cup {k} \in SUBSET Keys
  BY <1>2, <1>3
<1>5. f = [n \in D \cup {k} |-> (IF n \in D THEN counters[n] ELSE {}) \cup IF n = k THEN {c} ELSE {}]
  BY DEF Plus
<1>6. k \notin D => Cardinality(D) < MaxKeys \/ k \in Frameworks
  BY <1>1 DEF KeyOf, Frameworks
<1> HIDE DEF k, D, f
<1>7. \A n \in D \cup {k} : ((IF n \in D THEN counters[n] ELSE {}) \cup IF n = k THEN {c} ELSE {}) \in SUBSET Calls
  BY <1>2 DEF D
<1>8. f \in [D \cup {k} -> SUBSET Calls] /\ DOMAIN f = D \cup {k}
  BY <1>5, <1>7
<1>9. f \in Counters
  BY <1>4, <1>8, CountersLemma
<1>10. /\ IsFiniteSet(D \cup {k})
       /\ Cardinality(D \cup {k}) = IF k \in D THEN Cardinality(D) ELSE Cardinality(D) + 1
  BY <1>1, FS_AddElement
<1>11. /\ IsFiniteSet(D \ Frameworks) /\ Cardinality(D \ Frameworks) \in Nat
       /\ Cardinality(D \ Frameworks) <= MaxKeys /\ Cardinality(D \ Frameworks) <= Cardinality(D)
  BY <1>1, FS_Subset, FS_CardinalityType DEF Fits, D
<1>12. Cardinality((D \cup {k}) \ Frameworks) <= MaxKeys
  <2>1. CASE k \in D \/ k \in Frameworks
    <3>1. (D \cup {k}) \ Frameworks = D \ Frameworks
      BY <2>1
    <3> QED  BY <1>11, <3>1
  <2>2. CASE k \notin D /\ k \notin Frameworks
    <3>1. (D \cup {k}) \ Frameworks = (D \ Frameworks) \cup {k} /\ k \notin D \ Frameworks
      BY <2>2
    <3>2. Cardinality((D \ Frameworks) \cup {k}) = Cardinality(D \ Frameworks) + 1
      BY <1>11, <3>1, FS_AddElement
    <3>3. Cardinality(D) < MaxKeys
      BY <1>6, <2>2
    <3>4. Cardinality(D \ Frameworks) + 1 <= MaxKeys
      BY <1>1, <1>11, <3>3
    <3> QED  BY <3>1, <3>2, <3>4
  <2> QED  BY <2>1, <2>2
<1>14. Fits(f)
  BY <1>8, <1>9, <1>10, <1>12 DEF Fits
<1> QED  BY <1>14 DEF f

LEMMA KeysLemma ==
  ASSUME ConstantsOK, HeartbeatInv, KeysInv, NEW h \in Hooks, HookStep(h)
  PROVE  KeysInv'
<1>0. Fits(NoCount) /\ DOMAIN copy = Hooks /\ (file.torn => file.counters = NoCount)
  BY NoCountFits DEF HeartbeatInv, LockInv
<1>1. CASE (\E j : Begin(h, j)) \/ NotDue(h) \/ Upload(h)
  <2>1. UNCHANGED <<file, faults>> /\ (copy' = copy \/ copy' = [copy EXCEPT ![h] = NoCount])
    BY <1>1 DEF Begin, NotDue, Upload
  <2> QED  BY <1>0, <2>1 DEF KeysInv, Fits
<1>2. CASE Read(h)
  <2>1. UNCHANGED <<file, faults>> /\ copy' = [copy EXCEPT ![h] = Load] /\ Fits(Load)
    BY <1>0, <1>2 DEF Read, LockAndLoad, Load, KeysInv
  <2> QED  BY <1>0, <2>1 DEF KeysInv, Fits
<1>3. CASE Truncate(h)
  BY <1>0, <1>3 DEF Truncate, KeysInv, Fits
<1>4. CASE Finish(h)
  <2>1. job[h] \in Calls \cup {"status", "flush"}
    BY <1>4 DEF Finish, HeartbeatInv, BatchInv
  <2>2. Fits(Written(h))
    <3>1. job[h] \notin {"status", "flush"} => Fits(Plus(copy[h], job[h]))
      BY <2>1, PlusFits DEF KeysInv
    <3>2. Fits(copy[h])
      BY DEF KeysInv
    <3> QED  BY <1>0, <3>1, <3>2 DEF Written
  <2>3. /\ file' = [there |-> TRUE, torn |-> FALSE, counters |-> Written(h)]
        /\ copy' = [copy EXCEPT ![h] = NoCount] /\ UNCHANGED faults
    BY <1>4 DEF Finish
  <2>4. file'.there \in BOOLEAN /\ file'.counters = Written(h)
    BY <2>3
  <2> HIDE DEF Written
  <2>5. Fits(file.counters)'
    BY <2>2, <2>4 DEF Fits
  <2>6. \A g \in Hooks : Fits(copy[g])'
    BY <1>0, <2>3 DEF KeysInv, Fits
  <2> QED  BY <2>3, <2>4, <2>5, <2>6 DEF KeysInv
<1>5. CASE Stop(h)
  <2>1. UNCHANGED file /\ copy' = [copy EXCEPT ![h] = NoCount]
    BY <1>5 DEF Stop
  <2>2. faults' \in 0 .. MaxFaults
    BY <1>5 DEF Stop, KeysInv, ConstantsOK
  <2> QED  BY <1>0, <2>1, <2>2 DEF KeysInv, Fits
<1> QED  BY <1>1, <1>2, <1>3, <1>4, <1>5 DEF HookStep, RecordCall, StatusOnce, Flush

\* The invariants give the types.
LEMMA TypesLemma == HeartbeatInv /\ KeysInv /\ ConstantsOK => TypeOK
<1> SUFFICES ASSUME HeartbeatInv, KeysInv, ConstantsOK PROVE TypeOK
  OBVIOUS
<1> QED  BY DEF TypeOK, HeartbeatInv, LockInv, BatchInv, ScreenInv, KeysInv, Fits

-----------------------------------------------------------------------------
(* The theorems.                                                           *)

LEMMA InitLemma ==
  ASSUME ConstantsOK, Init
  PROVE  HeartbeatInv /\ CountsOnce!Init
<1>1. InFile = {}  BY NoCountLemma DEF Init, InFile
<1>2. LockInv  BY DEF Init, LockInv, Locked, ConstantsOK
<1>3. BatchInv  BY DEF Init, BatchInv
<1>4. ScreenInv  BY <1>1 DEF Init, ScreenInv, ConstantsOK
<1>5. ApartInv  BY <1>1 DEF Init, ApartInv
<1>6. \A c : c \notin Pending  BY <1>1, <1>3, PendingLemma DEF Init
<1>7. Pending = {} /\ sent = {} /\ faults = 0  BY <1>6 DEF Init
<1> QED  BY <1>2, <1>3, <1>4, <1>5, <1>7 DEF HeartbeatInv, CountsOnce!Init

LEMMA NextLemma ==
  ASSUME ConstantsOK, HeartbeatInv, [Next]_vars
  PROVE  HeartbeatInv' /\ [CountsOnce!Next]_(CountsOnce!vars)
<1>1. CASE Next
  <2>1. PICK h \in Hooks : HookStep(h)  BY <1>1 DEF Next, HookStep
  <2>2. LockInv'  BY <2>1, LockLemma DEF HeartbeatInv
  <2>3. BatchInv'  BY <2>1, BatchLemma DEF HeartbeatInv
  <2>4. ScreenInv' /\ ApartInv'  BY <2>1, <2>2, <2>3, ScreenLemma
  <2>5. CountsOnce!Next \/ UNCHANGED CountsOnce!vars  BY <2>1, <2>3, CounterLemma
  <2> QED  BY <2>2, <2>3, <2>4, <2>5 DEF HeartbeatInv
<1>2. CASE UNCHANGED vars
  <2>1. InFile' = InFile /\ Load' = Load /\ Pending' = Pending
    BY <1>2 DEF vars, InFile, Load, Pending
  <2>2. LockInv'  BY <1>2, <2>1 DEF vars, HeartbeatInv, LockInv
  <2>3. BatchInv' /\ ScreenInv' /\ ApartInv'
    BY <1>2, <2>1 DEF vars, HeartbeatInv, BatchInv, ScreenInv, ApartInv
  <2> QED  BY <1>2, <2>1, <2>2, <2>3 DEF vars, HeartbeatInv, CountsOnce!vars
<1> QED  BY <1>1, <1>2

\* The lock is one process's, and no call is counted in two places or is
\* both to be counted and counted, whoever is killed.
THEOREM CountsAreApart ==
  ASSUME ConstantsOK
  PROVE  Spec => []HeartbeatInv
BY InitLemma, NextLemma, PTL DEF Spec

LEMMA KeysNext ==
  ASSUME ConstantsOK, HeartbeatInv, KeysInv, [Next]_vars
  PROVE  KeysInv'
<1>1. CASE UNCHANGED vars
  BY <1>1 DEF vars, KeysInv, Fits
<1>2. CASE Next
  <2>1. PICK h \in Hooks : HookStep(h)  BY <1>2 DEF Next, HookStep
  <2> QED  BY <2>1, KeysLemma
<1> QED  BY <1>1, <1>2

LEMMA KeysInit == ASSUME ConstantsOK, Init PROVE KeysInv
BY NoCountFits DEF Init, KeysInv, ConstantsOK

\* The types, the cap on the keys of the file among them: "an instance past the limit
\* folds into the framework key [...], bounding file size" (heartbeat.py:219): to
\* the cap on agent instances, and a key for each framework.
THEOREM HeartbeatTypeCorrect ==
  ASSUME ConstantsOK
  PROVE  Spec => []TypeOK
<1>1. Init => HeartbeatInv /\ KeysInv  BY InitLemma, KeysInit
<1>2. HeartbeatInv /\ KeysInv /\ [Next]_vars => HeartbeatInv' /\ KeysInv'  BY NextLemma, KeysNext
<1>3. HeartbeatInv /\ KeysInv => TypeOK  BY TypesLemma
<1> QED  BY <1>1, <1>2, <1>3, PTL DEF Spec

\* "counts are never lost and never double-sent" (heartbeat.py:244), but for faults:
\* the counter file, its lock and the uploads implement the abstract counter.
THEOREM ImplementsCounter ==
  ASSUME ConstantsOK
  PROVE  Spec => CountedOnce
<1>1. Init => HeartbeatInv /\ CountsOnce!Init  BY InitLemma
<1>2. HeartbeatInv /\ [Next]_vars => HeartbeatInv' /\ [CountsOnce!Next]_(CountsOnce!vars)
  BY NextLemma
<1> QED  BY <1>1, <1>2, PTL DEF Spec, CountedOnce, CountsOnce!Spec

=============================================================================
