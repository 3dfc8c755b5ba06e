------------------------------ MODULE Telemetry ------------------------------
(***************************************************************************)
(* Uploading telemetry to the control plane (prismor/runtime/sinks.py) by  *)
(* way of the offline spool (prismor/runtime/enterprise/telemetry_spool.py)*)
(* and the revocation marker (prismor/runtime/enterprise/identity.py).     *)
(*                                                                         *)
(* Every process is enrolled with the same identity, so all share one      *)
(* spool, one drop counter, one backoff file and one marker.  The spool    *)
(* and the counter are read and written under the spool's lock, which      *)
(* makes each call one step; the backoff file is not.  A record is its     *)
(* position in the telemetry chain.  The drop counter, a number in the     *)
(* file, is the set of records it counts.                                  *)
(***************************************************************************)
EXTENDS Integers, Sequences, FiniteSets, SequencesExt

CONSTANTS
  Callers,       \* hook processes, or the threads of one server
  Bg,            \* the server's uploading thread
  InServer,      \* upload_in_background() was called
  SpoolMax,      \* SPOOL_MAX_RECORDS
  BatchMax,      \* the server's cap on a batch
  FlushBatch,    \* pending records that make a dispatch flush
  MaxRecords,    \* bound: records ever sealed
  MaxFailures,   \* bound: where the count of failed uploads saturates
  MaxAged,       \* bound: records that outlive SPOOL_MAX_AGE_DAYS
  MaxFaults      \* bound: processes that die and writes that fail

ConstantsOK ==
  /\ Bg \notin Callers /\ InServer \in BOOLEAN
  /\ SpoolMax \in Nat \ {0} /\ BatchMax \in Nat \ {0} /\ FlushBatch \in Nat \ {0}
  /\ MaxRecords \in Nat /\ MaxFailures \in Nat /\ MaxAged \in Nat /\ MaxFaults \in Nat

VARIABLES
  spool,         \* telemetry-spool.jsonl, in file order
  drops,         \* telemetry-spool-drops.json: the records it counts
  failures,      \* telemetry-backoff.json: failures
  waiting,       \* telemetry-backoff.json: next_at is in the future
  revoked,       \* device-revoked.json is there and younger than its retry time
  nextSeq,       \* the telemetry chain's next position
  old,           \* records up to here are past their maximum age
  pc, held,      \* per process: where it is, the records it holds
  seen,          \* per process: the failures note_upload_failure read
  kick,          \* _bg_kick
  received,      \* what the control plane stored (it ignores a second copy)
  tried,         \* history: records that were in a POST
  counted,       \* history: records ever counted as dropped
  gone,          \* history: records lost to a fault
  refused,       \* history: records discarded on a revocation
  streak,        \* history: failed uploads since the last success
  faults

filev  == <<spool, drops, failures, waiting, revoked>>
procv  == <<pc, held, seen, kick>>
histv  == <<received, tried, counted, gone, refused, streak, faults>>
vars   == <<filev, procv, histv, nextSeq, old>>

Procs   == Callers \cup IF InServer THEN {Bg} ELSE {}
Ids     == 1 .. MaxRecords
Records == [id : Ids, blocked : BOOLEAN, reports : SUBSET Ids]
IdsOf(s)  == {r.id : r \in ToSet(s)}
Alert(s)  == \E r \in ToSet(s) : r.blocked
Bump(n)   == IF n < MaxFailures THEN n + 1 ELSE n

Init ==
  /\ spool = <<>> /\ drops = {} /\ failures = 0 /\ waiting = FALSE /\ revoked = FALSE
  /\ nextSeq = 1 /\ old = 0
  /\ pc   = [p \in Procs |-> "idle"]
  /\ held = [p \in Procs |-> <<>>]
  /\ seen = [p \in Procs |-> 0]
  /\ kick = FALSE
  /\ received = {} /\ tried = {} /\ counted = {} /\ gone = {} /\ refused = {} /\ streak = 0 /\ faults = 0

Goto(p, l)        == pc' = [pc EXCEPT ![p] = l]
Hold(p, s)        == held' = [held EXCEPT ![p] = s]
Done(p)           == Goto(p, "idle") /\ Hold(p, <<>>)

-----------------------------------------------------------------------------
(* The spool.                                                              *)

\* What is young enough, in its order.
Upwards(I) == CHOOSE f \in [1 .. Cardinality(I) -> I] : \A j, k \in 1 .. Cardinality(I) : j < k => f[j] < f[k]
Fresh(s)   == LET young == {i \in DOMAIN s : s[i].id > old}
              IN  [k \in 1 .. Cardinality(young) |-> s[Upwards(young)[k]]]

\* Mutant: the cap is not applied.
KeptUncapped(s) == Fresh(s)
Kept(s) == LET f == Fresh(s)
           IN  SubSeq(f, IF Len(f) > SpoolMax THEN Len(f) - SpoolMax + 1 ELSE 1, Len(f))

\* Mutant: only what the cap evicts is counted, not what has aged out.
CountEvicted(before, kept) ==
  LET lost == IdsOf(Fresh(before)) \ IdsOf(kept) IN drops' = drops \cup lost /\ counted' = counted \cup lost
CountDropped(before, kept) ==
  LET lost == IdsOf(before) \ IdsOf(kept) IN drops' = drops \cup lost /\ counted' = counted \cup lost

SpoolAppend(s) ==
  IF s = <<>> THEN UNCHANGED <<spool, drops, counted>>
  ELSE spool' = Kept(spool \o s) /\ CountDropped(spool \o s, Kept(spool \o s))

-----------------------------------------------------------------------------
(* Where records come from.                                                *)

NewRecord(b, c) == [id |-> nextSeq, blocked |-> b, reports |-> c]

\* _dispatch_prismor: one finding, sealed; after a revocation nothing is built.
Dispatch(p, blocked) ==
  /\ p \in Callers /\ pc[p] = "idle" /\ ~ revoked
  /\ nextSeq <= MaxRecords
  /\ nextSeq' = nextSeq + 1
  /\ Hold(p, <<NewRecord(blocked, {})>>)
  /\ Goto(p, IF blocked THEN "upload" ELSE "spool")
  /\ UNCHANGED <<filev, seen, kick, histv, old>>

\* An observed record waits in the spool for the next flush...
Spool(p) ==
  /\ pc[p] = "spool"
  /\ SpoolAppend(held[p])
  /\ Hold(p, <<>>) /\ Goto(p, "pending")
  /\ UNCHANGED <<failures, waiting, revoked, seen, kick, received, tried, gone, refused, streak, faults, nextSeq, old>>

\* ... which is now if enough of them have piled up (pending_count: no lock).
Pending(p) ==
  /\ pc[p] = "pending"
  /\ Goto(p, IF Len(spool) >= FlushBatch THEN "upload" ELSE "idle")
  /\ UNCHANGED <<filev, held, seen, kick, histv, nextSeq, old>>

\* The heartbeat's tick; the counts it would add are Heartbeat's.
Tick(p) ==
  /\ p \in Callers /\ pc[p] = "idle" /\ ~ revoked
  /\ Goto(p, "upload")
  /\ UNCHANGED <<filev, held, seen, kick, histv, nextSeq, old>>

\* The background thread: kicked, or after _BG_DRAIN_S.
\* Mutant: it waits for a kick only.
BgWakeKicked ==
  /\ InServer /\ pc[Bg] = "idle" /\ kick
  /\ kick' = FALSE /\ Goto(Bg, "upload")
  /\ UNCHANGED <<filev, held, seen, histv, nextSeq, old>>
BgWake ==
  /\ InServer /\ pc[Bg] = "idle"
  /\ kick' = FALSE /\ Goto(Bg, "upload")
  /\ UNCHANGED <<filev, held, seen, histv, nextSeq, old>>

-----------------------------------------------------------------------------
(* upload_telemetry.                                                       *)

Background(p) == InServer /\ p # Bg
\* Mutant: the backoff holds back alerts as well.
BackedOffAlways(s) == waiting
BackedOff(s) == waiting /\ ~ Alert(s)

UploadRevoked(p) ==
  /\ pc[p] = "upload" /\ revoked
  /\ refused' = refused \cup IdsOf(held[p])
  /\ Done(p)
  /\ UNCHANGED <<filev, seen, kick, received, tried, counted, gone, streak, faults, nextSeq, old>>

UploadLater(p) ==
  /\ pc[p] = "upload" /\ ~ revoked
  /\ Background(p) \/ BackedOff(held[p])
  /\ SpoolAppend(held[p])
  /\ kick' = (kick \/ Background(p))
  /\ Done(p)
  /\ UNCHANGED <<failures, waiting, revoked, seen, received, tried, gone, refused, streak, faults, nextSeq, old>>

UploadNow(p) ==
  /\ pc[p] = "upload" /\ ~ revoked
  /\ ~ Background(p) /\ ~ BackedOff(held[p])
  /\ Goto(p, "drain")
  /\ UNCHANGED <<filev, held, seen, kick, histv, nextSeq, old>>

Post(p, batch) == IF batch = <<>> THEN Done(p) ELSE Hold(p, batch) /\ Goto(p, "post")

\* Mutant: the records that are taken stay in the spool.
TakeCopy(p, limit) ==
  LET all == Fresh(spool)  n == IF Len(all) < limit THEN Len(all) ELSE limit
  IN  /\ spool' = all /\ CountDropped(spool, all)
      /\ Post(p, SubSeq(all, 1, n) \o held[p])
Take(p, limit) ==
  LET all == Fresh(spool)  n == IF Len(all) < limit THEN Len(all) ELSE limit
  IN  /\ spool' = SubSeq(all, n + 1, Len(all)) /\ CountDropped(spool, all)
      /\ Post(p, SubSeq(all, 1, n) \o held[p])

Drain(p) ==
  /\ pc[p] = "drain"
  /\ IF Len(held[p]) < BatchMax THEN Take(p, BatchMax - Len(held[p]))
     ELSE Post(p, held[p]) /\ UNCHANGED <<spool, drops, counted>>
  /\ UNCHANGED <<failures, waiting, revoked, seen, kick, received, tried, gone, refused, streak, faults, nextSeq, old>>

Sent(p) == tried' = tried \cup IdsOf(held[p])

PostOk(p) ==
  /\ pc[p] = "post" /\ Sent(p)
  /\ received' = received \cup ToSet(held[p])
  /\ streak' = 0
  /\ Hold(p, <<>>) /\ Goto(p, "clear")
  /\ UNCHANGED <<filev, seen, kick, counted, gone, refused, faults, nextSeq, old>>

\* No answer (the batch may have been stored all the same), or a 5xx.
PostFails(p) ==
  /\ pc[p] = "post" /\ Sent(p)
  /\ received' \in {received, received \cup ToSet(held[p])}
  /\ streak' = Bump(streak)
  /\ Goto(p, "respool")
  /\ UNCHANGED <<filev, held, seen, kick, counted, gone, refused, faults, nextSeq, old>>

\* Another 4xx: spooled again, without backing off.
PostRefused(p) ==
  /\ pc[p] = "post" /\ Sent(p)
  /\ SpoolAppend(held[p]) /\ Done(p)
  /\ UNCHANGED <<failures, waiting, revoked, seen, kick, received, gone, refused, streak, faults, nextSeq, old>>

\* 401 or 403: marked revoked, the batch is discarded.
PostRevoked(p) ==
  /\ pc[p] = "post" /\ Sent(p)
  /\ revoked' = TRUE
  /\ refused' = refused \cup IdsOf(held[p])
  /\ Done(p)
  /\ UNCHANGED <<spool, drops, failures, waiting, seen, kick, received, counted, gone, streak, faults, nextSeq, old>>

Respool(p) ==
  /\ pc[p] = "respool"
  /\ SpoolAppend(held[p])
  /\ Hold(p, <<>>) /\ Goto(p, "note")
  /\ UNCHANGED <<failures, waiting, revoked, seen, kick, received, tried, gone, refused, streak, faults, nextSeq, old>>

\* note_upload_failure reads and writes without a lock, and counts its delay
\* from before the POST, so that it may be over already.
NoteRead(p) ==
  /\ pc[p] = "note"
  /\ seen' = [seen EXCEPT ![p] = failures] /\ Goto(p, "noting")
  /\ UNCHANGED <<filev, held, kick, histv, nextSeq, old>>
NoteWrite(p) ==
  /\ pc[p] = "noting"
  /\ failures' = Bump(seen[p]) /\ waiting' \in BOOLEAN
  /\ seen' = [seen EXCEPT ![p] = 0] /\ Done(p)
  /\ UNCHANGED <<spool, drops, revoked, kick, histv, nextSeq, old>>

\* clear_revoked and clear_backoff, then take_drops; a counter that was not
\* empty becomes one sealed record, uploaded by the same function.  When the
\* counter's file cannot be removed it is left for the next success.
Clear(p) ==
  /\ pc[p] = "clear"
  /\ revoked' = FALSE /\ failures' = 0 /\ waiting' = FALSE
  /\ Goto(p, "drops")
  /\ UNCHANGED <<spool, drops, held, seen, kick, histv, nextSeq, old>>
TakeDrops(p) ==
  /\ pc[p] = "drops"
  /\ \/ Done(p) /\ UNCHANGED <<drops, nextSeq>>
     \/ /\ drops # {}
        /\ nextSeq <= MaxRecords /\ nextSeq' = nextSeq + 1
        /\ drops' = {}
        /\ Hold(p, <<NewRecord(FALSE, drops)>>) /\ Goto(p, "upload")
  /\ UNCHANGED <<spool, failures, waiting, revoked, seen, kick, histv, old>>

-----------------------------------------------------------------------------
(* Time and faults.                                                        *)

BackoffLapse ==
  /\ waiting /\ waiting' = FALSE
  /\ UNCHANGED <<spool, drops, failures, revoked, procv, histv, nextSeq, old>>
RevokedLapse ==
  /\ revoked /\ revoked' = FALSE
  /\ UNCHANGED <<spool, drops, failures, waiting, procv, histv, nextSeq, old>>
Age ==
  /\ old < MaxAged /\ old < nextSeq - 1 /\ old' = old + 1
  /\ UNCHANGED <<filev, procv, histv, nextSeq>>

Fault == faults < MaxFaults /\ faults' = faults + 1

\* A process dies; a server's threads die together.
Die(p) ==
  /\ Fault /\ pc[p] # "idle"
  /\ LET dead == IF InServer THEN Procs ELSE {p}
     IN  /\ gone' = gone \cup UNION {IdsOf(held[q]) : q \in dead}
         /\ pc'   = [q \in Procs |-> IF q \in dead THEN "idle" ELSE pc[q]]
         /\ held' = [q \in Procs |-> IF q \in dead THEN <<>> ELSE held[q]]
         /\ kick' = (kick /\ ~ InServer)
  /\ UNCHANGED <<filev, seen, received, tried, counted, refused, streak, nextSeq, old>>

\* append() swallows an OSError, before or after the counter is written.
AppendFails(p) ==
  /\ Fault /\ pc[p] \in {"spool", "respool"}
  /\ gone' = gone \cup IdsOf(held[p])
  /\ \/ UNCHANGED <<drops, counted>>
     \/ CountDropped(spool \o held[p], Kept(spool \o held[p]))
  /\ Hold(p, <<>>) /\ Goto(p, IF pc[p] = "spool" THEN "pending" ELSE "note")
  /\ UNCHANGED <<spool, failures, waiting, revoked, seen, kick, received, tried, refused, streak, nextSeq, old>>

Upload(p) == \/ UploadRevoked(p) \/ UploadLater(p) \/ UploadNow(p) \/ Drain(p)
             \/ Respool(p) \/ NoteRead(p) \/ NoteWrite(p) \/ Clear(p) \/ TakeDrops(p)
Answer(p) == PostOk(p) \/ PostFails(p) \/ PostRefused(p) \/ PostRevoked(p)
Step(p)   == Upload(p) \/ Answer(p) \/ Spool(p) \/ Pending(p)

Next ==
  \/ \E p \in Procs : Step(p) \/ Die(p) \/ AppendFails(p) \/ Tick(p)
  \/ \E p \in Procs, b \in BOOLEAN : Dispatch(p, b)
  \/ BgWake \/ BackoffLapse \/ RevokedLapse \/ Age

Spec == Init /\ [][Next]_vars

(***************************************************************************)
(* The uploading thread wakes every _BG_DRAIN_S and runs on; threads that  *)
(* are within a call finish it; a backoff and a revocation end with time.  *)
(* The control plane answers a POST that is made again and again.          *)
(***************************************************************************)
FairSpec ==
  /\ Spec
  /\ WF_vars(BgWake) /\ WF_vars(BackoffLapse) /\ WF_vars(RevokedLapse)
  /\ \A p \in Procs : WF_vars(Step(p))
  /\ SF_vars(\E p \in Procs : PostOk(p))

-----------------------------------------------------------------------------
Pcs == {"idle", "spool", "pending", "upload", "drain", "post", "respool", "note", "noting", "clear", "drops"}

\* Types and sizes: the spool, the backoff file, the marker, the processes.
TypeOK ==
  /\ spool \in Seq(Records) /\ Len(spool) <= SpoolMax
  /\ drops \subseteq Ids /\ failures \in 0 .. MaxFailures
  /\ waiting \in BOOLEAN /\ revoked \in BOOLEAN /\ kick \in BOOLEAN
  /\ nextSeq \in 1 .. MaxRecords + 1 /\ old \in 0 .. MaxAged
  /\ DOMAIN pc = Procs /\ \A p \in Procs : pc[p] \in Pcs
  /\ DOMAIN held = Procs /\ \A p \in Procs : held[p] \in Seq(Records) /\ seen[p] \in 0 .. MaxFailures
  /\ received \subseteq Records /\ tried \subseteq Ids /\ counted \subseteq Ids
  /\ gone \subseteq Ids /\ refused \subseteq Ids

InHands == UNION {IdsOf(held[p]) : p \in Procs}

\* No record is ever in two places at once: on two lines of the spool, in the
\* spool and in a batch under way, or in the batches of two uploaders, however
\* drains, failed uploads and appends of several processes interleave.
HeldOnce ==
  /\ Cardinality(IdsOf(spool)) = Len(spool)
  /\ \A p \in Procs : /\ IdsOf(held[p]) \cap IdsOf(spool) = {}
                      /\ Cardinality(IdsOf(held[p])) = Len(held[p])
                      /\ \A q \in Procs \ {p} : IdsOf(held[p]) \cap IdsOf(held[q]) = {}

\* Every record that was sealed is at the control plane, in the spool, in some
\* uploader's hands or was counted as dropped, unless a fault or a revocation
\* took it: nothing else makes a record disappear.
Traceable ==
  1 .. nextSeq - 1 \subseteq {r.id : r \in received} \cup IdsOf(spool) \cup InHands \cup counted
                       \cup gone \cup refused

\* A blocked verdict that waits in the spool has been in a POST before: the
\* backoff never holds an alert back ("an alert must be attempted",
\* sinks.py:783).
AlertsWereTried == \A r \in ToSet(spool) : r.blocked => r.id \in tried

\* What was sealed is, in the end, delivered, counted as dropped or discarded
\* on a revocation: the server's thread keeps shipping.
Shipped ==
  \A i \in Ids : []<>(i < nextSeq => i \in {r.id : r \in received} \cup counted \cup gone \cup refused)

-----------------------------------------------------------------------------
(* What the repository says and the code does not do.                      *)

\* "At-least-once", "so nothing is lost" (sinks.py:754, :761): a record that was
\* in a POST is delivered, still to be sent, or counted as dropped, unless the
\* control plane revoked the device.
NothingIsLost ==
  tried \subseteq {r.id : r \in received} \cup IdsOf(spool) \cup InHands \cup counted \cup refused

\* "Every record dropped is counted [...] so the next successful upload can
\* report the gap" (telemetry_spool.py:18): a dropped record stays in the
\* counter or in a report that is delivered or on its way.
DropsAreReported ==
  refused = {} =>
  counted \subseteq drops \cup UNION {r.reports : r \in received \cup ToSet(spool) \cup UNION {ToSet(held[p]) : p \in Procs}}

\* "oldest dropped first" (telemetry_spool.py:182): the cap never evicts a
\* record and keeps one sealed before it.
OldestDroppedFirst ==
  [][\A i \in drops' \ drops, r \in ToSet(spool') : i > old => r.id > i]_vars

\* "Blocked verdicts bypass it -- an alert must be attempted" (sinks.py:783):
\* once every process is idle and the thread has had its kick, an alert that
\* still waits in the spool has been in a POST.
AlertsAreAttempted ==
  (refused = {} /\ ~ kick /\ \A p \in Procs : pc[p] = "idle") =>
     \A r \in ToSet(spool) : r.blocked => r.id \in tried

\* "Consecutive failed uploads since the last success" (telemetry_spool.py:251).
FailuresAreCounted ==
  (\A p \in Procs : pc[p] \notin {"clear", "respool", "note", "noting"}) => failures = streak

=============================================================================
