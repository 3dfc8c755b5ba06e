-------------------------------- MODULE Pause --------------------------------
(***************************************************************************)
(* Pausing enforcement (prismor/runtime/pause.py): a marker file written   *)
(* by `prismor pause`, removed by `prismor resume` and by whichever hook   *)
(* finds it expired or overridden by the organization, and written back by *)
(* every paused heartbeat with the time of the beat.  There is no lock,    *)
(* and a write truncates the file before it fills it.                      *)
(***************************************************************************)
EXTENDS Integers, Sequences

CONSTANTS
  Hooks,         \* processes: hooks, and the command that pauses
  None,
  Window,        \* how long a pause lasts that is not hard
  MaxTime,       \* bound: the clock
  MaxPauses,     \* bound: pauses ever made
  MaxOrders      \* bound: pauses and resumes the organization ever pushes

\* A duration of nothing is taken for the default.
ConstantsOK == Window \in Nat \ {0} /\ MaxTime \in Nat /\ MaxPauses \in Nat /\ MaxOrders \in Nat

VARIABLES
  now,
  marker,        \* pause.json: a record, or None (also while it is unreadable)
  org,           \* the pause or resume in the cached signed policy, or None
  pc, rec, seen, \* per process: where it is, the marker and the org state it read
  made,          \* history: the local pauses made, in order
  resumed        \* history: how many had been made at the last `prismor resume`

vars == <<now, marker, org, pc, rec, seen, made, resumed>>

Times   == 0 .. MaxTime
Never   == MaxTime + 1                   \* the end of a hard pause
Ends    == 0 .. MaxTime + Window + 1
Markers == [id : 1 .. MaxPauses, at : Times, until : Ends, beat : Times \cup {-1}]
Orders  == [paused : BOOLEAN, at : Times, until : Ends, n : 1 .. MaxOrders]
Pcs     == {"idle", "read", "paused", "truncate", "write"}
End(hard) == IF hard THEN Never ELSE now + Window

Init ==
  /\ now = 0 /\ marker = None /\ org = None
  /\ pc = [h \in Hooks |-> "idle"] /\ rec = [h \in Hooks |-> None] /\ seen = [h \in Hooks |-> None]
  /\ made = <<>> /\ resumed = 0

Goto(h, l) == pc' = [pc EXCEPT ![h] = l]
Done(h)    == Goto(h, "idle") /\ rec' = [rec EXCEPT ![h] = None] /\ seen' = [seen EXCEPT ![h] = None]

\* `prismor pause` and `prismor pause-hard`, which go on to beat.
SetPaused(h, hard) ==
  LET m == [id |-> Len(made) + 1, at |-> now, until |-> End(hard), beat |-> -1] IN
  /\ pc[h] = "idle" /\ m.id <= MaxPauses
  /\ marker' = m /\ rec' = [rec EXCEPT ![h] = m] /\ Goto(h, "paused")
  /\ made' = Append(made, m)
  /\ UNCHANGED <<now, org, seen, resumed>>

\* `prismor resume`.
ClearPaused ==
  /\ marker' = None /\ resumed' = Len(made)
  /\ UNCHANGED <<now, org, pc, rec, seen, made>>

\* A refreshed policy brings a pause or a resume from the console.
OrgDecides(paused, hard) ==
  LET n == IF org = None THEN 1 ELSE org.n + 1 IN
  /\ n <= MaxOrders
  /\ org' = [paused |-> paused, at |-> now, until |-> End(hard), n |-> n]
  /\ UNCHANGED <<now, marker, pc, rec, seen, made, resumed>>

\* active_state(): the organization's pause wins, up to its end ...
OrgPaused == org # None /\ org.paused /\ now < org.until
SeeOrgPause(h) ==
  /\ pc[h] = "idle" /\ OrgPaused
  /\ Goto(h, "paused")
  /\ UNCHANGED <<now, marker, org, rec, seen, made, resumed>>
\* ... otherwise the marker is read ...
ReadMarker(h) ==
  /\ pc[h] = "idle" /\ ~ OrgPaused
  /\ seen' = [seen EXCEPT ![h] = org] /\ rec' = [rec EXCEPT ![h] = marker]
  /\ Goto(h, "read")
  /\ UNCHANGED <<now, marker, org, made, resumed>>

Expired(m)       == now >= m.until
Overridden(m, o) == o # None /\ ~ o.paused /\ o.at >= m.at
\* Mutant: an expired marker counts until somebody has removed it.
StaleUnlessExpired(h) == Overridden(rec[h], seen[h])
Stale(h)      == Expired(rec[h]) \/ Overridden(rec[h], seen[h])

\* ... and one that has expired or was overridden is removed, whichever marker
\* is there by then.
Unpaused(h) ==
  /\ pc[h] = "read" /\ rec[h] = None
  /\ Done(h)
  /\ UNCHANGED <<now, marker, org, made, resumed>>
Heal(h) ==
  /\ pc[h] = "read" /\ rec[h] # None /\ Stale(h)
  /\ marker' = None
  /\ Done(h)
  /\ UNCHANGED <<now, org, made, resumed>>
StillPaused(h) ==
  /\ pc[h] = "read" /\ rec[h] # None /\ ~ Stale(h)
  /\ Goto(h, "paused")
  /\ UNCHANGED <<now, marker, org, rec, seen, made, resumed>>

\* Most calls end here.  At the start of a turn, when the pause is local, the
\* device enrolled and the last beat old enough, the process uploads a
\* heartbeat ...
NoBeat(h) == pc[h] = "paused" /\ Done(h) /\ UNCHANGED <<now, marker, org, made, resumed>>
Beat(h) ==
  /\ pc[h] = "paused" /\ rec[h] # None /\ rec[h].beat < now
  /\ rec' = [rec EXCEPT ![h] = [rec[h] EXCEPT !.beat = now]]
  /\ Goto(h, "truncate")
  /\ UNCHANGED <<now, marker, org, seen, made, resumed>>
\* ... and then writes the record it read back, with the time of the beat.
Truncate(h) ==
  /\ pc[h] = "truncate" /\ marker' = None /\ Goto(h, "write")
  /\ UNCHANGED <<now, org, rec, seen, made, resumed>>
WriteBack(h) ==
  /\ pc[h] = "write" /\ marker' = rec[h]
  /\ Done(h) /\ UNCHANGED <<now, org, made, resumed>>

\* A process is killed, or its upload or its write fails.
Die(h) == pc[h] # "idle" /\ Done(h) /\ UNCHANGED <<now, marker, org, made, resumed>>

Tick == now < MaxTime /\ now' = now + 1 /\ UNCHANGED <<marker, org, pc, rec, seen, made, resumed>>

ActiveState(h) == SeeOrgPause(h) \/ ReadMarker(h) \/ Unpaused(h) \/ Heal(h) \/ StillPaused(h)

Next ==
  \/ \E h \in Hooks : ActiveState(h) \/ NoBeat(h) \/ Beat(h) \/ Truncate(h) \/ WriteBack(h) \/ Die(h)
  \/ \E hard \in BOOLEAN : \/ \E h \in Hooks : SetPaused(h, hard)
                           \/ \E paused \in BOOLEAN : OrgDecides(paused, hard)
  \/ ClearPaused \/ Tick

Spec == Init /\ [][Next]_vars

-----------------------------------------------------------------------------
\* Types of the marker, the policy and the processes' copies.
TypeOK ==
  /\ now \in Times /\ marker \in Markers \cup {None} /\ org \in Orders \cup {None}
  /\ pc \in [Hooks -> Pcs] /\ rec \in [Hooks -> Markers \cup {None}] /\ seen \in [Hooks -> Orders \cup {None}]
  /\ made \in Seq(Markers) /\ \A i \in DOMAIN made : made[i].id = i
  /\ resumed \in 0 .. Len(made)

\* Whatever markers are lost, brought back or removed by mistake: enforcement
\* is off only for a pause that the organization has in force, or that a person
\* made on this machine, before its end as that person set it ("protection
\* heals itself even if `prismor resume` is never run"), and that is younger
\* than the organization's resume, if the process knows of one.
PauseIsDeliberate ==
  [][\A h \in Hooks :
       pc[h] # "paused" /\ pc'[h] = "paused" =>
         \/ rec'[h] = None /\ OrgPaused
         \/ /\ rec'[h].id \in DOMAIN made'
            /\ LET m == made'[rec'[h].id] IN now < m.until /\ ~ Overridden(m, seen[h])]_vars

\* "`prismor resume` ends it early" (docs/glossary.md:100): a process that asks
\* after a resume is not told of a pause made before it.
ResumeEndsPause ==
  [][\A h \in Hooks : ReadMarker(h) => (rec'[h] = None \/ rec'[h].id > resumed)]_vars

=============================================================================
