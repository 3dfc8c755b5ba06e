-------------------------------- MODULE Records --------------------------------
(***************************************************************************)
(* What a device records, and what a person grants on it: the audit trail, *)
(* the telemetry, the subagents' notices, and the unlock password with its *)
(* window.  They share no file, so that interleaving one with another      *)
(* shows nothing: one of them moves, the others stay as they began.        *)
(***************************************************************************)
EXTENDS AuditTrail

CONSTANTS
  None,
  Callers, Bg, InServer, SpoolMax, BatchMax, FlushBatch,    \* Telemetry
  MaxSealed, MaxFailures, MaxAged, MaxFaults,
  People, Hooks, FreeAttempts, Lockout, Window,             \* Unlock
  MaxTime, MaxSets,
  Subs, Mains, MaxFiles                                     \* Notices

VARIABLES
  focus,                                                                    \* the part that moves
  spool, drops, failures, waiting, revoked, nextSeq, old, tpc, held, seen, kick,    \* Telemetry
  received, tried, counted, gone, refused, streak, faults,
  cred, grant, orphans, barred, now, upc, cmd, copy, sets, latest, restored,        \* Unlock
  queue, lines, read, npc, handle, text, times, late                                \* Notices

Te == INSTANCE Telemetry WITH MaxRecords <- MaxSealed, pc <- tpc
Un == INSTANCE Unlock WITH pc <- upc, spoiled <- restored
No == INSTANCE Notices WITH pc <- npc

ASSUME PartsAssumption == Te!ConstantsOK /\ Un!ConstantsOK /\ No!ConstantsOK

telemetryVars == <<spool, drops, failures, waiting, revoked, nextSeq, old, tpc, held, seen, kick,
                   received, tried, counted, gone, refused, streak, faults>>
unlockVars    == <<cred, grant, orphans, barred, now, upc, cmd, copy, sets, latest, restored>>
noticesVars   == <<queue, lines, read, npc, handle, text, times, late>>
recordsVars   == <<focus, vars, telemetryVars, unlockVars, noticesVars>>

RecordsInit == /\ Init /\ Te!Init /\ Un!Init /\ No!Init
               /\ focus \in {"audit", "telemetry", "unlock", "notices"}

AuditNext     == focus = "audit" /\ Next
                   /\ UNCHANGED <<focus, telemetryVars, unlockVars, noticesVars>>
TelemetryNext == focus = "telemetry" /\ Te!Next
                   /\ UNCHANGED <<focus, vars, unlockVars, noticesVars>>
UnlockNext    == focus = "unlock" /\ Un!Next
                   /\ UNCHANGED <<focus, vars, telemetryVars, noticesVars>>
NoticesNext   == focus = "notices" /\ No!Next
                   /\ UNCHANGED <<focus, vars, telemetryVars, unlockVars>>

RecordsNext == AuditNext \/ TelemetryNext \/ UnlockNext \/ NoticesNext
RecordsSpec == RecordsInit /\ [][RecordsNext]_recordsVars

\* The audit trail on its own.
AuditOnly == (RecordsInit /\ focus = "audit") /\ [][AuditNext]_recordsVars

-----------------------------------------------------------------------------
\* The types of each part (AuditTrail, Telemetry, Unlock, Notices).
PartsTypeOK ==
  CASE focus = "audit"     -> TypeOK
    [] focus = "telemetry" -> Te!TypeOK
    [] focus = "unlock"    -> Un!TypeOK
    [] focus = "notices"   -> No!TypeOK

\* See Telemetry: no record is in two places.
HeldOnce == Te!HeldOnce
\* See Telemetry: no record disappears but to a fault, a revocation or the caps.
Traceable == Te!Traceable
\* See Telemetry: the backoff holds no alert back.
AlertsWereTried == Te!AlertsWereTried
\* See Unlock: a window dies with its password.
WindowIsEarned == Un!WindowIsEarned
\* See Notices: a line is shown once, and lost only to a late write.
NoticeShownOnce == No!NoticeShownOnce

=============================================================================
