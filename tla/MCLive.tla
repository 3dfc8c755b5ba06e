--------------------------------- MODULE MCLive ---------------------------------
(***************************************************************************)
(* What must come to an end, for TLC: a step-up that waits for the         *)
(* organization, a call held for a person, the telemetry a server has      *)
(* spooled and a policy that was published.  A run explores them one at a  *)
(* time, the others at rest; what is fair is said of the part explored.    *)
(***************************************************************************)
EXTENDS StepUp, TLC

CONSTANTS
  NoCall, f1, NoFp, h1, h2, bg,        \* LocalApprovals, Telemetry
  c1, c2, t1,                          \* calls, their tool
  NoBlock, b1, None                    \* PolicyCache

VARIABLES
  focus,                                                                        \* the part explored
  reqs, lastId, lpc, call, fp, rid, remains, told, grants,                      \* LocalApprovals
  spool, drops, failures, waiting, barred, nextSeq, old, tpc, held, seen, kick, \* Telemetry
  received, tried, counted, gone, refused, streak, losses,
  release, linked, flips, files, revoked, ppc, cur, got, wrote, kills, spoiled  \* PolicyCache

MCHooks  == {h1, h2}
\* Two calls of one tool.
MCCalls  == {c1, c2}
MCToolOf == [k \in MCCalls |-> t1]

\* One action, which two hooks screen; a hold that outlasts the request's age.
LaCalls == {c1}
LaFps   == {f1}
LaFpOf  == [k \in LaCalls |-> f1]
La == INSTANCE LocalApprovals WITH Hooks <- MCHooks, Calls <- LaCalls, Fps <- LaFps, FpOf <- LaFpOf,
        PendingTTL <- 1, ApprovedTTL <- 0, HoldFor <- 1, Keep <- 1, MaxReqs <- 2, HooksMayDie <- FALSE,
        pc <- lpc, left <- remains

\* A server that screens with one thread and uploads with another.
TeCallers == {h1}
Te == INSTANCE Telemetry WITH Callers <- TeCallers, Bg <- bg, InServer <- TRUE,
        SpoolMax <- 2, BatchMax <- 2, FlushBatch <- 2, MaxRecords <- 3, MaxFailures <- 1, MaxAged <- 0,
        MaxFaults <- 0, pc <- tpc, revoked <- barred, faults <- losses

\* A new version, then other settings under the same version; one process.
PcHooks    == {h1}
PcReleases == << [version |-> 1, block |-> NoBlock], [version |-> 2, block |-> NoBlock],
                 [version |-> 2, block |-> b1] >>
Pc == INSTANCE PolicyCache WITH Hooks <- PcHooks, Releases <- PcReleases,
        MaxFaults <- 1, MaxFlips <- 2, pc <- ppc, faults <- kills

localVars     == <<reqs, lastId, lpc, call, fp, rid, remains, told, grants>>
telemetryVars == <<spool, drops, failures, waiting, barred, nextSeq, old, tpc, held, seen, kick,
                   received, tried, counted, gone, refused, streak, losses>>
cacheVars     == <<release, linked, flips, files, revoked, ppc, cur, got, wrote, kills, spoiled>>
liveVars      == <<focus, vars, localVars, telemetryVars, cacheVars>>

\* A focus that cannot be enrolled or be reached is at rest.
OthersInit    == La!Init /\ Te!Init /\ Pc!Init
StepUpInit    == Init /\ OthersInit /\ focus = "step_up"
LocalInit     == Init /\ ~ reachable /\ OthersInit /\ focus = "local"
TelemetryInit == Init /\ ~ reachable /\ OthersInit /\ focus = "telemetry"
CacheInit     == Init /\ ~ reachable /\ OthersInit /\ focus = "cache"

\* The part that moves; the others stay.
InStepUp    == focus = "step_up" /\ UNCHANGED <<focus, localVars, telemetryVars, cacheVars>>
InLocal     == focus = "local" /\ UNCHANGED <<focus, vars, telemetryVars, cacheVars>>
InTelemetry == focus = "telemetry" /\ UNCHANGED <<focus, vars, localVars, cacheVars>>
InCache     == focus = "cache" /\ UNCHANGED <<focus, vars, localVars, telemetryVars>>

StepUpNext    == InStepUp /\ Next
LocalNext     == InLocal /\ La!Next
TelemetryNext == InTelemetry /\ Te!Next
CacheNext     == InCache /\ Pc!Next

LiveInit == StepUpInit \/ LocalInit \/ TelemetryInit \/ CacheInit
LiveNext == StepUpNext \/ LocalNext \/ TelemetryNext \/ CacheNext

\* The fairness each module states (FairSpec), of the part explored: processes and
\* threads run on, time passes, and what is asked again and again of the control
\* plane is answered.
Fairness ==
  /\ \A k \in Calls    : WF_liveVars(InStepUp /\ Wait(k))
  /\ \A h \in MCHooks  : WF_liveVars(InLocal /\ La!HookStep(h))
  /\ \A p \in {h1, bg} : WF_liveVars(InTelemetry /\ Te!Step(p))
  /\ WF_liveVars((InLocal /\ La!Tick) \/ (InTelemetry /\ Te!BackoffLapse))
  /\ WF_liveVars(InTelemetry /\ Te!RevokedLapse)
  /\ WF_liveVars(InTelemetry /\ Te!BgWake)
  /\ SF_liveVars(InTelemetry /\ \E p \in {h1, bg} : Te!PostOk(p))
  /\ WF_liveVars(InCache /\ Pc!Check(h1))
  /\ WF_liveVars(InCache /\ (Pc!Compare(h1) \/ Pc!Truncate(h1) \/ Pc!Write(h1)))
  /\ SF_liveVars(InCache /\ (Pc!Reject(h1) \/ Pc!Answer(h1)))
  /\ SF_liveVars(InCache /\ Pc!Fetch(h1))

LiveSpec == LiveInit /\ [][LiveNext]_liveVars /\ Fairness

\* The step-ups on their own.
StepUpOnly == StepUpInit /\ [][StepUpNext]_liveVars

\* See LocalApprovals: a held call is answered.
HoldEnds == La!HoldEnds
\* See Telemetry: the server's thread keeps shipping.
Shipped == Te!Shipped
\* See PolicyCache: a release reaches the device that keeps asking.
PolicyArrives == (<>[](focus = "cache" /\ linked /\ ~ spoiled)) => []<>(Pc!Loaded = release)

=============================================================================
