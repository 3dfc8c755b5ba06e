--------------------------------- MODULE Stores ---------------------------------
(***************************************************************************)
(* What a device keeps between calls: the loading of its policy, the cache *)
(* of the organization's, the session's ledger and rows, the heartbeat's   *)
(* counts, the sign-in to an MCP server and the pins of its tools.  They   *)
(* share no file, so that interleaving one with another shows nothing: one *)
(* of them moves, the others stay as they began.                           *)
(***************************************************************************)
EXTENDS PolicyLayers, Sequences

CONSTANTS
  None,
  SessionCalls, Tags, TagPolicies, HistCap, MaxDeaths,     \* Session
  Hooks,                                                   \* Heartbeat and PolicyCache
  Calls, NameOf, FrameworkOf, MaxKeys, MaxStops,           \* Heartbeat
  Releases, NoBlock, MaxKills, MaxFlips,                   \* PolicyCache
  Gateways,                                                \* OAuthTokens and ToolPins
  Requests, GatewayOf, MaxSignIns, MaxTokens, MaxLosses,   \* OAuthTokens
  Definitions, Poisoned                                    \* ToolPins

VARIABLES
  focus,                                                                              \* the part that moves
  policy, log, ledger, sidecar, lock, rows, findings, spc, view, at, found, done, outcome,   \* Session
  file, hlock, hpc, job, copy, batch, screened, sent, faults,                         \* Heartbeat
  release, linked, flips, files, revoked, ppc, cur, got, wrote, kills, spoiled,       \* PolicyCache
  disk, flock, slock, opc, token, record, again, signIns, signingOut,                 \* OAuthTokens
  live, issued, valid, reused, behind, losses,
  pin, pending, def, scans, shown, printed, first, excused                            \* ToolPins

Se == INSTANCE Session WITH Hooks <- SessionCalls, Policies <- TagPolicies, pc <- spc
He == INSTANCE Heartbeat WITH MaxFaults <- MaxStops, lock <- hlock, pc <- hpc
Pc == INSTANCE PolicyCache WITH MaxFaults <- MaxKills, pc <- ppc, faults <- kills
Oa == INSTANCE OAuthTokens WITH MaxFaults <- MaxLosses, pc <- opc, sent <- token, copy <- record, faults <- losses
Tp == INSTANCE ToolPins

ASSUME PartsAssumption == Se!ConstantsOK /\ He!ConstantsOK /\ Pc!ConstantsOK /\ Oa!ConstantsOK /\ Tp!ConstantsOK

sessionVars   == <<policy, log, ledger, sidecar, lock, rows, findings, spc, view, at, found, done, outcome>>
heartbeatVars == <<file, hlock, hpc, job, copy, batch, screened, sent, faults>>
cacheVars     == <<release, linked, flips, files, revoked, ppc, cur, got, wrote, kills, spoiled>>
tokensVars    == <<disk, flock, slock, opc, token, record, again, signIns, signingOut,
                   live, issued, valid, reused, behind, losses>>
pinsVars      == <<pin, pending, def, scans, shown, printed, first, excused>>
storesVars    == <<focus, vars, sessionVars, heartbeatVars, cacheVars, tokensVars, pinsVars>>

\* The parts with more than one initial state, at rest.
LayersIdle  == Init /\ kind = "plain" /\ shipped = "block" /\ ~ off
                 /\ site = [system |-> FALSE, allowProject |-> FALSE, managed |-> FALSE]
SessionIdle == Se!Init /\ policy = CHOOSE p \in TagPolicies : TRUE
OthersInit  == He!Init /\ Pc!Init /\ Oa!Init /\ Tp!Init

LayersInit    == Init /\ SessionIdle /\ OthersInit /\ focus = "layers"
SessionInit   == LayersIdle /\ Se!Init /\ OthersInit /\ focus = "session"
RestInit(part) == LayersIdle /\ SessionIdle /\ OthersInit /\ focus = part

LayersNext    == focus = "layers" /\ Next
                   /\ UNCHANGED <<focus, sessionVars, heartbeatVars, cacheVars, tokensVars, pinsVars>>
SessionNext   == focus = "session" /\ Se!Next
                   /\ UNCHANGED <<focus, vars, heartbeatVars, cacheVars, tokensVars, pinsVars>>
HeartbeatNext == focus = "heartbeat" /\ He!Next
                   /\ UNCHANGED <<focus, vars, sessionVars, cacheVars, tokensVars, pinsVars>>
CacheNext     == focus = "cache" /\ Pc!Next
                   /\ UNCHANGED <<focus, vars, sessionVars, heartbeatVars, tokensVars, pinsVars>>
TokensNext    == focus = "tokens" /\ Oa!Next
                   /\ UNCHANGED <<focus, vars, sessionVars, heartbeatVars, cacheVars, pinsVars>>
PinsNext      == focus = "pins" /\ Tp!Next
                   /\ UNCHANGED <<focus, vars, sessionVars, heartbeatVars, cacheVars, tokensVars>>

StoresInit == LayersInit \/ SessionInit \/ \E part \in {"heartbeat", "cache", "tokens", "pins"} : RestInit(part)
StoresNext == LayersNext \/ SessionNext \/ HeartbeatNext \/ CacheNext \/ TokensNext \/ PinsNext
StoresSpec == StoresInit /\ [][StoresNext]_storesVars

\* One part on its own.
SessionOnly == SessionInit /\ [][SessionNext]_storesVars

-----------------------------------------------------------------------------
\* The types of each part (PolicyLayers, Session, Heartbeat, PolicyCache,
\* OAuthTokens, ToolPins).
PartsTypeOK ==
  CASE focus = "layers"    -> LayersTypeOK
    [] focus = "session"   -> Se!TypeOK
    [] focus = "heartbeat" -> He!TypeOK
    [] focus = "cache"     -> Pc!TypeOK
    [] focus = "tokens"    -> Oa!TypeOK
    [] focus = "pins"      -> Tp!TypeOK

\* See Session: what is let through never amounts to what the rule forbids.
CombinationHeld == Se!CombinationHeld
\* See Session: the rows stored are the first events of the log.
StoredIsPrefix == Se!StoredIsPrefix
\* See Session: a call that is stopped completes what other calls began.
CompletesOthers == Se!CompletesOthers
\* See Heartbeat: counts are lost to faults only, and never sent twice
\* (He!CountedOnce, whose steps only the heartbeat's need be compared with).
CountedOnce ==
  /\ He!CountsOnce!Init
  /\ [][focus = "heartbeat" => [He!CountsOnce!Next]_(He!CountsOnce!vars)]_storesVars
\* See PolicyCache: no crash leaves an old policy behind that passes for the current one.
NeverStuck == Pc!NeverStuck
\* See OAuthTokens: gateways that refresh at once spend each refresh token once.
SpentOnce == Oa!SpentOnce
\* See ToolPins: what an agent is shown was pinned on first use or approved.
TrustIsReviewed == Tp!TrustIsReviewed

=============================================================================
