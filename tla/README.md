# A TLA+ model of Prismor

Prismor is a runtime guard for coding agents. An agent (Claude Code, Codex,
Cursor, ...) calls a `prismor` hook process before and after every tool call; the
hook evaluates the call against a policy, blocks it or lets it run, and leaves
records behind. There is no daemon: every hook is a process of its own, several
run at a time (parallel tool calls, subagents, a global and a project install
screening the same call), each may be killed at any point by the agent's hook
timeout or by the user, and all of them communicate through small files under
`~/.prismor` and the workspace's `.prismor`. What is hard in this code is
therefore not one handler but what those processes do to one another's files.

All paths below are relative to `src/prismor/runtime/` unless they say otherwise.

## Inventory

| Component | State it keeps | Operations | Talks to | Hard behaviour |
|---|---|---|---|---|
| Local approvals (`approvals_local.py`, `cli.py`) | `approvals.json` | consume, request, wait, resolve, decide, list, expire | hooks, the person's CLI, the dashboard server | racing hooks, held calls, TTLs, pruning, killed hooks |
| Audit trail (`enterprise/audit_trail.py`) | `audit/chain.json`, `audit/trail.jsonl` | append, verify, checkpoint | runtime (strict mode fails closed) | crash between state and line, torn lines, unlocked verifier |
| Telemetry (`sinks.py`, `enterprise/telemetry_spool.py`, `enterprise/heartbeat.py`, `enterprise/chain.py`) | spool, drop counter, backoff, heartbeat counters, chain head | dispatch, spool, drain, upload, back off | control plane over HTTP | crash between drain and delivery, lost replies, eviction |
| Rate limit (`ratelimit.py`) | sqlite table of admissions, clock high-water mark | admit, status | runtime | concurrent hooks, clock rollback, retries of one call |
| Delegations (`delegations.py`) | append-only ledger | stamp, release | runtime, agents policy | counts shared by parallel launches, cancelled launches |
| Subagent notices (`subagents.py`) | notice queue | queue, take | hooks | at-most-once display, append racing a rename |
| Deferred decisions (`enterprise/deferred.py`) | verdict cache | resolve_defer | adjudicator command | unlocked read-modify-write across a slow call |
| Pause (`pause.py`) | pause marker, org state | set, clear, active, beat | control plane | stale write-back, precedence of org and local |
| Unlock window (`unlock.py`) | password record, attempts, window | verify, open, close, active | CLI | lost attempt counts, stale expiry |
| Step-up approvals (`enterprise/approvals.py`) | none local; org queue | enqueue, poll, await | control plane | timeout racing a late answer |
| Decision core (`runtime.py`, `policy_engine.py`, `contract.py`, `hooks.py`) | none of its own | evaluate_tool_call, should_block, exemptions | all of the above | precedence of overrides, fail-closed paths |
| Policy sync (`enterprise/remote_policy.py`, `enterprise/identity.py`) | cached policy, identity, revocation marker | enroll, fetch, revoke, clear | control plane | stale cache, revocation and retry |
| Session store and taint (`store.py`, `trifecta.py`, `tag_rules.py`, `provenance.py`) | session ledgers | append, read, taint | hooks | lost updates, order of records |
| Gateways (`mcp_gateway.py`, `proxy.py`, `acp_proxy.py`, `inference_hook_server.py`) | per-connection state | relay, hold, rewrite | agent, upstream server | threads, streams, partial failure |
| MCP credentials and pins (`mcp_oauth.py`, `mcp_tool_pins.py`) | tokens, pinned tool digests | refresh, pin, compare | upstream servers | concurrent refresh, first use |
| Cloaking (`cloaking/`) | secret vault, ledger | cloak, reveal | hooks | multi-step file edits |
| Scanners, reports, setup, CLI, dashboard | files, pages | mostly pure I/O and text | the person | not state machines |

### How they interact

One tool call goes through the parts in this order. The hook reads the pause
(`Pause`), refreshes the organization's policy when that is due (`PolicyCache`) and has
the gate judge the call. The gate loads the policy (`PolicyLayers`), appends the event
to the session and analyses what is new there (`Session`), stamps a delegation
(`Delegations`), takes a rate-limit slot (`RateLimit`), decides (`Verdict`), seals
telemetry records (`Telemetry`) and appends an audit record (`AuditTrail`). The hook then
looks for what may lift the verdict: an unlock window (`Unlock`), the pause it has read,
a person's approval (`LocalApprovals`), the deferred judge (`Deferred`). It counts the
call (`Heartbeat`) and shows what subagents left for the chat (`Notices`). The MCP gateway
does the same for the tools of a server; having nobody to ask, it takes a step-up to
the organization (`StepUp`), and it shows only definitions that are pinned (`ToolPins`) and signs its requests with
tokens that it shares with other gateways (`OAuthTokens`).

The parts meet only in that sequence of calls; they share no file, and each store
is shared by all hook processes of a user. This is why each store is a module of
its own with several processes, and why `Verdict` composes their answers
nondeterministically instead of multiplying their states.

### What makes each part correct

- Local approvals: an approval lets one call through, for its own action, while it
  is valid; people are not asked twice for one action; decisions are final; held
  calls are answered.
- Step-up approvals: a call runs only as it was approved, and for its own request;
  every wait ends.
- Audit trail: no fork, neighbours linked, `chain.json` never behind the trail; the
  verifier's verdict is exact when nobody writes, and its `ok` always, but for a trail
  that was created and never written to.
- Telemetry and event chain: no record twice, none lost silently, alerts tried at
  once, everything shipped in the end.
- Heartbeat: every counted call is reported once, or lost to a fault.
- Rate limit: never more than the limit in a window, one slot per call, an exact
  `retry_after`, whatever the wall clock does.
- Delegations: an agent's launches stay under the cap; launches seen twice count once.
- Deferred decisions: nothing runs but under a fingerprint that the judge has cleared.
- Pause: enforcement is off only by decision, and until its end.
- Unlock: a window that is found open was opened with the password now in force.
- Policy engine: no layer switches a floor rule off or weakens it.
- Policy sync: a crash leaves no old policy that passes for the current one, and the
  current one arrives.
- Session: what is let through never adds up to a forbidden combination; the rows
  stored are the events logged; a call is refused for what others did before it.
- Tool pins: an agent is shown definitions of first use or approved ones.
- MCP credentials: a refresh token is spent once, by whichever gateway gets the lock.
- Notices: each line is shown once.
- Decision core: never a silent allow, deny wins, an observe mode spares orders of
  the organization.

## Modules

| Module | Models | State | Actions and the code they stand for |
|---|---|---|---|
| `LocalApprovals` | `approvals_local.py`, its callers in `cli.py` | `reqs` = the `requests` object; per hook `pc`, the call, the remaining hold | `ConsumeHit/Miss` = `consume()`, `Request` = `request()`, `Sleep`, `PollGranted/Refused/Again`, `GiveUp` = `wait()`, `ResolvePeek/Close` = `resolve()`, `Decide` = `decide()`, `Touch` = `list_requests()`. Each lock section is one action; each includes the `_expire` before and the save after |
| `AuditTrail` | `enterprise/audit_trail.py` | `chain` = `chain.json`, `there` = `trail.jsonl` exists, `trail` = its lines, `torn` = an unfinished last line | `Acquire`, `Advance` (state first), `Create` (the first `open`), `Write` (line second), `FailEarly/Late/Torn`; `VerifyState`, `VerifyTrail` = the two unlocked reads of `verify_trail()` |
| `Telemetry` | `sinks.py`, `enterprise/telemetry_spool.py`, the revocation marker | spool, drop counter, backoff; what each process holds; what the server received | `Dispatch`, `Spool`, `Tick`, `Drain`, `Post*`, `Respool`, `NoteRead/Write`, `Clear`, `TakeDrops`, `BgWake`; `Die`, `AppendFails` |
| `RateLimit` | `ratelimit.py` | rows, the `clock` row, the wall clock | `Ask`, then one IMMEDIATE transaction: `Insert`, `NoInsert` (denied or repeated) or `Unavailable` |
| `SlidingWindow` | what a rate limit promises | the slots granted, the latest time | `Grant`, `Advance`; refined by `RateLimit` |
| `Delegations` | `delegations.py` and its use by gate and hook | ledger lines, cancelled ids, the calls being judged | `Stamp`, `StampAgain`, `Peek` (no record), `Allow`, `Refuse` (releases), `Overrule` (allowed after all), `Stop` |
| `Deferred` | `enterprise/deferred.py` | cache file (a verdict per fingerprint: tool and rule), temporary file, each hook's copy | `Hit`, `Miss`, `Clear/Block/Fail` (the judge), `Save` (temporary file), `Replace` |
| `Pause` | `pause.py` | marker, the organization's order, each process's copies | `SetPaused`, `ClearPaused`, `OrgDecides`; `SeeOrgPause`, `ReadMarker`, `Unpaused`, `Heal`, `StillPaused` = `active_state()`; `Beat`, `Truncate`, `WriteBack` = `beat()` |
| `Contract` | `contract.py`, `hook_caps.py` | constants: findings, verdicts, surfaces | `Rank` = `VERDICT_RANK` |
| `Verdict` | the decision in `runtime.py`, `hooks.py` and the hook dispatch of `cli.py` | the governing finding, what has been lifted, the outcome | `ReadPause`, `Judge`, `JudgeUnaudited`, `UnderUnlock`, `Silence`, `Approved`, `Cleared`, `AskPerson`, `Rewrite`, `Report`, `Refuse`, `Meanwhile` |
| `PolicyLayers` | `PolicyEngine._load`, `_apply_override` | one shipped rule and the settings as merged so far | `LoadUser`, `LoadProject`, `LoadRemote`, `LoadExemption` (one layer each, over what is merged), `Compile` (floor-off, mode) |
| `PolicyCache` | `enterprise/remote_policy.py` | the three cached files, the revocation marker, the organization's release; each hook's copies | `Check`, `Answer`, `Compare` = `check_and_refresh()`; `Sync`, `Fetch`, `Truncate`, `Write` = `fetch()` with its three files, each emptied and then filled; `Reject`, `Fail`, `Die`; outside: `Publish`, `Flip` |
| `Session` | `store.py`, the analysis in `cli.py`, `trifecta.py`, `evaluate_tool_call` | log, sidecar and its lock, tag ledger, rows, findings; each hook's view | `AppendEvent`, `ReadEvents`, `Analyse*` = `analyze_session_incremental()`, `Save` = `save_session_snapshot()`, `Judge`, `JudgeRecord`, `Persist`, `Die`. `Cursors` = the loop of `completes_rules()` over the steps, as a recursive function |
| `StepUp` | `enterprise/approvals.py`, the gateway's use of it | the organization's requests; per call its request and the polls left | `AskNobody`, `AskFails`, `Ask`, `Poll`, `Timeout` = `await_step_up()`; `Enqueue` = `enqueue_step_up()`; outside: `Decide`, `Forget`, `Enroll` |
| `Heartbeat` | `enterprise/heartbeat.py` | the counter file (counts per agent instance; past the cap, per framework), its lock, each hook's copy and batch | `RecordCall`, `StatusOnce`, `Flush`, then `Read` (lock and load), `NotDue`, `Truncate`, `Finish`, `Upload`; `Stop` is a kill or a failed write |
| `Counter` | what a heartbeat promises | calls pending and reported | `Count`, `Report`, `Fault`; refined by `Heartbeat` |
| `Unlock` | `unlock.py`, `_unlock_cmd` of `cli.py` | credential and grant file, each emptied and then filled; the clock | `BeginUnlock`, `Compare`, `Turned` = `verify()`; `ReadAttempt`, `EmptyRecord`, `FillRecord` = `_record_attempt()`; `EmptyStore`, `FillStore` = `set_password()`; `Open`, `EmptyGrant`, `FillGrant` = `open_window()`; `Lock`, `Forget`, `Forgotten`; `Look`, `Heal`, `Decide` = `active_state()` |
| `ToolPins` | `mcp_tool_pins.py`, its use in `mcp_gateway.py` | pin and pending definition of a tool; each gateway's scans and list; what the reviewer has read | `List`, `Scan`, `Overlooked`, `Check`, `Unavailable`, `Show`; `ReadHeld`, `ApproveHash`, `ApproveName` |
| `OAuthTokens` | `mcp_oauth.py`, its use in `mcp_gateway.py` | the record of one server and its file lock; per gateway the session's lock, per thread the token it sends; what the authorization server has granted | `Authorize`, `Answered`, `Unauthorized`, `ScopeRead/Save` = `_post()` with `authorization()`, `unauthorized()`, `insufficient_scope()`; `Lock`, `Post*`, `Save` = `refresh_shared()`; `Login`, `LogoutRead`, `Logout`; `Die`. The server (external) may replace refresh tokens and revokes a sign-in whose token comes twice |
| `Notices` | the notice queue of `subagents.py` | files, and who has which open | `OpenQueue`, `WriteLine` = `queue_notice()`; `Take`, `ReadTaken`, `Show` = `take_notices()` |
| `Decision`, `Records`, `Stores` | compositions | `focus` and the states of all parts | the parts share no file, so one of them moves in a behaviour while the others stay as they began: `Decision` has `Verdict`, `Delegations`, `Deferred`, `Pause`; `Records` has `AuditTrail`, `Telemetry`, `Unlock`, `Notices`; `Stores` has `PolicyLayers`, `Session`, `Heartbeat`, `PolicyCache`, `ToolPins`, `OAuthTokens`. The theorems about their parts are theorems of these specifications, for any constants |
| `MCDecision`, `MCRecords`, `MCStores` | the values of their constants, for TLC | | |
| `MCLive` | composition and values for the liveness run | as above | `StepUp`, `LocalApprovals`, `Telemetry` (as a server) and `PolicyCache` |
| `MCLocalApprovals`, `MCRateLimit` | instances for TLC | | |
| `*_proofs` | theorems | | see "What is proved" |

Operators named as mutations of another (preceded by "Mutant:") are used by no
specification: substituted for the definition they follow, they make one property
fail, which shows that the property depends on that line of the code.

Data is abstracted to what the properties compare. A fingerprint, an agent or a
call id is a model value; a hash is the position and the writer of its record (SHA-256
is taken to be injective); MACs and signatures are taken to hold; the rules'
findings are a constant (`Screens`); the deferred judge and the person answer as
they like. Files that are read and written under a lock are one action per lock
section, everything outside a lock one action per read or write.

A file that is rewritten in place is emptied and then filled, so that a process
killed in between, and a reader in between, meet a file that does not parse. A
counter of the heartbeat is the set of calls it counts, a cached policy the
release it is of, a session's event the hook that logged it.

Times: `LocalApprovals` keeps remaining times that a `Tick` lets run, so that
behaviours need no bound in time; `RateLimit`, `Pause` and `Unlock` keep a clock with a bound,
because absolute times meet there (rollbacks; the organization's order against the
local pause).

## Runs

| Run | What it shows | Bounds |
|---|---|---|
| `local_approvals` | five properties of the approval store | two hooks, two call ids and the empty one, two actions, two requests, one kept; TTLs of 1 and 2 ticks; hooks may be killed |
| `records` | the audit trail's chain and verifier; conservation of telemetry records; a window and its password; notices shown once (9 properties, 2.0 million states) | two writers, five positions, one torn write, one skip; two processes, spool, batch and flush of two, three records, one to age out, one fault; two terminals and a hook, two passwords, times 0..1; two lines, two readers, three files |
| `stores` | the floor, the tag rules and the session's rows, the cached policy, the pins, the tokens of gateways, and `Heartbeat` as a `Counter` (8 properties, 1.4 million states) | 41 layers at 8 sites and four kinds of rule; three calls under eight tag rules, one killed hook; two hooks, two named instances of two frameworks and a nameless call, one key before the overflow, one fault; three releases, two hooks, one fault; two gateways, three definitions; two gateways, two sign-ins of two tokens each, one fault |
| `rate_limit` | window, slots, `retry_after`, and refinement of `SlidingWindow` | two processes, two identities, limits 1 and 2, window 2, times 0..3, three rows, one rollback |
| `decision` | three properties of the decision, five of the stores | at most two findings out of thirteen, fifty device and surface combinations times the strict mode; two hooks per store, cap 1, three launches; three held actions, two of one fingerprint, none tried again once answered; two pauses and one order of the organization |
| `liveness` | holds, step-up waits, shipping and policies come to their end, and a step-up runs as approved | two calls of one tool, two polls, two requests; two hooks and one action; a caller and the uploading thread, three records; one process, three releases, one fault |
| `audit_ran_recorded` | violated: `RanIsRecorded` | two writers, three positions |
| `session_self` | violated: `CompletesOthers` | as `stores`, the session alone |
| `step_up_shared` | violated: `ApprovalNamesTheCall` | as `liveness`, the step-ups alone |
| `rate_limit_rollback` | violated: `RollbackFreesNothing` | one limit, times 0..4 |
| `decision_cap`, `decision_resume` | violated: `LaunchesAreCapped`, `ResumeEndsPause` | as `decision` |

Why these bounds are enough to be of use: every hazard listed in `PROJECT.json` needs
two processes, one of which acts between two steps of the other, and one resource
to disagree about; the second action, identity or parent is there to show that
they are kept apart. Spool, batch, cap and retained records are so small that
the limits are hit in every behaviour. `MaxReqs`, `MaxRecords`, `MaxRows`, `MaxLines`,
`MaxAnswers`, `MaxPauses`, `MaxOrders`, `MaxTime`, `MaxRollbacks`, `MaxFaults`, `MaxAged`,
`MaxSkips`, `MaxDeaths`, `MaxSets`, `MaxFiles`, `MaxFlips`, `MaxSignIns`, `MaxTokens` and `MaxRequests` bound histories only. In the
composed runs histories end at these bounds, so deadlock is not checked there; in
`local_approvals` and `rate_limit` it is where the model goes on.
Hooks are interchangeable, and symmetric in the runs without liveness.

The thirteen findings of `MCDecision` cover every class against `block` and the
verdicts by which a hook branches; the theorems cover the rest.

The types of `LocalApprovals` and `RateLimit` are proved and so are left out of their
runs; each composed run checks the types of its parts as one property, which is
proved too.

### Fairness

`MCLive` states for each part what the module's `FairSpec` does, and only of the part explored.

- A hook that holds a call, and a call that waits for a step-up, go on: `wait()` and
  `await_step_up()` sleep and poll unconditionally in a running process. Hooks are not
  killed there: a killed hook answers nothing and the agent treats the call by
  its own rules.
- Time passes (`Tick`, backoff and revocation lapse), and a server's thread wakes
  every `_BG_DRAIN_S`. A hook process alone has no such guarantee: it uploads once
  and exits, so nothing is claimed for it.
- Every call checks the policy again (`Check`), and a hook that has an answer
  compares it and writes what it fetched. Processes may still be killed.
- What is asked again and again of the control plane is answered at some time:
  strong fairness of a successful POST, of an answer and of a fetch, because
  failures disable them again and again. This is the one assumption about the
  network; without it nothing can be delivered.

`WaitEnds` and `HoldEnds` need nothing of the control plane or of the person: their
deadlines end them. `PolicyArrives` is about an organization that keeps the device and
stops publishing, and a cache that is not spoiled (see below).

## What is proved

TLAPS checks, for all values of the constants that satisfy the assumptions next to
their declarations, every invariant, action property and refinement of the runs
without liveness, but for what "Only model-checked" names. For each property there is
an inductive invariant; each module states `Init => IInv`, that a step keeps it (a
lemma per action) and that it implies the property.

- `LocalApprovals_proofs`: `TypeOK`, `SpentByOneCall`, `AllowedByApproval`,
  `OnePendingPerAction`. The invariant says of each record which history it may
  have: a `used` record has let exactly its own call through, a pending or
  approved one nobody, a pruned one at most one call; and of each hook what its
  request's record can be. `_expire` is dealt with once, as a function on stores.
  `SpentWhileValid` and `DecisionIsFinal` are about steps: both follow from
  what any step may do to the record of a request (`Follows`).
- `RateLimit_proofs`: `TypeOK`, `WindowHolds`, `RecentIsStored`, `OneSlotPerCall`, `RetryAfterIsExact`, and that
  `RateLimit` implements `SlidingWindow`. `WindowHolds` alone is not inductive: a
  transaction counts rows, so the proof needs that rows recent at the latest time in
  use are still stored, which holds because no transaction prunes by a later one.
  `RetryAfterIsExact` counts the rows older and younger than the one whose age is reported.
- `StepUp_proofs`: `TypeOK`, `RunsAsApproved`, for any calls, tools and bounds. The invariant (`Backed`)
  says that a call that waits or ran has a request, and that the request it ran
  on has been decided; `Settles` says that what is decided stays so, which every step
  of the control plane obeys.
- `Verdict_proofs`: `TypeOK`, `NeverSilent`, `ObserveSparesOrders`, `DenyWins`, for screens of
  any length. The invariant (`Governs`) says that the governing finding is at least as
  strong as every finding in force and has gone only by an unlock window. It rests on
  `StrongestGoverns`, that `strongest()` yields one of its arguments and none is stronger.
- `Heartbeat_proofs`: types, `Heartbeat` implements `Counter`, for any hooks, calls and keys, and no
  call is ever counted in two places (`CountsAreApart`). The invariant
  (`HeartbeatInv`) says that the lock is one process's, that a call being counted
  is counted nowhere yet, and that a torn file counts nothing; `KeysInv` bounds the keys: a file
  names at most the cap of agent instances, and beyond them one key per framework.

The remaining three are about the compositions; what they say of a part holds of
every run that composes it.

- `Decision_proofs`, over `PartsSpec`: the types of all parts, `Verdict`'s properties again, and
  - `CapHolds`, `OneReservation`, `LaunchIsCounted` (over `Spec` of `Delegations`). `CapHolds` is about
    launched reservations, numbers are about live ones; the invariant (`Counted`) bounds the live
    lines that are within the cap, and `Owned` says a reservation under judgment belongs to one hook.
  - `AllowedWasCleared`: every copy of the cache - the file, the temporary one, a hook's - holds an
    "allow" only under a fingerprint the judge has cleared (`DeferredInv`), and answers come from
    these copies (`AnswerInv`). That the judge has seen the very action is not so (`Deferred!ClearedItself` below).
  - `PauseIsDeliberate`: every marker, on disk or in a hook's hands, is one of the pauses made
    but for its last beat (`PauseInv`).
- `Records_proofs`, over `RecordsSpec`: the types of all parts, and
  - `ChainNeverForks`, `NeighboursAreLinked`, `StateLeadsTrail`. `LockInv` says that the writer in the
    lock who has advanced `chain.json` holds the only record with that position, and carries as
    `prev` the record before it if that one has a line. `NeighboursAreLinked` is proved only, no
    run checks it. `QuietVerdictIsExact`, `OkCoversTheChain`: a verification that has met no
    append has the head of the chain in hand (`VerifyInv`). Both except a trail that is there and
    has no line (`AuditTrail!OkMeansComplete` below).
  - `HeldOnce`, `Traceable`, `AlertsWereTried`: the records of the spool and of each process are
    sequences without repetitions, disjoint from one another, of numbers already given
    (`OnceInv`); where a process seals a record its hands are empty (`HandsInv`). `AlertsAreTried`
    assumes a hook process (`~ InServer`): in a server, an alert may wait in the spool (see
    `Telemetry!AlertsAreAttempted` below).
  - `NoticeShownOnce`: a queue file is with one taker at most, and a line is where its hook
    wrote it (`HandlesInv`, `LinesInv`).
  - `WindowIsEarned`: the credential on disk is the one in force unless an attempt wrote an older one
    back (`FilesInv`); `PlacesInv` says who can be holding one.
- `Stores_proofs`, over `StoresSpec`: the types of all parts, and
  - `FloorHolds`, `DeviceIsTheConsoles`, for all layers anybody may write. `FloorHolds` speaks of the
    compiled rule; the invariant (`LayersInv`) says that on the way there no layer has
    touched a hand-listed rule's action, patterns or `enabled`, and that a device observes
    only after the organization's layer.
  - `StoredIsPrefix`: a snapshot saved is never longer than the log, and it extends or is contained
    in the rows there (`SessionInv`).
  - `CombinationHeld`, for rules of any length, any number of calls and any interleaving of
    their hooks. This is the deepest of the invariants. `completes_rules()` walks a history that grows
    while it is walked, and concurrent analyses note events out of order. `CompletesIsCovers` says
    what the walk computes without the walk: it succeeds exactly when the steps are covered by positions that
    do not decrease (`Covers`; the walk ends each step as early as possible, which
    `OneWalk` shows for one step and `CursorsWalk` for all). `JudgedInv` says that
    every event a hook has behind it was either noted or closes the rule by what is
    noted (`Settled`), and that no call let through closes the rule even with all
    calls that may still be let through (`Passed`). `CombinationsAreStopped` has the
    condition `Room`: no tag has filled its history. Behind a full history nothing is noted
    (`trifecta.py:709`), and the property fails there: with a history of one, calls of `x`, `u`, `x`, `c`
    in this order all run under the rule `u -> x -> c`. `ShortSessionsAreStopped` is the
    unconditional form for sessions of fewer calls than `_HIST_CAP`, 256.
  - `CountedOnce`, the refinement of `Counter` as this composition states it.
  - `NeverStuck`: processes that write at once write one release; while they do, each file behind
    them holds it or is being filled with it by one of them; with nobody writing, the files are of one
    release or have a version that no release from now on has (`CacheInv`).
  - `SpentOnce`: who posts or saves holds the file lock, with the token in force unless
    that sign-in has an outdated record (`InHand`, `OnDisk`).
  - `TrustIsReviewed`: a pin is the definition of first use, or one that was approved (`PinsInv`).

The proofs rest on the assumptions named next to the constants and on nothing
else: hashes, MACs and the control plane's part are in the modules' actions.

Where a proof needs induction over numbers - the least row that frees a slot, the
first step at which a walk goes astray - it takes the least number of a set
(`Least`, `LeastNumber`, from the well-foundedness of the naturals): the library's induction theorems take an operator as
a parameter, which no installed prover can instantiate.

Only model-checked:

- `CombinationHeld` once a tag's history is full: it does not hold then (see above), and no
  run has so many calls.
- `AlertsWereTried` with `InServer`: not claimed. `records` runs as hook processes; `Telemetry` as a
  server is explored by `liveness`, for shipping.
- Liveness (`WaitEnds`, `HoldEnds`, `Shipped`, `PolicyArrives`): the prover does no fairness.
- The six violations, which are counterexamples, and the formulas of the table below.

## Divergences found

Six are shown by a violation run and listed in `PROJECT.json` under `findings`: an
audit record that shares a torn line, the rate limiter's pruning by a time it
does not remember, launches that are approved after a refusal and never counted,
a `resume` undone by a heartbeat, a call refused for a combination of its own tags, and
one step-up request shared by different calls of a tool.

Others are stated as formulas in the modules. Adding one to the cfg of the component
shows the counterexample:

| Formula | Source | What happens |
|---|---|---|
| `LocalApprovals!ResumeClaimHolds` | `approvals_local.py:217` | `decide()` trusts `waiting_until`; a hook killed while holding leaves it set, and the person is told that the call continues (against lines 24-26, 205-206) |
| `LocalApprovals!RetryClaimHolds` | `approvals_local.py:179` | the hook whose hold ends first zeroes the `waiting_until` it shares with a hook that still holds |
| `LocalApprovals!UnusedApprovalIsKept` | `approvals_local.py:89` | approving over `MAX_RECORDS` may prune an approval nobody has spent, even the one just given (against lines 18-19) |
| `AuditTrail!NoFalseAlarm` | `enterprise/audit_trail.py:411` | the verifier reads `chain.json` before the trail, without the lock; appends in between look like tampering (against 393-395) |
| `AuditTrail!SkipIsVisible` | `enterprise/audit_trail.py:144` | a record skipped before the state advances leaves no gap (against 37-38) |
| `AuditTrail!OkMeansComplete` | `enterprise/audit_trail.py:155` | the first append creates the file before it writes to it; if it dies or fails in between, the empty trail has no last line to compare with `chain.json` (496) and verifies as `ok` (against 131-132) |
| `AuditTrail!EmptyMeansUnused` | `enterprise/audit_trail.py:422` | a trail whose only record failed after the state advanced verifies as `empty` (against 131-133) |
| `Telemetry!NothingIsLost` | `sinks.py:796` | a process that dies between drain and delivery takes the batch with it (against 754, 761) |
| `Telemetry!DropsAreReported` | `enterprise/telemetry_spool.py:156` | a drop counter taken for a report is gone if the report is evicted or dies with its process (against 18-21) |
| `Telemetry!OldestDroppedFirst` | `enterprise/telemetry_spool.py:189` | a respooled batch is appended as if it were new, so the cap evicts younger records first (against 182) |
| `Telemetry!FailuresAreCounted` | `enterprise/telemetry_spool.py:243` | unlocked increments of the failure count overlap (against 251) |
| `Telemetry!AlertsAreAttempted` | `sinks.py:785` | in a server, an alert spooled while the thread's backoff is on waits for it like everything else once its kick is used (against 783) |
| `Deferred!RetryIsConsistent` | `enterprise/deferred.py:103` | a hook saves the cache it read before the judge's answer; the other's verdict is lost and asked for again (against line 9) |
| `Deferred!ClearedItself` | `enterprise/deferred.py:60` | findings carry no evidence hash, so a fingerprint is the tool and the rule's pattern or id: the verdict on one held action lets another of the same tool and rule run that the judge has not seen (against 13-14, 7-10) |
| `OAuthTokens!NoWriteBack` | `mcp_oauth.py:503` | a 403 saves the record it read before another gateway refreshed it: the replaced refresh token is back, and the server revokes the sign-in when it is spent again (against 443-447) |
| `OAuthTokens!SignOutSticks` | `mcp_oauth.py:456` | a refresh or a 403 in flight saves the record that a logout has deleted (against 476-478) |
| `OAuthTokens!SignInSticks` | `mcp_oauth.py:456` | the same writes replace the record of a new login (against 475-477) |
| `Verdict!BoundaryIsReported` | `cli.py:2570` | the step-up branch ends the hook before the branch that reports a data boundary; a surface that can neither ask nor rewrite refuses the call (against 2579-2583) |
| `Verdict!UnlockLiftsOnlySelf` | `cli.py:2358` | one finding governs; lifting it lifts the weaker ones with it (against 2332-2333). The same holds of a pause, an approval and the judge |

Further, without a formula of their own:

- Delegations: numbers are not distinct once one has been cancelled
  (`delegations.py:18-20`); a launch whose line cannot be written still has a number
  (`delegations.py:110-118`).
- Pause: `active_state()` may remove a marker newer than the expired one it has read
  (`pause.py:297`).
- Session: the tags of a call that a `-> redact` rule rewrites are not recorded although the
  call runs (the comment at `policy_engine.py:3329-3332` has denied calls in mind), nor are those of a
  call approved or paused through; a full history (`trifecta.py:709`) hides later recurrences of a tag;
  the index in a concurrent hook's finding points to another event, and findings of the
  same id replace one another.
- Policy layers: a floor rule protected by its category alone can be given another
  category by an overlay and be switched off by a later one (against
  `policy_engine.py:1556-1561`), which is why `FloorHolds` is about the hand-listed rules; the
  last version that parsed is read again after it was parsed (`policy_engine.py:1234`); `repo_exemptions` are
  taken from the merged settings (`policy_engine.py:1877`), not from the organization's alone.
- Policy cache (`spoiled`): a process killed before or while it rewrites a cache whose metadata
  has the version of that release, or of one the organization publishes later, or
  killed beside another fetch, and overlapping fetches of different releases, leave
  a cache that later checks take for current (against
  `enterprise/remote_policy.py:71-73`). A revoked device loads no policy (`enterprise/remote_policy.py:703`), where
  `enterprise/identity.py:171` says that the last good one keeps applying.
- Step-ups: the requests that the inference hook enqueues are never read again; an
  approval that comes after the deadline is not used by the call that asked.
- Unlock: `_record_attempt()` (`unlock.py:188-201`) takes no lock, so that failed attempts at the
  same time count as one, and a slow one writes an older credential back
  (`spoiled`, which `Records` calls `restored`); attempts are locked out from the sixth, not "from the 5th"; a window whose
  password is changed between its check and its opening is tied to the new one;
  healing an expired window may remove a newer one (`unlock.py:343`); a credential being written
  reads as none at all.
- Tool pins: approving without a hash approves what is pending by then; a scan that
  raises is remembered as clean (`mcp_gateway.py:1771`); when the store's lock or a write
  fails, definitions are scanned but not compared; a store that cannot be read or parsed is taken for an
  empty one (`mcp_tool_pins.py:102-107`), so that its tools are pinned anew as on first use.
- Notices: a line written through a handle opened before the queue was taken, after
  it was read, is lost (`subagents.py:120`).

## Plan

What is left, in this order.

1. Proofs: abstract specifications that further stores implement, as `RateLimit` implements
   `SlidingWindow` - approvals as grants that are spent once, the spool as a bounded
   bag of records -, and `CombinationHeld` under a condition on the rule's tags alone instead of `Room`.
2. The server's end of the event chain: records chained on the device and received out of order.
3. Login and enrollment (`enterprise/cli_login.py`, `identity.py`): a device enrolled again while its
   hooks still hold the old identity.

## Not modelled

Most of the repository's lines are not state machines. Text: rules, detectors,
redaction, transforms, shell parsing; their results enter as findings. Hook
installation, the setup wizard, scanners, inventory, reports, adapters and the pages
of the dashboard read some files and write others, once, for one user. The
gateways' relaying of streams keeps a connection's state in threads and sockets; what
they share with other processes - pins, step-ups, spool, policy - is modelled.
Cryptography is taken as ideal: no property here is about forged files. File
systems are taken to rename atomically and to keep what was written; `fsync` and power
loss are not modelled, process death is; file locks are taken to be granted (several
stores go on without one where the platform has none). `PROJECT.json` lists every component with its
status and the reason.
