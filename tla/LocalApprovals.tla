--------------------------- MODULE LocalApprovals ---------------------------
(***************************************************************************)
(* The one-shot human approval of a blocked call                           *)
(* (prismor/runtime/approvals_local.py and its caller in cli.py).          *)
(*                                                                         *)
(* Hook processes screen tool calls concurrently.  They share one JSON     *)
(* file, read and rewritten under a file lock; one lock section is one     *)
(* action here.  A blocked hook first tries to spend an approval           *)
(* (consume), else opens or joins a request (request) and may hold the     *)
(* call open, polling (wait).  A person decides from another process.      *)
(*                                                                         *)
(* Time is kept as timers: each record and each held hook carries what is  *)
(* left of its own interval and Tick moves them all, so a behaviour may be *)
(* as long as it likes.  A timer that nothing reads again is zeroed.       *)
(***************************************************************************)
EXTENDS Integers, FiniteSets

CONSTANTS
  Hooks,        \* hook processes, one per screening of one call
  Calls,        \* the agent's ids for single tool calls (tool_use_id)
  NoCall,       \* the empty call id, of an agent that sends none
  Fps, NoFp,    \* fingerprints: agent, session, directory, tool and input
  FpOf,         \* the fingerprint of each call
  PendingTTL, ApprovedTTL, HoldFor, Keep,
  MaxReqs,      \* bound: requests ever opened
  HooksMayDie   \* whether the agent may kill a hook

Ids == 1 .. MaxReqs      \* insertion order of the JSON object, too

ASSUME ConstantsAssumption ==
  /\ NoCall \notin Calls /\ NoFp \notin Fps
  /\ FpOf \in [Calls -> Fps]
  /\ PendingTTL \in Nat /\ ApprovedTTL \in Nat /\ HoldFor \in Nat
  /\ Keep \in Nat /\ MaxReqs \in Nat
  /\ HooksMayDie \in BOOLEAN

VARIABLES
  reqs,     \* the "requests" object of approvals.json
  lastId,   \* requests opened so far
  pc, call, fp, rid, left,   \* per hook: where it is, what it screens
  told,     \* history: what `prismor approvals` answered, per request
  grants    \* history: the calls each request has let through

store == <<reqs, lastId>>
hookv == <<pc, call, fp, rid, left>>
vars  == <<reqs, lastId, pc, call, fp, rid, left, told, grants>>

Status == {"none", "pending", "approved", "denied", "used", "expired", "resolved"}
Record == [status : Status, fp : Fps \cup {NoFp}, usedBy : Calls \cup {NoCall},
           age : Nat, valid : Int, waiting : Nat]
NoRec  == [status |-> "none", fp |-> NoFp, usedBy |-> NoCall,
           age |-> 0, valid |-> 0, waiting |-> 0]

PCs      == {"idle", "blocked", "asking", "holding", "asleep",
             "running", "closing", "allowed", "denied", "ran", "dead"}
Holding  == {"holding", "asleep"}
Answered == {"allowed", "denied", "ran"}

Init ==
  /\ reqs   = [r \in Ids |-> NoRec]
  /\ lastId = 0
  /\ pc     = [h \in Hooks |-> "idle"]
  /\ call   = [h \in Hooks |-> NoCall]
  /\ fp     = [h \in Hooks |-> NoFp]
  /\ rid    = [h \in Hooks |-> 0]
  /\ left   = [h \in Hooks |-> 0]
  /\ told   = [r \in Ids |-> "none"]
  /\ grants = [r \in Ids |-> [calls |-> {}, anon |-> 0]]

-----------------------------------------------------------------------------
(* The store, as values.                                                   *)

Present(s) == {r \in Ids : s[r].status # "none"}

\* Mutant: only pending requests lapse.
LapsedPendingOnly(rec) == rec.status = "pending" /\ rec.age > PendingTTL

Lapsed(rec) == \/ rec.status = "pending"  /\ rec.age > PendingTTL
               \/ rec.status = "approved" /\ rec.valid < 0

Closed(rec, how) == [status |-> how, fp |-> rec.fp, usedBy |-> rec.usedBy,
                     age |-> 0, valid |-> 0, waiting |-> 0]

\* Over Keep records, the oldest that are not pending go.
Surplus(s) ==
  LET done == {r \in Present(s) : s[r].status # "pending"}
  IN  {r \in done : Cardinality({q \in done : q < r})
                      < Cardinality(Present(s)) - Keep}

Expire(s) ==
  LET t == [r \in Ids |-> IF Lapsed(s[r]) THEN Closed(s[r], "expired") ELSE s[r]]
  IN  [r \in Ids |-> IF r \in Surplus(t) THEN NoRec ELSE t[r]]

\* Mutant: an open request is not recognised.
PendingNever(s, f) == {}

PendingFor(s, f) == {r \in Ids : s[r].status = "pending" /\ s[r].fp = f}

\* Mutant: a spent approval lets any call with an id through.
OpensAnyUsed(rec, c) == rec.status = "approved" \/ (c # NoCall /\ rec.status = "used")

\* The records that let call c on fingerprint f through.
Opens(rec, c) == \/ rec.status = "approved"
                 \/ c # NoCall /\ rec.status = "used" /\ rec.usedBy = c
\* The first of them in the order of the object.
Oldest(S) == {r \in S : \A q \in S : r <= q}

\* Mutant: the fingerprint is not compared.
MatchingAnyAction(s, f, c) == {r \in Ids : Opens(s[r], c)}

Matching(s, f, c) == {r \in Ids : s[r].fp = f /\ Opens(s[r], c)}

Spend(rec, c) == IF rec.status = "approved"
                 THEN [Closed(rec, "used") EXCEPT !.usedBy = c] ELSE rec

\* The history of a request that has let call c through, too.
Credit(g, c) == IF c = NoCall THEN [calls |-> g.calls, anon |-> g.anon + 1]
                ELSE [calls |-> g.calls \cup {c}, anon |-> g.anon]

\* Hook h is let through by request r.
Grant(h, r) ==
  /\ pc'  = [pc EXCEPT ![h] = "allowed"]
  /\ rid' = [rid EXCEPT ![h] = r]
  /\ grants' = [grants EXCEPT ![r] = Credit(@, call[h])]

-----------------------------------------------------------------------------
(* A hook process.                                                         *)

\* Every hook under way may still open one request: keep an id for each.
RoomForOneMore ==
  lastId + Cardinality({h \in Hooks : pc[h] \in {"blocked", "asking"}}) < MaxReqs

\* A call arrives and the policy blocks it / lets it run.
Screen(h, c, f, where) ==
  /\ pc[h] = "idle"
  /\ c # NoCall => f = FpOf[c]
  /\ pc'   = [pc EXCEPT ![h] = where]
  /\ call' = [call EXCEPT ![h] = c]
  /\ fp'   = [fp EXCEPT ![h] = f]
  /\ UNCHANGED <<store, rid, left, told, grants>>

ScreenBlocked(h) == /\ RoomForOneMore
                    /\ \E c \in Calls \cup {NoCall}, f \in Fps : Screen(h, c, f, "blocked")
ScreenAllowed(h) == \E c \in Calls \cup {NoCall}, f \in Fps : Screen(h, c, f, "running")

ConsumeHit(h) ==
  LET s == Expire(reqs)
      m == Matching(s, fp[h], call[h])
  IN  /\ pc[h] = "blocked"
      /\ \E r \in Oldest(m) : /\ reqs' = Expire([s EXCEPT ![r] = Spend(@, call[h])])
                             /\ Grant(h, r)
      /\ UNCHANGED <<lastId, call, fp, left, told>>

ConsumeMiss(h) ==
  LET s == Expire(reqs)
  IN  /\ pc[h] = "blocked"
      /\ Matching(s, fp[h], call[h]) = {}
      /\ reqs' = Expire(s)
      /\ pc' = [pc EXCEPT ![h] = "asking"]
      /\ UNCHANGED <<lastId, call, fp, rid, left, told, grants>>

\* request(): join the pending request for this action or open one; then
\* wait() sets its deadline, or without a hold the call is denied.
Request(h) ==
  LET s    == Expire(reqs)
      mine == PendingFor(s, fp[h])
  IN  /\ pc[h] = "asking"
      /\ \E r \in IF mine # {} THEN Oldest(mine) ELSE {lastId + 1} \cap Ids :
           /\ reqs' = Expire([s EXCEPT ![r] =
                [status |-> "pending", fp |-> fp[h], usedBy |-> @.usedBy,
                 age |-> @.age, valid |-> @.valid, waiting |-> HoldFor]])
           /\ lastId' = IF mine # {} THEN lastId ELSE r
           /\ rid'  = [rid EXCEPT ![h] = r]
      /\ left' = [left EXCEPT ![h] = HoldFor]
      /\ pc'   = [pc EXCEPT ![h] = IF HoldFor = 0 THEN "denied" ELSE "holding"]
      /\ UNCHANGED <<call, fp, told, grants>>

\* wait(): test the deadline, sleep half a second, look under the lock.
Sleep(h) ==
  /\ pc[h] = "holding"
  /\ left[h] > 0
  /\ pc' = [pc EXCEPT ![h] = "asleep"]
  /\ UNCHANGED <<store, call, fp, rid, left, told, grants>>

PollGranted(h) ==
  LET s == Expire(reqs) IN
  /\ pc[h] = "asleep"
  /\ Opens(s[rid[h]], call[h])
  /\ reqs' = Expire([s EXCEPT ![rid[h]] = Spend(@, call[h])])
  /\ Grant(h, rid[h])
  /\ UNCHANGED <<lastId, call, fp, left, told>>

PollRefused(h) ==
  LET s == Expire(reqs) IN
  /\ pc[h] = "asleep"
  /\ s[rid[h]].status \in {"none", "denied", "expired", "used"}
  /\ ~ Opens(s[rid[h]], call[h])
  /\ reqs' = Expire(s)
  /\ pc' = [pc EXCEPT ![h] = "denied"]
  /\ UNCHANGED <<lastId, call, fp, rid, left, told, grants>>

\* Mutant: the deadline is computed anew on each turn of the loop.
PollAgainRearmed(h) ==
  /\ pc[h] = "asleep"
  /\ Expire(reqs)[rid[h]].status \in {"pending", "resolved"}
  /\ reqs' = Expire(Expire(reqs))
  /\ pc' = [pc EXCEPT ![h] = "holding"]
  /\ left' = [left EXCEPT ![h] = HoldFor]
  /\ UNCHANGED <<lastId, call, fp, rid, told, grants>>

\* "resolved" is no answer to wait(): it polls on until its deadline.
PollAgain(h) ==
  LET s == Expire(reqs) IN
  /\ pc[h] = "asleep"
  /\ s[rid[h]].status \in {"pending", "resolved"}
  /\ reqs' = Expire(s)
  /\ pc' = [pc EXCEPT ![h] = "holding"]
  /\ UNCHANGED <<lastId, call, fp, rid, left, told, grants>>

GiveUp(h) ==
  /\ pc[h] = "holding"
  /\ left[h] = 0
  /\ reqs' = Expire([reqs EXCEPT ![rid[h]].waiting = 0])
  /\ pc' = [pc EXCEPT ![h] = "denied"]
  /\ UNCHANGED <<lastId, call, fp, rid, left, told, grants>>

\* resolve(): a call that runs anyway closes its pending request.  It looks
\* without the lock first.
ResolvePeek(h) ==
  /\ pc[h] = "running"
  /\ pc' = [pc EXCEPT ![h] = IF PendingFor(reqs, fp[h]) = {} THEN "ran" ELSE "closing"]
  /\ UNCHANGED <<store, call, fp, rid, left, told, grants>>

\* Mutant: the locked half trusts what the unlocked look saw.
ResolveUnchecked(h) ==
  /\ pc[h] = "closing"
  /\ reqs' = Expire([r \in Ids |-> IF reqs[r].fp = fp[h]
                                   THEN Closed(reqs[r], "resolved") ELSE reqs[r]])
  /\ pc' = [pc EXCEPT ![h] = "ran"]
  /\ UNCHANGED <<lastId, call, fp, rid, left, told, grants>>

ResolveClose(h) ==
  /\ pc[h] = "closing"
  /\ reqs' = Expire([r \in Ids |-> IF r \in PendingFor(reqs, fp[h])
                                   THEN Closed(reqs[r], "resolved") ELSE reqs[r]])
  /\ pc' = [pc EXCEPT ![h] = "ran"]
  /\ UNCHANGED <<lastId, call, fp, rid, left, told, grants>>

HookStep(h) ==
  \/ ConsumeHit(h) \/ ConsumeMiss(h) \/ Request(h)
  \/ Sleep(h) \/ PollGranted(h) \/ PollRefused(h) \/ PollAgain(h) \/ GiveUp(h)
  \/ ResolvePeek(h) \/ ResolveClose(h)

\* The process exits; the slot screens another call later.
Exit(h) ==
  /\ pc[h] \in Answered
  /\ pc'   = [pc EXCEPT ![h] = "idle"]
  /\ call' = [call EXCEPT ![h] = NoCall]
  /\ fp'   = [fp EXCEPT ![h] = NoFp]
  /\ rid'  = [rid EXCEPT ![h] = 0]
  /\ left' = [left EXCEPT ![h] = 0]
  /\ UNCHANGED <<store, told, grants>>

\* The agent kills a hook: the user interrupts the turn, or it overran.
Kill(h) ==
  /\ HooksMayDie
  /\ pc[h] \notin Answered \cup {"idle", "dead"}
  /\ pc' = [pc EXCEPT ![h] = "dead"]
  /\ UNCHANGED <<store, call, fp, rid, left, told, grants>>

-----------------------------------------------------------------------------
(* The person, the dashboard, and time.                                    *)

\* `prismor approvals approve|deny <id>`; told is what it then prints.
Decide(r, approve) ==
  LET s == Expire(reqs) IN
  /\ s[r].status = "pending"
  /\ reqs' = Expire([s EXCEPT ![r] =
       IF approve THEN [Closed(@, "approved") EXCEPT !.valid = ApprovedTTL]
       ELSE Closed(@, "denied")])
  /\ told' = [told EXCEPT ![r] = IF ~ approve THEN "denied"
                                 ELSE IF s[r].waiting > 0 THEN "resumes"
                                 ELSE "retry"]
  /\ UNCHANGED <<lastId, hookv, grants>>

\* list_requests(), or a decide that finds nothing pending: the lock section
\* still ages the store.
Touch ==
  /\ reqs' = Expire(Expire(reqs))
  /\ UNCHANGED <<lastId, hookv, told, grants>>

Aged(rec) ==
  CASE rec.status = "pending"  ->
         [rec EXCEPT !.age = IF @ > PendingTTL THEN @ ELSE @ + 1,
                     !.waiting = IF @ > 0 THEN @ - 1 ELSE 0]
    [] rec.status = "approved" -> [rec EXCEPT !.valid = IF @ < 0 THEN @ ELSE @ - 1]
    [] OTHER -> rec

Tick ==
  /\ reqs' = [r \in Ids |-> Aged(reqs[r])]
  /\ left' = [h \in Hooks |-> IF pc[h] \in Holding /\ left[h] > 0
                              THEN left[h] - 1 ELSE left[h]]
  /\ UNCHANGED <<lastId, pc, call, fp, rid, told, grants>>

Next ==
  \/ \E h \in Hooks : \/ ScreenBlocked(h) \/ ScreenAllowed(h) \/ HookStep(h)
                      \/ Exit(h) \/ Kill(h)
  \/ \E r \in Ids, approve \in BOOLEAN : Decide(r, approve)
  \/ Touch
  \/ Tick

Spec == Init /\ [][Next]_vars

\* A started process keeps running until it answers, and time passes.
FairSpec == Spec /\ (\A h \in Hooks : WF_vars(HookStep(h))) /\ WF_vars(Tick)
-----------------------------------------------------------------------------
(* Properties.                                                             *)

\* Type invariant.
TypeOK ==
  /\ reqs \in [Ids -> Record]
  /\ lastId \in Nat
  /\ pc \in [Hooks -> PCs]
  /\ call \in [Hooks -> Calls \cup {NoCall}]
  /\ fp \in [Hooks -> Fps \cup {NoFp}]
  /\ rid \in [Hooks -> Ids \cup {0}]
  /\ left \in [Hooks -> Nat]
  /\ told \in [Ids -> {"none", "denied", "resumes", "retry"}]
  /\ grants \in [Ids -> [calls : SUBSET Calls, anon : Nat]]

\* One approval lets at most one tool call through, whichever hooks race for
\* it by consume() or wait(): all it lets through bear one call id, or it let
\* through a single call without an id.
SpentByOneCall ==
  \A r \in Ids : LET g == grants[r] IN
    /\ \A c, d \in g.calls : c = d
    /\ g.anon <= 1
    /\ g.anon = 1 => g.calls = {}

\* A hook lets a blocked call through only on a request that a person approved
\* and that was opened for exactly this action (fingerprint); the record may
\* have been pruned since, but never belongs to another action.
AllowedByApproval ==
  \A h \in Hooks : pc[h] = "allowed" =>
    /\ told[rid[h]] \in {"resumes", "retry"}
    /\ reqs[rid[h]].status \in {"used", "none"}
    /\ reqs[rid[h]].status = "used" =>
         /\ reqs[rid[h]].fp = fp[h]
         /\ reqs[rid[h]].usedBy = call[h]

\* request() joins the open request of an identical call: hooks that race to
\* ask never leave the person two pending requests for one action.
OnePendingPerAction ==
  \A q, r \in Ids :
    reqs[q].status = "pending" /\ reqs[r].status = "pending"
      /\ reqs[q].fp = reqs[r].fp  => q = r

\* A step that spends an approval finds it still valid: APPROVED_TTL is
\* enforced when it is spent, however late the store was last aged.
SpentWhileValid ==
  [][\A r \in Ids :
       reqs[r].status = "approved" /\ reqs'[r].status = "used"
         => reqs[r].valid >= 0]_vars

\* What a person or the clock has settled stays settled: a record leaves
\* pending and approved for good, and a denied one is never spent later.
DecisionIsFinal ==
  [][\A r \in Ids :
       LET was == reqs[r].status
           is  == reqs'[r].status
       IN  /\ was \in {"denied", "used", "expired", "resolved"} => is \in {was, "none"}
           /\ was = "approved" => is \in {"approved", "used", "expired", "none"}
           /\ was = "none" /\ is # "none" => r > lastId]_vars

\* A held call is answered: wait() ends by a decision or by its deadline.
HoldEnds ==
  \A h \in Hooks : []<>(pc[h] \notin Holding)

\* approvals_local.py:18-19, "used up by the first call it lets through, and
\* lapses after APPROVED_TTL seconds if nothing uses it": an approval that is
\* neither spent nor lapsed is still there.
UnusedApprovalIsKept ==
  [][\A r \in Ids :
       /\ told[r] = "none" /\ told'[r] \in {"resumes", "retry"}
       => reqs'[r].status = "approved"]_vars

\* decide() returns "whether a hook was still holding the call open at that
\* moment" (approvals_local.py:206), so that approve never claims "the agent
\* resumed when it did not" (:25): told that the call continues, the person
\* has a hook holding that request.
ResumeClaimHolds ==
  [][\A r \in Ids :
       told[r] = "none" /\ told'[r] = "resumes" =>
         \E h \in Hooks : rid[h] = r /\ pc[h] \in Holding]_vars

\* The other half of that claim: told to go back and retry, the person has no
\* hook that still has time to hold that request.
RetryClaimHolds ==
  [][\A r \in Ids :
       told[r] = "none" /\ told'[r] = "retry" =>
         ~ \E h \in Hooks : rid[h] = r /\ pc[h] \in Holding /\ left[h] > 0]_vars
=============================================================================
