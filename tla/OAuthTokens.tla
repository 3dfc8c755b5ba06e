------------------------------ MODULE OAuthTokens ------------------------------
(***************************************************************************)
(* The sign-in to one remote MCP server (prismor/runtime/mcp_oauth.py), as *)
(* the requests of several gateways use and refresh it (mcp_gateway.py)    *)
(* while a person signs in and out.                                        *)
(*                                                                         *)
(* The store has one record.  A token is the sign-in it comes from and a   *)
(* number.  What is due or expired is a matter of time, which is left      *)
(* open: any token may be, at any time.  The authorization server is not   *)
(* in the repository: it replaces refresh tokens or keeps them, and takes  *)
(* a replaced one for theft.                                               *)
(***************************************************************************)
EXTENDS Naturals

CONSTANTS
  Requests,      \* a thread of a gateway each, one request after another
  Gateways,      \* processes
  GatewayOf,     \* the process of each thread
  MaxSignIns,    \* bound: sign-ins
  MaxTokens,     \* bound: access tokens of a sign-in
  MaxFaults,     \* bound: answers lost, gateways killed
  None

ConstantsOK ==
  /\ GatewayOf \in [Requests -> Gateways]
  /\ None \notin Requests \cup Nat
  /\ MaxSignIns \in Nat /\ MaxTokens \in Nat \ {0} /\ MaxFaults \in Nat

SignIns == 1 .. MaxSignIns
Record  == [signIn : SignIns, access : 1 .. MaxTokens, refresh : 1 .. MaxTokens]

VARIABLES
  disk,          \* the record of the server, or None
  flock,         \* the thread that has the file lock, or None
  slock,         \* per gateway: the thread that has the lock of its OAuthSession
  pc,
  sent,          \* per thread: the Authorization it sends, a record, or None
  copy,          \* per thread: the record it works on
  again,         \* per thread: it retries
  signIns,       \* sign-ins so far
  signingOut,    \* the sign-in of the record a logout has read, or None
  live,          \* at the authorization server: sign-ins not revoked
  issued,        \* ... access tokens issued, per sign-in
  valid,         \* ... the refresh token in force, per sign-in
  reused,        \* history: sign-ins revoked because a refresh token came twice
  behind,        \* history: sign-ins of which an outdated record was kept
  faults

server  == <<live, issued, valid, reused>>
threadv == <<slock, pc, sent, copy, again>>
person  == <<signIns, signingOut>>
vars    == <<disk, flock, threadv, person, server, behind, faults>>

Init ==
  /\ disk = None /\ flock = None
  /\ slock = [g \in Gateways |-> None]
  /\ pc    = [q \in Requests |-> "idle"]
  /\ sent  = [q \in Requests |-> None]
  /\ copy  = [q \in Requests |-> None]
  /\ again = [q \in Requests |-> FALSE]
  /\ signIns = 0 /\ signingOut = None
  /\ live = {} /\ reused = {} /\ behind = {}
  /\ issued = [s \in SignIns |-> 0] /\ valid = [s \in SignIns |-> 0]
  /\ faults = 0

-----------------------------------------------------------------------------
(* A request: _post().                                                     *)

\* Thread q is at l; it sends tok, works on rec, and retries if more.
At(q, l, tok, rec, more) ==
  /\ pc'    = [pc EXCEPT ![q] = l]
  /\ sent'  = [sent EXCEPT ![q] = tok]
  /\ copy'  = [copy EXCEPT ![q] = rec]
  /\ again' = [again EXCEPT ![q] = more]
Done(q) == At(q, "idle", None, None, FALSE)

SessionFree(q) == slock[GatewayOf[q]] = None
Enter(q) == slock' = [slock EXCEPT ![GatewayOf[q]] = q]
Leave(q) == slock' = [slock EXCEPT ![GatewayOf[q]] = None]

\* authorization(): the token on disk, refreshed first if it is due.
Authorize(q) ==
  /\ pc[q] \in {"idle", "retry"} /\ SessionFree(q)
  /\ \/ At(q, "send", disk, None, again[q]) /\ UNCHANGED slock
     \/ /\ disk # None
        /\ At(q, "lock", disk, disk, again[q]) /\ Enter(q)
  /\ UNCHANGED <<disk, flock, person, server, behind, faults>>

\* The upstream takes it, or fails otherwise, or refuses it for good: with 401
\* when there is no token, none on disk any more, or this was the retry.
Answered(q) ==
  /\ pc[q] = "send" /\ Done(q)
  /\ UNCHANGED <<disk, flock, slock, person, server, behind, faults>>

AccessToken(rec) == <<rec.signIn, rec.access>>

\* 401, and unauthorized(): refresh what was refused, unless there is another by
\* now.
Unauthorized(q) ==
  /\ pc[q] = "send" /\ sent[q] # None /\ ~ again[q] /\ disk # None /\ SessionFree(q)
  /\ IF AccessToken(disk) # AccessToken(sent[q])
     THEN At(q, "retry", None, None, TRUE) /\ UNCHANGED slock
     ELSE At(q, "lock", None, disk, FALSE) /\ Enter(q)
  /\ UNCHANGED <<disk, flock, person, server, behind, faults>>

\* 403, and insufficient_scope(): the record is read, and saved with what was
\* asked for, under the session's lock, not the file's.
ScopeRead(q) ==
  /\ pc[q] = "send" /\ sent[q] # None /\ SessionFree(q)
  /\ IF disk = None THEN Done(q) /\ UNCHANGED slock
     ELSE At(q, "scope", None, disk, FALSE) /\ Enter(q)
  /\ UNCHANGED <<disk, flock, person, server, behind, faults>>
ScopeSave(q) ==
  LET rec == copy[q]
  IN  /\ pc[q] = "scope" /\ disk' = rec
      /\ behind' = IF rec.refresh # valid[rec.signIn] THEN behind \cup {rec.signIn} ELSE behind
      /\ Done(q) /\ Leave(q)
      /\ UNCHANGED <<flock, person, server, faults>>

-----------------------------------------------------------------------------
(* refresh_shared().                                                       *)

\* How it ends: authorization() sends the new token, or after a failure the old
\* one; unauthorized() lets the request be retried, or not.
Refreshed(q, rec) ==
  /\ IF sent[q] # None THEN At(q, "send", rec, None, again[q]) ELSE At(q, "retry", None, None, TRUE)
  /\ Leave(q)
NotRefreshed(q) ==
  /\ IF sent[q] # None THEN At(q, "send", sent[q], None, again[q]) ELSE Done(q)
  /\ Leave(q)

\* Mutant: the token read before the lock is spent, whatever is on disk by now.
LockAnyway(q) ==
  /\ pc[q] = "lock" /\ flock = None
  /\ At(q, "post", sent[q], copy[q], again[q]) /\ flock' = q
  /\ UNCHANGED <<disk, slock, person, server, behind, faults>>

RefreshToken(rec) == <<rec.signIn, rec.refresh>>

\* Signed out meanwhile; refreshed by another gateway; or still to be refreshed.
Lock(q) ==
  /\ pc[q] = "lock" /\ flock = None
  /\ \/ disk = None /\ NotRefreshed(q) /\ UNCHANGED flock
     \/ /\ disk # None /\ RefreshToken(disk) # RefreshToken(copy[q])
        /\ Refreshed(q, disk) /\ UNCHANGED flock
     \/ /\ disk # None /\ RefreshToken(disk) = RefreshToken(copy[q])
        /\ At(q, "post", sent[q], disk, again[q]) /\ flock' = q /\ UNCHANGED slock
  /\ UNCHANGED <<disk, person, server, behind, faults>>

InForce(rec) == rec.signIn \in live /\ rec.refresh = valid[rec.signIn]

\* The server's part: a new access token, perhaps a new refresh token.
Grant(rec, new) ==
  LET s == rec.signIn
  IN  /\ InForce(rec) /\ issued[s] < MaxTokens
      /\ \E refresh \in {issued[s] + 1, rec.refresh} :
           new = [signIn |-> s, access |-> issued[s] + 1, refresh |-> refresh]
      /\ issued' = [issued EXCEPT ![s] = new.access]
      /\ valid'  = [valid EXCEPT ![s] = new.refresh]
      /\ UNCHANGED <<live, reused>>

PostOk(q) ==
  /\ pc[q] = "post"
  /\ \E new \in Record : Grant(copy[q], new) /\ At(q, "save", sent[q], new, again[q])
  /\ UNCHANGED <<disk, flock, slock, person, behind, faults>>

\* Unreachable, or refused: the sign-in was revoked.
PostFails(q) ==
  /\ pc[q] = "post"
  /\ NotRefreshed(q) /\ flock' = None
  /\ UNCHANGED <<disk, person, server, behind, faults>>

\* A token that was replaced: the server revokes the whole sign-in.
PostReused(q) ==
  LET s == copy[q].signIn
  IN  /\ pc[q] = "post" /\ s \in live /\ ~ InForce(copy[q])
      /\ live' = live \ {s} /\ reused' = reused \cup {s}
      /\ NotRefreshed(q) /\ flock' = None
      /\ UNCHANGED <<disk, person, issued, valid, behind, faults>>

\* Granted, but the answer does not arrive.
PostLost(q) ==
  /\ pc[q] = "post" /\ faults < MaxFaults /\ faults' = faults + 1
  /\ \E new \in Record : Grant(copy[q], new)
  /\ behind' = behind \cup {s \in SignIns : valid'[s] # valid[s]}
  /\ NotRefreshed(q) /\ flock' = None
  /\ UNCHANGED <<disk, person>>

Save(q) ==
  /\ pc[q] = "save" /\ disk' = copy[q]
  /\ Refreshed(q, copy[q]) /\ flock' = None
  /\ UNCHANGED <<person, server, behind, faults>>

-----------------------------------------------------------------------------
(* The person, and faults.                                                 *)

\* login(), from the answer of the token endpoint on; no lock.
Login ==
  LET s == signIns + 1
  IN  /\ s \in SignIns /\ signingOut = None
      /\ signIns' = s /\ live' = live \cup {s}
      /\ issued' = [issued EXCEPT ![s] = 1] /\ valid' = [valid EXCEPT ![s] = 1]
      /\ disk' = [signIn |-> s, access |-> 1, refresh |-> 1]
      /\ UNCHANGED <<flock, threadv, signingOut, reused, behind, faults>>

\* `mcp-gateway logout`: read, ask the server to revoke (best effort), delete.
LogoutRead ==
  /\ signingOut = None /\ disk # None /\ signingOut' = disk.signIn
  /\ UNCHANGED <<disk, flock, threadv, signIns, server, behind, faults>>
Logout ==
  /\ signingOut # None /\ signingOut' = None
  /\ disk' = None
  /\ live' \in {live, live \ {signingOut}}
  /\ UNCHANGED <<flock, threadv, signIns, issued, valid, reused, behind, faults>>

\* The server has replaced the token on disk; nobody else knows.
Unsaved(q) == /\ pc[q] = "save"
              /\ disk # None /\ disk.signIn = copy[q].signIn /\ disk.refresh # copy[q].refresh

\* A gateway is killed, and with it its threads; the file lock is let go.
Die(g) ==
  LET dead == {q \in Requests : GatewayOf[q] = g}
  IN  /\ faults < MaxFaults /\ faults' = faults + 1
      /\ \E q \in dead : pc[q] # "idle"
      /\ slock' = [slock EXCEPT ![g] = None]
      /\ flock' = IF flock \in dead THEN None ELSE flock
      /\ pc'    = [q \in Requests |-> IF q \in dead THEN "idle" ELSE pc[q]]
      /\ sent'  = [q \in Requests |-> IF q \in dead THEN None ELSE sent[q]]
      /\ copy'  = [q \in Requests |-> IF q \in dead THEN None ELSE copy[q]]
      /\ again' = [q \in Requests |-> IF q \in dead THEN FALSE ELSE again[q]]
      /\ behind' = behind \cup {copy[q].signIn : q \in {d \in dead : Unsaved(d)}}
      /\ UNCHANGED <<disk, person, server>>

Step(q) ==
  \/ Authorize(q) \/ Answered(q) \/ Unauthorized(q) \/ ScopeRead(q) \/ ScopeSave(q)
  \/ Lock(q) \/ PostOk(q) \/ PostFails(q) \/ PostReused(q) \/ PostLost(q) \/ Save(q)

Next == \/ \E q \in Requests : Step(q)
        \/ \E g \in Gateways : Die(g)
        \/ Login \/ LogoutRead \/ Logout

Spec == Init /\ [][Next]_vars

-----------------------------------------------------------------------------
\* Types of the store, the threads and the server.
TypeOK ==
  /\ disk \in Record \cup {None} /\ signingOut \in SignIns \cup {None}
  /\ flock \in Requests \cup {None} /\ slock \in [Gateways -> Requests \cup {None}]
  /\ pc \in [Requests -> {"idle", "retry", "send", "lock", "post", "save", "scope"}]
  /\ sent \in [Requests -> Record \cup {None}] /\ copy \in [Requests -> Record \cup {None}]
  /\ again \in [Requests -> BOOLEAN]
  /\ signIns \in 0 .. MaxSignIns
  /\ live \subseteq SignIns /\ reused \subseteq SignIns /\ behind \subseteq SignIns
  /\ issued \in [SignIns -> 0 .. MaxTokens] /\ valid \in [SignIns -> 0 .. MaxTokens]
  /\ faults \in 0 .. MaxFaults

\* "without the lock two of them spend the same refresh token, and a server that
\* detects reuse revokes the whole sign-in" (mcp_oauth.py:445): gateways that
\* refresh at once spend each token once.  A sign-in is lost in this way only if
\* what the server granted was never saved, because of a fault, or was written
\* over by a 403 that had read the record before (see NoWriteBack).
SpentOnce == reused \subseteq behind

\* Formulas of what does not hold (see the README).  The docstring of
\* refresh_shared() with nothing excused but faults ...
NoWriteBack == faults = 0 => reused = {}
\* ... "a `logout` stops it, instead of a token cached here being used (and
\* refreshed back to disk) afterwards" (mcp_oauth.py:476) ...
SignOutSticks == [][disk = None /\ signIns' = signIns => disk' = None]_vars
\* ... "a `login` run while the gateway is up takes effect on the next call" (:475).
SignInSticks == disk # None => disk.signIn = signIns
=============================================================================
