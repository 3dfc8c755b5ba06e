-------------------------------- MODULE StepUp --------------------------------
(***************************************************************************)
(* A verdict "step_up" that a headless host takes to the organization's    *)
(* approval queue (prismor/runtime/enterprise/approvals.py), as the MCP    *)
(* gateway uses it (prismor/runtime/mcp_gateway.py).                       *)
(*                                                                         *)
(* The control plane is not in the repository: that it keeps one open or   *)
(* approved request for a fingerprint, and that a decision is final, is    *)
(* what the client's code and comments count on.  The calls are those of   *)
(* one session; no finding of the runtime carries an evidence hash.        *)
(***************************************************************************)
EXTENDS Integers, Sequences

CONSTANTS
  Calls, ToolOf,     \* calls, and the tool each is of
  Rounds,            \* bound: polls before the deadline
  MaxRequests,       \* bound: requests ever made
  NoRequest

ASSUME ConstantsAssumption ==
  /\ DOMAIN ToolOf = Calls
  /\ Rounds \in Nat \ {0} /\ MaxRequests \in Nat \ {0} /\ NoRequest \notin Nat

VARIABLES
  requests,      \* the control plane's requests; an id is a position
  reachable,     \* this device is enrolled and its key is not revoked
  pc,            \* per call
  id,            \* per call: its request
  left,          \* per call: polls before its deadline
  outcome        \* per call: how it went

vars == <<requests, reachable, pc, id, left, outcome>>

Ids      == 1 .. MaxRequests
Statuses == {"pending", "approved", "denied", "expired"}
\* What the approver chose; an answer may leave it out.
Modes    == {"full", "redacted", "missing"}
Request  == [call : Calls, status : Statuses, mode : Modes]

Init ==
  /\ requests = << >> /\ reachable \in BOOLEAN
  /\ pc   = [c \in Calls |-> "ask"]
  /\ id   = [c \in Calls |-> NoRequest]
  /\ left = [c \in Calls |-> 0]
  /\ outcome = [c \in Calls |-> "none"]

-----------------------------------------------------------------------------
(* The control plane.                                                      *)

\* _fingerprint(), with the evidence's part empty: the session and the tool.
Fingerprint(c) == ToolOf[c]

\* POST /api/approvals: repeated attempts coalesce.
Open(c) == {i \in DOMAIN requests : /\ Fingerprint(requests[i].call) = Fingerprint(c)
                                    /\ requests[i].status \in {"pending", "approved"}}
Accept(c, i) ==
  \/ i \in Open(c) /\ UNCHANGED requests
  \/ /\ Open(c) = {} /\ i = Len(requests) + 1 /\ i \in Ids
     /\ requests' = Append(requests, [call |-> c, status |-> "pending", mode |-> "missing"])

\* Somebody decides, or the control plane lets a request expire, at any time: also
\* after the client gave up.
Decide(i) ==
  /\ requests[i].status = "pending"
  /\ \E s \in Statuses \ {"pending"}, m \in Modes :
       /\ s # "approved" => m = "missing"
       /\ requests' = [requests EXCEPT ![i] = [call |-> @.call, status |-> s, mode |-> m]]
  /\ UNCHANGED <<reachable, pc, id, left, outcome>>
\* An approval is not kept for ever.
Forget(i) ==
  /\ requests[i].status = "approved"
  /\ requests' = [requests EXCEPT ![i] = [call |-> @.call, status |-> "expired", mode |-> @.mode]]
  /\ UNCHANGED <<reachable, pc, id, left, outcome>>

Enroll == reachable' \in BOOLEAN /\ reachable' # reachable /\ UNCHANGED <<requests, pc, id, left, outcome>>

-----------------------------------------------------------------------------
(* await_step_up().                                                        *)

End(c, o) ==
  /\ pc' = [pc EXCEPT ![c] = "done"] /\ outcome' = [outcome EXCEPT ![c] = o]
  /\ left' = [left EXCEPT ![c] = 0]

\* _decision_mode(): full only if the answer says so.
\* Mutant: an approval that does not say is a full one.
GrantedUnlessRedacted(mode) == IF mode = "redacted" THEN "redacted" ELSE "full"
Granted(mode) == IF mode = "full" THEN "full" ELSE "redacted"

\* The gateway strips the arguments of a redacted approval; failing that, it
\* refuses the call.
Run(c, mode) == IF Granted(mode) = "full" THEN End(c, "ran") ELSE \E o \in {"ran_redacted", "refused"} : End(c, o)

\* Nobody to ask: approvals are off, no identity, or revoked.
AskNobody(c) ==
  /\ pc[c] = "ask" /\ ~ reachable
  /\ End(c, "refused") /\ UNCHANGED <<requests, reachable, id>>

\* _post_request(): the request may not arrive, or its answer not come back.
AskFails(c) ==
  /\ pc[c] = "ask" /\ reachable
  /\ UNCHANGED requests \/ \E i \in Ids : Accept(c, i)
  /\ End(c, "request_failed") /\ UNCHANGED <<reachable, id>>

\* Answered: the request may be approved already.
Ask(c) ==
  /\ pc[c] = "ask" /\ reachable
  /\ \E i \in Ids :
       /\ Accept(c, i) /\ id' = [id EXCEPT ![c] = i]
       /\ IF requests'[i].status = "approved" THEN Run(c, requests'[i].mode)
          ELSE /\ pc' = [pc EXCEPT ![c] = "wait"] /\ left' = [left EXCEPT ![c] = Rounds]
               /\ UNCHANGED outcome
  /\ UNCHANGED reachable

\* One turn of the loop; a slow answer may cost more than one interval.
Again(c) == \E n \in 0 .. left[c] - 1 : left' = [left EXCEPT ![c] = n] /\ UNCHANGED <<pc, outcome>>
\* Mutant: a poll without an answer sets the deadline anew.
PollRearmed(c) ==
  /\ pc[c] = "wait" /\ left[c] > 0
  /\ \/ left' = [left EXCEPT ![c] = Rounds] /\ UNCHANGED <<pc, outcome>>
     \/ LET r == requests[id[c]]
        IN  CASE r.status = "approved" -> Run(c, r.mode)
              [] r.status \in {"denied", "expired"} -> End(c, r.status)
              [] OTHER -> Again(c)
  /\ UNCHANGED <<requests, reachable, id>>
Poll(c) ==
  /\ pc[c] = "wait" /\ left[c] > 0
  /\ \/ Again(c)                                       \* no answer
     \/ LET r == requests[id[c]]
        IN  CASE r.status = "approved" -> Run(c, r.mode)
              [] r.status \in {"denied", "expired"} -> End(c, r.status)
              [] OTHER -> Again(c)
  /\ UNCHANGED <<requests, reachable, id>>

Timeout(c) ==
  /\ pc[c] = "wait" /\ left[c] = 0
  /\ End(c, "timeout") /\ UNCHANGED <<requests, reachable, id>>

\* enqueue_step_up(): a hosted turn is refused at once, its request stays.
Enqueue(c) ==
  /\ pc[c] = "ask" /\ reachable
  /\ \E i \in Ids : Accept(c, i) /\ id' = [id EXCEPT ![c] = i]
  /\ End(c, "queued") /\ UNCHANGED reachable

Wait(c) == Poll(c) \/ Timeout(c)

Next ==
  \/ \E c \in Calls : AskNobody(c) \/ AskFails(c) \/ Ask(c) \/ Enqueue(c) \/ Wait(c)
  \/ \E i \in DOMAIN requests : Decide(i) \/ Forget(i)
  \/ Enroll

Spec == Init /\ [][Next]_vars

\* A call that waits is a thread of a running process.
FairSpec == Spec /\ \A c \in Calls : WF_vars(Wait(c))

-----------------------------------------------------------------------------
\* Types of the queue and of the calls.
TypeOK ==
  /\ requests \in Seq(Request) /\ Len(requests) <= MaxRequests /\ reachable \in BOOLEAN
  /\ pc \in [Calls -> {"ask", "wait", "done"}]
  /\ id \in [Calls -> Ids \cup {NoRequest}] /\ left \in [Calls -> 0 .. Rounds]
  /\ outcome \in [Calls -> {"none", "ran", "ran_redacted", "refused", "request_failed", "timeout", "denied",
                            "expired", "queued"}]

\* "An approval never grants more than the approver can be shown to have chosen"
\* (approvals.py:114): a call runs as it is only on a request that somebody
\* approved in full, and otherwise stripped, on one that somebody approved.
RunsAsApproved ==
  \A c \in Calls :
    /\ outcome[c] = "ran" => requests[id[c]].mode = "full"
    /\ outcome[c] = "ran_redacted" => requests[id[c]].status \in {"approved", "expired"}

\* Nobody waits for ever, whatever the control plane answers or does not: the
\* deadline ends it.
WaitEnds == \A c \in Calls : []<>(pc[c] # "wait")

\* "Stable id for one logical action, so repeated attempts of the same call
\* coalesce onto one approval request" (approvals.py:80): a call that ran was
\* approved itself, not another one of its tool.
ApprovalNamesTheCall == \A c \in Calls : outcome[c] = "ran" => requests[id[c]].call = c

=============================================================================
