----------------------------- MODULE StepUp_proofs -----------------------------
(***************************************************************************)
(* For any calls, tools and bounds: the types of the queue, and that a     *)
(* call runs only as somebody approved it.  The invariant adds that a call *)
(* that waits or ran has a request, and that the request it ran on has     *)
(* been decided, so that nobody decides it again.                          *)
(***************************************************************************)
EXTENDS StepUp, TLAPS

\* What a call has of its request r by its place and its outcome.
Backed(at, came, r, queue) ==
  /\ at # "done" => came = "none"
  /\ at = "wait" => r \in DOMAIN queue
  /\ came = "ran" => r \in DOMAIN queue /\ queue[r].status # "pending" /\ queue[r].mode = "full"
  /\ came = "ran_redacted" => r \in DOMAIN queue /\ queue[r].status \in {"approved", "expired"}

StepUpInv ==
  /\ TypeOK
  /\ \A c \in Calls : Backed(pc[c], outcome[c], id[c], requests)

\* A queue grows, and what is decided stays decided.
Settles(queue, later) ==
  /\ DOMAIN queue \subseteq DOMAIN later
  /\ \A r \in DOMAIN queue :
       queue[r].status # "pending" =>
         /\ later[r].mode = queue[r].mode /\ later[r].status # "pending"
         /\ queue[r].status \in {"approved", "expired"} => later[r].status \in {"approved", "expired"}

-----------------------------------------------------------------------------
(* The control plane's steps.                                              *)

\* What is asked of a settling queue stays true.
LEMMA BackedLemma ==
  ASSUME NEW at, NEW came, NEW r, NEW queue, NEW later, Settles(queue, later), Backed(at, came, r, queue)
  PROVE  Backed(at, came, r, later)
BY DEF Settles, Backed

\* Accepting a request: it is in the queue, and the queue settles.
LEMMA AcceptLemma ==
  ASSUME TypeOK, NEW c \in Calls, NEW i \in Ids, Accept(c, i)
  PROVE  /\ requests' \in Seq(Request) /\ Len(requests') <= MaxRequests
         /\ i \in DOMAIN requests' /\ Settles(requests, requests')
<1>0. requests \in Seq(Request) /\ Len(requests) <= MaxRequests /\ MaxRequests \in Nat
  BY ConstantsAssumption DEF TypeOK
<1>1. CASE i \in Open(c) /\ UNCHANGED requests
  BY <1>0, <1>1 DEF Open, Settles
<1>2. CASE /\ i = Len(requests) + 1
           /\ requests' = Append(requests, [call |-> c, status |-> "pending", mode |-> "missing"])
  <2>1. [call |-> c, status |-> "pending", mode |-> "missing"] \in Request
    BY DEF Request, Statuses, Modes
  <2>2. /\ requests' \in Seq(Request) /\ Len(requests') = Len(requests) + 1
        /\ \A r \in 1 .. Len(requests) : requests'[r] = requests[r]
    BY <1>0, <1>2, <2>1
  <2>3. DOMAIN requests = 1 .. Len(requests) /\ DOMAIN requests' = 1 .. Len(requests) + 1
    BY <1>0, <2>2
  <2>4. Settles(requests, requests')
    BY <2>2, <2>3 DEF Settles
  <2>5. Len(requests) + 1 <= MaxRequests  BY <1>0, <1>2 DEF Ids
  <2>6. i \in DOMAIN requests'  BY <1>0, <1>2, <2>3
  <2> QED  BY <2>2, <2>4, <2>5, <2>6
<1> QED  BY <1>1, <1>2 DEF Accept

\* Deciding or forgetting one.
LEMMA DecideLemma ==
  ASSUME TypeOK, NEW i \in DOMAIN requests, Decide(i) \/ Forget(i)
  PROVE  requests' \in Seq(Request) /\ Len(requests') <= MaxRequests /\ Settles(requests, requests')
<1>0. requests \in Seq(Request) /\ Len(requests) <= MaxRequests /\ requests[i] \in Request
  BY DEF TypeOK
<1>1. PICK s \in Statuses, m \in Modes :
        /\ requests' = [requests EXCEPT ![i] = [call |-> requests[i].call, status |-> s, mode |-> m]]
        /\ requests[i].status = "pending" \/ (requests[i].status = "approved" /\ s = "expired" /\ m = requests[i].mode)
  <2>1. CASE Decide(i)  BY <2>1 DEF Decide
  <2>2. CASE Forget(i)
    <3>1. "expired" \in Statuses /\ requests[i].mode \in Modes  BY <1>0 DEF Request, Statuses
    <3> QED  BY <2>2, <3>1 DEF Forget
  <2> QED  BY <2>1, <2>2
<1>2. [call |-> requests[i].call, status |-> s, mode |-> m] \in Request
  BY <1>0 DEF Request
<1>3. /\ requests' \in Seq(Request) /\ Len(requests') = Len(requests) /\ DOMAIN requests' = DOMAIN requests
      /\ requests'[i] = [call |-> requests[i].call, status |-> s, mode |-> m]
      /\ \A r \in DOMAIN requests \ {i} : requests'[r] = requests[r]
  BY <1>0, <1>1, <1>2
<1>4. Settles(requests, requests')
  BY <1>1, <1>3 DEF Settles
<1> QED  BY <1>0, <1>3, <1>4

-----------------------------------------------------------------------------
(* The calls' steps.                                                       *)

Outcomes == {"none", "ran", "ran_redacted", "refused", "request_failed", "timeout", "denied", "expired", "queued"}

\* A step in which the queue settles and call c alone moves.
LEMMA CallLemma ==
  ASSUME StepUpInv, NEW c \in Calls,
         requests' \in Seq(Request), Len(requests') <= MaxRequests, Settles(requests, requests'),
         UNCHANGED reachable,
         NEW at \in {"ask", "wait", "done"}, NEW came \in Outcomes,
         NEW r \in Ids \cup {NoRequest}, NEW n \in 0 .. Rounds,
         pc' = [pc EXCEPT ![c] = at], outcome' = [outcome EXCEPT ![c] = came],
         id' = [id EXCEPT ![c] = r], left' = [left EXCEPT ![c] = n],
         Backed(at, came, r, requests')
  PROVE  StepUpInv'
<1>1. TypeOK'
  BY DEF StepUpInv, TypeOK, Outcomes
<1>2. \A k \in Calls : Backed(pc'[k], outcome'[k], id'[k], requests')
  <2> SUFFICES ASSUME NEW k \in Calls PROVE Backed(pc'[k], outcome'[k], id'[k], requests')  OBVIOUS
  <2>1. CASE k = c
    <3>1. pc'[c] = at /\ outcome'[c] = came /\ id'[c] = r  BY DEF StepUpInv, TypeOK
    <3> QED  BY <2>1, <3>1
  <2>2. CASE k # c
    <3>1. pc'[k] = pc[k] /\ outcome'[k] = outcome[k] /\ id'[k] = id[k]  BY <2>2 DEF StepUpInv, TypeOK
    <3>2. Backed(pc[k], outcome[k], id[k], requests')  BY BackedLemma DEF StepUpInv
    <3> QED  BY <3>1, <3>2
  <2> QED  BY <2>1, <2>2
<1> QED  BY <1>1, <1>2 DEF StepUpInv

\* Nothing moves but the queue.
LEMMA QueueLemma ==
  ASSUME StepUpInv, requests' \in Seq(Request), Len(requests') <= MaxRequests, Settles(requests, requests'),
         UNCHANGED <<pc, id, left, outcome>>, reachable' \in BOOLEAN
  PROVE  StepUpInv'
BY BackedLemma DEF StepUpInv, TypeOK

\* A queue settles when it stays.
LEMMA StaysLemma == Settles(requests, requests)
BY DEF Settles

-----------------------------------------------------------------------------
\* What of a call a step leaves alone.
LEMMA SameLemma ==
  ASSUME TypeOK, NEW c \in Calls
  PROVE  /\ id[c] \in Ids \cup {NoRequest} /\ left[c] \in 0 .. Rounds /\ 0 \in 0 .. Rounds /\ Rounds \in 0 .. Rounds
         /\ pc[c] \in {"ask", "wait", "done"} /\ outcome[c] \in Outcomes
         /\ id = [id EXCEPT ![c] = id[c]] /\ outcome = [outcome EXCEPT ![c] = outcome[c]]
         /\ pc = [pc EXCEPT ![c] = pc[c]]
BY ConstantsAssumption DEF TypeOK, Outcomes

\* A call ends without running.
LEMMA EndLemma ==
  ASSUME StepUpInv, NEW c \in Calls, NEW o \in Outcomes \ {"ran", "ran_redacted"}, End(c, o),
         requests' \in Seq(Request), Len(requests') <= MaxRequests, Settles(requests, requests'),
         UNCHANGED reachable, NEW r \in Ids \cup {NoRequest}, id' = [id EXCEPT ![c] = r]
  PROVE  StepUpInv'
<1>1. TypeOK /\ 0 \in 0 .. Rounds  BY SameLemma DEF StepUpInv
<1>2. Backed("done", o, r, requests')  BY DEF Backed, Outcomes
<1> QED  BY <1>1, <1>2, CallLemma DEF End

\* A call runs on request r, which is approved.
LEMMA RunLemma ==
  ASSUME StepUpInv, NEW c \in Calls, NEW r \in Ids, r \in DOMAIN requests',
         requests'[r].status = "approved", Run(c, requests'[r].mode),
         requests' \in Seq(Request), Len(requests') <= MaxRequests, Settles(requests, requests'),
         UNCHANGED reachable, id' = [id EXCEPT ![c] = r]
  PROVE  StepUpInv'
<1>1. TypeOK /\ 0 \in 0 .. Rounds  BY SameLemma DEF StepUpInv
<1>2. PICK o \in {"ran", "ran_redacted", "refused"} :
        End(c, o) /\ (o = "ran" => requests'[r].mode = "full")
  BY DEF Run, Granted
<1>3. Backed("done", o, r, requests')  BY <1>2 DEF Backed
<1>4. o \in Outcomes  BY DEF Outcomes
<1> QED  BY <1>1, <1>2, <1>3, <1>4, CallLemma DEF End

-----------------------------------------------------------------------------
\* The initial states.
LEMMA InitLemma == Init => StepUpInv
<1> SUFFICES ASSUME Init PROVE StepUpInv  OBVIOUS
<1>1. TypeOK
  <2>1. Rounds \in Nat /\ MaxRequests \in Nat  BY ConstantsAssumption
  <2> QED  BY <2>1 DEF Init, TypeOK
<1> QED  BY <1>1 DEF Init, StepUpInv, Backed

\* Every step.
LEMMA NextLemma == StepUpInv /\ [Next]_vars => StepUpInv'
<1> SUFFICES ASSUME StepUpInv, [Next]_vars PROVE StepUpInv'  OBVIOUS
<1>0. /\ TypeOK /\ requests \in Seq(Request) /\ Len(requests) <= MaxRequests /\ Settles(requests, requests)
  BY StaysLemma DEF StepUpInv, TypeOK
<1>1. ASSUME NEW c \in Calls, AskNobody(c) PROVE StepUpInv'
  <2>1. End(c, "refused") /\ UNCHANGED <<requests, reachable, id>>  BY <1>1 DEF AskNobody
  <2>2. "refused" \in Outcomes \ {"ran", "ran_redacted"}  BY DEF Outcomes
  <2> QED  BY <1>0, <2>1, <2>2, SameLemma, EndLemma
<1>2. ASSUME NEW c \in Calls, AskFails(c) PROVE StepUpInv'
  <2>1. End(c, "request_failed") /\ UNCHANGED <<reachable, id>>  BY <1>2 DEF AskFails
  <2>2. "request_failed" \in Outcomes \ {"ran", "ran_redacted"}  BY DEF Outcomes
  <2>3. requests' \in Seq(Request) /\ Len(requests') <= MaxRequests /\ Settles(requests, requests')
    <3>1. CASE UNCHANGED requests  BY <1>0, <3>1
    <3>2. CASE \E i \in Ids : Accept(c, i)  BY <1>0, <3>2, AcceptLemma
    <3> QED  BY <1>2, <3>1, <3>2 DEF AskFails
  <2> QED  BY <1>0, <2>1, <2>2, <2>3, SameLemma, EndLemma
<1>3. ASSUME NEW c \in Calls, Ask(c) PROVE StepUpInv'
  <2>1. PICK i \in Ids :
          /\ Accept(c, i) /\ id' = [id EXCEPT ![c] = i]
          /\ IF requests'[i].status = "approved" THEN Run(c, requests'[i].mode)
             ELSE /\ pc' = [pc EXCEPT ![c] = "wait"] /\ left' = [left EXCEPT ![c] = Rounds] /\ UNCHANGED outcome
    BY <1>3 DEF Ask
  <2>2. /\ requests' \in Seq(Request) /\ Len(requests') <= MaxRequests
        /\ i \in DOMAIN requests' /\ Settles(requests, requests')
    BY <1>0, <2>1, AcceptLemma
  <2>3. UNCHANGED reachable /\ pc[c] = "ask"  BY <1>3 DEF Ask
  <2>4. CASE requests'[i].status = "approved"
    BY <2>1, <2>2, <2>3, <2>4, RunLemma
  <2>5. CASE requests'[i].status # "approved"
    <3>1. /\ pc' = [pc EXCEPT ![c] = "wait"] /\ left' = [left EXCEPT ![c] = Rounds]
          /\ outcome' = [outcome EXCEPT ![c] = outcome[c]] /\ outcome[c] \in Outcomes /\ Rounds \in 0 .. Rounds
      BY <1>0, <2>1, <2>5, SameLemma
    <3>2. outcome[c] = "none"  BY <2>3 DEF StepUpInv, Backed
    <3>3. Backed("wait", outcome[c], i, requests')  BY <2>2, <3>2 DEF Backed
    <3> QED  BY <2>1, <2>2, <2>3, <3>1, <3>3, CallLemma
  <2> QED  BY <2>4, <2>5
<1>4. ASSUME NEW c \in Calls, Enqueue(c) PROVE StepUpInv'
  <2>1. PICK i \in Ids : Accept(c, i) /\ id' = [id EXCEPT ![c] = i]  BY <1>4 DEF Enqueue
  <2>2. End(c, "queued") /\ UNCHANGED reachable  BY <1>4 DEF Enqueue
  <2>3. "queued" \in Outcomes \ {"ran", "ran_redacted"}  BY DEF Outcomes
  <2> QED  BY <1>0, <2>1, <2>2, <2>3, AcceptLemma, EndLemma
<1>5. ASSUME NEW c \in Calls, Poll(c) PROVE StepUpInv'
  <2>1. pc[c] = "wait" /\ left[c] > 0 /\ UNCHANGED <<requests, reachable, id>>  BY <1>5 DEF Poll
  <2>2. id[c] \in DOMAIN requests /\ id[c] \in Ids /\ outcome[c] = "none"
    <3>1. id[c] \in DOMAIN requests /\ outcome[c] = "none"  BY <2>1 DEF StepUpInv, Backed
    <3>2. id[c] \in Nat  BY <1>0, <3>1
    <3>3. id[c] \in Ids  BY <1>0, <3>2, SameLemma, ConstantsAssumption
    <3> QED  BY <3>1, <3>3
  <2>3. id' = [id EXCEPT ![c] = id[c]]  BY <1>0, <2>1, SameLemma
  <2>4. CASE Again(c)
    <3>1. PICK n \in 0 .. left[c] - 1 : left' = [left EXCEPT ![c] = n]  BY <2>4 DEF Again
    <3>2. n \in 0 .. Rounds  BY <1>0, <3>1, ConstantsAssumption DEF TypeOK
    <3>3. pc' = [pc EXCEPT ![c] = "wait"] /\ outcome' = [outcome EXCEPT ![c] = "none"]
      BY <1>0, <2>1, <2>2, <2>4, SameLemma DEF Again
    <3>4. Backed("wait", "none", id[c], requests')  BY <2>1, <2>2 DEF Backed
    <3>5. "none" \in Outcomes  BY DEF Outcomes
    <3> QED  BY <1>0, <2>1, <2>2, <2>3, <3>1, <3>2, <3>3, <3>4, <3>5, CallLemma
  <2>5. CASE requests[id[c]].status = "approved" /\ Run(c, requests[id[c]].mode)
    BY <1>0, <2>1, <2>2, <2>3, <2>5, RunLemma
  <2>6. CASE requests[id[c]].status \in {"denied", "expired"} /\ End(c, requests[id[c]].status)
    <3>1. requests[id[c]].status \in Outcomes \ {"ran", "ran_redacted"}  BY <2>6 DEF Outcomes
    <3> QED  BY <1>0, <2>1, <2>2, <2>3, <2>6, <3>1, EndLemma
  <2> QED  BY <1>5, <2>4, <2>5, <2>6 DEF Poll
<1>6. ASSUME NEW c \in Calls, Timeout(c) PROVE StepUpInv'
  <2>1. End(c, "timeout") /\ UNCHANGED <<requests, reachable, id>>  BY <1>6 DEF Timeout
  <2>2. "timeout" \in Outcomes \ {"ran", "ran_redacted"}  BY DEF Outcomes
  <2> QED  BY <1>0, <2>1, <2>2, SameLemma, EndLemma
<1>7. ASSUME NEW i \in DOMAIN requests, Decide(i) \/ Forget(i) PROVE StepUpInv'
  <2>1. UNCHANGED <<reachable, pc, id, left, outcome>>  BY <1>7 DEF Decide, Forget
  <2>2. reachable' \in BOOLEAN  BY <1>0, <2>1 DEF TypeOK
  <2> QED  BY <1>0, <1>7, <2>1, <2>2, DecideLemma, QueueLemma
<1>8. CASE Enroll
  BY <1>0, <1>8, QueueLemma DEF Enroll
<1>9. CASE UNCHANGED vars
  <2>1. UNCHANGED <<requests, reachable, pc, id, left, outcome>>  BY <1>9 DEF vars
  <2>2. reachable' \in BOOLEAN  BY <1>0, <2>1 DEF TypeOK
  <2> QED  BY <1>0, <2>1, <2>2, QueueLemma
<1> QED  BY <1>1, <1>2, <1>3, <1>4, <1>5, <1>6, <1>7, <1>8, <1>9 DEF Next, Wait

\* The invariant, for every instance.
THEOREM StepUpInvariant == Spec => []StepUpInv
<1> QED  BY InitLemma, NextLemma, PTL DEF Spec

\* The queue and the calls keep their types.
THEOREM StepUpTypeCorrect == Spec => []TypeOK
<1>1. StepUpInv => TypeOK  BY DEF StepUpInv
<1> QED  BY <1>1, StepUpInvariant, PTL

\* A call runs as it is only on a request approved in full, and stripped only on
\* an approved one (await_step_up, _decision_mode).
THEOREM RunsOnlyAsApproved == Spec => []RunsAsApproved
<1>1. StepUpInv => RunsAsApproved  BY DEF StepUpInv, RunsAsApproved, Backed
<1> QED  BY <1>1, StepUpInvariant, PTL

=============================================================================
