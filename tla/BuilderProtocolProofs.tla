------------------------ MODULE BuilderProtocolProofs ------------------------
(* Proofs about BuilderProtocol, for every value of its constants: any      *)
(* number of builders, jobs and faults.                                     *)
EXTENDS BuilderProtocol, BuildQueueProofs

-----------------------------------------------------------------------------
(* The inductive invariant.  StreamInStep says how many messages are on the *)
(* stream and of which type; to keep it one has to know where the one       *)
(* message is, that it speaks of the worker's own job, and that nothing is  *)
(* left behind on a connection that is gone.  What builders execute is      *)
(* bound to the leases through the jobs they have in hand, those whose Job  *)
(* response is still on its way included.                                   *)

\* Nothing is on its way between b's worker and its handler.
Quiet(b) == toServer[b] = <<>> /\ serving[b] = NoReq /\ toWorker[b] = <<>>

\* Request r is the one whose response b's worker awaits.
IsAwaited(b, r) == r.type = Awaits[pc[b]] /\ r.job = cur[b]

\* The three places of the one message while the worker awaits a response.
Unread(b) ==
    /\ Len(toServer[b]) = 1 /\ IsAwaited(b, toServer[b][1])
    /\ serving[b] = NoReq
    /\ toWorker[b] = <<>>

BeingServed(b) ==
    /\ toServer[b] = <<>>
    /\ serving[b] # NoReq /\ IsAwaited(b, serving[b])
    /\ toWorker[b] = <<>>

Answered(b) ==
    /\ toServer[b] = <<>>
    /\ serving[b] = NoReq
    /\ Len(toWorker[b]) = 1
    /\ toWorker[b][1].type \in AnswersOf(Awaits[pc[b]])
    /\ toWorker[b][1].type = "Job" => toWorker[b][1].job # 0

InStepOf(b) ==
    IF link[b] = "up" /\ pc[b] \in DOMAIN Awaits
    THEN Unread(b) \/ BeingServed(b) \/ Answered(b)
    ELSE Quiet(b)

\* A worker that is not working for a requester has no connection, and it has
\* a job exactly in the states of execute_job.
Idle == {"rest", "connect", "ready", "pulling"}
WorksOnJob(b) ==
    /\ pc[b] \in {"rest", "connect"} => link[b] # "up"
    /\ cur[b] = 0 <=> pc[b] \in Idle

\* Jobs of the present queue that b executes or is about to be told of.
OnTheWay(b) == {toWorker[b][i].job : i \in {k \in DOMAIN toWorker[b] :
                                                toWorker[b][k].type = "Job"}}
InHand(b) == IF link[b] = "lost" THEN {} ELSE ({cur[b]} \cup OnTheWay(b)) \ {0}

HandHasLease == \A b \in Builder : \A j \in InHand(b) : holder[j] = b \/ j \in Done
InOneHand == \A b, c \in Builder : InHand(b) \cap InHand(c) # {} => b = c

\* A CompleteAck that is still on its way is as true as one already read.
AckOnTheWay(b) ==
    \A i \in DOMAIN toWorker[b] :
        toWorker[b][i].type = "CompleteAck" => cur[b] \in accepted

\* A request left behind by a lost connection names a job, unless it is a Pull
\* or a line of log.
StaleNamesJob ==
    \A m \in stale : m.req.type \in {"Heartbeat", "Complete", "Fail"} =>
        m.req.job # 0

ProtocolInv ==
    /\ IndInv
    /\ PTypeOK
    /\ \A b \in Builder : InStepOf(b) /\ WorksOnJob(b) /\ AckOnTheWay(b)
    /\ HandHasLease /\ InOneHand
    /\ AckMeansAccepted
    /\ StaleNamesJob

-----------------------------------------------------------------------------
(* The values that stand for messages. *)

\* Which request each state of the worker awaits the response of.
LEMMA AwaitsFacts ==
    /\ DOMAIN Awaits = {"pulling", "greeting", "beating", "logging",
                        "completing", "failing"}
    /\ Awaits["pulling"] = "Pull" /\ Awaits["greeting"] = "Heartbeat"
    /\ Awaits["beating"] = "Heartbeat" /\ Awaits["logging"] = "BuildLog"
    /\ Awaits["completing"] = "Complete" /\ Awaits["failing"] = "Fail"
  BY DEF Awaits

\* Which responses each request may get.
LEMMA AnswersFacts ==
    /\ AnswersOf("Pull") = {"Job", "NoJob"}
    /\ AnswersOf("Heartbeat") = {"HeartbeatAck", "Error"}
    /\ AnswersOf("Complete") = {"CompleteAck", "Error"}
    /\ AnswersOf("Fail") = {"FailAck", "Error"}
    /\ AnswersOf("BuildLog") = {"LogAck"}
  BY DEF AnswersOf

\* A stream that carries one message is empty once it is read.
LEMMA OneMessage ==
    ASSUME NEW S, NEW s \in Seq(S), Len(s) = 1
    PROVE  /\ DOMAIN s = {1} /\ s[1] \in S
           /\ Head(s) = s[1] /\ Tail(s) = <<>>
  <1>1. DOMAIN s = {1} /\ s[1] \in S /\ Head(s) = s[1]
    OBVIOUS
  <1>2. Tail(s) \in Seq(S) /\ Len(Tail(s)) = 0
    OBVIOUS
  <1>3. ASSUME NEW t \in Seq(S), Len(t) = 0
        PROVE  t = <<>>
    BY <1>3
  <1>4. Tail(s) = <<>>
    BY <1>2, <1>3
  <1> QED
    BY <1>1, <1>4

\* The absent request is no request.
LEMMA NoReqFacts ==
    /\ NoReq.type = "None" /\ NoReq \notin Request
    /\ \A r \in Request : /\ r.type \in {"Pull", "Heartbeat", "Complete", "Fail", "BuildLog"}
                          /\ r.job \in JobId \cup {0} /\ r.looked \in BOOLEAN
  BY DEF NoReq, Request

-----------------------------------------------------------------------------
(* What each step is for the queue. *)

\* The handler's answer to a request is one operation of the queue, or none.
LEMMA AnswerCalls ==
    ASSUME NEW b \in Builder, NEW r \in Request \cup {NoReq}, NEW resp,
           r.type \in {"Heartbeat", "Complete", "Fail"} => r.job # 0,
           Answer(b, r, resp)
    PROVE  Call
  <1>1. CASE r.type = "Pull" /\ AnswerPull(b, resp)
    BY <1>1 DEF AnswerPull, Call
  <1>2. ASSUME r.type \in {"Heartbeat", "Complete", "Fail"}
        PROVE  r.job \in JobId
    BY <1>2, NoReqFacts
  <1>3. CASE r.type = "Heartbeat" /\ AnswerHeartbeat(b, r.job, resp)
    BY <1>2, <1>3 DEF AnswerHeartbeat, Call
  <1>4. CASE r.type = "Complete" /\ AnswerComplete(b, r.job, r.looked, resp)
    BY <1>2, <1>4 DEF AnswerComplete, Call
  <1>5. CASE r.type = "Fail" /\ AnswerFail(b, r.job, resp)
    BY <1>2, <1>5 DEF AnswerFail, Call
  <1>6. CASE r.type = "BuildLog" /\ AnswerLog(resp)
    BY <1>6 DEF AnswerLog, Call
  <1> QED
    BY <1>1, <1>3, <1>4, <1>5, <1>6 DEF Answer

\* The request a handler serves names the job its worker executes.
LEMMA ServedNamesJob ==
    ASSUME ProtocolInv, NEW b \in Builder, serving[b] # NoReq
    PROVE  /\ link[b] = "up" /\ pc[b] \in DOMAIN Awaits /\ BeingServed(b)
           /\ serving[b] \in Request
           /\ serving[b].type \in {"Heartbeat", "Complete", "Fail"} =>
                  serving[b].job # 0
  <1>1. InStepOf(b) /\ WorksOnJob(b)
    BY DEF ProtocolInv
  <1>2. link[b] = "up" /\ pc[b] \in DOMAIN Awaits /\ BeingServed(b)
    BY <1>1 DEF InStepOf, Quiet, Unread, Answered
  <1>3. serving[b] \in Request
    BY DEF ProtocolInv, PTypeOK
  <1> QED
    BY <1>1, <1>2, <1>3, AwaitsFacts DEF BeingServed, IsAwaited, WorksOnJob, Idle

\* Every step but the requester's restart is an operation of the queue other
\* than check_timeouts, or leaves the queue alone.
LEMMA StepCalls ==
    ASSUME ProtocolInv, [PNext]_vars, ~RestartRequester
    PROVE  Call
  <1>1. ASSUME UNCHANGED queueVars PROVE Call
    BY <1>1 DEF Call
  <1>2. CASE RequesterStep
    <2>1. ASSUME NEW s \in Submitter, NEW d \in Drv, NEW F \in SUBSET Feature,
                 SubmitBegin(s, d, F)
          PROVE  Call
      BY <2>1 DEF SubmitBegin, Call
    <2>2. ASSUME NEW s \in Submitter, SubmitEnd(s)
          PROVE  Call
      BY <2>2 DEF SubmitEnd, Call
    <2>3. CASE RepeatAnnouncement
      BY <1>1, <2>3 DEF RepeatAnnouncement
    <2>4. ASSUME NEW j \in JobId, CancelLookUp(j)
          PROVE  Call
      BY <1>1, <2>4 DEF CancelLookUp
    <2>5. CASE CancelFail
      <3>1. cancel.job \in JobId /\ cancel.builder \in Builder
        BY <2>5 DEF CancelFail, ProtocolInv, PTypeOK
      <3> QED
        BY <2>5, <3>1 DEF CancelFail, Call
    <2> QED
      BY <1>2, <2>1, <2>2, <2>3, <2>4, <2>5 DEF RequesterStep
  <1>3. ASSUME NEW b \in Builder,
               HearNeedBuilder(b) \/ WorkerStep(b) \/ WriteLine(b)
        PROVE  Call
    BY <1>1, <1>3 DEF HearNeedBuilder, WorkerStep, WriteLine, WorkerOnly,
         FindRequester, Connect, PullRequest, ReceiveJob, ReceiveNoJob, LeaveIdle,
         GreetBeforeFetch, StartWithoutInputs, ReceiveGreeting, FetchDependencies,
         SendHeartbeat, ReceiveHeartbeatAck, SendLog, ReceiveLogAck, BuildEnds,
         SendComplete, ReceiveCompleteAck, ReceiveCompleteError, SendFail,
         ReceiveFailResponse, NoticeDeadLink, SendRequest, Sends, Receive
  <1>4. ASSUME NEW b \in Builder, HandlerStep(b)
        PROVE  Call
    <2>1. CASE ReadRequest(b) \/ LookUpLease(b)
      BY <1>1, <2>1 DEF ReadRequest, LookUpLease
    <2>2. CASE Serve(b)
      <3>1. PICK resp \in Response : Answer(b, serving[b], resp)
        BY <2>2 DEF Serve
      <3>2. serving[b] # NoReq
        BY <3>1, NoReqFacts DEF Answer
      <3> QED
        BY <3>1, <3>2, ServedNamesJob, AnswerCalls
    <2> QED
      BY <1>4, <2>1, <2>2 DEF HandlerStep
  <1>5. ASSUME NEW m \in stale, ServeStale(m)
        PROVE  Call
    <2>1. /\ m.builder \in Builder /\ m.req \in Request
          /\ m.req.type \in {"Heartbeat", "Complete", "Fail"} => m.req.job # 0
      BY DEF ProtocolInv, PTypeOK, StaleNamesJob
    <2> QED
      BY <1>1, <1>5, <2>1, AnswerCalls DEF ServeStale
  <1>6. CASE FaultStep
    BY <1>1, <1>6 DEF FaultStep, DropConnection, CrashBuilder, NeighborDown,
                      ConnectFails, LoseAnnouncement
  <1>7. CASE UNCHANGED vars
    BY <1>1, <1>7 DEF vars
  <1> QED
    BY <1>2, <1>3, <1>4, <1>5, <1>6, <1>7 DEF PNext

-----------------------------------------------------------------------------
(* The stream of one builder. *)

StreamOf(b) == InStepOf(b) /\ WorksOnJob(b)

\* What the steps below need of the state.
LEMMA StreamState ==
    ASSUME ProtocolInv, NEW b \in Builder
    PROVE  /\ StreamOf(b)
           /\ pc \in [Builder -> WorkerState]
           /\ cur \in [Builder -> JobId \cup {0}]
           /\ link \in [Builder -> {"up", "down", "lost"}]
           /\ toServer \in [Builder -> Seq(Request)]
           /\ toWorker \in [Builder -> Seq(Response)]
           /\ serving \in [Builder -> Request \cup {NoReq}]
  BY DEF ProtocolInv, PTypeOK, StreamOf

\* Steps of the worker that touch no stream: connecting, building, giving up.
LEMMA QuietStep ==
    ASSUME ProtocolInv, NEW b \in Builder,
           \/ FindRequester(b) \/ Connect(b) \/ StartWithoutInputs(b)
           \/ FetchDependencies(b) \/ WriteLine(b) \/ BuildEnds(b)
           \/ NoticeDeadLink(b) \/ ConnectFails(b)
    PROVE  StreamOf(b)'
  <1> USE StreamState, AwaitsFacts DEF StreamOf, WorksOnJob, Idle
  <1>1. CASE WriteLine(b)
    BY <1>1 DEF WriteLine, netVars, InStepOf, Quiet, Unread, BeingServed,
                Answered, IsAwaited
  <1>2. ASSUME UNCHANGED <<toServer, toWorker, serving>>,
               pc'[b] \notin DOMAIN Awaits, Quiet(b)
        PROVE  InStepOf(b)'
    BY <1>2 DEF InStepOf, Quiet
  <1>3. CASE FindRequester(b) \/ ConnectFails(b)
    <2>1. pc'[b] \in {"rest", "connect"} /\ pc[b] \in {"rest", "connect"}
          /\ UNCHANGED <<toServer, toWorker, serving, link, cur>>
      BY <1>3 DEF FindRequester, ConnectFails, Goto, netVars
    <2> QED
      BY <1>2, <2>1 DEF InStepOf
  <1>4. CASE Connect(b)
    <2>1. pc'[b] = "ready" /\ pc[b] = "connect"
          /\ UNCHANGED <<toServer, toWorker, serving, cur>>
      BY <1>4 DEF Connect, Goto
    <2> QED
      BY <1>2, <2>1 DEF InStepOf
  <1>5. CASE StartWithoutInputs(b) \/ FetchDependencies(b) \/ BuildEnds(b)
    <2>1. /\ pc'[b] \in {"build", "built", "broken"}
          /\ pc[b] \in {"start", "fetch", "build"}
          /\ UNCHANGED <<toServer, toWorker, serving, link, cur>>
      BY <1>5 DEF StartWithoutInputs, FetchDependencies, BuildEnds, StartBuild,
                  Goto, netVars
    <2> QED
      BY <1>2, <2>1 DEF InStepOf
  <1>6. CASE NoticeDeadLink(b)
    <2>1. /\ pc'[b] = "rest" /\ cur'[b] = 0 /\ link[b] # "up"
          /\ UNCHANGED <<toServer, toWorker, serving, link>>
      BY <1>6 DEF NoticeDeadLink, Goto, netVars
    <2> QED
      BY <1>2, <2>1 DEF InStepOf
  <1> QED
    BY <1>1, <1>3, <1>4, <1>5, <1>6

\* send_request puts one message on a stream that carries none.
LEMMA SendStep ==
    ASSUME ProtocolInv, NEW b \in Builder,
           \/ PullRequest(b) \/ GreetBeforeFetch(b) \/ SendHeartbeat(b)
           \/ SendLog(b) \/ SendComplete(b) \/ SendFail(b)
    PROVE  StreamOf(b)'
  <1> USE StreamState, AwaitsFacts
  <1>1. ASSUME NEW type \in {"Pull", "Heartbeat", "Complete", "Fail", "BuildLog"},
               NEW where \in DOMAIN Awaits,
               Sends(b, type, where), type = Awaits[where],
               pc[b] \notin DOMAIN Awaits, pc[b] \notin {"rest", "connect"},
               pc[b] \in Idle <=> where \in Idle
        PROVE  StreamOf(b)'
    <2> DEFINE r == [type |-> type, job |-> cur[b], looked |-> FALSE]
    <2>1. Quiet(b) /\ link[b] = "up"
      BY <1>1 DEF StreamOf, InStepOf, Sends
    <2>2. r \in Request /\ r.type = type /\ r.job = cur[b]
      BY DEF Request
    <2>3. /\ toServer' = [toServer EXCEPT ![b] = Append(@, r)]
          /\ pc'[b] = where
          /\ UNCHANGED <<link, toWorker, serving, cur>>
      BY <1>1 DEF Sends, Goto
    <2> HIDE DEF r
    <2>4. toServer'[b] = Append(<<>>, r)
      BY <2>1, <2>3 DEF Quiet
    <2>5. Len(toServer'[b]) = 1 /\ toServer'[b][1] = r
      BY <2>2, <2>4
    <2>6. Unread(b)'
      BY <1>1, <2>1, <2>2, <2>3, <2>5 DEF Unread, IsAwaited, Quiet
    <2>7. WorksOnJob(b)'
      BY <1>1, <2>1, <2>3 DEF WorksOnJob, StreamOf, Idle
    <2> QED
      BY <1>1, <2>1, <2>3, <2>6, <2>7 DEF StreamOf, InStepOf
  <1>2. CASE PullRequest(b)
    BY <1>1, <1>2 DEF PullRequest, SendRequest, Idle
  <1>3. CASE GreetBeforeFetch(b)
    BY <1>1, <1>3 DEF GreetBeforeFetch, SendRequest, Idle
  <1>4. CASE SendHeartbeat(b)
    BY <1>1, <1>4 DEF SendHeartbeat, SendRequest, Idle
  <1>5. CASE SendLog(b)
    BY <1>1, <1>5 DEF SendLog, Idle
  <1>6. CASE SendComplete(b)
    BY <1>1, <1>6 DEF SendComplete, SendRequest, Idle
  <1>7. CASE SendFail(b)
    BY <1>1, <1>7 DEF SendFail, SendRequest, Idle
  <1> QED
    BY <1>2, <1>3, <1>4, <1>5, <1>6, <1>7

\* A worker that reads a response finds the answer to what it asked, and the
\* stream is empty afterwards.
LEMMA ReceiveEmpties ==
    ASSUME ProtocolInv, NEW b \in Builder, NEW types, Receive(b, types),
           pc[b] \in DOMAIN Awaits
    PROVE  /\ link[b] = "up" /\ Answered(b) /\ Head(toWorker[b]) = toWorker[b][1]
           /\ toWorker[b][1] \in Response /\ DOMAIN toWorker[b] = {1}
           /\ toWorker[b][1].type \in types
           /\ Quiet(b)' /\ UNCHANGED link
  <1>1. /\ link[b] = "up" /\ toWorker[b] # <<>>
        /\ toWorker' = [toWorker EXCEPT ![b] = Tail(@)]
        /\ UNCHANGED <<link, toServer, serving>>
        /\ Head(toWorker[b]).type \in types
    BY DEF Receive
  <1>2. Answered(b)
    BY <1>1, StreamState DEF StreamOf, InStepOf, Unread, BeingServed
  <1>3. toWorker[b] \in Seq(Response) /\ Len(toWorker[b]) = 1
    BY <1>2, StreamState DEF Answered
  <1>4. /\ DOMAIN toWorker[b] = {1} /\ toWorker[b][1] \in Response
        /\ Head(toWorker[b]) = toWorker[b][1] /\ Tail(toWorker[b]) = <<>>
    BY <1>3, OneMessage
  <1>5. toWorker'[b] = <<>>
    BY <1>1, <1>4, StreamState
  <1> QED
    BY <1>1, <1>2, <1>4, <1>5 DEF Quiet, Answered

\* recv_response takes the one message off the stream.
LEMMA ReceiveStep ==
    ASSUME ProtocolInv, NEW b \in Builder,
           \/ ReceiveJob(b) \/ ReceiveNoJob(b) \/ LeaveIdle(b)
           \/ ReceiveGreeting(b) \/ ReceiveHeartbeatAck(b) \/ ReceiveLogAck(b)
           \/ ReceiveCompleteAck(b) \/ ReceiveCompleteError(b)
           \/ ReceiveFailResponse(b)
    PROVE  StreamOf(b)'
  <1> USE StreamState, AwaitsFacts DEF StreamOf, WorksOnJob, Idle
  <1>1. ASSUME Quiet(b)', pc'[b] \notin DOMAIN Awaits
        PROVE  InStepOf(b)'
    BY <1>1 DEF InStepOf
  <1>2. CASE ReceiveJob(b)
    <2>1. /\ pc[b] = "pulling" /\ pc'[b] = "start"
          /\ Receive(b, {"Job"})
          /\ cur'[b] = Head(toWorker[b]).job
      BY <1>2 DEF ReceiveJob, Goto
    <2>2. /\ Answered(b) /\ Head(toWorker[b]) = toWorker[b][1]
          /\ toWorker[b][1].type = "Job"
          /\ Quiet(b)' /\ UNCHANGED link
      BY <2>1, ReceiveEmpties
    <2>3. cur'[b] # 0
      BY <2>1, <2>2 DEF Answered
    <2> QED
      BY <1>1, <2>1, <2>2, <2>3
  <1>3. CASE LeaveIdle(b)
    <2>1. /\ pc[b] = "pulling" /\ pc'[b] = "rest" /\ link'[b] = "down"
          /\ cur' = cur /\ toWorker'[b] = <<>> /\ toWorker[b] # <<>>
          /\ link[b] = "up" /\ UNCHANGED <<toServer, serving>>
      BY <1>3 DEF LeaveIdle, Goto
    <2>2. Answered(b)
      BY <2>1 DEF InStepOf, Unread, BeingServed
    <2>3. Quiet(b)'
      BY <2>1, <2>2 DEF Answered, Quiet
    <2> QED
      BY <1>1, <2>1, <2>3
  <1>4. CASE ReceiveNoJob(b)
    <2>1. /\ pc[b] = "pulling" /\ pc'[b] = "ready"
          /\ Receive(b, {"NoJob"}) /\ cur' = cur
      BY <1>4 DEF ReceiveNoJob, Goto
    <2> QED
      BY <1>1, <2>1, ReceiveEmpties
  <1>5. CASE \/ ReceiveGreeting(b) \/ ReceiveHeartbeatAck(b) \/ ReceiveLogAck(b)
             \/ ReceiveCompleteError(b)
    <2>1. /\ pc[b] \in DOMAIN Awaits \ {"pulling"}
          /\ pc'[b] \in {"fetch", "build", "broken"}
          /\ cur' = cur /\ \E types : Receive(b, types)
      BY <1>5 DEF ReceiveGreeting, ReceiveHeartbeatAck, ReceiveLogAck,
                  ReceiveCompleteError, Goto
    <2> QED
      BY <1>1, <2>1, ReceiveEmpties
  <1>6. CASE ReceiveCompleteAck(b) \/ ReceiveFailResponse(b)
    <2>1. /\ pc[b] \in DOMAIN Awaits /\ pc'[b] = "ready"
          /\ cur'[b] = 0 /\ \E types : Receive(b, types)
      BY <1>6 DEF ReceiveCompleteAck, ReceiveFailResponse, Goto
    <2> QED
      BY <1>1, <2>1, ReceiveEmpties
  <1> QED
    BY <1>2, <1>3, <1>4, <1>5, <1>6

\* The handler moves the one message on: reads it, looks the lease up, answers.
LEMMA HandlerStreamStep ==
    ASSUME ProtocolInv, NEW b \in Builder, HandlerStep(b)
    PROVE  StreamOf(b)'
  <1> USE StreamState
  <1>1. CASE ReadRequest(b)
    <2>1. /\ serving[b] = NoReq /\ toServer[b] # <<>>
          /\ serving' = [serving EXCEPT ![b] = Head(toServer[b])]
          /\ toServer' = [toServer EXCEPT ![b] = Tail(@)]
          /\ UNCHANGED <<pc, cur, link, toWorker>>
      BY <1>1 DEF ReadRequest, workerVars
    <2>2. Unread(b) /\ link[b] = "up" /\ pc[b] \in DOMAIN Awaits
      BY <2>1 DEF StreamOf, InStepOf, Quiet, BeingServed, Answered
    <2>3. /\ Head(toServer[b]) = toServer[b][1] /\ Tail(toServer[b]) = <<>>
          /\ toServer[b][1] \in Request
      BY <2>2, OneMessage DEF Unread
    <2>4. serving'[b] = toServer[b][1] /\ toServer'[b] = <<>>
      BY <2>1, <2>3
    <2>5. BeingServed(b)'
      BY <2>1, <2>2, <2>3, <2>4, NoReqFacts DEF Unread, BeingServed, IsAwaited
    <2> QED
      BY <2>1, <2>2, <2>5 DEF StreamOf, InStepOf, WorksOnJob
  <1>2. CASE LookUpLease(b)
    <2>1. /\ serving' = [serving EXCEPT ![b].looked = TRUE]
          /\ serving[b].type = "Complete"
          /\ UNCHANGED <<pc, cur, link, toServer, toWorker>>
      BY <1>2 DEF LookUpLease, Looks, workerVars
    <2>2. /\ BeingServed(b) /\ link[b] = "up" /\ pc[b] \in DOMAIN Awaits
          /\ serving[b] \in Request
      BY <2>1, ServedNamesJob, NoReqFacts
    <2>3. serving'[b] = [serving[b] EXCEPT !.looked = TRUE]
      BY <2>1
    <2>4. serving'[b] \in Request /\ serving'[b].type = serving[b].type
          /\ serving'[b].job = serving[b].job
      BY <2>2, <2>3 DEF Request
    <2>5. BeingServed(b)'
      BY <2>1, <2>2, <2>4, NoReqFacts DEF BeingServed, IsAwaited
    <2> QED
      BY <2>1, <2>2, <2>5 DEF StreamOf, InStepOf, WorksOnJob
  <1>3. CASE Serve(b)
    <2>1. PICK resp \in Response :
              /\ Answer(b, serving[b], resp)
              /\ toWorker' = [toWorker EXCEPT ![b] = Append(@, resp)]
              /\ serving' = [serving EXCEPT ![b] = NoReq]
              /\ UNCHANGED <<pc, cur, link, toServer>>
      BY <1>3 DEF Serve, workerVars
    <2>2. serving[b] # NoReq
      BY <2>1, NoReqFacts DEF Answer
    <2>3. BeingServed(b) /\ link[b] = "up" /\ pc[b] \in DOMAIN Awaits
      BY <2>2, ServedNamesJob
    <2>4. /\ resp.type \in AnswersOf(serving[b].type)
          /\ resp.type = "Job" => resp.job # 0
      <3>1. ASSUME AnswerPull(b, resp)
            PROVE  /\ resp.type \in {"Job", "NoJob"}
                   /\ resp.type = "Job" => resp.job # 0
        <4>1. \A i \in Matching(b) : pending[i] \in JobId
          BY DEF Matching, ProtocolInv, IndInv, TypeOK
        <4> QED
          BY <3>1, <4>1 DEF AnswerPull, Reply, JobId
      <3> QED
        BY <2>1, <3>1, AnswersFacts DEF Answer, AnswerHeartbeat, AnswerComplete,
                                       AnswerFail, AnswerLog, Reply
    <2>5. toWorker'[b] = Append(<<>>, resp)
      BY <2>1, <2>3 DEF BeingServed
    <2>6. Len(toWorker'[b]) = 1 /\ toWorker'[b][1] = resp
      BY <2>5
    <2>7. Answered(b)'
      BY <2>1, <2>3, <2>4, <2>6 DEF BeingServed, IsAwaited, Answered
    <2> QED
      BY <2>1, <2>3, <2>7 DEF StreamOf, InStepOf, WorksOnJob
  <1> QED
    BY <1>1, <1>2, <1>3 DEF HandlerStep

\* A lost connection leaves nothing on the stream; the requester's restart
\* loses all connections, and the workers do not know it yet.
LEMMA LossStep ==
    ASSUME ProtocolInv, NEW b \in Builder,
           DropConnection(b) \/ CrashBuilder(b) \/ RestartRequester
    PROVE  StreamOf(b)'
  <1> USE StreamState DEF StreamOf, WorksOnJob, InStepOf
  <1>1. CASE DropConnection(b)
    <2>1. Quiet(b)' /\ link'[b] = "down" /\ UNCHANGED <<pc, cur>>
      BY <1>1 DEF DropConnection, LoseLink, Quiet, workerVars
    <2> QED
      BY <2>1
  <1>2. CASE CrashBuilder(b)
    <2>1. Quiet(b)' /\ link'[b] = "down" /\ pc'[b] = "rest" /\ cur'[b] = 0
      BY <1>2 DEF CrashBuilder, LoseLink, Quiet
    <2> QED
      BY <2>1 DEF Idle
  <1>3. CASE RestartRequester
    <2>1. Quiet(b)' /\ link'[b] = "lost" /\ UNCHANGED <<pc, cur>>
      BY <1>3 DEF RestartRequester, Quiet
    <2> QED
      BY <2>1
  <1> QED
    BY <1>1, <1>2, <1>3

\* Whatever happens elsewhere leaves a builder's stream alone.
LEMMA ElsewhereStep ==
    ASSUME NEW b \in Builder, StreamOf(b),
           UNCHANGED <<pc[b], cur[b], link[b], toServer[b], toWorker[b], serving[b]>>
    PROVE  StreamOf(b)'
  BY DEF StreamOf, InStepOf, WorksOnJob, Quiet, Unread, BeingServed, Answered,
         IsAwaited

\* What the other lemmas need to know of builder b in a step of another.
LocalOf(b) == <<pc[b], cur[b], link[b], toServer[b], toWorker[b], serving[b], acked[b]>>

\* The steps that change what is local to builder b.
OwnStep(b) ==
    \/ WorkerStep(b) \/ WriteLine(b) \/ HandlerStep(b)
    \/ DropConnection(b) \/ CrashBuilder(b) \/ ConnectFails(b)

\* A step is a builder's own, the requester's restart, or leaves the builder's
\* local state alone.
LEMMA StepLocal ==
    ASSUME ProtocolInv, [PNext]_vars, ~RestartRequester, NEW b \in Builder, ~OwnStep(b)
    PROVE  UNCHANGED LocalOf(b)
  <1> USE StreamState DEF LocalOf
  <1>1. acked \in [Builder -> SUBSET JobId]
    BY DEF ProtocolInv, PTypeOK
  <1>2. ASSUME UNCHANGED <<workerVars, netVars>> PROVE UNCHANGED LocalOf(b)
    BY <1>2 DEF workerVars, netVars
  <1>3. CASE RequesterStep
    BY <1>2, <1>3 DEF RequesterStep, SubmitBegin, SubmitEnd, RepeatAnnouncement,
                      CancelLookUp, CancelFail, protoVars, workerVars, netVars, logVars
  <1>4. ASSUME NEW c \in Builder, c # b, WorkerStep(c) \/ WriteLine(c)
        PROVE  UNCHANGED LocalOf(b)
    BY <1>1, <1>4 DEF WorkerStep, WriteLine, netVars, Goto, StartBuild,
         FindRequester, Connect, PullRequest, ReceiveJob, ReceiveNoJob, LeaveIdle,
         GreetBeforeFetch, StartWithoutInputs, ReceiveGreeting, FetchDependencies,
         SendHeartbeat, ReceiveHeartbeatAck, SendLog, ReceiveLogAck, BuildEnds,
         SendComplete, ReceiveCompleteAck, ReceiveCompleteError, SendFail,
         ReceiveFailResponse, NoticeDeadLink, SendRequest, Sends, Receive
  <1>5. ASSUME NEW c \in Builder, c # b, HandlerStep(c)
        PROVE  UNCHANGED LocalOf(b)
    BY <1>1, <1>5 DEF HandlerStep, ReadRequest, LookUpLease, Serve, workerVars
  <1>6. ASSUME NEW c \in Builder, HearNeedBuilder(c)
        PROVE  UNCHANGED LocalOf(b)
    BY <1>2, <1>6 DEF HearNeedBuilder
  <1>7. ASSUME NEW m \in stale, ServeStale(m)
        PROVE  UNCHANGED LocalOf(b)
    BY <1>7 DEF ServeStale, workerVars
  <1>8. ASSUME NEW c \in Builder, c # b,
               DropConnection(c) \/ CrashBuilder(c) \/ ConnectFails(c)
        PROVE  UNCHANGED LocalOf(b)
    BY <1>1, <1>8 DEF DropConnection, CrashBuilder, ConnectFails, LoseLink,
                      workerVars, netVars
  <1>9. ASSUME NEW c \in Builder, NeighborDown(c) \/ LoseAnnouncement(c)
        PROVE  UNCHANGED LocalOf(b)
    BY <1>2, <1>9 DEF NeighborDown, LoseAnnouncement
  <1>10. CASE UNCHANGED vars
    BY <1>2, <1>10 DEF vars, protoVars, workerVars, netVars, logVars
  <1> QED
    BY <1>3, <1>4, <1>5, <1>6, <1>7, <1>8, <1>9, <1>10 DEF PNext, FaultStep, OwnStep

\* Every step keeps every stream in step.
LEMMA StreamStep ==
    ASSUME ProtocolInv, [PNext]_vars
    PROVE  \A b \in Builder : StreamOf(b)'
  <1> SUFFICES ASSUME NEW b \in Builder PROVE StreamOf(b)'
    OBVIOUS
  <1>1. CASE RestartRequester
    BY <1>1, LossStep
  <1>2. CASE ~RestartRequester /\ ~OwnStep(b)
    BY <1>2, StepLocal, StreamState, ElsewhereStep DEF LocalOf
  <1>3. CASE WorkerStep(b)
    BY <1>3, QuietStep, SendStep, ReceiveStep DEF WorkerStep
  <1>4. CASE OwnStep(b) /\ ~WorkerStep(b)
    BY <1>4, QuietStep, HandlerStreamStep, LossStep DEF OwnStep
  <1> QED
    BY <1>1, <1>2, <1>3, <1>4

-----------------------------------------------------------------------------
(* The queue under the protocol. *)

\* A restarted requester has a new queue.
LEMMA RestartQueue == RestartRequester => IndInv'
  <1>1. RestartRequester => Init'
    BY DEF RestartRequester, Init
  <1>2. (Init => IndInv)'
    BY InitInv, PTL
  <1> QED
    BY <1>1, <1>2

\* The queue's own invariant holds under the protocol.
LEMMA QueueStep ==
    ASSUME ProtocolInv, [PNext]_vars
    PROVE  IndInv'
  <1>1. CASE RestartRequester
    BY <1>1, RestartQueue
  <1>2. CASE ~RestartRequester
    BY <1>2, StepCalls, CallKeeps DEF ProtocolInv
  <1> QED
    BY <1>1, <1>2

-----------------------------------------------------------------------------
(* Types. *)

ProtocolTypes ==
    /\ pc \in [Builder -> WorkerState]
    /\ cur \in [Builder -> JobId \cup {0}]
    /\ output \in [Builder -> 0 .. MaxLines]
    /\ lines \in [Builder -> 0 .. LogCapacity]
    /\ acked \in [Builder -> SUBSET JobId]

NetTypes ==
    /\ link \in [Builder -> {"up", "down", "lost"}]
    /\ toServer \in [Builder -> Seq(Request)]
    /\ toWorker \in [Builder -> Seq(Response)]
    /\ serving \in [Builder -> Request \cup {NoReq}]
    /\ stale \in SUBSET [builder: Builder, req: Request]

SharedTypes ==
    /\ heard \in [Builder -> (SUBSET Feature) \cup {Null}]
    /\ air \in [Builder -> SUBSET SUBSET Feature]
    /\ cancel \in [job: JobId, builder: Builder] \cup {Null}
    /\ faults \in 0 .. MaxFaults

\* The parts of the type invariant.
LEMMA TypeParts == PTypeOK <=> TypeOK /\ ProtocolTypes /\ NetTypes /\ SharedTypes
  BY DEF PTypeOK, ProtocolTypes, NetTypes, SharedTypes

\* The worker's own state keeps its type.
LEMMA WorkerTypeStep ==
    ASSUME ProtocolInv, [PNext]_vars
    PROVE  ProtocolTypes'
  <1>1. ProtocolTypes /\ NetTypes
    BY TypeParts DEF ProtocolInv
  <1>2. WorkerState = {"rest", "connect", "ready", "start", "fetch", "build",
                       "built", "broken", "pulling", "greeting", "beating",
                       "logging", "completing", "failing"}
    BY AwaitsFacts DEF WorkerState
  <1>3. /\ MaxLines \in Nat /\ LogCapacity \in Nat
        /\ 0 \in 0 .. MaxLines /\ 0 \in 0 .. LogCapacity
    BY ProtocolAssumption
  <1> USE <1>1, <1>2, <1>3 DEF ProtocolTypes
  <1>4. ASSUME UNCHANGED workerVars PROVE ProtocolTypes'
    BY <1>4 DEF workerVars, logVars
  <1>5. ASSUME NEW b \in Builder,
               \/ FindRequester(b) \/ Connect(b) \/ LeaveIdle(b)
               \/ ReceiveNoJob(b) \/ ReceiveGreeting(b) \/ ReceiveHeartbeatAck(b)
               \/ ReceiveLogAck(b) \/ ReceiveCompleteError(b) \/ ConnectFails(b)
               \/ PullRequest(b) \/ GreetBeforeFetch(b) \/ SendHeartbeat(b)
               \/ SendComplete(b) \/ SendFail(b)
        PROVE  ProtocolTypes'
    BY <1>5 DEF FindRequester, Connect, LeaveIdle, ReceiveNoJob, ReceiveGreeting,
                ReceiveHeartbeatAck, ReceiveLogAck, ReceiveCompleteError,
                ConnectFails, PullRequest, GreetBeforeFetch, SendHeartbeat,
                SendComplete, SendFail, SendRequest, Sends, Receive, Goto, logVars
  <1>6. ASSUME NEW b \in Builder, SendLog(b) \/ BuildEnds(b) \/ WriteLine(b)
        PROVE  ProtocolTypes'
    <2>1. lines' \in [Builder -> 0 .. LogCapacity]
      BY <1>6 DEF SendLog, BuildEnds, WriteLine
    <2>2. output' \in [Builder -> 0 .. MaxLines]
      <3>1. CASE SendLog(b) \/ BuildEnds(b)
        BY <3>1 DEF SendLog, BuildEnds, Sends
      <3>2. CASE WriteLine(b)
        <4>1. output[b] > 0 /\ output[b] \in 0 .. MaxLines
              /\ output' = [output EXCEPT ![b] = @ - 1]
          BY <3>2 DEF WriteLine
        <4>2. output[b] - 1 \in 0 .. MaxLines
          BY <4>1
        <4> QED
          BY <4>1, <4>2
      <3> QED
        BY <1>6, <3>1, <3>2
    <2> QED
      BY <1>6, <2>1, <2>2 DEF SendLog, BuildEnds, WriteLine, Sends, Goto
  <1>7. ASSUME NEW b \in Builder, StartWithoutInputs(b) \/ FetchDependencies(b)
        PROVE  ProtocolTypes'
    BY <1>7 DEF StartWithoutInputs, FetchDependencies, StartBuild, Goto, logVars
  <1>8. ASSUME NEW b \in Builder, ReceiveJob(b)
        PROVE  ProtocolTypes'
    <2>1. /\ pc[b] = "pulling" /\ Receive(b, {"Job"})
          /\ cur' = [cur EXCEPT ![b] = Head(toWorker[b]).job]
          /\ pc' = [pc EXCEPT ![b] = "start"] /\ acked' = acked
      BY <1>8 DEF ReceiveJob, Goto
    <2>2. Head(toWorker[b]) \in Response
      BY <2>1, ReceiveEmpties, AwaitsFacts
    <2>3. Head(toWorker[b]).job \in JobId \cup {0}
      BY <2>2 DEF Response
    <2>4. UNCHANGED logVars
      BY <2>1 DEF Receive
    <2> QED
      BY <2>1, <2>3, <2>4 DEF logVars
  <1>9. ASSUME NEW b \in Builder, ReceiveCompleteAck(b)
        PROVE  ProtocolTypes'
    <2>1. cur[b] \in JobId
      BY <1>9, StreamState DEF ReceiveCompleteAck, StreamOf, WorksOnJob, Idle
    <2> QED
      BY <1>9, <2>1 DEF ReceiveCompleteAck, Receive, Goto, logVars
  <1>10. ASSUME NEW b \in Builder,
                ReceiveFailResponse(b) \/ NoticeDeadLink(b) \/ CrashBuilder(b)
         PROVE  ProtocolTypes'
    <2>1. CASE ReceiveFailResponse(b)
      BY <2>1 DEF ReceiveFailResponse, Receive, Goto, logVars
    <2>2. CASE NoticeDeadLink(b) \/ CrashBuilder(b)
      BY <2>2 DEF NoticeDeadLink, CrashBuilder, Goto
    <2> QED
      BY <1>10, <2>1, <2>2
  <1>11. CASE RestartRequester
    BY <1>11 DEF RestartRequester, logVars
  <1>12. CASE RequesterStep \/ (\E m \in stale : ServeStale(m))
    BY <1>4, <1>12 DEF RequesterStep, SubmitBegin, SubmitEnd, RepeatAnnouncement,
         CancelLookUp, CancelFail, ServeStale, protoVars, workerVars, logVars
  <1>13. ASSUME NEW b \in Builder,
                \/ HearNeedBuilder(b) \/ HandlerStep(b) \/ DropConnection(b)
                \/ NeighborDown(b) \/ LoseAnnouncement(b)
         PROVE  ProtocolTypes'
    BY <1>4, <1>13 DEF HearNeedBuilder, HandlerStep, ReadRequest, LookUpLease,
         Serve, DropConnection, NeighborDown, LoseAnnouncement
  <1>14. CASE UNCHANGED vars
    BY <1>4, <1>14 DEF vars, protoVars, workerVars, logVars
  <1>15. ASSUME NEW b \in Builder, WorkerStep(b)
         PROVE  ProtocolTypes'
    BY <1>5, <1>6, <1>7, <1>8, <1>9, <1>10, <1>15 DEF WorkerStep
  <1> QED
    BY <1>5, <1>6, <1>10, <1>11, <1>12, <1>13, <1>14, <1>15 DEF PNext, FaultStep

\* The connections, and what is on them, keep their type.
LEMMA NetTypeStep ==
    ASSUME ProtocolInv, [PNext]_vars
    PROVE  NetTypes'
  <1>1. NetTypes /\ ProtocolTypes
    BY TypeParts DEF ProtocolInv
  <1> USE <1>1 DEF NetTypes
  <1>2. ASSUME UNCHANGED netVars PROVE NetTypes'
    BY <1>2 DEF netVars
  <1>3. ASSUME NEW b \in Builder, NEW type \in {"Pull", "Heartbeat", "Complete", "Fail", "BuildLog"}, NEW where,
               Sends(b, type, where)
        PROVE  NetTypes'
    <2> DEFINE r == [type |-> type, job |-> cur[b], looked |-> FALSE]
    <2>1. r \in Request
      BY DEF Request, ProtocolTypes
    <2>2. /\ toServer' = [toServer EXCEPT ![b] = Append(@, r)]
          /\ UNCHANGED <<link, toWorker, serving, stale>>
      BY <1>3 DEF Sends
    <2> HIDE DEF r
    <2>3. Append(toServer[b], r) \in Seq(Request)
      BY <2>1
    <2> QED
      BY <2>2, <2>3
  <1>4. ASSUME NEW b \in Builder,
               \/ PullRequest(b) \/ GreetBeforeFetch(b) \/ SendHeartbeat(b)
               \/ SendLog(b) \/ SendComplete(b) \/ SendFail(b)
        PROVE  NetTypes'
    BY <1>3, <1>4 DEF PullRequest, GreetBeforeFetch, SendHeartbeat, SendLog,
                      SendComplete, SendFail, SendRequest
  <1>5. ASSUME NEW b \in Builder, NEW types, Receive(b, types)
        PROVE  NetTypes'
    <2>1. /\ toWorker' = [toWorker EXCEPT ![b] = Tail(@)] /\ toWorker[b] # <<>>
          /\ UNCHANGED <<link, toServer, serving, stale>>
      BY <1>5 DEF Receive
    <2>2. Tail(toWorker[b]) \in Seq(Response)
      BY <2>1
    <2> QED
      BY <2>1, <2>2
  <1>6. ASSUME NEW b \in Builder,
               \/ ReceiveJob(b) \/ ReceiveNoJob(b) \/ ReceiveGreeting(b)
               \/ ReceiveHeartbeatAck(b) \/ ReceiveLogAck(b)
               \/ ReceiveCompleteAck(b) \/ ReceiveCompleteError(b)
               \/ ReceiveFailResponse(b)
        PROVE  NetTypes'
    BY <1>5, <1>6 DEF ReceiveJob, ReceiveNoJob, ReceiveGreeting,
         ReceiveHeartbeatAck, ReceiveLogAck, ReceiveCompleteAck,
         ReceiveCompleteError, ReceiveFailResponse
  <1>7. ASSUME NEW b \in Builder, Connect(b) \/ LeaveIdle(b)
        PROVE  NetTypes'
    <2>1. /\ \/ link' = [link EXCEPT ![b] = "up"]
             \/ link' = [link EXCEPT ![b] = "down"]
          /\ \/ toWorker' = [toWorker EXCEPT ![b] = <<>>]
             \/ toWorker' = toWorker
          /\ UNCHANGED <<toServer, serving, stale>>
      BY <1>7 DEF Connect, LeaveIdle
    <2>2. toWorker' \in [Builder -> Seq(Response)]
      <3>1. <<>> \in Seq(Response)
        OBVIOUS
      <3> QED
        BY <2>1, <3>1
    <2>3. link' \in [Builder -> {"up", "down", "lost"}]
      BY <2>1
    <2> QED
      BY <2>1, <2>2, <2>3
  <1>8. ASSUME NEW b \in Builder,
               \/ FindRequester(b) \/ StartWithoutInputs(b) \/ FetchDependencies(b)
               \/ WriteLine(b) \/ BuildEnds(b) \/ NoticeDeadLink(b)
               \/ ConnectFails(b) \/ HearNeedBuilder(b) \/ NeighborDown(b)
               \/ LoseAnnouncement(b)
        PROVE  NetTypes'
    BY <1>2, <1>8 DEF FindRequester, StartWithoutInputs, FetchDependencies,
         WriteLine, BuildEnds, NoticeDeadLink, ConnectFails, HearNeedBuilder,
         NeighborDown, LoseAnnouncement
  <1>9. ASSUME NEW b \in Builder, ReadRequest(b)
        PROVE  NetTypes'
    <2>1. /\ toServer[b] # <<>>
          /\ serving' = [serving EXCEPT ![b] = Head(toServer[b])]
          /\ toServer' = [toServer EXCEPT ![b] = Tail(@)]
          /\ UNCHANGED <<link, toWorker, stale>>
      BY <1>9 DEF ReadRequest
    <2>2. Head(toServer[b]) \in Request /\ Tail(toServer[b]) \in Seq(Request)
      BY <2>1
    <2> QED
      BY <2>1, <2>2
  <1>10. ASSUME NEW b \in Builder, LookUpLease(b)
         PROVE  NetTypes'
    <2>1. /\ serving' = [serving EXCEPT ![b] = [serving[b] EXCEPT !.looked = TRUE]]
          /\ serving[b].type = "Complete"
          /\ UNCHANGED <<link, toServer, toWorker, stale>>
      BY <1>10 DEF LookUpLease, Looks
    <2>2. serving[b] \in Request
      BY <2>1, NoReqFacts
    <2>3. [serving[b] EXCEPT !.looked = TRUE] \in Request
      BY <2>2 DEF Request
    <2> QED
      BY <2>1, <2>3
  <1>11. ASSUME NEW b \in Builder, Serve(b)
         PROVE  NetTypes'
    <2>1. PICK resp \in Response :
              /\ toWorker' = [toWorker EXCEPT ![b] = Append(@, resp)]
              /\ serving' = [serving EXCEPT ![b] = NoReq]
              /\ UNCHANGED <<link, toServer, stale>>
      BY <1>11 DEF Serve
    <2>2. Append(toWorker[b], resp) \in Seq(Response)
      OBVIOUS
    <2> QED
      BY <2>1, <2>2
  <1>12. ASSUME NEW m \in stale, ServeStale(m)
         PROVE  NetTypes'
    <2>1. /\ UNCHANGED <<link, toServer, toWorker, serving>>
          /\ \/ stale' = (stale \ {m}) \cup {[m EXCEPT !.req = [m.req EXCEPT !.looked = TRUE]]}
             \/ stale' = stale \ {m}
      BY <1>12 DEF ServeStale
    <2>2. m \in [builder: Builder, req: Request] /\ m.req \in Request
      OBVIOUS
    <2>3. [m.req EXCEPT !.looked = TRUE] \in Request
      BY <2>2 DEF Request
    <2>4. [m EXCEPT !.req = [m.req EXCEPT !.looked = TRUE]]
              \in [builder: Builder, req: Request]
      BY <2>2, <2>3
    <2> DEFINE n == [m EXCEPT !.req = [m.req EXCEPT !.looked = TRUE]]
               Left == [builder: Builder, req: Request]
    <2>5. stale' \in SUBSET Left
      <3>1. n \in Left /\ stale \in SUBSET Left
        BY <2>4
      <3>2. stale' = (stale \ {m}) \cup {n} \/ stale' = stale \ {m}
        BY <2>1
      <3> HIDE DEF n, Left
      <3> QED
        BY <3>1, <3>2
    <2> QED
      BY <2>1, <2>5
  <1>13. ASSUME NEW b \in Builder, DropConnection(b) \/ CrashBuilder(b)
         PROVE  NetTypes'
    <2>1. /\ link' = [link EXCEPT ![b] = "down"]
          /\ toServer' = [toServer EXCEPT ![b] = <<>>]
          /\ toWorker' = [toWorker EXCEPT ![b] = <<>>]
          /\ serving' = [serving EXCEPT ![b] = NoReq]
          /\ stale' = IF serving[b] = NoReq THEN stale
                      ELSE stale \cup {[builder |-> b, req |-> serving[b]]}
      BY <1>13 DEF DropConnection, CrashBuilder, LoseLink
    <2>2. serving[b] # NoReq =>
              [builder |-> b, req |-> serving[b]] \in [builder: Builder, req: Request]
      OBVIOUS
    <2>3. stale' \in SUBSET [builder: Builder, req: Request]
      BY <2>1, <2>2
    <2> QED
      BY <2>1, <2>3
  <1>14. CASE RestartRequester
    BY <1>14 DEF RestartRequester
  <1>15. CASE RequesterStep
    BY <1>2, <1>15 DEF RequesterStep, SubmitBegin, SubmitEnd, RepeatAnnouncement,
         CancelLookUp, CancelFail, protoVars, netVars
  <1>16. CASE UNCHANGED vars
    BY <1>2, <1>16 DEF vars, protoVars, netVars
  <1> QED
    BY <1>4, <1>6, <1>7, <1>8, <1>9, <1>10, <1>11, <1>12, <1>13, <1>14, <1>15, <1>16
    DEF PNext, FaultStep, WorkerStep, HandlerStep

\* Announcements, the cancellation in hand and the count of faults keep their
\* type.
LEMMA SharedTypeStep ==
    ASSUME ProtocolInv, [PNext]_vars
    PROVE  SharedTypes'
  <1>1. SharedTypes /\ TypeOK
    BY TypeParts DEF ProtocolInv
  <1> USE <1>1 DEF SharedTypes
  <1>2. ASSUME UNCHANGED <<heard, air, cancel, faults>> PROVE SharedTypes'
    BY <1>2
  <1>3. ASSUME NEW F \in SUBSET Feature, Announce(F),
               UNCHANGED <<heard, cancel, faults>>
        PROVE  SharedTypes'
    BY <1>3 DEF Announce
  <1>4. \A j \in JobId : job[j].features \in SUBSET Feature
    BY DEF TypeOK, JobRecord
  <1>5. ASSUME NEW s \in Submitter, SubmitEnd(s)
        PROVE  SharedTypes'
    <2>1. pushing[s] \in JobId
      BY <1>5 DEF SubmitEnd, PushEnqueue, TypeOK
    <2> QED
      BY <1>2, <1>3, <1>4, <1>5, <2>1 DEF SubmitEnd
  <1>6. CASE RepeatAnnouncement
    <2>1. UNION {job[j].features : j \in JobId} \in SUBSET Feature
      BY <1>4
    <2> QED
      BY <1>3, <1>6, <2>1 DEF RepeatAnnouncement
  <1>7. ASSUME NEW j \in JobId, CancelLookUp(j)
        PROVE  SharedTypes'
    <2>1. holder[j] \in Builder
      BY <1>7 DEF CancelLookUp, TypeOK
    <2> QED
      BY <1>7, <2>1 DEF CancelLookUp, gossipVars
  <1>8. CASE CancelFail
    BY <1>8 DEF CancelFail, gossipVars
  <1>9. ASSUME NEW b \in Builder, HearNeedBuilder(b)
        PROVE  SharedTypes'
    <2>1. PICK F \in air[b] :
              /\ heard' = [heard EXCEPT ![b] = F]
              /\ air' = [air EXCEPT ![b] = @ \ {F}]
              /\ UNCHANGED <<cancel, faults>>
      BY <1>9 DEF HearNeedBuilder
    <2>2. F \in SUBSET Feature /\ air[b] \ {F} \in SUBSET SUBSET Feature
      OBVIOUS
    <2> QED
      BY <2>1, <2>2
  <1>10. ASSUME NEW b \in Builder, WorkerStep(b) \/ WriteLine(b) \/ HandlerStep(b)
         PROVE  SharedTypes'
    BY <1>2, <1>10 DEF WorkerStep, WriteLine, WorkerOnly, HandlerStep, gossipVars,
         FindRequester, Connect, PullRequest, ReceiveJob, ReceiveNoJob, LeaveIdle,
         GreetBeforeFetch, StartWithoutInputs, ReceiveGreeting, FetchDependencies,
         SendHeartbeat, ReceiveHeartbeatAck, SendLog, ReceiveLogAck, BuildEnds,
         SendComplete, ReceiveCompleteAck, ReceiveCompleteError, SendFail,
         ReceiveFailResponse, NoticeDeadLink, SendRequest, Sends, Receive,
         ReadRequest, LookUpLease, Serve
  <1>11. ASSUME Fault PROVE faults' \in 0 .. MaxFaults
    BY <1>11, ProtocolAssumption DEF Fault
  <1>12. CASE RestartRequester
    BY <1>11, <1>12 DEF RestartRequester, gossipVars
  <1>13. ASSUME NEW b \in Builder,
                \/ DropConnection(b) \/ CrashBuilder(b) \/ NeighborDown(b)
                \/ ConnectFails(b)
         PROVE  SharedTypes'
    BY <1>11, <1>13 DEF DropConnection, CrashBuilder, NeighborDown, ConnectFails,
                        gossipVars
  <1>14. ASSUME NEW b \in Builder, LoseAnnouncement(b)
         PROVE  SharedTypes'
    BY <1>11, <1>14 DEF LoseAnnouncement
  <1>15. CASE \/ \E s \in Submitter, d \in Drv, F \in SUBSET Feature :
                     SubmitBegin(s, d, F)
              \/ \E m \in stale : ServeStale(m)
              \/ UNCHANGED vars
    BY <1>2, <1>15 DEF SubmitBegin, ServeStale, vars, protoVars, gossipVars
  <1> QED
    BY <1>5, <1>6, <1>7, <1>8, <1>9, <1>10, <1>12, <1>13, <1>14, <1>15
    DEF PNext, RequesterStep, FaultStep

\* Every step keeps the types.
LEMMA ProtocolTypeStep ==
    ASSUME ProtocolInv, [PNext]_vars
    PROVE  PTypeOK'
  BY QueueStep, WorkerTypeStep, NetTypeStep, SharedTypeStep, TypeParts
  DEF IndInv, PTypeOK, ProtocolTypes, NetTypes, SharedTypes

-----------------------------------------------------------------------------
(* The jobs builders have in hand. *)

\* A stream without responses tells of no job.
LEMMA NothingOnTheWay ==
    ASSUME NEW b, toWorker[b] = <<>>
    PROVE  OnTheWay(b) = {}
  BY DEF OnTheWay

\* The job a Pull leases is the one its response names, and it was pending.
LEMMA PulledJob ==
    ASSUME ProtocolInv, NEW b \in Builder, NEW resp, AnswerPull(b, resp),
           resp.type = "Job"
    PROVE  resp.job \in Elements(pending) /\ holder'[resp.job] = b
  <1>1. PICK i \in Matching(b) : /\ \A k \in Matching(b) : i <= k
                                 /\ resp = [type |-> "Job", job |-> pending[i]]
    BY DEF AnswerPull, Reply
  <1>2. Pull(b)
    BY DEF AnswerPull, Reply
  <1>3. PICK k \in Matching(b) : /\ \A h \in Matching(b) : k <= h
                                 /\ holder' = [holder EXCEPT ![pending[k]] = b]
    BY <1>2 DEF Pull
  <1>4. /\ Matching(b) \subseteq DOMAIN pending /\ DOMAIN pending \subseteq Int
        /\ pending \in Seq(JobId) /\ holder \in [JobId -> Builder \cup {Null}]
    BY DEF Matching, ProtocolInv, IndInv, TypeOK
  <1>5. i <= k /\ k <= i /\ i \in Int /\ k \in Int
    BY <1>1, <1>3, <1>4
  <1>6. i = k
    BY <1>5
  <1>7. pending[i] \in JobId /\ pending[i] \in Elements(pending)
    BY <1>1, <1>4 DEF Elements
  <1> QED
    BY <1>1, <1>3, <1>4, <1>6, <1>7

\* A builder gets a job in hand only when its handler leases a pending one to
\* it; every other step leaves it what it had, or less.
LEMMA HandStep ==
    ASSUME ProtocolInv, [PNext]_vars, NEW b \in Builder
    PROVE  \/ InHand(b)' \subseteq InHand(b)
           \/ \E j \in Elements(pending) : InHand(b)' \subseteq {j} /\ holder'[j] = b
  <1> USE StreamState
  <1>1. ASSUME toWorker'[b] = toWorker[b], link'[b] = link[b],
               cur'[b] \in {cur[b], 0}
        PROVE  InHand(b)' \subseteq InHand(b)
    BY <1>1 DEF InHand, OnTheWay
  <1>2. ASSUME Quiet(b)', cur'[b] = 0
        PROVE  InHand(b)' \subseteq InHand(b)
    BY <1>2 DEF InHand, OnTheWay, Quiet
  <1>3. CASE RestartRequester
    BY <1>3 DEF RestartRequester, InHand
  <1>4. CASE ~RestartRequester /\ ~OwnStep(b)
    BY <1>1, <1>4, StepLocal DEF LocalOf
  <1>5. CASE Connect(b)
    <2>1. pc[b] = "connect" /\ UNCHANGED <<cur, toServer, toWorker, serving>>
      BY <1>5 DEF Connect
    <2>2. Quiet(b) /\ cur[b] = 0
      BY <2>1, AwaitsFacts DEF StreamOf, InStepOf, WorksOnJob, Idle
    <2> QED
      BY <1>2, <2>1, <2>2 DEF Quiet
  <1>6. CASE \/ FindRequester(b) \/ StartWithoutInputs(b) \/ FetchDependencies(b)
             \/ WriteLine(b) \/ BuildEnds(b) \/ NoticeDeadLink(b)
             \/ ConnectFails(b)
    BY <1>1, <1>6 DEF FindRequester, StartWithoutInputs, FetchDependencies,
         WriteLine, BuildEnds, NoticeDeadLink, ConnectFails, netVars
  <1>7. CASE \/ PullRequest(b) \/ GreetBeforeFetch(b) \/ SendHeartbeat(b)
             \/ SendLog(b) \/ SendComplete(b) \/ SendFail(b)
    BY <1>1, <1>7 DEF PullRequest, GreetBeforeFetch, SendHeartbeat, SendLog,
                      SendComplete, SendFail, SendRequest, Sends
  <1>8. CASE ReceiveJob(b)
    <2>1. /\ pc[b] = "pulling" /\ Receive(b, {"Job"})
          /\ cur'[b] = Head(toWorker[b]).job
      BY <1>8 DEF ReceiveJob
    <2>2. /\ link[b] = "up" /\ link'[b] = "up" /\ DOMAIN toWorker[b] = {1}
          /\ Head(toWorker[b]) = toWorker[b][1]
          /\ toWorker[b][1].type \in {"Job"}
          /\ toWorker'[b] = <<>>
      BY <2>1, ReceiveEmpties, AwaitsFacts DEF Quiet
    <2>3. cur'[b] \in OnTheWay(b)
      BY <2>1, <2>2 DEF OnTheWay
    <2>4. OnTheWay(b)' = {}
      BY <2>2 DEF OnTheWay
    <2> QED
      BY <2>2, <2>3, <2>4 DEF InHand
  <1>9. CASE LeaveIdle(b)
    <2>1. /\ pc[b] = "pulling" /\ link'[b] = "down" /\ toWorker'[b] = <<>>
          /\ cur' = cur
      BY <1>9 DEF LeaveIdle
    <2>2. cur'[b] = 0 /\ OnTheWay(b)' = {}
      BY <2>1 DEF StreamOf, WorksOnJob, Idle, OnTheWay
    <2> QED
      BY <2>2 DEF InHand
  <1>10. CASE \/ ReceiveNoJob(b) \/ ReceiveGreeting(b) \/ ReceiveHeartbeatAck(b)
              \/ ReceiveLogAck(b) \/ ReceiveCompleteAck(b)
              \/ ReceiveCompleteError(b) \/ ReceiveFailResponse(b)
    <2>1. /\ pc[b] \in DOMAIN Awaits /\ cur'[b] \in {cur[b], 0}
          /\ \E types : Receive(b, types)
      BY <1>10, AwaitsFacts DEF ReceiveNoJob, ReceiveGreeting,
           ReceiveHeartbeatAck, ReceiveLogAck, ReceiveCompleteAck,
           ReceiveCompleteError, ReceiveFailResponse
    <2>2. link'[b] = link[b] /\ toWorker'[b] = <<>>
      BY <2>1, ReceiveEmpties DEF Quiet
    <2>3. OnTheWay(b)' = {}
      BY <2>2 DEF OnTheWay
    <2> QED
      BY <2>1, <2>2, <2>3 DEF InHand
  <1>11. CASE ReadRequest(b) \/ LookUpLease(b)
    BY <1>1, <1>11 DEF ReadRequest, LookUpLease, workerVars
  <1>12. CASE Serve(b)
    <2>1. PICK resp \in Response :
              /\ Answer(b, serving[b], resp)
              /\ toWorker' = [toWorker EXCEPT ![b] = Append(@, resp)]
              /\ UNCHANGED <<pc, cur, link>>
      BY <1>12 DEF Serve, workerVars
    <2>2. serving[b] # NoReq
      BY <2>1, NoReqFacts DEF Answer
    <2>3. BeingServed(b)
      BY <2>2, ServedNamesJob
    <2>4. toWorker'[b] = Append(<<>>, resp)
      BY <2>1, <2>3 DEF BeingServed
    <2>5. DOMAIN toWorker'[b] = {1} /\ toWorker'[b][1] = resp
      BY <2>4
    <2>6. CASE resp.type # "Job"
      <3>1. OnTheWay(b)' = {}
        BY <2>5, <2>6 DEF OnTheWay
      <3> QED
        BY <2>1, <3>1 DEF InHand
    <2>7. CASE resp.type = "Job"
      <3>1. serving[b].type = "Pull" /\ AnswerPull(b, resp)
        BY <2>1, <2>7 DEF Answer, AnswerHeartbeat, AnswerComplete, AnswerFail,
                          AnswerLog, Reply
      <3>2. cur[b] = 0
        BY <2>2, <2>3, <3>1, ServedNamesJob, AwaitsFacts
        DEF BeingServed, IsAwaited, StreamOf, WorksOnJob, Idle
      <3>3. OnTheWay(b)' = {resp.job}
        BY <2>5, <2>7 DEF OnTheWay
      <3> QED
        BY <2>1, <2>7, <3>1, <3>2, <3>3, PulledJob DEF InHand
    <2> QED
      BY <2>6, <2>7
  <1>13. CASE DropConnection(b)
    <2>1. Quiet(b)' /\ link'[b] = "down" /\ link[b] = "up" /\ cur' = cur
      BY <1>13 DEF DropConnection, LoseLink, Quiet, workerVars
    <2>2. OnTheWay(b)' = {}
      BY <2>1 DEF Quiet, OnTheWay
    <2> QED
      BY <2>1, <2>2 DEF InHand
  <1>14. CASE CrashBuilder(b)
    <2>1. Quiet(b)' /\ cur'[b] = 0
      BY <1>14 DEF CrashBuilder, LoseLink, Quiet
    <2> QED
      BY <1>2, <2>1
  <1> QED
    BY <1>3, <1>4, <1>5, <1>6, <1>7, <1>8, <1>9, <1>10, <1>11, <1>12, <1>13, <1>14
    DEF OwnStep, WorkerStep, HandlerStep

\* What a builder has in hand are jobs of the queue.
LEMMA HandsHoldJobs ==
    ASSUME ProtocolInv, NEW b \in Builder
    PROVE  InHand(b) \subseteq JobId
  <1>1. /\ cur[b] \in JobId \cup {0}
        /\ \A i \in DOMAIN toWorker[b] : toWorker[b][i] \in Response
    BY StreamState
  <1>2. \A i \in DOMAIN toWorker[b] : toWorker[b][i].job \in JobId \cup {0}
    BY <1>1 DEF Response
  <1> QED
    BY <1>1, <1>2 DEF InHand, OnTheWay

\* A job in hand stays leased to its builder until it is over.
LEMMA HandHasLeaseStep ==
    ASSUME ProtocolInv, [PNext]_vars
    PROVE  HandHasLease'
  <1> SUFFICES ASSUME NEW b \in Builder, NEW j \in InHand(b)'
               PROVE  holder'[j] = b \/ j \in Done'
    BY DEF HandHasLease
  <1>1. ~RestartRequester
    BY DEF RestartRequester, InHand
  <1>2. Call /\ IndInv
    BY <1>1, StepCalls DEF ProtocolInv
  <1>3. CASE j \in InHand(b)
    <2>1. j \in JobId /\ (holder[j] = b \/ j \in Done)
      BY <1>3, HandsHoldJobs DEF ProtocolInv, HandHasLease
    <2>2. CASE holder[j] = b
      <3>1. j \in Leased
        BY <2>1, <2>2, QueueAssumption DEF Leased
      <3> QED
        BY <1>2, <2>2, <3>1, LeaseStays
    <2>3. CASE j \in Done
      BY <1>2, <2>3, CallKeeps
    <2> QED
      BY <2>1, <2>2, <2>3
  <1> QED
    BY <1>3, HandStep

\* No two builders have the same job in hand.
LEMMA InOneHandStep ==
    ASSUME ProtocolInv, [PNext]_vars
    PROVE  InOneHand'
  <1> SUFFICES ASSUME NEW b \in Builder, NEW c \in Builder,
                      NEW j, j \in InHand(b)', j \in InHand(c)'
               PROVE  b = c
    BY DEF InOneHand
  <1>1. ASSUME NEW d \in Builder, j \in InHand(d)
        PROVE  j \notin Elements(pending)
    <2>1. j \in JobId /\ (holder[j] = d \/ j \in Done)
      BY <1>1, HandsHoldJobs DEF ProtocolInv, HandHasLease
    <2> QED
      BY <2>1, QueueAssumption DEF ProtocolInv, IndInv, OnePlace, Leased, Done
  <1>2. ASSUME NEW d \in Builder, j \in InHand(d)'
        PROVE  j \in InHand(d) \/ (j \in Elements(pending) /\ holder'[j] = d)
    BY <1>2, HandStep
  <1> QED
    BY <1>1, <1>2 DEF ProtocolInv, InOneHand

-----------------------------------------------------------------------------
(* Acknowledgements, and requests that outlive their connection. *)

\* complete's acceptance is never taken back while the requester lives.
LEMMA AcceptedGrows ==
    ASSUME ProtocolInv, [PNext]_vars, ~RestartRequester
    PROVE  accepted \subseteq accepted'
  BY StepCalls, CallKeeps DEF ProtocolInv

\* The handler answers CompleteAck only when complete accepted the job that
\* the worker executes.
LEMMA AckOnTheWayStep ==
    ASSUME ProtocolInv, [PNext]_vars, NEW b \in Builder
    PROVE  AckOnTheWay(b)'
  <1> USE StreamState
  <1>1. ASSUME toWorker'[b] = <<>>
        PROVE  AckOnTheWay(b)'
    BY <1>1 DEF AckOnTheWay
  <1>2. ASSUME toWorker'[b] = toWorker[b], cur'[b] = cur[b], ~RestartRequester
        PROVE  AckOnTheWay(b)'
    BY <1>2, AcceptedGrows DEF AckOnTheWay, ProtocolInv
  <1>3. CASE RestartRequester
    BY <1>1, <1>3 DEF RestartRequester
  <1>4. CASE ~RestartRequester /\ ~OwnStep(b)
    BY <1>2, <1>4, StepLocal DEF LocalOf
  <1>5. ASSUME Serve(b), ~RestartRequester
        PROVE  AckOnTheWay(b)'
    <2>1. PICK resp \in Response :
              /\ Answer(b, serving[b], resp)
              /\ toWorker' = [toWorker EXCEPT ![b] = Append(@, resp)]
              /\ UNCHANGED <<pc, cur, link>>
      BY <1>5 DEF Serve, workerVars
    <2>2. serving[b] # NoReq
      BY <2>1, NoReqFacts DEF Answer
    <2>3. BeingServed(b)
      BY <2>2, ServedNamesJob
    <2>4. toWorker'[b] = Append(<<>>, resp)
      BY <2>1, <2>3 DEF BeingServed
    <2>5. DOMAIN toWorker'[b] = {1} /\ toWorker'[b][1] = resp
      BY <2>4
    <2>6. ASSUME resp.type = "CompleteAck"
          PROVE  cur'[b] \in accepted'
      <3>1. Complete(serving[b].job, b)
        BY <2>1, <2>6 DEF Answer, AnswerPull, AnswerHeartbeat, AnswerComplete,
                          AnswerFail, AnswerLog, Reply
      <3>2. serving[b].job = cur[b]
        BY <2>3 DEF BeingServed, IsAwaited
      <3> QED
        BY <2>1, <3>1, <3>2 DEF Complete
    <2> QED
      BY <2>5, <2>6 DEF AckOnTheWay
  <1>6. ASSUME ~RestartRequester,
               \/ FindRequester(b) \/ Connect(b) \/ StartWithoutInputs(b)
               \/ FetchDependencies(b) \/ WriteLine(b) \/ BuildEnds(b)
               \/ ConnectFails(b) \/ PullRequest(b) \/ GreetBeforeFetch(b)
               \/ SendHeartbeat(b) \/ SendLog(b) \/ SendComplete(b) \/ SendFail(b)
               \/ ReadRequest(b) \/ LookUpLease(b)
        PROVE  AckOnTheWay(b)'
    BY <1>2, <1>6 DEF FindRequester, Connect, StartWithoutInputs,
         FetchDependencies, WriteLine, BuildEnds, ConnectFails, PullRequest,
         GreetBeforeFetch, SendHeartbeat, SendLog, SendComplete, SendFail,
         SendRequest, Sends, ReadRequest, LookUpLease, netVars, workerVars
  <1>7. CASE NoticeDeadLink(b)
    <2>1. link[b] # "up" /\ toWorker' = toWorker
      BY <1>7 DEF NoticeDeadLink, netVars
    <2> QED
      BY <1>1, <2>1 DEF StreamOf, InStepOf, Quiet
  <1>8. CASE LeaveIdle(b)
    BY <1>1, <1>8 DEF LeaveIdle
  <1>9. CASE \/ ReceiveJob(b) \/ ReceiveNoJob(b) \/ ReceiveGreeting(b)
             \/ ReceiveHeartbeatAck(b) \/ ReceiveLogAck(b) \/ ReceiveCompleteAck(b)
             \/ ReceiveCompleteError(b) \/ ReceiveFailResponse(b)
    <2>1. pc[b] \in DOMAIN Awaits /\ \E types : Receive(b, types)
      BY <1>9, AwaitsFacts DEF ReceiveJob, ReceiveNoJob, ReceiveGreeting,
           ReceiveHeartbeatAck, ReceiveLogAck, ReceiveCompleteAck,
           ReceiveCompleteError, ReceiveFailResponse
    <2> QED
      BY <1>1, <2>1, ReceiveEmpties DEF Quiet
  <1>10. CASE DropConnection(b) \/ CrashBuilder(b)
    BY <1>1, <1>10 DEF DropConnection, CrashBuilder, LoseLink
  <1> QED
    BY <1>3, <1>4, <1>5, <1>6, <1>7, <1>8, <1>9, <1>10
    DEF OwnStep, WorkerStep, HandlerStep

\* A worker that reads a CompleteAck reads the truth, and it stays true.
LEMMA AckMeansAcceptedStep ==
    ASSUME ProtocolInv, [PNext]_vars
    PROVE  AckMeansAccepted'
  <1> SUFFICES ASSUME NEW b \in Builder PROVE acked'[b] \subseteq accepted'
    BY DEF AckMeansAccepted
  <1>1. acked[b] \subseteq accepted /\ acked \in [Builder -> SUBSET JobId]
    BY DEF ProtocolInv, AckMeansAccepted, PTypeOK
  <1>2. CASE RestartRequester
    BY <1>2 DEF RestartRequester
  <1>3. CASE ReceiveCompleteAck(b) /\ ~RestartRequester
    <2>1. /\ pc[b] = "completing" /\ Receive(b, {"CompleteAck"})
          /\ acked'[b] = acked[b] \cup {cur[b]}
      BY <1>1, <1>3 DEF ReceiveCompleteAck
    <2>2. DOMAIN toWorker[b] = {1} /\ toWorker[b][1].type \in {"CompleteAck"}
      BY <2>1, ReceiveEmpties, AwaitsFacts
    <2>3. cur[b] \in accepted
      BY <2>2 DEF ProtocolInv, AckOnTheWay
    <2> QED
      BY <1>1, <1>3, <2>1, <2>3, AcceptedGrows
  <1>4. ASSUME ~RestartRequester, ~ReceiveCompleteAck(b)
        PROVE  acked'[b] = acked[b]
    <2>1. CASE ~OwnStep(b)
      BY <1>4, <2>1, StepLocal DEF LocalOf
    <2>2. CASE WorkerStep(b)
      BY <1>4, <2>2 DEF WorkerStep,
           FindRequester, Connect, PullRequest, ReceiveJob, ReceiveNoJob, LeaveIdle,
           GreetBeforeFetch, StartWithoutInputs, ReceiveGreeting, FetchDependencies,
           SendHeartbeat, ReceiveHeartbeatAck, SendLog, ReceiveLogAck, BuildEnds,
           SendComplete, ReceiveCompleteError, SendFail, ReceiveFailResponse,
           NoticeDeadLink, SendRequest, Sends
    <2>3. CASE \/ WriteLine(b) \/ HandlerStep(b) \/ DropConnection(b)
               \/ CrashBuilder(b) \/ ConnectFails(b)
      BY <2>3 DEF WriteLine, HandlerStep, ReadRequest, LookUpLease, Serve,
           DropConnection, CrashBuilder, ConnectFails, workerVars
    <2> QED
      BY <2>1, <2>2, <2>3 DEF OwnStep
  <1> QED
    BY <1>1, <1>2, <1>3, <1>4, AcceptedGrows

\* A handler that outlives its connection has read a request of a worker.
LEMMA StaleStep ==
    ASSUME ProtocolInv, [PNext]_vars
    PROVE  StaleNamesJob'
  <1>1. StaleNamesJob
    BY DEF ProtocolInv
  <1>2. ASSUME stale' \subseteq stale PROVE StaleNamesJob'
    BY <1>1, <1>2 DEF StaleNamesJob
  <1>3. ASSUME NEW b \in Builder, LoseLink(b)
        PROVE  StaleNamesJob'
    <2>1. CASE serving[b] = NoReq
      BY <1>2, <1>3, <2>1 DEF LoseLink
    <2>2. CASE serving[b] # NoReq
      <3>1. stale' = stale \cup {[builder |-> b, req |-> serving[b]]}
        BY <1>3, <2>2 DEF LoseLink
      <3> QED
        BY <1>1, <2>2, <3>1, ServedNamesJob DEF StaleNamesJob
    <2> QED
      BY <2>1, <2>2
  <1>4. ASSUME NEW m \in stale, ServeStale(m)
        PROVE  StaleNamesJob'
    <2>1. CASE stale' = stale \ {m}
      BY <1>2, <2>1
    <2>2. CASE stale' = (stale \ {m}) \cup {[m EXCEPT !.req.looked = TRUE]}
      <3> DEFINE n == [m EXCEPT !.req.looked = TRUE]
      <3>1. m \in [builder: Builder, req: Request]
        BY DEF ProtocolInv, PTypeOK
      <3>2. n.req = [m.req EXCEPT !.looked = TRUE] /\ m.req \in Request
        BY <3>1
      <3>3. n.req.type = m.req.type /\ n.req.job = m.req.job
        BY <3>2 DEF Request
      <3>4. stale' = (stale \ {m}) \cup {n}
        BY <2>2
      <3> HIDE DEF n
      <3> QED
        BY <1>1, <3>3, <3>4 DEF StaleNamesJob
    <2> QED
      BY <1>4, <2>1, <2>2 DEF ServeStale
  <1>5. CASE RequesterStep \/ UNCHANGED vars
    BY <1>2, <1>5 DEF RequesterStep, SubmitBegin, SubmitEnd, RepeatAnnouncement,
         CancelLookUp, CancelFail, vars, protoVars, netVars
  <1>6. ASSUME NEW b \in Builder,
               HearNeedBuilder(b) \/ WorkerStep(b) \/ WriteLine(b) \/ HandlerStep(b)
        PROVE  stale' = stale
    BY <1>6 DEF HearNeedBuilder, WorkerStep, WriteLine, HandlerStep, netVars,
         FindRequester, Connect, PullRequest, ReceiveJob, ReceiveNoJob, LeaveIdle,
         GreetBeforeFetch, StartWithoutInputs, ReceiveGreeting, FetchDependencies,
         SendHeartbeat, ReceiveHeartbeatAck, SendLog, ReceiveLogAck, BuildEnds,
         SendComplete, ReceiveCompleteAck, ReceiveCompleteError, SendFail,
         ReceiveFailResponse, NoticeDeadLink, SendRequest, Sends, Receive,
         ReadRequest, LookUpLease, Serve
  <1>7. ASSUME NEW b \in Builder, DropConnection(b) \/ CrashBuilder(b)
        PROVE  LoseLink(b)
    BY <1>7 DEF DropConnection, CrashBuilder
  <1>8. ASSUME NEW b \in Builder,
               NeighborDown(b) \/ ConnectFails(b) \/ LoseAnnouncement(b)
        PROVE  stale' = stale
    BY <1>8 DEF NeighborDown, ConnectFails, LoseAnnouncement, netVars
  <1>9. CASE RestartRequester
    BY <1>2, <1>9 DEF RestartRequester
  <1> QED
    BY <1>2, <1>3, <1>4, <1>5, <1>6, <1>7, <1>8, <1>9 DEF PNext, FaultStep

-----------------------------------------------------------------------------
(* Together. *)

\* A requester and its builders before anything was said.
LEMMA ProtocolInit == PInit => ProtocolInv
  <1> SUFFICES ASSUME PInit PROVE ProtocolInv
    OBVIOUS
  <1>1. IndInv
    BY InitInv DEF PInit
  <1>2. PTypeOK
    <2>1. ProtocolTypes
      BY ProtocolAssumption DEF PInit, ProtocolTypes, WorkerState
    <2>2. NetTypes
      <3>1. <<>> \in Seq(Request) /\ <<>> \in Seq(Response)
        OBVIOUS
      <3> QED
        BY <3>1 DEF PInit, NetTypes
    <2>3. SharedTypes
      BY ProtocolAssumption DEF PInit, SharedTypes
    <2> QED
      BY <1>1, <2>1, <2>2, <2>3, TypeParts DEF IndInv
  <1>3. ASSUME NEW b \in Builder
        PROVE  /\ pc[b] = "rest" /\ cur[b] = 0 /\ link[b] = "down"
               /\ Quiet(b) /\ acked[b] = {}
    BY DEF PInit, Quiet
  <1>4. \A b \in Builder : InStepOf(b) /\ WorksOnJob(b) /\ AckOnTheWay(b)
    BY <1>3 DEF InStepOf, WorksOnJob, Idle, AckOnTheWay, Quiet
  <1>5. \A b \in Builder : InHand(b) = {}
    BY <1>3 DEF InHand, OnTheWay, Quiet
  <1>6. StaleNamesJob /\ AckMeansAccepted
    BY <1>3 DEF PInit, StaleNamesJob, AckMeansAccepted
  <1> QED
    BY <1>1, <1>2, <1>4, <1>5, <1>6 DEF ProtocolInv, HandHasLease, InOneHand

\* Every step of a session, of the requester, of gossip, and every fault
\* preserves the invariant.
LEMMA ProtocolStepInv == ProtocolInv /\ [PNext]_vars => ProtocolInv'
  BY QueueStep, ProtocolTypeStep, StreamStep, HandHasLeaseStep, InOneHandStep,
     AckOnTheWayStep, AckMeansAcceptedStep, StaleStep DEF ProtocolInv, StreamOf

\* The invariant holds whatever is dropped, lost, cancelled or restarted.
THEOREM ProtocolInvariance == PSpec => []ProtocolInv
  BY ProtocolInit, ProtocolStepInv, PTL DEF PSpec

\* Every variable of the protocol keeps its type.
THEOREM ProtocolTypesCorrect == PSpec => []PTypeOK
  <1>1. ProtocolInv => PTypeOK
    BY DEF ProtocolInv
  <1> QED
    BY <1>1, ProtocolInvariance, PTL

\* connect_and_work and execute_job never take the response to one request
\* for the response to another.
THEOREM StreamsStayInStep == PSpec => []StreamInStep
  <1>1. ASSUME ProtocolInv PROVE StreamInStep
    <2> SUFFICES ASSUME NEW b \in Builder, link[b] = "up"
                 PROVE  IF pc[b] \in DOMAIN Awaits
                        THEN /\ InFlight(b) = 1
                             /\ \A i \in DOMAIN toServer[b] :
                                    toServer[b][i].type = Awaits[pc[b]]
                             /\ serving[b] # NoReq => serving[b].type = Awaits[pc[b]]
                             /\ \A i \in DOMAIN toWorker[b] :
                                    toWorker[b][i].type \in AnswersOf(Awaits[pc[b]])
                        ELSE InFlight(b) = 0
      BY DEF StreamInStep
    <2>1. /\ toServer[b] \in Seq(Request) /\ toWorker[b] \in Seq(Response)
          /\ InStepOf(b)
      BY <1>1, StreamState DEF StreamOf
    <2>2. CASE Quiet(b)
      BY <2>2, <2>1 DEF Quiet, InFlight, InStepOf, Unread, BeingServed, Answered
    <2>3. ASSUME pc[b] \in DOMAIN Awaits, Unread(b)
          PROVE  /\ InFlight(b) = 1 /\ serving[b] = NoReq
                 /\ DOMAIN toServer[b] = {1} /\ DOMAIN toWorker[b] = {}
                 /\ toServer[b][1].type = Awaits[pc[b]]
      BY <2>1, <2>3, OneMessage DEF Unread, IsAwaited, InFlight
    <2>4. ASSUME pc[b] \in DOMAIN Awaits, BeingServed(b)
          PROVE  /\ InFlight(b) = 1 /\ serving[b].type = Awaits[pc[b]]
                 /\ DOMAIN toServer[b] = {} /\ DOMAIN toWorker[b] = {}
      BY <2>1, <2>4 DEF BeingServed, IsAwaited, InFlight
    <2>5. ASSUME pc[b] \in DOMAIN Awaits, Answered(b)
          PROVE  /\ InFlight(b) = 1 /\ serving[b] = NoReq
                 /\ DOMAIN toServer[b] = {} /\ DOMAIN toWorker[b] = {1}
                 /\ toWorker[b][1].type \in AnswersOf(Awaits[pc[b]])
      BY <2>1, <2>5, OneMessage DEF Answered, InFlight
    <2> QED
      BY <2>1, <2>2, <2>3, <2>4, <2>5 DEF InStepOf
  <1> QED
    BY <1>1, ProtocolInvariance, PTL

\* A CompleteAck that a builder read is the queue's acceptance.
THEOREM AcksAreTrue == PSpec => []AckMeansAccepted
  <1>1. ProtocolInv => AckMeansAccepted
    BY DEF ProtocolInv
  <1> QED
    BY <1>1, ProtocolInvariance, PTL

\* A connected builder works under its lease, or on a job that ended under it.
THEOREM ExecutionIsLeased == PSpec => []ExecutionHoldsLease
  <1>1. ASSUME ProtocolInv PROVE ExecutionHoldsLease
    <2> SUFFICES ASSUME NEW b \in Builder, cur[b] # 0, link[b] = "up"
                 PROVE  holder[cur[b]] = b \/ cur[b] \in Done
      BY DEF ExecutionHoldsLease
    <2>1. cur[b] \in InHand(b)
      BY DEF InHand
    <2> QED
      BY <1>1, <2>1 DEF ProtocolInv, HandHasLease
  <1> QED
    BY <1>1, ProtocolInvariance, PTL

\* No job of a requester's queue is executed by two builders at once.
THEOREM ExecutionIsExclusive == PSpec => []ExclusiveExecution
  <1>1. ASSUME ProtocolInv PROVE ExclusiveExecution
    <2> SUFFICES ASSUME NEW b \in Builder, NEW c \in Builder, cur[b] # 0,
                        cur[b] = cur[c], "lost" \notin {link[b], link[c]}
                 PROVE  b = c
      BY DEF ExclusiveExecution
    <2>1. cur[b] \in InHand(b) \cap InHand(c)
      BY DEF InHand
    <2> QED
      BY <1>1, <2>1 DEF ProtocolInv, InOneHand
  <1> QED
    BY <1>1, ProtocolInvariance, PTL

\* A lease ends with its job, or with the requester.
LeaseForLife ==
    ~RestartRequester =>
        \A j \in Leased : holder'[j] = holder[j] \/ j \in Done'

\* Nothing the program does, no lost connection and no crashed builder either,
\* takes a job back from the builder that leases it: check_timeouts, which
\* would, is never called.
THEOREM LeasesAreForLife == PSpec => [][LeaseForLife]_vars
  <1>1. ProtocolInv /\ [PNext]_vars => [LeaseForLife]_vars
    BY StepCalls, LeaseStays DEF LeaseForLife, ProtocolInv
  <1> QED
    BY <1>1, ProtocolInvariance, PTL DEF PSpec

\* The protocol uses the queue as the queue may be used, until the requester is
\* restarted and begins with an empty one: between restarts, all that is proved
\* of the queue's steps holds of the protocol's.
THEOREM ProtocolUsesQueue == PSpec => Init /\ [][Next \/ RestartRequester]_queueVars
  <1>1. PInit => Init
    BY DEF PInit
  <1>2. ProtocolInv /\ [PNext]_vars => [Next \/ RestartRequester]_queueVars
    BY StepCalls DEF Call, Next
  <1> QED
    BY <1>1, <1>2, ProtocolInvariance, PTL DEF PSpec

\* The requester's restart ends the life of all jobs at once.
LEMMA RestartForgets == RestartRequester => Lifecycle!Forget
  <1> SUFFICES ASSUME RestartRequester PROVE Lifecycle!Forget
    OBVIOUS
  <1>1. /\ pending' = <<>> /\ holder' = [j \in JobId |-> Null]
        /\ nextJobId' = 1 /\ pushing' = [s \in Submitter |-> 0]
    BY DEF RestartRequester
  <1>2. Elements(pending)' = {} /\ \A j \in JobId : ~ (j < nextJobId')
    BY <1>1 DEF Elements, JobId
  <1>3. phaseOf' = [j \in JobId |-> "none"]
    BY <1>1, <1>2 DEF phaseOf
  <1> QED
    BY <1>1, <1>3 DEF Lifecycle!Forget

\* The whole protocol, with any number of builders and faults, implements the
\* life cycle of jobs in which no lease is withdrawn: a step moves one job
\* on, or restarts the requester and ends them all, or changes none.
THEOREM ProtocolRefinement == PSpec => ImplementsRestarts
  <1>1. PInit => Lifecycle!LInit
    BY LifecycleInit DEF PInit
  <1>2. ProtocolInv /\ [PNext]_vars =>
            [Lifecycle!Advance \/ Lifecycle!Forget]_(Lifecycle!lvars)
    <2> SUFFICES ASSUME ProtocolInv, [PNext]_vars
                 PROVE  [Lifecycle!Advance \/ Lifecycle!Forget]_(Lifecycle!lvars)
      OBVIOUS
    <2>1. CASE RestartRequester
      BY <2>1, RestartForgets
    <2>2. CASE ~RestartRequester
      <3>1. Call
        BY <2>2, StepCalls
      <3> QED
        BY <3>1, LifecycleCall DEF ProtocolInv
    <2> QED
      BY <2>1, <2>2
  <1> QED
    BY <1>1, <1>2, ProtocolInvariance, PTL
    DEF PSpec, ImplementsRestarts, Lifecycle!RestartSpec

=============================================================================
