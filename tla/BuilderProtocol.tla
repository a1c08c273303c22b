--------------------------- MODULE BuilderProtocol ---------------------------
(***************************************************************************)
(* Builders working on a requester's queue (builder.rs): each builder's    *)
(* worker hears through gossip which features the requester needs,         *)
(* connects, and then exchanges requests and responses with a handler task *)
(* of the requester over one stream, one at a time.  The queue is          *)
(* BuildQueue; its operations run inside the handlers.                     *)
(*                                                                         *)
(* The program as shipped never calls check_timeouts, so CheckTimeouts is  *)
(* not among the steps, and the age of a lease is never looked at.         *)
(*                                                                         *)
(* A build writes its log into a channel of which the worker, between two  *)
(* heartbeats, sends line by line over the same stream; a full channel     *)
(* stops the build.  Nobody subscribes to a requester's log in the process *)
(* that builders connect to.  One requester is modelled.                   *)
(***************************************************************************)
EXTENDS BuildQueue

CONSTANTS
    WithInputs,   \* derivations whose job carries input paths to fetch
    MaxLines,     \* bound: lines of log a build writes
    LogCapacity,  \* the size of the log channel, 256 in the code
    Reannounce,   \* TRUE: the requester is build-push, which repeats NeedBuilder
    MaxFaults     \* bound: failed and dropped connections, crashes, lost gossip

ASSUME ProtocolAssumption ==
    /\ WithInputs \subseteq Drv
    /\ MaxLines \in Nat /\ LogCapacity \in Nat \ {0}
    /\ Reannounce \in BOOLEAN
    /\ MaxFaults \in Nat

VARIABLES
    pc,        \* where each worker is in run / connect_and_work / execute_job
    cur,       \* the job each worker executes, or 0
    output,    \* lines each worker's build has still to write
    lines,     \* lines in its log channel
    link,      \* the worker's connection: "up", "down", or "lost" with the requester
    toServer,  \* requests sent and not yet read by the handler
    toWorker,  \* responses sent and not yet read by the worker
    serving,   \* the request the handler of the live connection works on
    stale,     \* requests read by handlers whose connection is gone since
    heard,     \* features in the worker's RequesterCache entry, or Null
    air,       \* NeedBuilder announcements on their way to each builder
    cancel,    \* what a CancelBuild handler has read, or Null
    faults,    \* faults so far
    acked      \* history: jobs for which each worker read a CompleteAck

logVars == <<output, lines>>
workerVars == <<pc, cur, acked, logVars>>
netVars == <<link, toServer, toWorker, serving, stale>>
gossipVars == <<heard, air>>
protoVars == <<pc, cur, logVars, link, toServer, toWorker, serving, stale, heard, air,
               cancel, faults, acked>>
vars == <<queueVars, protoVars>>

NoReq == [type |-> "None", job |-> 0, looked |-> FALSE]
Request == [type: {"Pull", "Heartbeat", "Complete", "Fail", "BuildLog"},
            job: JobId \cup {0}, looked: BOOLEAN]
Response == [type: {"Job", "NoJob", "HeartbeatAck", "CompleteAck", "FailAck",
                    "LogAck", "Error"},
             job: JobId \cup {0}]

\* Worker states in which a response is awaited, and the request it answers.
Awaits == [pulling |-> "Pull", greeting |-> "Heartbeat", beating |-> "Heartbeat",
           logging |-> "BuildLog", completing |-> "Complete", failing |-> "Fail"]
WorkerState == {"rest", "connect", "ready", "start", "fetch", "build",
                "built", "broken"} \cup DOMAIN Awaits

PTypeOK ==
    /\ TypeOK
    /\ pc \in [Builder -> WorkerState]
    /\ cur \in [Builder -> JobId \cup {0}]
    /\ output \in [Builder -> 0 .. MaxLines]
    /\ lines \in [Builder -> 0 .. LogCapacity]
    /\ link \in [Builder -> {"up", "down", "lost"}]
    /\ toServer \in [Builder -> Seq(Request)]
    /\ toWorker \in [Builder -> Seq(Response)]
    /\ serving \in [Builder -> Request \cup {NoReq}]
    /\ stale \in SUBSET [builder: Builder, req: Request]
    /\ heard \in [Builder -> (SUBSET Feature) \cup {Null}]
    /\ air \in [Builder -> SUBSET SUBSET Feature]
    /\ cancel \in [job: JobId, builder: Builder] \cup {Null}
    /\ faults \in 0 .. MaxFaults
    /\ acked \in [Builder -> SUBSET JobId]

PInit ==
    /\ Init
    /\ pc = [b \in Builder |-> "rest"]
    /\ cur = [b \in Builder |-> 0]
    /\ output = [b \in Builder |-> 0]
    /\ lines = [b \in Builder |-> 0]
    /\ link = [b \in Builder |-> "down"]
    /\ toServer = [b \in Builder |-> <<>>]
    /\ toWorker = [b \in Builder |-> <<>>]
    /\ serving = [b \in Builder |-> NoReq]
    /\ stale = {}
    /\ heard = [b \in Builder |-> Null]
    /\ air = [b \in Builder |-> {}]
    /\ cancel = Null
    /\ faults = 0
    /\ acked = [b \in Builder |-> {}]

-----------------------------------------------------------------------------
(* The requester: submissions and announcements *)

Announce(F) == air' = [b \in Builder |-> air[b] \cup {F}]

\* SubmitBuild: push, in its two steps, then announce_need_builder with the
\* job's own features if push says so.
SubmitBegin(s, d, F) ==
    /\ PushAllocate(s, d, F)
    /\ UNCHANGED protoVars

SubmitEnd(s) ==
    /\ PushEnqueue(s)
    /\ IF ShouldAnnounce THEN Announce(job[pushing[s]].features)
                         ELSE UNCHANGED air
    /\ UNCHANGED <<workerVars, netVars, heard, cancel, faults>>

\* build-push, all of its plan queued: while jobs are pending it repeats
\* NeedBuilder every 10 s, with the features of all its jobs together.
RepeatAnnouncement ==
    /\ Reannounce
    /\ nextJobId > MaxJobs /\ Pushing = {}
    /\ pending # <<>>
    /\ Announce(UNION {job[j].features : j \in JobId})
    /\ UNCHANGED <<queueVars, workerVars, netVars, heard, cancel, faults>>

-----------------------------------------------------------------------------
(* Gossip, as a builder sees it *)

\* A NeedBuilder arrives: the requester's entry is added or replaced.
HearNeedBuilder(b) ==
    \E F \in air[b] :
        /\ heard' = [heard EXCEPT ![b] = F]
        /\ air' = [air EXCEPT ![b] = @ \ {F}]
        /\ UNCHANGED <<queueVars, workerVars, netVars, cancel, faults>>

-----------------------------------------------------------------------------
(* The builder's worker *)

WorkerOnly == UNCHANGED <<queueVars, gossipVars, cancel, faults>>

Goto(b, where) == pc' = [pc EXCEPT ![b] = where]

\* send_request: the request goes out and the worker awaits its response.
Sends(b, type, where) ==
    /\ link[b] = "up"
    /\ toServer' = [toServer EXCEPT ![b] =
                       Append(@, [type |-> type, job |-> cur[b], looked |-> FALSE])]
    /\ Goto(b, where)
    /\ UNCHANGED <<link, toWorker, serving, stale, cur, acked, output>>
    /\ WorkerOnly

SendRequest(b, type, where) == Sends(b, type, where) /\ UNCHANGED lines

\* recv_response: the response is taken off the stream.
Receive(b, types) ==
    /\ link[b] = "up"
    /\ toWorker[b] # <<>>
    /\ Head(toWorker[b]).type \in types
    /\ toWorker' = [toWorker EXCEPT ![b] = Tail(@)]
    /\ UNCHANGED <<logVars, link, toServer, serving, stale>>
    /\ WorkerOnly

\* run: every 5 s the worker looks for requesters whose features it has.
FindRequester(b) ==
    /\ pc[b] = "rest"
    /\ heard[b] # Null
    /\ heard[b] \subseteq Offered[b]
    /\ Goto(b, "connect")
    /\ UNCHANGED <<cur, acked, logVars, netVars>>
    /\ WorkerOnly

\* connect_and_work: connect (with retries inside) and open the stream.
Connect(b) ==
    /\ pc[b] = "connect"
    /\ link' = [link EXCEPT ![b] = "up"]
    /\ Goto(b, "ready")
    /\ UNCHANGED <<cur, acked, logVars, toServer, toWorker, serving, stale>>
    /\ WorkerOnly

PullRequest(b) == pc[b] = "ready" /\ SendRequest(b, "Pull", "pulling")

ReceiveJob(b) ==
    /\ pc[b] = "pulling"
    /\ Receive(b, {"Job"})
    /\ cur' = [cur EXCEPT ![b] = Head(toWorker[b]).job]
    /\ Goto(b, "start")
    /\ UNCHANGED acked

\* NoJob, not idle for long: wait 2 s and pull again.
ReceiveNoJob(b) ==
    /\ pc[b] = "pulling"
    /\ Receive(b, {"NoJob"})
    /\ Goto(b, "ready")
    /\ UNCHANGED <<cur, acked>>

\* NoJob after 30 s without a job: leave the requester.  The handler's next
\* read fails and it ends.
LeaveIdle(b) ==
    /\ pc[b] = "pulling"
    /\ link[b] = "up"
    /\ toWorker[b] # <<>> /\ Head(toWorker[b]).type = "NoJob"
    /\ toWorker' = [toWorker EXCEPT ![b] = <<>>]
    /\ link' = [link EXCEPT ![b] = "down"]
    /\ Goto(b, "rest")
    /\ UNCHANGED <<cur, acked, logVars, toServer, serving, stale>>
    /\ WorkerOnly

\* execute_job: with inputs, a first heartbeat and then the dependencies;
\* without, straight to the build.
GreetBeforeFetch(b) ==
    /\ pc[b] = "start"
    /\ job[cur[b]].drv \in WithInputs
    /\ SendRequest(b, "Heartbeat", "greeting")

\* The build is spawned; how much it will write to its log is its own matter.
StartBuild(b) ==
    /\ Goto(b, "build")
    /\ \E n \in 0 .. MaxLines : output' = [output EXCEPT ![b] = n]
    /\ UNCHANGED lines

StartWithoutInputs(b) ==
    /\ pc[b] = "start"
    /\ job[cur[b]].drv \notin WithInputs
    /\ StartBuild(b)
    /\ UNCHANGED <<cur, acked, netVars>>
    /\ WorkerOnly

\* The response to a heartbeat is read and ignored, also when it is Error.
ReceiveGreeting(b) ==
    /\ pc[b] = "greeting"
    /\ Receive(b, {"HeartbeatAck", "Error"})
    /\ Goto(b, "fetch")
    /\ UNCHANGED <<cur, acked>>

\* Seeded fault: a failed fetch abandons the job without telling the queue.
FetchDependenciesSilently(b) ==
    /\ pc[b] = "fetch"
    /\ \/ StartBuild(b) /\ UNCHANGED cur
       \/ Goto(b, "ready") /\ cur' = [cur EXCEPT ![b] = 0] /\ UNCHANGED logVars
    /\ UNCHANGED <<acked, netVars>>
    /\ WorkerOnly

\* fetch_dependencies: all inputs present, or some error aborts the job.
FetchDependencies(b) ==
    /\ pc[b] = "fetch"
    /\ \/ StartBuild(b)
       \/ Goto(b, "broken") /\ UNCHANGED logVars
    /\ UNCHANGED <<cur, acked, netVars>>
    /\ WorkerOnly

\* Seeded fault: the heartbeat's response is left on the stream.
SendHeartbeatOnly(b) == pc[b] = "build" /\ SendRequest(b, "Heartbeat", "build")

SendHeartbeat(b) == pc[b] = "build" /\ SendRequest(b, "Heartbeat", "beating")

ReceiveHeartbeatAck(b) ==
    /\ pc[b] = "beating"
    /\ Receive(b, {"HeartbeatAck", "Error"})
    /\ Goto(b, "build")
    /\ UNCHANGED <<cur, acked>>

\* The readers of the build's output put a line into the log channel, and
\* wait while it is full.
WriteLine(b) ==
    /\ pc[b] \in {"build", "beating", "logging"}
    /\ output[b] > 0
    /\ lines[b] < LogCapacity
    /\ output' = [output EXCEPT ![b] = @ - 1]
    /\ lines' = [lines EXCEPT ![b] = @ + 1]
    /\ UNCHANGED <<pc, cur, acked, netVars>>
    /\ WorkerOnly

\* The worker takes a line off the channel and sends it as a BuildLog.
SendLog(b) ==
    /\ pc[b] = "build"
    /\ lines[b] > 0
    /\ lines' = [lines EXCEPT ![b] = @ - 1]
    /\ Sends(b, "BuildLog", "logging")

ReceiveLogAck(b) ==
    /\ pc[b] = "logging"
    /\ Receive(b, {"LogAck"})
    /\ Goto(b, "build")
    /\ UNCHANGED <<cur, acked>>

\* The spawned build ends when all its output is read: its outputs are
\* indexed and signed, or it failed.  Lines still in the channel are dropped.
BuildEnds(b) ==
    /\ pc[b] = "build"
    /\ output[b] = 0
    /\ Goto(b, "built") \/ Goto(b, "broken")
    /\ lines' = [lines EXCEPT ![b] = 0]
    /\ UNCHANGED <<output, cur, acked, netVars>>
    /\ WorkerOnly

SendComplete(b) == pc[b] = "built" /\ SendRequest(b, "Complete", "completing")

ReceiveCompleteAck(b) ==
    /\ pc[b] = "completing"
    /\ Receive(b, {"CompleteAck"})
    /\ acked' = [acked EXCEPT ![b] = @ \cup {cur[b]}]
    /\ cur' = [cur EXCEPT ![b] = 0]
    /\ Goto(b, "ready")

\* A rejected completion is reported as a failure, like any other error.
ReceiveCompleteError(b) ==
    /\ pc[b] = "completing"
    /\ Receive(b, {"Error"})
    /\ Goto(b, "broken")
    /\ UNCHANGED <<cur, acked>>

SendFail(b) == pc[b] = "broken" /\ SendRequest(b, "Fail", "failing")

ReceiveFailResponse(b) ==
    /\ pc[b] = "failing"
    /\ Receive(b, {"FailAck", "Error"})
    /\ cur' = [cur EXCEPT ![b] = 0]
    /\ Goto(b, "ready")
    /\ UNCHANGED acked

\* A send or a receive on a dead connection fails.  Inside a job the error
\* leads to a Fail that cannot be sent either; then the next Pull fails and
\* connect_and_work returns.  A build still running is left to itself.
NoticeDeadLink(b) ==
    /\ link[b] # "up"
    /\ pc[b] \notin {"rest", "connect", "fetch"}
    /\ Goto(b, "rest")
    /\ cur' = [cur EXCEPT ![b] = 0]
    /\ output' = [output EXCEPT ![b] = 0]
    /\ lines' = [lines EXCEPT ![b] = 0]
    /\ UNCHANGED <<acked, netVars>>
    /\ WorkerOnly

WorkerStep(b) ==
    \/ FindRequester(b) \/ Connect(b) \/ PullRequest(b) \/ ReceiveJob(b)
    \/ ReceiveNoJob(b) \/ LeaveIdle(b) \/ GreetBeforeFetch(b)
    \/ StartWithoutInputs(b) \/ ReceiveGreeting(b) \/ FetchDependencies(b)
    \/ SendHeartbeat(b) \/ ReceiveHeartbeatAck(b) \/ SendLog(b)
    \/ ReceiveLogAck(b) \/ BuildEnds(b)
    \/ SendComplete(b) \/ ReceiveCompleteAck(b) \/ ReceiveCompleteError(b)
    \/ SendFail(b) \/ ReceiveFailResponse(b) \/ NoticeDeadLink(b)

-----------------------------------------------------------------------------
(* The requester's handler of a builder's connection *)

\* The handler reads the next request.
ReadRequest(b) ==
    /\ serving[b] = NoReq
    /\ toServer[b] # <<>>
    /\ serving' = [serving EXCEPT ![b] = Head(toServer[b])]
    /\ toServer' = [toServer EXCEPT ![b] = Tail(@)]
    /\ UNCHANGED <<queueVars, workerVars, link, toWorker, stale, gossipVars,
                   cancel, faults>>

Reply(type) == [type |-> type, job |-> 0]

\* A pull is answered with the first job that matches, now leased to b.
AnswerPull(b, resp) ==
    \/ /\ \E i \in Matching(b) : /\ \A k \in Matching(b) : i <= k
                                 /\ resp = [type |-> "Job", job |-> pending[i]]
       /\ Pull(b)
    \/ /\ Matching(b) = {}
       /\ resp = Reply("NoJob")
       /\ UNCHANGED queueVars

AnswerHeartbeat(b, j, resp) ==
    \/ /\ resp = Reply("HeartbeatAck")
       /\ Heartbeat(j, b)
    \/ /\ resp = Reply("Error")
       /\ holder[j] # b
       /\ UNCHANGED queueVars

\* Seeded fault: the acknowledgement does not depend on what complete returns.
AnswerCompleteBlindly(b, j, looked, resp) ==
    /\ resp = Reply("CompleteAck")
    /\ \/ Complete(j, b)
       \/ holder[j] # b /\ UNCHANGED queueVars

\* A completion is answered in two steps, list_leased (LookUpLease, below)
\* and complete; the job may end between the two.
AnswerComplete(b, j, looked, resp) ==
    \/ /\ resp = Reply("CompleteAck")
       /\ looked
       /\ Complete(j, b)
    \/ /\ resp = Reply("Error")
       /\ IF looked THEN holder[j] # b ELSE j \notin Leased
       /\ UNCHANGED queueVars

AnswerFail(b, j, resp) ==
    \/ /\ resp = Reply("FailAck")
       /\ Fail(j, b)
    \/ /\ resp = Reply("Error")
       /\ holder[j] # b
       /\ UNCHANGED queueVars

\* A line of log is passed to whoever subscribed to the job, and acknowledged.
AnswerLog(resp) == resp = Reply("LogAck") /\ UNCHANGED queueVars

\* The answer to request r of builder b, with its effect on the queue.
Answer(b, r, resp) ==
    \/ r.type = "Pull"      /\ AnswerPull(b, resp)
    \/ r.type = "Heartbeat" /\ AnswerHeartbeat(b, r.job, resp)
    \/ r.type = "Complete"  /\ AnswerComplete(b, r.job, r.looked, resp)
    \/ r.type = "Fail"      /\ AnswerFail(b, r.job, resp)
    \/ r.type = "BuildLog"  /\ AnswerLog(resp)

\* The completion handler found the job in its copy of the leases.
Looks(r) == r.type = "Complete" /\ ~r.looked /\ r.job \in Leased

LookUpLease(b) ==
    /\ Looks(serving[b])
    /\ serving' = [serving EXCEPT ![b].looked = TRUE]
    /\ UNCHANGED <<queueVars, workerVars, link, toServer, toWorker, stale,
                   gossipVars, cancel, faults>>

\* The request is carried out and its response sent.
Serve(b) ==
    /\ serving[b] # NoReq
    /\ \E resp \in Response :
           /\ Answer(b, serving[b], resp)
           /\ toWorker' = [toWorker EXCEPT ![b] = Append(@, resp)]
    /\ serving' = [serving EXCEPT ![b] = NoReq]
    /\ UNCHANGED <<workerVars, link, toServer, stale, gossipVars, cancel, faults>>

\* A handler whose connection is gone still carries out the request it has
\* read; its response goes nowhere.
ServeStale(m) ==
    \/ /\ Looks(m.req)
       /\ stale' = (stale \ {m}) \cup {[m EXCEPT !.req.looked = TRUE]}
       /\ UNCHANGED queueVars
       /\ UNCHANGED <<workerVars, link, toServer, toWorker, serving, gossipVars,
                      cancel, faults>>
    \/ /\ \E resp \in Response : Answer(m.builder, m.req, resp)
       /\ stale' = stale \ {m}
       /\ UNCHANGED <<workerVars, link, toServer, toWorker, serving, gossipVars,
                      cancel, faults>>

HandlerStep(b) == ReadRequest(b) \/ LookUpLease(b) \/ Serve(b)

-----------------------------------------------------------------------------
(* CancelBuild, from the control socket: the lease is read from a copy of    *)
(* the leases and then failed in its builder's name.                         *)

CancelLookUp(j) ==
    /\ cancel = Null
    /\ holder[j] # Null
    /\ cancel' = [job |-> j, builder |-> holder[j]]
    /\ UNCHANGED <<queueVars, workerVars, netVars, gossipVars, faults>>

\* Seeded fault: a cancelled job goes back to the queue.
CancelRequeue ==
    /\ cancel # Null
    /\ \/ /\ holder[cancel.job] = cancel.builder
          /\ pending' = <<cancel.job>> \o pending
          /\ holder' = [holder EXCEPT ![cancel.job] = Null]
          /\ UNCHANGED <<nextJobId, job, pushing, age, completed, pendingFetch,
                         needed, accepted, taken>>
       \/ holder[cancel.job] # cancel.builder /\ UNCHANGED queueVars
    /\ cancel' = Null
    /\ UNCHANGED <<workerVars, netVars, gossipVars, faults>>

CancelFail ==
    /\ cancel # Null
    /\ \/ Fail(cancel.job, cancel.builder)
       \/ holder[cancel.job] # cancel.builder /\ UNCHANGED queueVars
    /\ cancel' = Null
    /\ UNCHANGED <<workerVars, netVars, gossipVars, faults>>

-----------------------------------------------------------------------------
(* Faults *)

Fault == faults < MaxFaults /\ faults' = faults + 1

\* Seeded fault: the handler's clean-up runs a request it never read.
LoseLinkUnread(b) ==
    /\ link' = [link EXCEPT ![b] = "down"]
    /\ toServer' = [toServer EXCEPT ![b] = <<>>]
    /\ toWorker' = [toWorker EXCEPT ![b] = <<>>]
    /\ serving' = [serving EXCEPT ![b] = NoReq]
    /\ stale' = stale \cup {[builder |-> b, req |-> serving[b]]}

\* What a lost connection leaves: unread bytes are gone, a request already
\* read by the handler is still carried out.
LoseLink(b) ==
    /\ link' = [link EXCEPT ![b] = "down"]
    /\ toServer' = [toServer EXCEPT ![b] = <<>>]
    /\ toWorker' = [toWorker EXCEPT ![b] = <<>>]
    /\ serving' = [serving EXCEPT ![b] = NoReq]
    /\ stale' = IF serving[b] = NoReq THEN stale
                ELSE stale \cup {[builder |-> b, req |-> serving[b]]}

DropConnection(b) ==
    /\ Fault
    /\ link[b] = "up"
    /\ LoseLink(b)
    /\ UNCHANGED <<queueVars, workerVars, gossipVars, cancel>>

\* The builder process dies and is restarted with empty caches.
CrashBuilder(b) ==
    /\ Fault
    /\ LoseLink(b)
    /\ pc' = [pc EXCEPT ![b] = "rest"]
    /\ cur' = [cur EXCEPT ![b] = 0]
    /\ heard' = [heard EXCEPT ![b] = Null]
    /\ output' = [output EXCEPT ![b] = 0]
    /\ lines' = [lines EXCEPT ![b] = 0]
    /\ UNCHANGED <<queueVars, acked, air, cancel>>

\* The requester dies and is restarted: the queue was in memory only, and job
\* ids begin at 1 again.  Builders go on with what they are doing.
RestartRequester ==
    /\ Fault
    /\ nextJobId' = 1
    /\ job' = [j \in JobId |-> [drv |-> Null, features |-> {}]]
    /\ pushing' = [s \in Submitter |-> 0]
    /\ pending' = <<>>
    /\ holder' = [j \in JobId |-> Null]
    /\ age' = [j \in JobId |-> 0]
    /\ completed' = [d \in Drv |-> Null]
    /\ pendingFetch' = <<>>
    /\ needed' = Null
    /\ accepted' = {} /\ taken' = {}
    /\ link' = [b \in Builder |-> "lost"]
    /\ toServer' = [b \in Builder |-> <<>>]
    /\ toWorker' = [b \in Builder |-> <<>>]
    /\ serving' = [b \in Builder |-> NoReq]
    /\ stale' = {}
    /\ cancel' = Null
    /\ acked' = [b \in Builder |-> {}]
    /\ UNCHANGED <<pc, cur, logVars, gossipVars>>

\* The requester is no longer a gossip neighbour: its entry is removed.
NeighborDown(b) ==
    /\ Fault
    /\ heard[b] # Null
    /\ heard' = [heard EXCEPT ![b] = Null]
    /\ UNCHANGED <<queueVars, workerVars, netVars, air, cancel>>

\* The retries of connect run out and connect_and_work returns.
ConnectFails(b) ==
    /\ Fault
    /\ pc[b] = "connect"
    /\ pc' = [pc EXCEPT ![b] = "rest"]
    /\ UNCHANGED <<queueVars, cur, acked, logVars, netVars, gossipVars, cancel>>

\* Gossip is lossy (a lagging receiver, a peer not reached).
LoseAnnouncement(b) ==
    /\ Fault
    /\ \E F \in air[b] : air' = [air EXCEPT ![b] = @ \ {F}]
    /\ UNCHANGED <<queueVars, workerVars, netVars, heard, cancel>>

-----------------------------------------------------------------------------
RequesterStep ==
    \/ \E s \in Submitter, d \in Drv, F \in SUBSET Feature : SubmitBegin(s, d, F)
    \/ \E s \in Submitter : SubmitEnd(s)
    \/ RepeatAnnouncement
    \/ \E j \in JobId : CancelLookUp(j)
    \/ CancelFail

FaultStep ==
    \/ RestartRequester
    \/ \E b \in Builder : \/ DropConnection(b) \/ CrashBuilder(b)
                          \/ NeighborDown(b) \/ ConnectFails(b)
                          \/ LoseAnnouncement(b)

PNext ==
    \/ RequesterStep
    \/ \E b \in Builder : \/ HearNeedBuilder(b) \/ WorkerStep(b)
                          \/ WriteLine(b) \/ HandlerStep(b)
    \/ \E m \in stale : ServeStale(m)
    \/ FaultStep

PSpec == PInit /\ [][PNext]_vars

\* Every task of the program keeps running: the handlers, the worker, the
\* gossip receiver, the readers of a build's output, the announcement timer.
\* The worker's loop chooses at random among what is ready, so neither the
\* lines of the log nor the end of the build are put off for ever by
\* heartbeats.  Clients and faults are not obliged to do anything.
Fairness ==
    /\ \A s \in Submitter : WF_vars(SubmitEnd(s))
    /\ WF_vars(RepeatAnnouncement)
    /\ WF_vars(CancelFail)
    /\ WF_vars(\E m \in stale : ServeStale(m))
    /\ \A b \in Builder : /\ WF_vars(HearNeedBuilder(b))
                           /\ WF_vars(WorkerStep(b))
                           /\ WF_vars(HandlerStep(b))
                           /\ WF_vars(WriteLine(b))
                           /\ SF_vars(SendLog(b))
                           /\ SF_vars(BuildEnds(b))

FairSpec == PSpec /\ Fairness

-----------------------------------------------------------------------------
(* Properties *)

\* Two builders never execute the same job of a requester's queue at once,
\* whatever connections are dropped, builders restarted or jobs cancelled.  This
\* is what a lease is for; as shipped it holds because no lease is ever given
\* back.  (The queue of a requester that died is not this queue.)
ExclusiveExecution ==
    \A b, c \in Builder :
        cur[b] # 0 /\ cur[b] = cur[c] /\ "lost" \notin {link[b], link[c]} => b = c

\* A connected builder only spends time on a job it holds the lease of, or
\* on one that ended under it (cancelled, or its own request carried out); it
\* never speaks of a job of a former queue whose id the new one has used again.
ExecutionHoldsLease ==
    \A b \in Builder : cur[b] # 0 /\ link[b] = "up" =>
        holder[cur[b]] = b \/ cur[b] \in Done

\* The stream stays in step: while the worker awaits a response exactly one
\* request or response is on its way, it belongs to the request the worker
\* is waiting on, and at any other time there is none.  The responses carry
\* no request number, so a worker that is one response behind would take
\* the answer to a heartbeat for the answer to its Complete.
AnswersOf(type) ==
    CASE type = "Pull"      -> {"Job", "NoJob"}
      [] type = "Heartbeat" -> {"HeartbeatAck", "Error"}
      [] type = "Complete"  -> {"CompleteAck", "Error"}
      [] type = "Fail"      -> {"FailAck", "Error"}
      [] type = "BuildLog"  -> {"LogAck"}

InFlight(b) == Len(toServer[b]) + Len(toWorker[b])
               + (IF serving[b] = NoReq THEN 0 ELSE 1)

StreamInStep ==
    \A b \in Builder : link[b] = "up" =>
        IF pc[b] \in DOMAIN Awaits
        THEN /\ InFlight(b) = 1
             /\ \A i \in DOMAIN toServer[b] : toServer[b][i].type = Awaits[pc[b]]
             /\ serving[b] # NoReq => serving[b].type = Awaits[pc[b]]
             /\ \A i \in DOMAIN toWorker[b] :
                    toWorker[b][i].type \in AnswersOf(Awaits[pc[b]])
        ELSE InFlight(b) = 0

\* What a builder was told is true: a job whose CompleteAck it read was
\* accepted, and stays accepted whatever CancelBuild or a late request does.
AckMeansAccepted == \A b \in Builder : acked[b] \subseteq accepted

\* Seen from its clients the service of several builders over faulty links is
\* one life cycle per job, which only the requester's restart can cut short, of
\* all jobs at once: no job goes back from a builder to the queue, none is
\* given away twice, none ends but by the builder that holds it, and one that
\* is over stays over, whatever is sent, lost, repeated late or cancelled.
ImplementsRestarts == Lifecycle!RestartSpec

\* Every job handed to the queue is eventually over.
EveryJobEnds ==
    \A j \in JobId : (j \in Pushing \cup Elements(pending) \cup Leased)
                       ~> (j \in Done)

\* "Builder disconnects: Leased jobs timeout and return to queue": a lease
\* held by a builder whose connection is gone does not last.
LostLeaseReturns ==
    \A j \in JobId, b \in Builder :
        (holder[j] = b /\ link[b] # "up") ~> (holder[j] # b)

=============================================================================
