--------------------------- MODULE BuildPushProofs ---------------------------
(* Proofs about BuildPush, for every dependency graph and all values of its *)
(* constants.                                                               *)
EXTENDS BuildPush, BuildQueueProofs, BuildPlanProofs

-----------------------------------------------------------------------------
(* The inductive invariant: the queue's and the plan's own, how the jobs    *)
(* come from the plan, the order they are in, and what the monitor knows.   *)

\* The jobs are the derivations of the plan in its order; builders are served
\* only when all of them are queued.
JobsOfPlan ==
    /\ nextJobId <= Len(result) + 1
    /\ \A j \in JobId : j < nextJobId =>
           job[j] = [drv |-> result[j], features |-> Needs[result[j]]]
    /\ phase = "planning" => nextJobId = 1 /\ Pushing = {}
    /\ phase \in {"planning", "queueing", "failed"} => Leased = {} /\ Done = {}
    /\ phase = "failed" => Pushing = {}
    /\ phase \notin {"planning", "queueing", "failed"} =>
           nextJobId = Len(result) + 1 /\ Pushing = {}

Ascending(s) == \A i, k \in DOMAIN s : i < k => s[i] < s[k]

\* Every builder has all the features any job needs.
BuildersCanDoAll == \A b \in Builder : \A d \in Drv : Needs[d] \subseteq Offered[b]

\* The queue is in the order of the ids, and builders that can do every job
\* have taken a prefix of it.
InOrder ==
    /\ Ascending(pending)
    /\ \A j \in Pushing : j = nextJobId - 1
    /\ BuildersCanDoAll =>
           \A j \in Leased \cup Done : \A i \in Elements(pending) : j < i

\* The results taken are those tried and those in the batch; the loop decides
\* with an empty batch, and what it counted cannot have been undone since.
MonitorKnows ==
    /\ taken = tried \cup {batch[i].job : i \in DOMAIN batch}
    /\ monitor # "fetching" => batch = <<>>
    /\ monitor # "asleep" => phase = "serving"
    /\ monitor = "deciding" /\ idle => pending = <<>> /\ Leased = {}
    /\ phase = "stopped" =>
           pending = <<>> /\ Leased = {} /\ pendingFetch = <<>>

BPInv ==
    /\ IndInv
    /\ PlanInv
    /\ BPTypeOK
    /\ JobsOfPlan
    /\ InOrder
    /\ MonitorKnows

-----------------------------------------------------------------------------
(* The queue and the plan below the command. *)

\* The steps that add jobs.
Queues == \E s \in Submitter : QueueNext(s) \/ QueueNextEnds(s)

\* The steps of builders.
Builds == \E b \in Builder : BuilderPulls(b) \/ BuilderEnds(b)

\* Every step makes at most one call on the queue, and never check_timeouts.
LEMMA PushCalls ==
    ASSUME BPInv, [BPNext]_bpVars
    PROVE  Call
  <1>1. ASSUME NEW s \in Submitter, QueueNext(s)
        PROVE  Call
    <2>1. nextJobId \in 1 .. Len(result) /\ result \in Seq(toBuild) /\ toBuild \in SUBSET Drv
      BY <1>1 DEF QueueNext, BPInv, BPTypeOK, TypeOK, PlanTypeOK
    <2>2. result[nextJobId] \in Drv
      BY <2>1
    <2>3. Needs[result[nextJobId]] \in SUBSET Feature
      BY <2>2, PushAssumption
    <2> QED
      BY <1>1, <2>2, <2>3 DEF QueueNext, Call
  <1>2. ASSUME Builds
        PROVE  Call
    BY <1>2 DEF Builds, BuilderPulls, BuilderEnds, Call
  <1>3. ASSUME NEW s \in Submitter, QueueNextEnds(s)
        PROVE  Call
    BY <1>3 DEF QueueNextEnds, Call
  <1>4. ASSUME \/ PlanNext \/ PlanEnds \/ StartServing \/ Monitor \/ CtrlC
               \/ UNCHANGED bpVars
        PROVE  Call
    BY <1>4 DEF PlanNext, PlanEnds, StartServing, Monitor, TakeResults,
                FetchOutputs, CountJobs, Decide, CtrlC, bpVars, Call
  <1> QED
    BY <1>1, <1>2, <1>3, <1>4 DEF BPNext, Prepare, Builds

\* The plan changes only while the command plans.
LEMMA PlanKeeps ==
    ASSUME BPInv, [BPNext]_bpVars
    PROVE  /\ PlanInv'
           /\ phase # "planning" => UNCHANGED planVars
           /\ UNCHANGED planVars \/ PlanNext
  <1>1. UNCHANGED planVars \/ PlanNext
    <2>1. CASE UNCHANGED bpVars
      BY <2>1 DEF bpVars
    <2>2. CASE Prepare \/ CtrlC
      BY <2>2 DEF Prepare, PlanEnds, QueueNext, QueueNextEnds, StartServing, CtrlC
    <2>3. ASSUME NEW b \in Builder, BuilderPulls(b) \/ BuilderEnds(b)
          PROVE  UNCHANGED planVars
      BY <2>3 DEF BuilderPulls, BuilderEnds
    <2>4. CASE Monitor
      BY <2>4 DEF Monitor, TakeResults, FetchOutputs, CountJobs, Decide
    <2> QED
      BY <2>1, <2>2, <2>3, <2>4 DEF BPNext
  <1>2. UNCHANGED planVars => PlanInv'
    BY DEF BPInv, PlanInv, planVars, PlanTypeOK, DegreesCount, ListedWhenFree,
           DependenciesFirst, OpenDeps, Planned
  <1>3. PlanNext => PlanInv' /\ phase = "planning"
    BY VisitStep DEF PlanNext, BPInv
  <1> QED
    BY <1>1, <1>2, <1>3

\* Before any id is handed out the queue is empty.
LEMMA EmptyQueue ==
    ASSUME IndInv, nextJobId = 1
    PROVE  pending = <<>> /\ Leased = {} /\ Done = {} /\ pendingFetch = <<>>
           /\ accepted = {}
  <1>1. TypeOK /\ OnePlace /\ FetchedExactlyOnce
    BY DEF IndInv
  <1>2. Elements(pending) = {} /\ Leased = {} /\ Done = {}
    <2>1. Elements(pending) \subseteq JobId /\ Leased \subseteq JobId /\ Done \subseteq JobId
      BY <1>1 DEF TypeOK, Elements, Leased, Done
    <2> QED
      BY <1>1, <2>1 DEF OnePlace, Done, JobId
  <1>3. DOMAIN pending = {}
    BY <1>2 DEF Elements
  <1>4. accepted = {} /\ DOMAIN pendingFetch = {}
    BY <1>1, <1>2 DEF FetchedExactlyOnce
  <1> QED
    BY <1>1, <1>2, <1>3, <1>4 DEF TypeOK

\* There is one pushing task.
LEMMA OnePusher ==
    ASSUME NEW s \in Submitter
    PROVE  Pushing = {pushing[s]} \ {0} /\ Pushing' = {pushing'[s]} \ {0}
  BY PushAssumption DEF Pushing

\* The other steps move no job.
Rests ==
    \/ PlanNext \/ PlanEnds \/ StartServing \/ Monitor \/ CtrlC
    \/ UNCHANGED bpVars

LEMMA RestsMoveNoJob ==
    ASSUME Rests
    PROVE  /\ pending' = pending /\ Elements(pending)' = Elements(pending)
           /\ Leased' = Leased /\ Pushing' = Pushing /\ Done' = Done
           /\ nextJobId' = nextJobId /\ UNCHANGED <<job, accepted>>
  <1>1. TakePendingFetches \/ UNCHANGED queueVars
    BY DEF Rests, PlanNext, PlanEnds, StartServing, Monitor, TakeResults,
           FetchOutputs, CountJobs, Decide, CtrlC, bpVars
  <1>2. nextJobId' = nextJobId
    BY <1>1 DEF TakePendingFetches, queueVars
  <1> QED
    BY <1>1, <1>2, StillPlaces

\* A step queues a job, is a builder's, or moves none.
LEMMA StepCases == [BPNext]_bpVars => Queues \/ Builds \/ Rests
  BY DEF BPNext, Prepare, Queues, Builds, Rests

\* No job is queued before the plan is made or after builders are served.
LEMMA QueuesWhileQueueing ==
    ASSUME BPInv, Queues
    PROVE  /\ phase = "queueing" /\ phase' \in {"queueing", "failed"}
           /\ UNCHANGED <<planVars, monitorVars>>
  <1>1. PICK s \in Submitter : QueueNext(s) \/ QueueNextEnds(s)
    BY DEF Queues
  <1>2. CASE QueueNext(s)
    BY <1>2 DEF QueueNext
  <1>3. CASE QueueNextEnds(s)
    <2>1. Pushing # {}
      BY <1>3, PushEnqueuePlaces DEF QueueNextEnds, BPInv, IndInv
    <2>2. phase = "queueing"
      BY <2>1 DEF BPInv, JobsOfPlan, BPTypeOK
    <2> QED
      BY <1>3, <2>2 DEF QueueNextEnds
  <1> QED
    BY <1>1, <1>2, <1>3

\* The jobs stay the derivations of the plan, in its order.
LEMMA JobsOfPlanStep ==
    ASSUME BPInv, [BPNext]_bpVars
    PROVE  JobsOfPlan'
  <1>1. /\ JobsOfPlan /\ TypeOK /\ OnePlace
        /\ nextJobId \in Nat /\ nextJobId # 0
        /\ result \in Seq(toBuild) /\ Len(result) \in Nat
    BY DEF BPInv, BPTypeOK, TypeOK, PlanTypeOK, IndInv, JobId
  <1>2. ASSUME NEW s \in Submitter, QueueNext(s)
        PROVE  JobsOfPlan'
    <2>1. /\ phase = "queueing" /\ phase' = "queueing" /\ result' = result
          /\ nextJobId <= Len(result)
          /\ PushAllocate(s, result[nextJobId], Needs[result[nextJobId]])
      BY <1>2, QueuesWhileQueueing DEF QueueNext, planVars, Queues
    <2>2. result[nextJobId] \in Drv
      BY <1>1, <2>1 DEF BPInv, PlanInv, PlanTypeOK
    <2>3. Needs[result[nextJobId]] \in SUBSET Feature
      BY <2>2, PushAssumption
    <2>4. /\ nextJobId' = nextJobId + 1 /\ Leased' = Leased /\ Done' = Done
      BY <1>1, <2>1, <2>2, <2>3, PushAllocatePlaces
    <2>5. ASSUME NEW j \in JobId, j < nextJobId'
          PROVE  job'[j] = [drv |-> result[j], features |-> Needs[result[j]]]
      <3>1. CASE j = nextJobId
        BY <1>1, <2>1, <3>1 DEF PushAllocate, TypeOK
      <3>2. CASE j # nextJobId
        BY <1>1, <2>1, <2>4, <2>5, <3>2 DEF PushAllocate, TypeOK, JobsOfPlan, JobId
      <3> QED
        BY <3>1, <3>2
    <2>6. nextJobId' <= Len(result') + 1
      BY <1>1, <2>1, <2>4
    <2>7. Leased' = {} /\ Done' = {}
      BY <1>1, <2>1, <2>4 DEF JobsOfPlan
    <2> QED
      BY <2>1, <2>5, <2>6, <2>7 DEF JobsOfPlan
  <1>3. ASSUME NEW s \in Submitter, QueueNextEnds(s)
        PROVE  JobsOfPlan'
    <2>1. /\ phase = "queueing" /\ phase' \in {"queueing", "failed"}
          /\ result' = result
      BY <1>3, QueuesWhileQueueing DEF planVars, Queues
    <2>3. Pushing' = {}
      BY <1>1, <1>3, PushEnqueuePlaces, OnePusher DEF QueueNextEnds
    <2>2. /\ nextJobId' = nextJobId /\ Leased' = Leased /\ Done' = Done /\ job' = job
      BY <1>1, <1>3, PushEnqueuePlaces DEF QueueNextEnds, PushEnqueue
    <2> QED
      BY <1>1, <2>1, <2>2, <2>3 DEF JobsOfPlan
  <1>4. ASSUME Builds
        PROVE  JobsOfPlan'
    <2>1. phase = "serving" /\ phase' = "serving" /\ result' = result
      BY <1>4 DEF Builds, BuilderPulls, BuilderEnds, planVars
    <2>2. UNCHANGED <<nextJobId, pushing, job>>
      BY <1>4 DEF Builds, BuilderPulls, BuilderEnds, Pull, Complete, Fail
    <2>3. Pushing' = Pushing
      BY <2>2 DEF Pushing
    <2> QED
      BY <1>1, <2>1, <2>2, <2>3 DEF JobsOfPlan
  <1>5. ASSUME Rests
        PROVE  JobsOfPlan'
    <2>1. /\ Leased' = Leased /\ Pushing' = Pushing /\ Done' = Done
          /\ nextJobId' = nextJobId /\ job' = job
      BY <1>5, RestsMoveNoJob
    <2>2. CASE PlanNext
      <3>1. /\ phase = "planning" /\ phase' = "planning"
            /\ Len(result') \in Nat
        BY <2>2, PlanKeeps DEF PlanNext, PlanInv, PlanTypeOK
      <3> QED
        BY <1>1, <2>1, <3>1 DEF JobsOfPlan, JobId
    <2>3. CASE PlanEnds
      BY <1>1, <2>1, <2>3 DEF PlanEnds, JobsOfPlan, planVars
    <2>4. CASE StartServing
      <3>1. phase' = "serving" /\ result' = result /\ Pushing = {}
        BY <2>4 DEF StartServing, planVars, Pushing
      <3>2. nextJobId = Len(result) + 1
        BY <1>1, <2>4 DEF StartServing, JobsOfPlan
      <3> QED
        BY <1>1, <2>1, <3>1, <3>2 DEF JobsOfPlan
    <2>5. CASE Monitor \/ CtrlC \/ UNCHANGED bpVars
      <3>1. result' = result /\ (phase' = phase \/ (phase = "serving" /\ phase' \in {"stopped", "cancelled"}))
        BY <2>5 DEF Monitor, TakeResults, FetchOutputs, CountJobs, Decide,
                    CtrlC, bpVars, planVars, BPInv, MonitorKnows
      <3> QED
        BY <1>1, <2>1, <3>1 DEF JobsOfPlan
    <2> QED
      BY <1>5, <2>2, <2>3, <2>4, <2>5 DEF Rests
  <1> QED
    BY <1>2, <1>3, <1>4, <1>5, StepCases DEF Queues

\* A sequence stays in order when one larger than all is appended.
LEMMA AppendAscending ==
    ASSUME NEW q \in Seq(Int), Ascending(q), NEW e \in Int,
           \A x \in Elements(q) : x < e
    PROVE  Ascending(Append(q, e))
  BY DEF Ascending, Elements

\* It stays in order when any one is taken out; if that is the first, it was
\* the least.
LEMMA WithoutAscending ==
    ASSUME NEW q \in Seq(Int), Ascending(q), NEW i \in DOMAIN q
    PROVE  /\ Ascending(Without(q, i))
           /\ i = 1 => \A x \in Elements(Without(q, i)) : q[i] < x
  <1> DEFINE w == Without(q, i)
  <1>1. Len(q) \in Nat /\ DOMAIN q = 1 .. Len(q) /\ \A k \in DOMAIN q : q[k] \in Int
    OBVIOUS
  <1>2. DOMAIN w = 1 .. Len(q) - 1
    BY DEF Without
  <1>3. \A k \in 1 .. Len(q) - 1 : w[k] = IF k < i THEN q[k] ELSE q[k + 1]
    BY DEF Without
  <1> HIDE DEF w
  <1>4. Ascending(w)
    <2> SUFFICES ASSUME NEW k \in 1 .. Len(q) - 1, NEW m \in 1 .. Len(q) - 1, k < m
                 PROVE  w[k] < w[m]
      BY <1>2 DEF Ascending
    <2>0. i \in Int /\ k \in Int /\ m \in Int
      BY <1>1
    <2>1. CASE m < i
      <3>1. k < i /\ k \in DOMAIN q /\ m \in DOMAIN q
        BY <2>0, <2>1, <1>1
      <3> QED
        BY <2>1, <3>1, <1>3 DEF Ascending
    <2>2. CASE k < i /\ ~(m < i)
      <3>1. k < m + 1 /\ k \in DOMAIN q /\ m + 1 \in DOMAIN q
        BY <2>0, <2>2, <1>1
      <3> QED
        BY <2>2, <3>1, <1>3 DEF Ascending
    <2>3. CASE ~(k < i)
      <3>1. ~(m < i) /\ k + 1 < m + 1 /\ k + 1 \in DOMAIN q /\ m + 1 \in DOMAIN q
        BY <2>0, <2>3, <1>1
      <3> QED
        BY <2>3, <3>1, <1>3 DEF Ascending
    <2> QED
      BY <2>1, <2>2, <2>3, <2>0
  <1>5. ASSUME i = 1, NEW x \in Elements(w)
        PROVE  q[i] < x
    <2>1. PICK k \in 1 .. Len(q) - 1 : x = w[k]
      BY <1>2 DEF Elements
    <2> QED
      BY <1>1, <1>3, <1>5, <2>1 DEF Ascending
  <1> QED
    BY <1>4, <1>5 DEF w

\* The one pushing task enqueues in the order of the ids, and builders that
\* can do every job take them from the front.
LEMMA InOrderStep ==
    ASSUME BPInv, [BPNext]_bpVars
    PROVE  InOrder'
  <1>1. /\ InOrder /\ JobsOfPlan /\ TypeOK /\ OnePlace
        /\ nextJobId \in Nat /\ nextJobId # 0
        /\ JobId \subseteq Int /\ pending \in Seq(Int)
        /\ \A j \in Elements(pending) : j \in Int /\ j < nextJobId
        /\ \A j \in Leased \cup Done : j \in JobId
    <2>1. InOrder /\ JobsOfPlan /\ TypeOK /\ OnePlace
      BY DEF BPInv, IndInv
    <2>2. pending \in Seq(JobId) /\ JobId \subseteq Int /\ nextJobId \in 1 .. MaxJobs + 1
      BY <2>1 DEF TypeOK, JobId
    <2>3. pending \in Seq(Int)
      <3>1. /\ Len(pending) \in Nat /\ pending \in [1 .. Len(pending) -> JobId]
            /\ JobId \subseteq Int
        BY <2>2
      <3>2. pending \in [1 .. Len(pending) -> Int]
        BY <3>1
      <3> QED
        BY <3>1, <3>2
    <2>4. \A j \in Elements(pending) : j \in Int /\ j < nextJobId
      BY <2>1, <2>3 DEF OnePlace, Elements
    <2> QED
      BY <2>1, <2>2, <2>3, <2>4, QueueAssumption DEF Leased, Done
  <1>2. ASSUME NEW s \in Submitter, QueueNext(s)
        PROVE  InOrder'
    <2>1. /\ phase = "queueing" /\ pushing[s] = 0
          /\ pending' = pending /\ pushing' = [pushing EXCEPT ![s] = nextJobId]
          /\ nextJobId' = nextJobId + 1
      BY <1>2 DEF QueueNext, PushAllocate
    <2>2. Leased' = {} /\ Done' = {}
      <3>1. JobsOfPlan' /\ phase' = "queueing"
        BY <1>2, JobsOfPlanStep DEF QueueNext
      <3> QED
        BY <3>1 DEF JobsOfPlan
    <2>3. Pushing' = {nextJobId}
      BY <1>1, <2>1, OnePusher DEF TypeOK
    <2> QED
      BY <1>1, <2>1, <2>2, <2>3 DEF InOrder, Elements
  <1>3. ASSUME NEW s \in Submitter, QueueNextEnds(s)
        PROVE  InOrder'
    <2>1. /\ pushing[s] \in Pushing /\ Pushing' = Pushing \ {pushing[s]}
          /\ nextJobId' = nextJobId
          /\ pending' = Append(pending, pushing[s])
      BY <1>1, <1>3, PushEnqueuePlaces DEF QueueNextEnds, PushEnqueue
    <2>2. pushing[s] = nextJobId - 1
      BY <1>1, <2>1 DEF InOrder
    <2>3. \A j \in Elements(pending) : j < pushing[s]
      BY <1>1, <2>1, <2>2 DEF OnePlace
    <2>4. Ascending(pending')
      BY <1>1, <2>1, <2>2, <2>3, AppendAscending DEF InOrder
    <2>5. Leased' = {} /\ Done' = {}
      <3>1. JobsOfPlan' /\ phase' \in {"queueing", "failed"}
        BY <1>3, JobsOfPlanStep, QueuesWhileQueueing DEF Queues
      <3> QED
        BY <3>1 DEF JobsOfPlan
    <2> QED
      BY <1>1, <2>1, <2>4, <2>5 DEF InOrder, Ascending
  <1>4. ASSUME NEW b \in Builder, BuilderPulls(b)
        PROVE  InOrder'
    <2>1. PICK i \in Matching(b) :
                /\ \A k \in Matching(b) : i <= k
                /\ pending' = Without(pending, i)
                /\ holder' = [holder EXCEPT ![pending[i]] = b]
                /\ UNCHANGED <<nextJobId, pushing>>
      BY <1>4 DEF BuilderPulls, Pull
    <2>2. /\ i \in DOMAIN pending /\ pending[i] \in JobId
          /\ NoRepeats(pending)
      BY <1>1, <2>1 DEF Matching, TypeOK, OnePlace, NoRepeats
    <2>3. Ascending(pending')
      BY <1>1, <2>1, <2>2, WithoutAscending DEF InOrder
    <2>4. Elements(pending)' = Elements(pending) \ {pending[i]}
      BY <1>1, <2>1, <2>2, WithoutFacts
    <2>5. Leased' = Leased \cup {pending[i]} /\ Done' = Done /\ Pushing' = Pushing
      <3>1. Leased' = Leased \cup {pending[i]}
        BY <1>1, <2>1, <2>2, QueueAssumption DEF Leased, TypeOK
      <3> QED
        BY <1>1, <1>4, <3>1, PullPlaces DEF BuilderPulls
    <2>6. ASSUME BuildersCanDoAll, NEW x \in Elements(pending)'
          PROVE  pending[i] < x
      <3>1. ASSUME NEW k \in DOMAIN pending
            PROVE  k \in Matching(b)
        <4>1. pending[k] \in JobId /\ pending[k] < nextJobId
          BY <1>1, <3>1 DEF TypeOK, Elements
        <4>2. /\ job[pending[k]] = [drv |-> result[pending[k]],
                                    features |-> Needs[result[pending[k]]]]
              /\ job[pending[k]].drv \in Drv
          BY <1>1, <4>1 DEF JobsOfPlan, BPInv, IndInv, JobsDescribed
        <4>3. job[pending[k]].features \subseteq Offered[b]
          BY <2>6, <4>2 DEF BuildersCanDoAll
        <4> QED
          BY <3>1, <4>3 DEF Matching
      <3>2. i = 1
        <4>1. 1 \in DOMAIN pending /\ i \in Int /\ 1 <= i
          BY <1>1, <2>2
        <4>2. i <= 1
          BY <2>1, <3>1, <4>1
        <4> QED
          BY <4>1, <4>2
      <3>3. x \in Elements(Without(pending, i))
        BY <2>1, <2>6 DEF Elements
      <3> QED
        BY <1>1, <2>2, <3>2, <3>3, WithoutAscending DEF InOrder
    <2> QED
      BY <1>1, <2>1, <2>3, <2>4, <2>5, <2>6 DEF InOrder
  <1>5. ASSUME NEW b \in Builder, BuilderEnds(b)
        PROVE  InOrder'
    <2>1. PICK j \in JobId : Complete(j, b) \/ Fail(j, b)
      BY <1>5 DEF BuilderEnds
    <2>2. /\ (Leased \cup Done)' = Leased \cup Done /\ Pushing' = Pushing
          /\ Elements(pending)' = Elements(pending) /\ nextJobId' = nextJobId
      BY <1>1, <2>1, FinishPlaces
    <2>3. pending' = pending
      BY <2>1 DEF Complete, Fail
    <2> QED
      BY <1>1, <2>2, <2>3 DEF InOrder
  <1>6. ASSUME Rests
        PROVE  InOrder'
    BY <1>1, <1>6, RestsMoveNoJob DEF InOrder
  <1> QED
    BY <1>2, <1>3, <1>4, <1>5, <1>6, StepCases DEF Queues, Builds

\* Each round of the loop takes all results, tries each, and counts; what it
\* counted as over stays over while it decides, for nothing is queued any more.
LEMMA MonitorKnowsStep ==
    ASSUME BPInv, [BPNext]_bpVars
    PROVE  MonitorKnows' /\ batch' \in Seq(BuildResult)
  <1>1. /\ MonitorKnows /\ JobsOfPlan /\ IndInv /\ TypeOK /\ OnePlace
        /\ batch \in Seq(BuildResult) /\ pendingFetch \in Seq(BuildResult)
        /\ pending \in Seq(JobId)
    BY DEF BPInv, IndInv, BPTypeOK, TypeOK
  <1>2. CASE Queues
    <2>1. /\ phase = "queueing" /\ phase' \in {"queueing", "failed"}
          /\ UNCHANGED monitorVars
      BY <1>2, QueuesWhileQueueing
    <2>2. taken' = taken
      BY <1>2 DEF Queues, QueueNext, QueueNextEnds, PushAllocate, PushEnqueue
    <2> QED
      BY <1>1, <2>1, <2>2 DEF MonitorKnows, monitorVars
  <1>3. CASE Builds
    <2>1. phase = "serving" /\ phase' = "serving" /\ UNCHANGED monitorVars
      BY <1>3 DEF Builds, BuilderPulls, BuilderEnds
    <2>2. taken' = taken
      BY <1>3 DEF Builds, BuilderPulls, BuilderEnds, Pull, Complete, Fail
    <2>3. ASSUME pending = <<>>, Leased = {}
          PROVE  FALSE
      <3>1. ASSUME NEW b \in Builder, Pull(b)
            PROVE  FALSE
        BY <2>3, <3>1, <1>1, PullPlaces DEF Elements
      <3>2. ASSUME NEW b \in Builder, NEW j \in JobId, Complete(j, b) \/ Fail(j, b)
            PROVE  FALSE
        BY <2>3, <3>2, <1>1, FinishPlaces
      <3> QED
        BY <1>3, <3>1, <3>2 DEF Builds, BuilderPulls, BuilderEnds
    <2> QED
      BY <1>1, <2>1, <2>2, <2>3 DEF MonitorKnows, monitorVars
  <1>4. ASSUME Rests
        PROVE  pending' = pending /\ Leased' = Leased
    BY <1>4, RestsMoveNoJob
  <1>5. CASE PlanNext \/ StartServing \/ CtrlC \/ UNCHANGED bpVars
    <2>1. /\ UNCHANGED <<queueVars, monitorVars>>
          /\ phase' = phase \/ phase' \in {"serving", "cancelled"}
          /\ monitor # "asleep" => phase' = phase
      BY <1>1, <1>5 DEF PlanNext, StartServing, CtrlC, bpVars, MonitorKnows
    <2> QED
      BY <1>1, <1>4, <1>5, <2>1 DEF Rests, MonitorKnows, monitorVars, queueVars
  <1>6. CASE PlanEnds
    <2>1. UNCHANGED <<queueVars, monitorVars>> /\ phase = "planning" /\ phase' # "serving"
      BY <1>6 DEF PlanEnds
    <2>2. pending = <<>> /\ Leased = {} /\ pendingFetch = <<>>
      BY <1>1, <2>1, EmptyQueue DEF JobsOfPlan
    <2> QED
      BY <1>1, <1>4, <1>6, <2>1, <2>2 DEF Rests, MonitorKnows, monitorVars, queueVars
  <1>7. CASE TakeResults
    <2>1. /\ monitor = "asleep" /\ phase = "serving" /\ phase' = "serving"
          /\ batch = <<>> /\ batch' = pendingFetch /\ monitor' = "fetching"
          /\ tried' = tried
      BY <1>1, <1>7 DEF TakeResults, MonitorKnows
    <2>2. taken' = taken \cup {pendingFetch[i].job : i \in DOMAIN pendingFetch}
      BY <1>7 DEF TakeResults, TakePendingFetches, queueVars
    <2>3. taken = tried
      BY <1>1, <2>1 DEF MonitorKnows
    <2> QED
      BY <1>1, <2>1, <2>2, <2>3 DEF MonitorKnows
  <1>8. CASE FetchOutputs
    <2>1. /\ monitor = "fetching" /\ monitor' = "fetching" /\ phase' = phase
          /\ batch # <<>> /\ batch' = Tail(batch)
          /\ tried' = tried \cup {Head(batch).job} /\ taken' = taken
      BY <1>8 DEF FetchOutputs, queueVars
    <2>2. phase = "serving"
      BY <1>1, <2>1 DEF MonitorKnows
    <2>3. /\ batch' \in Seq(BuildResult)
          /\ {batch[i].job : i \in DOMAIN batch} =
                 {Head(batch).job} \cup {batch'[i].job : i \in DOMAIN batch'}
      <3>1. /\ Len(batch) \in Nat /\ Len(batch) # 0 /\ DOMAIN batch = 1 .. Len(batch)
            /\ batch' \in Seq(BuildResult) /\ DOMAIN batch' = 1 .. Len(batch) - 1
            /\ \A i \in 1 .. Len(batch) - 1 : batch'[i] = batch[i + 1]
            /\ Head(batch) = batch[1]
        BY <1>1, <2>1
      <3>2. ASSUME NEW i \in DOMAIN batch, i # 1
            PROVE  i - 1 \in DOMAIN batch' /\ batch'[i - 1] = batch[i]
        BY <3>1, <3>2
      <3>3. ASSUME NEW i \in DOMAIN batch'
            PROVE  i + 1 \in DOMAIN batch /\ batch'[i] = batch[i + 1]
        BY <3>1, <3>3
      <3>4. 1 \in DOMAIN batch
        BY <3>1
      <3> DEFINE rest == {batch'[i].job : i \in DOMAIN batch'}
      <3>5. ASSUME NEW i \in DOMAIN batch
            PROVE  batch[i].job \in {Head(batch).job} \cup rest
        BY <3>1, <3>2
      <3>6. rest \subseteq {batch[i].job : i \in DOMAIN batch}
        BY <3>3
      <3>7. Head(batch).job \in {batch[i].job : i \in DOMAIN batch}
        BY <3>1, <3>4
      <3> QED
        BY <3>1, <3>5, <3>6, <3>7
    <2> QED
      BY <1>1, <2>1, <2>2, <2>3 DEF MonitorKnows
  <1>9. CASE CountJobs
    <2>1. /\ monitor = "fetching" /\ monitor' = "deciding" /\ batch = <<>>
          /\ idle' = (pending = <<>> /\ Leased = {})
          /\ UNCHANGED <<phase, batch, tried, taken>>
      BY <1>9 DEF CountJobs, queueVars
    <2>2. phase = "serving"
      BY <1>1, <2>1 DEF MonitorKnows
    <2> QED
      BY <1>1, <1>4, <1>9, <2>1, <2>2 DEF MonitorKnows, Rests, Monitor
  <1>10. CASE Decide
    <2>1. /\ monitor = "deciding" /\ monitor' = "asleep"
          /\ phase' = IF idle /\ pendingFetch = <<>> THEN "stopped" ELSE phase
          /\ UNCHANGED <<batch, idle, tried, taken, pendingFetch>>
      BY <1>10 DEF Decide, queueVars
    <2>2. phase = "serving" /\ batch = <<>> /\ (idle => pending = <<>> /\ Leased = {})
      BY <1>1, <2>1 DEF MonitorKnows
    <2> QED
      BY <1>1, <1>4, <1>10, <2>1, <2>2 DEF MonitorKnows, Rests, Monitor
  <1> QED
    BY <1>2, <1>3, <1>5, <1>6, <1>7, <1>8, <1>9, <1>10, StepCases
    DEF Rests, Monitor

-----------------------------------------------------------------------------
(* Together. *)

\* The command starts with a new queue and the sort's initial work list.
LEMMA PushInit == BPInit => BPInv
  <1> SUFFICES ASSUME BPInit PROVE BPInv
    OBVIOUS
  <1>1. Init /\ IndInv /\ PlanInv /\ TypeOK /\ PlanTypeOK /\ result = <<>>
    BY InitInv, PlanStarts DEF BPInit, IndInv, PlanInv, PlanInit
  <1>2. nextJobId = 1 /\ Pushing = {} /\ taken = {}
    BY <1>1 DEF Init, Pushing
  <1>3. pending = <<>> /\ Leased = {} /\ Done = {}
    BY <1>1, <1>2, EmptyQueue
  <1>4. BPTypeOK
    <2>1. batch \in Seq(BuildResult) /\ tried \subseteq taken
      BY DEF BPInit
    <2> QED
      BY <1>1, <2>1 DEF BPInit, BPTypeOK
  <1>5. JobsOfPlan
    BY <1>1, <1>2, <1>3 DEF BPInit, JobsOfPlan, JobId
  <1>6. InOrder
    BY <1>2, <1>3 DEF InOrder, Ascending
  <1>7. MonitorKnows
    BY <1>2 DEF BPInit, MonitorKnows
  <1> QED
    BY <1>1, <1>4, <1>5, <1>6, <1>7 DEF BPInv

\* Every step of the command and of the builders preserves the invariant.
LEMMA PushStepInv == BPInv /\ [BPNext]_bpVars => BPInv'
  <1> SUFFICES ASSUME BPInv, [BPNext]_bpVars PROVE BPInv'
    OBVIOUS
  <1>1. IndInv'
    BY PushCalls, CallKeeps DEF BPInv
  <1>2. PlanInv'
    BY PlanKeeps
  <1>3. JobsOfPlan' /\ InOrder' /\ MonitorKnows' /\ batch' \in Seq(BuildResult)
    BY JobsOfPlanStep, InOrderStep, MonitorKnowsStep
  <1>4. /\ phase' \in {"planning", "queueing", "serving", "stopped", "cancelled",
                     "failed"}
        /\ monitor' \in {"asleep", "fetching", "deciding"}
        /\ idle' \in BOOLEAN
    BY DEF BPInv, BPTypeOK, BPNext, Prepare, PlanNext, PlanEnds, QueueNext,
           QueueNextEnds, StartServing, BuilderPulls, BuilderEnds, Monitor,
           TakeResults, FetchOutputs, CountJobs, Decide, CtrlC, bpVars,
           monitorVars
  <1>5. BPTypeOK'
    BY <1>1, <1>2, <1>3, <1>4 DEF BPTypeOK, IndInv, PlanInv, MonitorKnows
  <1> QED
    BY <1>1, <1>2, <1>3, <1>5 DEF BPInv

\* The inductive invariant holds for every graph and any number of builders.
THEOREM PushInvariance == BPSpec => []BPInv
  BY PushInit, PushStepInv, PTL DEF BPSpec

\* The command's state keeps its types.
THEOREM PushTypesCorrect == BPSpec => []BPTypeOK
  <1>1. BPInv => BPTypeOK
    BY DEF BPInv
  <1> QED
    BY <1>1, PushInvariance, PTL

\* build_push ends of its own accord and without an error only when every job
\* of the plan is over and every result was fetched or its fetch failed.
THEOREM PushStopsWhenOver == BPSpec => []StopsWhenOver
  <1>1. ASSUME BPInv, phase = "stopped"
        PROVE  Done = 1 .. Len(result) /\ accepted = tried /\ batch = <<>>
    <2>1. /\ JobsOfPlan /\ MonitorKnows /\ TypeOK /\ FetchedExactlyOnce
          /\ Len(result) \in Nat
      BY <1>1 DEF BPInv, IndInv, PlanInv, PlanTypeOK
    <2>2. nextJobId = Len(result) + 1 /\ Pushing = {}
      BY <1>1, <2>1 DEF JobsOfPlan
    <2>3. /\ pending = <<>> /\ Leased = {} /\ pendingFetch = <<>>
          /\ monitor = "asleep" /\ batch = <<>> /\ taken = tried
      BY <1>1, <2>1 DEF MonitorKnows, BPInv, BPTypeOK
    <2>4. nextJobId <= MaxJobs + 1 /\ MaxJobs \in Nat
      BY <2>1, QueueAssumption DEF TypeOK
    <2>5. Done = {j \in JobId : j < nextJobId}
      BY <2>2, <2>3 DEF Done, Elements
    <2>6. Done = 1 .. Len(result)
      BY <2>1, <2>2, <2>4, <2>5 DEF JobId
    <2> QED
      BY <2>1, <2>3, <2>6 DEF FetchedExactlyOnce
  <1>2. BPInv => StopsWhenOver
    BY <1>1 DEF StopsWhenOver
  <1> QED
    BY <1>2, PushInvariance, PTL

\* With builders that can do every job, no derivation is given to a builder
\* before all it depends on were given to one: the plan puts dependencies
\* first, the jobs are queued in the plan's order and leave it from the front.
THEOREM DependenciesAreStartedFirst == BPSpec => []DependenciesStartFirst
  <1>1. ASSUME BPInv, BuildersCanDoAll,
               NEW j \in Leased \cup Done, NEW i \in 1 .. Len(result),
               job[i].drv \in deps[job[j].drv]
        PROVE  i \in Leased \cup Done
    <2>1. /\ JobsOfPlan /\ InOrder /\ TypeOK /\ OnePlace /\ DependenciesFirst
          /\ NoRepeats(result) /\ result \in Seq(toBuild)
          /\ deps \in [Drv -> SUBSET Drv] /\ toBuild \in SUBSET Drv
          /\ nextJobId \in 1 .. MaxJobs + 1 /\ MaxJobs \in Nat
      BY <1>1, QueueAssumption
      DEF BPInv, IndInv, PlanInv, PlanTypeOK, ListedWhenFree, TypeOK
    <2>2. phase \notin {"planning", "queueing", "failed"}
      BY <1>1, <2>1 DEF JobsOfPlan
    <2>3. nextJobId = Len(result) + 1 /\ Pushing = {} /\ Len(result) \in Nat
      BY <2>1, <2>2 DEF JobsOfPlan
    <2>4. j \in JobId /\ j < nextJobId /\ i \in JobId /\ i < nextJobId
      <3>1. j \in JobId /\ j < nextJobId
        BY <1>1, <2>1 DEF OnePlace, Done, Leased
      <3> QED
        BY <2>1, <2>3, <3>1 DEF JobId
    <2>5. job[j].drv = result[j] /\ job[i].drv = result[i]
      <3>1. /\ job[j] = [drv |-> result[j], features |-> Needs[result[j]]]
            /\ job[i] = [drv |-> result[i], features |-> Needs[result[i]]]
        BY <2>1, <2>4 DEF JobsOfPlan
      <3> QED
        BY <3>1
    <2>6. j \in DOMAIN result /\ i \in DOMAIN result
      BY <2>1, <2>3, <2>4 DEF JobId
    <2>7. result[i] \in OpenDeps(result[j])
      BY <1>1, <2>1, <2>5, <2>6 DEF OpenDeps
    <2>8. PICK k \in 1 .. j - 1 : result[i] = result[k]
      BY <2>1, <2>6, <2>7 DEF DependenciesFirst
    <2>9. i < j
      BY <2>1, <2>3, <2>4, <2>6, <2>8 DEF NoRepeats, JobId
    <2>10. i \notin Elements(pending)
      BY <1>1, <2>1, <2>4, <2>9 DEF InOrder, JobId
    <2> QED
      BY <2>3, <2>4, <2>10 DEF Done
  <1>2. BPInv => DependenciesStartFirst
    BY <1>1 DEF DependenciesStartFirst, BuildersCanDoAll
  <1> QED
    BY <1>2, PushInvariance, PTL

\* The plan the jobs are queued from is right, for every graph nix prints.
THEOREM PushPlanIsRight ==
    BPSpec => [](DependenciesFirst /\ PlannedOnce /\ PlanIsComplete)
  <1>1. BPInv => DependenciesFirst /\ PlannedOnce /\ PlanIsComplete
    BY InvGivesComplete DEF BPInv, PlanInv, ListedWhenFree, PlannedOnce
  <1> QED
    BY <1>1, PushInvariance, PTL

\* build-push uses the queue as the queue may be used, so that all that is
\* proved of the queue holds of its queue.
THEOREM PushUsesQueue == BPSpec => Spec
  <1>1. BPInit => Init
    BY DEF BPInit
  <1>2. BPInv /\ [BPNext]_bpVars => [Next]_queueVars
    BY PushCalls DEF Call, Next
  <1> QED
    BY <1>1, <1>2, PushInvariance, PTL DEF BPSpec, Spec

\* The whole command implements the life cycle of jobs that takes none back:
\* what its builders are given goes one way.
THEOREM PushRefinement == BPSpec => ImplementsRun
  <1>1. BPInit => Lifecycle!LInit
    BY LifecycleInit DEF BPInit
  <1>2. BPInv /\ [BPNext]_bpVars => [Lifecycle!Advance]_(Lifecycle!lvars)
    BY PushCalls, LifecycleCall DEF BPInv
  <1> QED
    BY <1>1, <1>2, PushInvariance, PTL DEF BPSpec, ImplementsRun, Lifecycle!RunSpec

=============================================================================
