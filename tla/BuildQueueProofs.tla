-------------------------- MODULE BuildQueueProofs --------------------------
(* Proofs about BuildQueue, for every value of its constants. *)
EXTENDS BuildQueue, ListingLemmas

-----------------------------------------------------------------------------
(* The inductive invariant.  OnePlace alone is inductive; the other parts   *)
(* need it, and need that a job whose id is allocated has a derivation.     *)

JobsDescribed == \A j \in JobId : j < nextJobId => job[j].drv \in Drv

IndInv ==
    /\ TypeOK
    /\ JobsDescribed
    /\ OnePlace
    /\ NoJobLost
    /\ OutcomeOfFinishedJob
    /\ FetchedExactlyOnce

-----------------------------------------------------------------------------
(* How each operation moves jobs between the three places.  These are the   *)
(* facts about the state that the invariants are preserved by.              *)

\* push's first half takes a fresh id, never handed out before, and puts its
\* job only into the hands of the pushing task.
LEMMA PushAllocatePlaces ==
    ASSUME TypeOK, OnePlace,
           NEW s \in Submitter, NEW d \in Drv, NEW F \in SUBSET Feature,
           PushAllocate(s, d, F)
    PROVE  /\ nextJobId \in JobId /\ nextJobId' = nextJobId + 1
           /\ Pushing' = Pushing \cup {nextJobId}
           /\ Elements(pending)' = Elements(pending)
           /\ Leased' = Leased
           /\ Done' = Done
           /\ nextJobId \notin Pushing \cup Elements(pending) \cup Leased
  <1>1. nextJobId \in JobId /\ nextJobId' = nextJobId + 1 /\ nextJobId \in Nat
        /\ nextJobId # 0
    BY QueueAssumption DEF PushAllocate, TypeOK, JobId
  <1>2. Pushing' = Pushing \cup {nextJobId}
    BY <1>1 DEF PushAllocate, Pushing, TypeOK
  <1>3. Elements(pending)' = Elements(pending) /\ Leased' = Leased
    BY DEF PushAllocate, Elements, Leased
  <1>4. nextJobId \notin Pushing \cup Elements(pending) \cup Leased
    BY <1>1 DEF OnePlace
  <1>5. Done' = Done
    BY <1>1, <1>2, <1>3, <1>4 DEF Done, JobId
  <1> QED
    BY <1>1, <1>2, <1>3, <1>4, <1>5

\* push's second half moves the job from its task to the back of the queue.
LEMMA PushEnqueuePlaces ==
    ASSUME TypeOK, OnePlace, NEW s \in Submitter, PushEnqueue(s)
    PROVE  /\ pushing[s] \in JobId
           /\ pushing[s] \in Pushing
           /\ Pushing' = Pushing \ {pushing[s]}
           /\ pending' \in Seq(JobId)
           /\ Elements(pending)' = Elements(pending) \cup {pushing[s]}
           /\ NoRepeats(pending')
           /\ Leased' = Leased
           /\ nextJobId' = nextJobId
           /\ Done' = Done
  <1>1. /\ pushing[s] \in JobId
        /\ pushing[s] \in Pushing
    BY DEF PushEnqueue, Pushing, TypeOK
  <1>2. Pushing' = Pushing \ {pushing[s]}
    BY <1>1 DEF PushEnqueue, Pushing, TypeOK, OnePlace, JobId
  <1>3. /\ pending' \in Seq(JobId)
        /\ Elements(pending)' = Elements(pending) \cup {pushing[s]}
        /\ NoRepeats(pending')
    <2>1. /\ pending \in Seq(JobId) /\ NoRepeats(pending)
          /\ pushing[s] \notin Elements(pending)
          /\ pending' = Append(pending, pushing[s])
      BY <1>1 DEF PushEnqueue, TypeOK, OnePlace, NoRepeats
    <2>2. /\ pending' \in Seq(JobId)
          /\ Elements(pending') = Elements(pending) \cup {pushing[s]}
          /\ NoRepeats(pending')
      BY <2>1, <1>1, AppendFacts
    <2> QED
      BY <2>2 DEF Elements
  <1>4. Leased' = Leased /\ nextJobId' = nextJobId
    BY DEF PushEnqueue, Leased
  <1>5. Done' = Done
    BY <1>1, <1>2, <1>3, <1>4 DEF Done
  <1> QED
    BY <1>1, <1>2, <1>3, <1>4, <1>5

\* pull moves one job from the queue to the leases and touches no other.
LEMMA PullPlaces ==
    ASSUME TypeOK, OnePlace, NEW b \in Builder, Pull(b)
    PROVE  \E j \in Elements(pending) :
               /\ j \in JobId
               /\ pending' \in Seq(JobId)
               /\ Elements(pending)' = Elements(pending) \ {j}
               /\ NoRepeats(pending')
               /\ holder' = [holder EXCEPT ![j] = b]
               /\ age' = [age EXCEPT ![j] = 0]
               /\ Leased' = Leased \cup {j}
               /\ Pushing' = Pushing
               /\ nextJobId' = nextJobId
               /\ Done' = Done
  <1>1. PICK i \in Matching(b) :
               /\ pending' = Without(pending, i)
               /\ holder' = [holder EXCEPT ![pending[i]] = b]
               /\ age' = [age EXCEPT ![pending[i]] = 0]
               /\ UNCHANGED <<nextJobId, pushing>>
    BY DEF Pull
  <1>2. /\ i \in DOMAIN pending
        /\ pending[i] \in JobId
        /\ pending[i] \in Elements(pending)
    BY DEF Matching, TypeOK, Elements
  <1>3. /\ pending' \in Seq(JobId)
        /\ Elements(pending)' = Elements(pending) \ {pending[i]}
        /\ NoRepeats(pending')
    BY <1>1, <1>2, WithoutFacts DEF TypeOK, OnePlace, NoRepeats
  <1>4. Leased' = Leased \cup {pending[i]}
    BY <1>1, <1>2, QueueAssumption DEF Leased, TypeOK
  <1>5. Pushing' = Pushing /\ nextJobId' = nextJobId
    BY <1>1 DEF Pushing
  <1>6. Done' = Done
    BY <1>2, <1>3, <1>4, <1>5 DEF Done
  <1> QED
    BY <1>1, <1>2, <1>3, <1>4, <1>5, <1>6

\* Complete and Fail both take j out of leased and put it nowhere else.
LEMMA FinishPlaces ==
    ASSUME TypeOK, OnePlace, NEW j \in JobId, NEW b \in Builder,
           Complete(j, b) \/ Fail(j, b)
    PROVE  /\ j \in Leased
           /\ j \notin Done
           /\ Leased' = Leased \ {j}
           /\ Elements(pending)' = Elements(pending)
           /\ Pushing' = Pushing
           /\ nextJobId' = nextJobId
           /\ j < nextJobId
           /\ Done' = Done \cup {j}
  <1>1. /\ j \in Leased
        /\ Leased' = Leased \ {j}
    BY QueueAssumption DEF Complete, Fail, Leased, TypeOK
  <1>2. /\ Elements(pending)' = Elements(pending)
        /\ Pushing' = Pushing
        /\ nextJobId' = nextJobId
    BY DEF Complete, Fail, Pushing, Elements
  <1>3. j < nextJobId
    BY <1>1 DEF OnePlace
  <1>4. Done' = Done \cup {j} /\ j \notin Done
    BY <1>1, <1>2, <1>3 DEF Done, OnePlace
  <1> QED
    BY <1>1, <1>2, <1>3, <1>4

\* check_timeouts moves exactly the expired leases to the front of the queue.
LEMMA CheckTimeoutsPlaces ==
    ASSUME TypeOK, OnePlace, CheckTimeouts
    PROVE  /\ Expired \subseteq Leased
           /\ pending' \in Seq(JobId)
           /\ Elements(pending)' = Elements(pending) \cup Expired
           /\ NoRepeats(pending')
           /\ Leased' = Leased \ Expired
           /\ Pushing' = Pushing
           /\ nextJobId' = nextJobId
           /\ Done' = Done
  <1>1. PICK order \in Orderings(Expired) : pending' = order \o pending
    BY DEF CheckTimeouts
  <1>2. Expired \subseteq Leased /\ Expired \in SUBSET JobId
    BY DEF Expired, Leased
  <1>3. IsFiniteSet(Expired)
    <2>1. IsFiniteSet(JobId)
      BY FS_Interval, QueueAssumption DEF JobId
    <2> QED
      BY <2>1, <1>2, FS_Subset
  <1>4. Expired \cap Elements(pending) = {}
    BY <1>2 DEF OnePlace
  <1>5. /\ pending' \in Seq(JobId)
        /\ Elements(pending') = Expired \cup Elements(pending)
        /\ NoRepeats(pending')
    <2>1. pending \in Seq(JobId) /\ NoRepeats(pending)
      BY DEF TypeOK, OnePlace, NoRepeats
    <2> QED
      BY <1>1, <1>2, <1>3, <1>4, <2>1, PrependFacts
  <1>6. Elements(pending)' = Elements(pending) \cup Expired
    BY <1>5 DEF Elements
  <1>7. Leased' = Leased \ Expired
    BY <1>2, QueueAssumption DEF CheckTimeouts, Leased, TypeOK
  <1>8. Pushing' = Pushing /\ nextJobId' = nextJobId
    BY DEF CheckTimeouts, Pushing
  <1>9. Done' = Done
    BY <1>2, <1>6, <1>7, <1>8 DEF Done
  <1> QED
    BY <1>2, <1>5, <1>6, <1>7, <1>8, <1>9

\* The other operations move no job.
LEMMA StillPlaces ==
    ASSUME \/ \E j \in JobId, b \in Builder : Heartbeat(j, b)
           \/ TakePendingFetches
           \/ Tick
           \/ UNCHANGED queueVars
    PROVE  /\ pending' = pending
           /\ Elements(pending)' = Elements(pending)
           /\ Leased' = Leased
           /\ Pushing' = Pushing
           /\ nextJobId' = nextJobId
           /\ Done' = Done
           /\ UNCHANGED <<job, pushing, completed, accepted>>
  BY DEF Heartbeat, TakePendingFetches, Tick, queueVars, Elements, Leased,
         Pushing, Done

-----------------------------------------------------------------------------
(* Preservation, one lemma per part of the invariant. *)

\* Every operation of the queue keeps the types of its fields.
LEMMA TypeStep ==
    ASSUME TypeOK, JobsDescribed, OnePlace, [Next]_queueVars
    PROVE  TypeOK'
  <1>1. ASSUME NEW s \in Submitter, NEW d \in Drv, NEW F \in SUBSET Feature,
               PushAllocate(s, d, F)
        PROVE  TypeOK'
    BY <1>1, QueueAssumption DEF PushAllocate, TypeOK, JobRecord, JobId
  <1>2. ASSUME NEW s \in Submitter, PushEnqueue(s)
        PROVE  TypeOK'
    <2>1. pending' \in Seq(JobId) /\ pushing[s] \in JobId
      BY <1>2, PushEnqueuePlaces
    <2> QED
      BY <1>2, <2>1 DEF PushEnqueue, TypeOK, JobRecord
  <1>3. ASSUME NEW b \in Builder, Pull(b)
        PROVE  TypeOK'
    <2>1. PICK j \in JobId :
                /\ pending' \in Seq(JobId)
                /\ holder' = [holder EXCEPT ![j] = b]
                /\ age' = [age EXCEPT ![j] = 0]
      BY <1>3, PullPlaces
    <2>2. UNCHANGED <<nextJobId, job, pushing, completed, pendingFetch, needed,
                      accepted, taken>>
      BY <1>3 DEF Pull
    <2>3. /\ holder' \in [JobId -> Builder \cup {Null}]
          /\ age' \in [JobId -> 0 .. LeaseTimeout + 1]
      BY <2>1, QueueAssumption DEF TypeOK
    <2> QED
      BY <2>1, <2>2, <2>3 DEF TypeOK
  <1>4. ASSUME NEW j \in JobId, NEW b \in Builder, Heartbeat(j, b)
        PROVE  TypeOK'
    BY <1>4, QueueAssumption DEF Heartbeat, TypeOK
  <1>5. ASSUME NEW j \in JobId, NEW b \in Builder, Complete(j, b)
        PROVE  TypeOK'
    <2>1. job[j].drv \in Drv
      BY <1>5, FinishPlaces DEF JobsDescribed
    <2>2. [job |-> j, drv |-> job[j].drv, builder |-> b] \in BuildResult
      BY <2>1 DEF BuildResult
    <2>3. [kind |-> "Completed", job |-> j, builder |-> b] \in Outcome
      BY DEF Outcome
    <2>4. pendingFetch' \in Seq(BuildResult)
      BY <1>5, <2>2 DEF Complete, TypeOK
    <2>5. completed' \in [Drv -> Outcome \cup {Null}]
      BY <1>5, <2>1, <2>3 DEF Complete, TypeOK
    <2> QED
      BY <1>5, <2>4, <2>5 DEF Complete, TypeOK
  <1>6. ASSUME NEW j \in JobId, NEW b \in Builder, Fail(j, b)
        PROVE  TypeOK'
    <2>1. job[j].drv \in Drv
      BY <1>6, FinishPlaces DEF JobsDescribed
    <2>2. [kind |-> "Failed", job |-> j, builder |-> b] \in Outcome
      BY DEF Outcome
    <2>3. completed' \in [Drv -> Outcome \cup {Null}]
      BY <1>6, <2>1, <2>2 DEF Fail, TypeOK
    <2> QED
      BY <1>6, <2>3 DEF Fail, TypeOK
  <1>7. ASSUME CheckTimeouts
        PROVE  TypeOK'
    <2>1. pending' \in Seq(JobId)
      BY <1>7, CheckTimeoutsPlaces
    <2> QED
      BY <1>7, <2>1 DEF CheckTimeouts, TypeOK
  <1>8. ASSUME TakePendingFetches
        PROVE  TypeOK'
    <2>0. \A i \in DOMAIN pendingFetch : pendingFetch[i] \in BuildResult
      BY DEF TypeOK
    <2>1. taken' \in SUBSET JobId
      BY <1>8, <2>0 DEF TakePendingFetches, TypeOK, BuildResult
    <2> QED
      BY <1>8, <2>1 DEF TakePendingFetches, TypeOK
  <1>9. ASSUME Tick
        PROVE  TypeOK'
    BY <1>9, QueueAssumption DEF Tick, TypeOK
  <1>10. ASSUME UNCHANGED queueVars
         PROVE  TypeOK'
    BY <1>10 DEF queueVars, TypeOK
  <1> QED
    BY <1>1, <1>2, <1>3, <1>4, <1>5, <1>6, <1>7, <1>8, <1>9, <1>10 DEF Next

\* push writes the record of a job once, with its derivation, and no other
\* operation writes it.
LEMMA DescribedStep ==
    ASSUME TypeOK, JobsDescribed, OnePlace, [Next]_queueVars
    PROVE  JobsDescribed'
  <1>1. ASSUME NEW s \in Submitter, NEW d \in Drv, NEW F \in SUBSET Feature,
               PushAllocate(s, d, F)
        PROVE  JobsDescribed'
    <2> SUFFICES ASSUME NEW j \in JobId, j < nextJobId'
                 PROVE  job'[j].drv \in Drv
      BY DEF JobsDescribed
    <2>1. CASE j = nextJobId
      BY <1>1, <2>1 DEF PushAllocate, TypeOK, JobRecord
    <2>2. CASE j # nextJobId
      BY <1>1, <2>2 DEF PushAllocate, TypeOK, JobsDescribed, JobId
    <2> QED
      BY <2>1, <2>2
  <1>2. ASSUME ~ \E s \in Submitter, d \in Drv, F \in SUBSET Feature :
                     PushAllocate(s, d, F)
        PROVE  UNCHANGED <<job, nextJobId>>
    BY <1>2 DEF Next, PushEnqueue, Pull, Heartbeat, Complete, Fail,
                CheckTimeouts, TakePendingFetches, Tick, queueVars
  <1> QED
    BY <1>1, <1>2 DEF JobsDescribed

\* Every operation of the queue keeps each job in at most one place.
LEMMA OnePlaceStep ==
    ASSUME TypeOK, OnePlace, [Next]_queueVars
    PROVE  OnePlace'
  <1>1. ASSUME NEW s \in Submitter, NEW d \in Drv, NEW F \in SUBSET Feature,
               PushAllocate(s, d, F)
        PROVE  OnePlace'
    <2>1. \A r, t \in Submitter : pushing'[r] # 0 /\ pushing'[r] = pushing'[t] => r = t
      BY <1>1, PushAllocatePlaces DEF OnePlace, PushAllocate, Pushing, TypeOK
    <2>2. pending' = pending
      BY <1>1 DEF PushAllocate
    <2>3. \A j \in (Pushing \cup Elements(pending) \cup Leased)' : j < nextJobId'
      <3>1. \A j \in Pushing \cup Elements(pending) \cup Leased : j < nextJobId /\ j \in Int
        <4>1. \A i \in DOMAIN pending : pending[i] \in JobId
          BY DEF TypeOK
        <4>2. Pushing \cup Elements(pending) \cup Leased \subseteq JobId
          BY <4>1 DEF TypeOK, Pushing, Elements, Leased
        <4> QED
          BY <4>2 DEF OnePlace, JobId
      <3>2. nextJobId \in Int
        BY DEF TypeOK
      <3> QED
        BY <1>1, <3>1, <3>2, PushAllocatePlaces
    <2> QED
      BY <1>1, <2>1, <2>2, <2>3, PushAllocatePlaces DEF OnePlace
  <1>2. ASSUME NEW s \in Submitter, PushEnqueue(s)
        PROVE  OnePlace'
    <2>1. \A r, t \in Submitter : pushing'[r] # 0 /\ pushing'[r] = pushing'[t] => r = t
      BY <1>2 DEF OnePlace, PushEnqueue, TypeOK
    <2> QED
      BY <1>2, <2>1, PushEnqueuePlaces DEF OnePlace, NoRepeats
  <1>3. ASSUME NEW b \in Builder, Pull(b)
        PROVE  OnePlace'
    <2>1. UNCHANGED pushing
      BY <1>3 DEF Pull
    <2> QED
      BY <1>3, <2>1, PullPlaces DEF OnePlace, NoRepeats
  <1>4. ASSUME NEW j \in JobId, NEW b \in Builder, Complete(j, b) \/ Fail(j, b)
        PROVE  OnePlace'
    <2>1. UNCHANGED <<pushing, pending>>
      BY <1>4 DEF Complete, Fail
    <2> QED
      BY <1>4, <2>1, FinishPlaces DEF OnePlace
  <1>5. ASSUME CheckTimeouts
        PROVE  OnePlace'
    <2>1. UNCHANGED pushing
      BY <1>5 DEF CheckTimeouts
    <2> QED
      BY <1>5, <2>1, CheckTimeoutsPlaces DEF OnePlace, NoRepeats
  <1>6. ASSUME \/ \E j \in JobId, b \in Builder : Heartbeat(j, b)
               \/ TakePendingFetches
               \/ Tick
               \/ UNCHANGED queueVars
        PROVE  OnePlace'
    BY <1>6, StillPlaces DEF OnePlace
  <1> QED
    BY <1>1, <1>2, <1>3, <1>4, <1>5, <1>6 DEF Next

\* Only complete and fail take a job out of the three places, and both record
\* an outcome of its derivation; no operation removes an outcome.
LEMMA NoJobLostStep ==
    ASSUME IndInv, [Next]_queueVars
    PROVE  NoJobLost'
  <1> USE DEF IndInv
  <1>1. ASSUME NEW s \in Submitter, NEW d \in Drv, NEW F \in SUBSET Feature,
               PushAllocate(s, d, F)
        PROVE  NoJobLost'
    <2>1. \A j \in Done : j # nextJobId
      BY QueueAssumption DEF Done, TypeOK, JobId
    <2>2. \A j \in Done : job'[j] = job[j]
      BY <1>1, <2>1 DEF PushAllocate, TypeOK, Done
    <2> QED
      BY <1>1, <2>2, PushAllocatePlaces DEF NoJobLost, PushAllocate
  <1>2. ASSUME NEW j \in JobId, NEW b \in Builder, Complete(j, b) \/ Fail(j, b)
        PROVE  NoJobLost'
    <2>1. job[j].drv \in Drv /\ Done' = Done \cup {j} /\ job' = job
      BY <1>2, FinishPlaces DEF JobsDescribed, Complete, Fail
    <2>2. \E o \in Outcome : completed' = [completed EXCEPT ![job[j].drv] = o]
      <3>1. \A k \in {"Completed", "Failed"} :
                [kind |-> k, job |-> j, builder |-> b] \in Outcome
        BY DEF Outcome
      <3> QED
        BY <1>2, <3>1 DEF Complete, Fail
    <2>3. Null \notin Outcome
      BY NullAssumption
    <2> QED
      BY <2>1, <2>2, <2>3 DEF NoJobLost, TypeOK
  <1>3. ASSUME NEW s \in Submitter, PushEnqueue(s)
        PROVE  NoJobLost'
    BY <1>3, PushEnqueuePlaces DEF NoJobLost, PushEnqueue
  <1>4. ASSUME NEW b \in Builder, Pull(b)
        PROVE  NoJobLost'
    BY <1>4, PullPlaces DEF NoJobLost, Pull
  <1>5. ASSUME CheckTimeouts
        PROVE  NoJobLost'
    BY <1>5, CheckTimeoutsPlaces DEF NoJobLost, CheckTimeouts
  <1>6. ASSUME \/ \E j \in JobId, b \in Builder : Heartbeat(j, b)
               \/ TakePendingFetches
               \/ Tick
               \/ UNCHANGED queueVars
        PROVE  NoJobLost'
    BY <1>6, StillPlaces DEF NoJobLost
  <1> QED
    BY <1>1, <1>2, <1>3, <1>4, <1>5, <1>6 DEF Next

\* Outcomes are recorded by complete and fail for the job they end, and no
\* operation brings a job back that is over.
LEMMA OutcomeStep ==
    ASSUME IndInv, [Next]_queueVars
    PROVE  OutcomeOfFinishedJob'
  <1> USE DEF IndInv
  <1>1. ASSUME NEW s \in Submitter, NEW d \in Drv, NEW F \in SUBSET Feature,
               PushAllocate(s, d, F)
        PROVE  OutcomeOfFinishedJob'
    <2>1. \A j \in Done : j # nextJobId
      BY QueueAssumption DEF Done, TypeOK, JobId
    <2>2. \A j \in Done : job'[j] = job[j]
      BY <1>1, <2>1 DEF PushAllocate, TypeOK, Done
    <2> QED
      BY <1>1, <2>2, PushAllocatePlaces DEF OutcomeOfFinishedJob, PushAllocate
  <1>2. ASSUME NEW j \in JobId, NEW b \in Builder, Complete(j, b) \/ Fail(j, b)
        PROVE  OutcomeOfFinishedJob'
    <2>1. job[j].drv \in Drv /\ Done' = Done \cup {j} /\ job' = job
      BY <1>2, FinishPlaces DEF JobsDescribed, Complete, Fail
    <2>2. PICK k \in {"Completed", "Failed"} : completed' =
              [completed EXCEPT ![job[j].drv] =
                  [kind |-> k, job |-> j, builder |-> b]]
      BY <1>2 DEF Complete, Fail
    <2>3. /\ completed'[job[j].drv].job = j
          /\ \A d \in Drv \ {job[j].drv} : completed'[d] = completed[d]
      BY <2>1, <2>2 DEF TypeOK
    <2> QED
      BY <2>1, <2>3 DEF OutcomeOfFinishedJob
  <1>3. ASSUME NEW s \in Submitter, PushEnqueue(s)
        PROVE  OutcomeOfFinishedJob'
    BY <1>3, PushEnqueuePlaces DEF OutcomeOfFinishedJob, PushEnqueue
  <1>4. ASSUME NEW b \in Builder, Pull(b)
        PROVE  OutcomeOfFinishedJob'
    BY <1>4, PullPlaces DEF OutcomeOfFinishedJob, Pull
  <1>5. ASSUME CheckTimeouts
        PROVE  OutcomeOfFinishedJob'
    BY <1>5, CheckTimeoutsPlaces DEF OutcomeOfFinishedJob, CheckTimeouts
  <1>6. ASSUME \/ \E j \in JobId, b \in Builder : Heartbeat(j, b)
               \/ TakePendingFetches
               \/ Tick
               \/ UNCHANGED queueVars
        PROVE  OutcomeOfFinishedJob'
    BY <1>6, StillPlaces DEF OutcomeOfFinishedJob
  <1> QED
    BY <1>1, <1>2, <1>3, <1>4, <1>5, <1>6 DEF Next

\* complete adds its result to pending_fetch once, take_pending_fetches
\* empties the list, and no other operation touches it.
LEMMA FetchStep ==
    ASSUME IndInv, [Next]_queueVars
    PROVE  FetchedExactlyOnce'
  <1> USE DEF IndInv
  <1> DEFINE Waiting == {pendingFetch[i].job : i \in DOMAIN pendingFetch}
  <1>1. ASSUME NEW j \in JobId, NEW b \in Builder, Complete(j, b)
        PROVE  FetchedExactlyOnce'
    <2> DEFINE r == [job |-> j, drv |-> job[j].drv, builder |-> b]
    <2>1. /\ j \notin Done /\ Done' = Done \cup {j}
          /\ job[j].drv \in Drv
      BY <1>1, FinishPlaces DEF JobsDescribed
    <2>2. j \notin accepted /\ j \notin taken /\ j \notin Waiting
      BY <2>1 DEF FetchedExactlyOnce
    <2>3. /\ pendingFetch' = Append(pendingFetch, r)
          /\ accepted' = accepted \cup {j}
          /\ taken' = taken
      BY <1>1 DEF Complete
    <2>4. r \in BuildResult /\ r.job = j
      BY <2>1 DEF BuildResult
    <2>5. /\ DOMAIN pendingFetch' = 1 .. Len(pendingFetch) + 1
          /\ \A i \in 1 .. Len(pendingFetch) : pendingFetch'[i] = pendingFetch[i]
          /\ pendingFetch'[Len(pendingFetch) + 1] = r
          /\ Len(pendingFetch) \in Nat
          /\ DOMAIN pendingFetch = 1 .. Len(pendingFetch)
      BY <2>3, <2>4 DEF TypeOK
    <2> HIDE DEF r
    <2>6. \A i, k \in DOMAIN pendingFetch' :
              pendingFetch'[i].job = pendingFetch'[k].job => i = k
      BY <2>2, <2>4, <2>5 DEF FetchedExactlyOnce
    <2>7. {pendingFetch'[i].job : i \in DOMAIN pendingFetch'} = Waiting \cup {j}
      BY <2>4, <2>5
    <2>8. \A i \in DOMAIN pendingFetch' : pendingFetch'[i].job \notin taken'
      BY <2>2, <2>3, <2>4, <2>5 DEF FetchedExactlyOnce
    <2> QED
      BY <2>1, <2>3, <2>6, <2>7, <2>8 DEF FetchedExactlyOnce
  <1>2. ASSUME TakePendingFetches
        PROVE  FetchedExactlyOnce'
    <2>1. /\ pendingFetch' = <<>> /\ DOMAIN pendingFetch' = {}
          /\ accepted' = accepted /\ Done' = Done
          /\ taken' = taken \cup Waiting
      BY <1>2, StillPlaces DEF TakePendingFetches
    <2> QED
      BY <2>1 DEF FetchedExactlyOnce
  <1>3. ASSUME UNCHANGED <<pendingFetch, accepted, taken>>, Done \subseteq Done'
        PROVE  FetchedExactlyOnce'
    BY <1>3 DEF FetchedExactlyOnce
  <1>4. ASSUME NEW s \in Submitter, NEW d \in Drv, NEW F \in SUBSET Feature,
               PushAllocate(s, d, F)
        PROVE  UNCHANGED <<pendingFetch, accepted, taken>> /\ Done' = Done
    BY <1>4, PushAllocatePlaces DEF PushAllocate
  <1>5. ASSUME NEW s \in Submitter, PushEnqueue(s)
        PROVE  UNCHANGED <<pendingFetch, accepted, taken>> /\ Done' = Done
    BY <1>5, PushEnqueuePlaces DEF PushEnqueue
  <1>6. ASSUME NEW b \in Builder, Pull(b)
        PROVE  UNCHANGED <<pendingFetch, accepted, taken>> /\ Done' = Done
    BY <1>6, PullPlaces DEF Pull
  <1>7. ASSUME NEW j \in JobId, NEW b \in Builder, Fail(j, b)
        PROVE  UNCHANGED <<pendingFetch, accepted, taken>> /\ Done \subseteq Done'
    BY <1>7, FinishPlaces DEF Fail
  <1>8. ASSUME CheckTimeouts
        PROVE  UNCHANGED <<pendingFetch, accepted, taken>> /\ Done' = Done
    BY <1>8, CheckTimeoutsPlaces DEF CheckTimeouts
  <1>9. ASSUME \/ \E j \in JobId, b \in Builder : Heartbeat(j, b)
               \/ Tick
               \/ UNCHANGED queueVars
        PROVE  UNCHANGED <<pendingFetch, accepted, taken>> /\ Done' = Done
    BY <1>9, StillPlaces DEF Heartbeat, Tick, queueVars
  <1> QED
    BY <1>1, <1>2, <1>3, <1>4, <1>5, <1>6, <1>7, <1>8, <1>9 DEF Next

-----------------------------------------------------------------------------
(* Together. *)

\* A new queue (BuildQueue::new) satisfies the inductive invariant.
LEMMA InitInv == Init => IndInv
  <1> SUFFICES ASSUME Init PROVE IndInv
    OBVIOUS
  <1>1. /\ Elements(pending) = {} /\ Leased = {} /\ Pushing = {} /\ Done = {}
    BY QueueAssumption DEF Init, Elements, Leased, Pushing, Done, JobId
  <1>2. TypeOK
    BY QueueAssumption DEF Init, TypeOK, JobRecord
  <1>3. JobsDescribed
    BY DEF Init, JobsDescribed, JobId
  <1>4. OnePlace
    BY <1>1 DEF Init, OnePlace
  <1>5. NoJobLost /\ OutcomeOfFinishedJob
    BY <1>1 DEF Init, NoJobLost, OutcomeOfFinishedJob
  <1>6. FetchedExactlyOnce
    BY <1>1 DEF Init, FetchedExactlyOnce
  <1> QED
    BY <1>2, <1>3, <1>4, <1>5, <1>6 DEF IndInv

\* Every operation of the queue preserves the inductive invariant.
LEMMA StepInv == IndInv /\ [Next]_queueVars => IndInv'
  BY TypeStep, DescribedStep, OnePlaceStep, NoJobLostStep, OutcomeStep,
     FetchStep DEF IndInv

\* The inductive invariant holds of the queue whatever its callers do.
THEOREM Invariance == Spec => []IndInv
  BY InitInv, StepInv, PTL DEF Spec

\* Every field of the queue keeps its type.
THEOREM TypeCorrect == Spec => []TypeOK
  <1>1. IndInv => TypeOK
    BY DEF IndInv
  <1> QED
    BY <1>1, Invariance, PTL

\* A job is never pending twice, pending and leased, or being pushed while it
\* is pending or leased, however push, pull, complete, fail and
\* check_timeouts interleave.
THEOREM JobInOnePlace == Spec => []OnePlace
  <1>1. IndInv => OnePlace
    BY DEF IndInv
  <1> QED
    BY <1>1, Invariance, PTL

\* A job whose id push handed out is on its way, waiting, leased, or its
\* derivation has an outcome.
THEOREM NoJobIsLost == Spec => []NoJobLost
  <1>1. IndInv => NoJobLost
    BY DEF IndInv
  <1> QED
    BY <1>1, Invariance, PTL

\* The completed map only speaks of jobs that are over, under their own
\* derivation.
THEOREM OutcomesAreFinal == Spec => []OutcomeOfFinishedJob
  <1>1. IndInv => OutcomeOfFinishedJob
    BY DEF IndInv
  <1> QED
    BY <1>1, Invariance, PTL

\* The fetcher is handed each accepted result exactly once.
THEOREM ResultsFetchedOnce == Spec => []FetchedExactlyOnce
  <1>1. IndInv => FetchedExactlyOnce
    BY DEF IndInv
  <1> QED
    BY <1>1, Invariance, PTL

-----------------------------------------------------------------------------
(* The queue implements JobLifecycle. *)

\* In a new queue no job has begun its life.
LEMMA LifecycleInit == Init => Lifecycle!LInit
  <1> SUFFICES ASSUME Init PROVE Lifecycle!LInit
    OBVIOUS
  <1>1. /\ Elements(pending) = {} /\ holder = [j \in JobId |-> Null]
        /\ \A j \in JobId : ~ (j < nextJobId)
    BY QueueAssumption DEF Init, Elements, JobId
  <1>2. phaseOf = [j \in JobId |-> "none"]
    BY <1>1 DEF phaseOf
  <1> QED
    BY <1>1, <1>2 DEF Lifecycle!LInit

\* Any operation but check_timeouts, or none.
Call ==
    \/ \E s \in Submitter, d \in Drv, F \in SUBSET Feature :
           PushAllocate(s, d, F)
    \/ \E s \in Submitter : PushEnqueue(s)
    \/ \E b \in Builder : Pull(b)
    \/ \E j \in JobId, b \in Builder : Complete(j, b) \/ Fail(j, b)
    \/ \E j \in JobId, b \in Builder : Heartbeat(j, b)
    \/ TakePendingFetches
    \/ Tick
    \/ UNCHANGED queueVars

\* The phase of a job is the place it is in.
PhaseByPlace ==
    phaseOf = [j \in JobId |->
                  IF j \in Leased THEN "leased"
                  ELSE IF j \in Elements(pending) THEN "waiting"
                  ELSE IF j \in Done THEN "done"
                  ELSE "none"]

\* It is, before and after any step.
LEMMA PhaseFollowsPlace == PhaseByPlace /\ PhaseByPlace'
  <1>1. PhaseByPlace
    BY DEF PhaseByPlace, phaseOf, Leased, Done
  <1>2. PhaseByPlace'
    BY DEF PhaseByPlace, phaseOf, Leased, Done
  <1> QED
    BY <1>1, <1>2

\* Every operation of the queue but check_timeouts moves one job on (push's
\* second half submits it, pull leases it, complete and fail finish it) or
\* leaves every job's phase and lease alone.
LEMMA LifecycleCall ==
    ASSUME IndInv, Call
    PROVE  [Lifecycle!Advance]_(Lifecycle!lvars)
  <1>0. PhaseByPlace /\ PhaseByPlace'
    BY PhaseFollowsPlace
  <1> USE DEF IndInv
  <1>1. ASSUME Leased' = Leased, Elements(pending)' = Elements(pending),
               Done' = Done, holder' = holder
        PROVE  UNCHANGED Lifecycle!lvars
    BY <1>1, <1>0 DEF Lifecycle!lvars, PhaseByPlace
  <1>2. ASSUME NEW s \in Submitter, NEW d \in Drv, NEW F \in SUBSET Feature,
               PushAllocate(s, d, F)
        PROVE  UNCHANGED Lifecycle!lvars
    BY <1>1, <1>2, PushAllocatePlaces DEF PushAllocate
  <1>3. ASSUME NEW s \in Submitter, PushEnqueue(s)
        PROVE  Lifecycle!Advance
    <2>1. pushing[s] \in JobId \ (Leased \cup Elements(pending) \cup Done)
      BY <1>3, PushEnqueuePlaces DEF OnePlace, Done
    <2>2. phaseOf[pushing[s]] = "none"
      BY <2>1, <1>0 DEF PhaseByPlace
    <2>3. phaseOf' = [phaseOf EXCEPT ![pushing[s]] = "waiting"]
      BY <1>3, <2>1, PushEnqueuePlaces, <1>0 DEF PhaseByPlace
    <2>4. UNCHANGED holder
      BY <1>3 DEF PushEnqueue
    <2> QED
      BY <2>1, <2>2, <2>3, <2>4 DEF Lifecycle!Advance, Lifecycle!Submit
  <1>4. ASSUME NEW b \in Builder, Pull(b)
        PROVE  Lifecycle!Advance
    <2>1. PICK j \in Elements(pending) :
                /\ j \in JobId
                /\ Elements(pending)' = Elements(pending) \ {j}
                /\ holder' = [holder EXCEPT ![j] = b]
                /\ Leased' = Leased \cup {j}
                /\ Done' = Done
      BY <1>4, PullPlaces
    <2>2. phaseOf[j] = "waiting" /\ holder[j] = Null
      BY <2>1, <1>0 DEF PhaseByPlace, OnePlace, Leased
    <2>3. phaseOf' = [phaseOf EXCEPT ![j] = "leased"]
      BY <2>1, <1>0 DEF PhaseByPlace
    <2> QED
      BY <2>1, <2>2, <2>3 DEF Lifecycle!Advance, Lifecycle!Lease
  <1>5. ASSUME NEW j \in JobId, NEW b \in Builder, Complete(j, b) \/ Fail(j, b)
        PROVE  Lifecycle!Advance
    <2>1. /\ j \in Leased /\ Leased' = Leased \ {j}
          /\ Elements(pending)' = Elements(pending)
          /\ j \notin Elements(pending)
          /\ Done' = Done \cup {j}
      BY <1>5, FinishPlaces DEF OnePlace
    <2>2. phaseOf[j] = "leased" /\ holder[j] = b
      BY <1>5, <2>1, <1>0 DEF PhaseByPlace, Complete, Fail
    <2>3. phaseOf' = [phaseOf EXCEPT ![j] = "done"]
      BY <2>1, <1>0 DEF PhaseByPlace
    <2>4. holder' = [holder EXCEPT ![j] = Null]
      BY <1>5 DEF Complete, Fail
    <2> QED
      BY <2>2, <2>3, <2>4 DEF Lifecycle!Advance, Lifecycle!Finish
  <1>6. ASSUME \/ \E j \in JobId, b \in Builder : Heartbeat(j, b)
               \/ TakePendingFetches
               \/ Tick
               \/ UNCHANGED queueVars
        PROVE  UNCHANGED Lifecycle!lvars
    <2>1. UNCHANGED holder
      BY <1>6 DEF Heartbeat, TakePendingFetches, Tick, queueVars
    <2> QED
      BY <1>1, <1>6, <2>1, StillPlaces
  <1> QED
    BY <1>2, <1>3, <1>4, <1>5, <1>6 DEF Call

\* Every operation of the queue is a step of the life cycle, check_timeouts
\* the one that withdraws leases.
LEMMA LifecycleStep ==
    ASSUME IndInv, [Next]_queueVars
    PROVE  [Lifecycle!LNext]_(Lifecycle!lvars)
  <1>0. PhaseByPlace /\ PhaseByPlace'
    BY PhaseFollowsPlace
  <1>1. CASE CheckTimeouts
    <2> USE DEF IndInv
    <2>1. /\ Expired \subseteq Leased /\ Expired \in SUBSET JobId
          /\ Leased' = Leased \ Expired
          /\ Elements(pending)' = Elements(pending) \cup Expired
          /\ Done' = Done
          /\ Expired # {}
      BY <1>1, CheckTimeoutsPlaces DEF CheckTimeouts, Leased
    <2>2. \A j \in Expired : phaseOf[j] = "leased"
      BY <2>1, <1>0 DEF PhaseByPlace
    <2>3. phaseOf' = [j \in JobId |-> IF j \in Expired THEN "waiting" ELSE phaseOf[j]]
      BY <2>1, <1>0 DEF PhaseByPlace
    <2>4. holder' = [j \in JobId |-> IF j \in Expired THEN Null ELSE holder[j]]
      BY <1>1 DEF CheckTimeouts
    <2>5. Lifecycle!Withdraw(Expired)
      BY <2>1, <2>2, <2>3, <2>4 DEF Lifecycle!Withdraw
    <2> QED
      BY <2>1, <2>5 DEF Lifecycle!LNext
  <1>2. CASE Call
    BY <1>2, LifecycleCall DEF Lifecycle!LNext
  <1> QED
    BY <1>1, <1>2 DEF Next, Call

\* The queue refines the job life cycle: one lease at a time, finished only
\* by the lease holder, final once finished.
THEOREM Refinement == Spec => ImplementsLifecycle
  BY LifecycleInit, LifecycleStep, Invariance, PTL
  DEF Spec, ImplementsLifecycle, Lifecycle!LSpec

-----------------------------------------------------------------------------
(* What the programs built on the queue rely on: the daemon and build-push  *)
(* never call check_timeouts.                                               *)

\* The kind of an outcome tells whether its job's completion was accepted.
KindTold ==
    \A d \in Drv : completed[d] # Null =>
        (completed[d].kind = "Completed" <=> completed[d].job \in accepted)

\* Without check_timeouts the life of a job goes one way: its record stands
\* once push wrote it, a job given to a builder never waits again, and one
\* that is over stays over and ended as it ended.
LEMMA CallKeeps ==
    ASSUME IndInv, Call
    PROVE  /\ IndInv'
           /\ nextJobId <= nextJobId' /\ nextJobId' \in Int
           /\ \A j \in JobId : j < nextJobId => job'[j] = job[j]
           /\ Done \subseteq Done'
           /\ accepted \subseteq accepted'
           /\ Done \ accepted \subseteq (Done \ accepted)'
           /\ \A j \in JobId :
                  j < nextJobId /\ j \notin Pushing \cup Elements(pending) =>
                      j \notin (Pushing \cup Elements(pending))'
  <1> USE DEF IndInv
  <1>1. [Next]_queueVars
    BY DEF Call, Next
  <1>2. IndInv'
    BY <1>1, StepInv
  <1>3. nextJobId \in Int /\ nextJobId' \in Int
    BY <1>2 DEF TypeOK
  <1>4. ASSUME NEW s \in Submitter, NEW d \in Drv, NEW F \in SUBSET Feature,
               PushAllocate(s, d, F)
        PROVE  /\ nextJobId' = nextJobId + 1
               /\ Pushing' = Pushing \cup {nextJobId}
               /\ Elements(pending)' = Elements(pending)
               /\ Done' = Done /\ accepted' = accepted
               /\ \A j \in JobId : j < nextJobId => job'[j] = job[j]
    <2>1. \A j \in JobId : j < nextJobId => job'[j] = job[j]
      BY <1>3, <1>4 DEF PushAllocate, TypeOK, JobId
    <2> QED
      BY <1>4, <2>1, PushAllocatePlaces DEF PushAllocate
  <1>5. ASSUME NEW s \in Submitter, PushEnqueue(s)
        PROVE  /\ (Pushing \cup Elements(pending))' = Pushing \cup Elements(pending)
               /\ Done' = Done /\ UNCHANGED <<nextJobId, job, accepted>>
    BY <1>5, PushEnqueuePlaces DEF PushEnqueue
  <1>6. ASSUME NEW b \in Builder, Pull(b)
        PROVE  /\ (Pushing \cup Elements(pending))' \subseteq Pushing \cup Elements(pending)
               /\ Done' = Done /\ UNCHANGED <<nextJobId, job, accepted>>
    BY <1>6, PullPlaces DEF Pull
  <1>7. ASSUME NEW j \in JobId, NEW b \in Builder, Complete(j, b) \/ Fail(j, b)
        PROVE  /\ (Pushing \cup Elements(pending))' = Pushing \cup Elements(pending)
               /\ j \notin Done /\ Done' = Done \cup {j}
               /\ UNCHANGED <<nextJobId, job>>
               /\ accepted' \in {accepted, accepted \cup {j}}
    BY <1>7, FinishPlaces DEF Complete, Fail
  <1>8. ASSUME \/ \E j \in JobId, b \in Builder : Heartbeat(j, b)
               \/ TakePendingFetches
               \/ Tick
               \/ UNCHANGED queueVars
        PROVE  /\ (Pushing \cup Elements(pending))' = Pushing \cup Elements(pending)
               /\ Done' = Done /\ UNCHANGED <<nextJobId, job, accepted>>
    BY <1>8, StillPlaces
  <1> HIDE DEF IndInv
  <1>9. CASE \E s \in Submitter, d \in Drv, F \in SUBSET Feature :
                 PushAllocate(s, d, F)
    BY <1>2, <1>3, <1>4, <1>9
  <1>10. CASE \E s \in Submitter : PushEnqueue(s)
    BY <1>2, <1>3, <1>5, <1>10
  <1>11. CASE \E b \in Builder : Pull(b)
    BY <1>2, <1>3, <1>6, <1>11
  <1>12. CASE \E j \in JobId, b \in Builder : Complete(j, b) \/ Fail(j, b)
    BY <1>2, <1>3, <1>7, <1>12
  <1>13. CASE \/ \E j \in JobId, b \in Builder : Heartbeat(j, b)
              \/ TakePendingFetches
              \/ Tick
              \/ UNCHANGED queueVars
    BY <1>2, <1>3, <1>8, <1>13
  <1> QED
    BY <1>9, <1>10, <1>11, <1>12, <1>13 DEF Call

\* Without check_timeouts a lease stays with its builder until the job is over.
LEMMA LeaseStays ==
    ASSUME IndInv, Call, NEW j \in Leased
    PROVE  holder'[j] = holder[j] \/ j \in Done'
  <1> USE DEF IndInv
  <1>1. j \in JobId /\ j \notin Elements(pending)
    BY DEF Leased, OnePlace
  <1>2. ASSUME NEW b \in Builder, Pull(b)
        PROVE  holder'[j] = holder[j]
    BY <1>1, <1>2, PullPlaces DEF TypeOK
  <1>3. ASSUME NEW k \in JobId, NEW b \in Builder, Complete(k, b) \/ Fail(k, b)
        PROVE  holder'[j] = holder[j] \/ j \in Done'
    <2>1. holder' = [holder EXCEPT ![k] = Null] /\ k \in Done'
      BY <1>3, FinishPlaces DEF Complete, Fail
    <2> QED
      BY <1>1, <2>1 DEF TypeOK
  <1> QED
    BY <1>2, <1>3 DEF Call, PushAllocate, PushEnqueue, Heartbeat,
                      TakePendingFetches, Tick, queueVars

\* complete and fail record the kind that fits, of a job no other outcome is
\* about.
LEMMA KindStep ==
    ASSUME IndInv, KindTold, [Next]_queueVars
    PROVE  KindTold'
  <1> USE DEF IndInv
  <1>1. ASSUME NEW j \in JobId, NEW b \in Builder, Complete(j, b) \/ Fail(j, b)
        PROVE  KindTold'
    <2>1. /\ job[j].drv \in Drv /\ j \notin Done /\ j \notin accepted
          /\ \A d \in Drv : completed[d] # Null => completed[d].job # j
      BY <1>1, FinishPlaces DEF JobsDescribed, OutcomeOfFinishedJob,
                                FetchedExactlyOnce
    <2>2. \/ /\ completed' = [completed EXCEPT ![job[j].drv] =
                                [kind |-> "Completed", job |-> j, builder |-> b]]
             /\ accepted' = accepted \cup {j}
          \/ /\ completed' = [completed EXCEPT ![job[j].drv] =
                                [kind |-> "Failed", job |-> j, builder |-> b]]
             /\ accepted' = accepted
      BY <1>1 DEF Complete, Fail
    <2> QED
      BY <2>1, <2>2 DEF KindTold, TypeOK
  <1>2. ASSUME ~ \E j \in JobId, b \in Builder : Complete(j, b) \/ Fail(j, b)
        PROVE  UNCHANGED <<completed, accepted>>
    BY <1>2 DEF Next, PushAllocate, PushEnqueue, Pull, Heartbeat,
                CheckTimeouts, TakePendingFetches, Tick, queueVars
  <1> QED
    BY <1>1, <1>2 DEF KindTold

=============================================================================
