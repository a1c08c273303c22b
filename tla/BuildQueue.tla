----------------------------- MODULE BuildQueue -----------------------------
(***************************************************************************)
(* The requester's build queue (build.rs, struct BuildQueue): a pending    *)
(* FIFO of jobs, the leases builders hold on jobs, the outcomes by         *)
(* derivation, and the results whose outputs are still to be fetched.      *)
(*                                                                         *)
(* Every operation of the queue is called from concurrent tasks and        *)
(* protects each field with its own mutex.  One action stands for one      *)
(* stretch of an operation whose effects no other task can tell apart:     *)
(* push allocates the job's id under one lock and enqueues the job under   *)
(* another, so it is two actions; the others change what they change under *)
(* nested locks and are one action each.                                   *)
(*                                                                         *)
(* A job record is never changed after push, so pending and the leases     *)
(* hold job ids and job[j] the record.  An Instant is modelled by how      *)
(* many ticks ago it was, up to one tick past the lease timeout.           *)
(***************************************************************************)
EXTENDS Integers, Sequences, FiniteSets, Listings, Derivations

CONSTANTS
    Feature,       \* system features a job may require
    Builder,       \* endpoints of builders
    Offered,       \* Offered[b]: the features builder b sends when it pulls
    Submitter,     \* tasks that call push concurrently
    MaxJobs,       \* bound: the number of jobs ever pushed
    LeaseTimeout,  \* JOB_LEASE_TIMEOUT, in ticks
    Null           \* no builder, no derivation, no outcome, no features

ASSUME QueueAssumption ==
    /\ MaxJobs \in Nat
    /\ LeaseTimeout \in Nat
    /\ Offered \in [Builder -> SUBSET Feature]
    /\ Null \notin Builder
    /\ Null \notin Drv

JobId == 1 .. MaxJobs

VARIABLES
    nextJobId,     \* next id to hand out
    job,           \* job[j]: the record of job j, fixed by push
    pushing,       \* pushing[s]: the id task s allocated and has not enqueued, or 0
    pending,       \* ids of the pending jobs, front first
    holder,        \* holder[j]: the builder that leases j, or Null
    age,           \* age[j]: ticks since the last heartbeat of j's lease
    completed,     \* completed[d]: the last outcome of derivation d, or Null
    pendingFetch,  \* results of completed jobs, to be taken by the fetcher
    needed,        \* features last chosen for announcement, or Null
    \* history, read by no operation
    accepted,      \* jobs for which complete returned true
    taken          \* jobs whose result take_pending_fetches handed out

queueVars == <<nextJobId, job, pushing, pending, holder, age, completed,
               pendingFetch, needed, accepted, taken>>

JobRecord == [drv: Drv \cup {Null}, features: SUBSET Feature]

\* JobOutcome.  The failed job's id is not stored by the code; it is kept
\* here so that properties can say which job an outcome is about.
Outcome == [kind: {"Completed", "Failed"}, job: JobId, builder: Builder]

ASSUME NullAssumption == Null \notin Outcome

BuildResult == [job: JobId, drv: Drv, builder: Builder]

TypeOK ==
    /\ nextJobId \in 1 .. MaxJobs + 1
    /\ job \in [JobId -> JobRecord]
    /\ pushing \in [Submitter -> JobId \cup {0}]
    /\ pending \in Seq(JobId)
    /\ holder \in [JobId -> Builder \cup {Null}]
    /\ age \in [JobId -> 0 .. LeaseTimeout + 1]
    /\ completed \in [Drv -> Outcome \cup {Null}]
    /\ pendingFetch \in Seq(BuildResult)
    /\ needed \in (SUBSET Feature) \cup {Null}
    /\ accepted \in SUBSET JobId
    /\ taken \in SUBSET JobId

Init ==
    /\ nextJobId = 1
    /\ job = [j \in JobId |-> [drv |-> Null, features |-> {}]]
    /\ pushing = [s \in Submitter |-> 0]
    /\ pending = <<>>
    /\ holder = [j \in JobId |-> Null]
    /\ age = [j \in JobId |-> 0]
    /\ completed = [d \in Drv |-> Null]
    /\ pendingFetch = <<>>
    /\ needed = Null
    /\ accepted = {}
    /\ taken = {}

-----------------------------------------------------------------------------
(* Helpers *)

Leased == {j \in JobId : holder[j] # Null}

\* Leases older than JOB_LEASE_TIMEOUT.
Expired == {j \in Leased : age[j] > LeaseTimeout}

\* Positions of the pending jobs whose required features b has all of.
Matching(b) ==
    {i \in DOMAIN pending : job[pending[i]].features \subseteq Offered[b]}

\* push's second result: the caller is to announce the job's features.
ShouldAnnounce == pending = <<>> \/ needed = Null

-----------------------------------------------------------------------------
(* Seeded faults, used to show that the properties can fail. *)

\* push builds the job record without its derivation.
PushAllocateUndescribed(s, d, F) ==
    /\ pushing[s] = 0
    /\ nextJobId <= MaxJobs
    /\ job' = [job EXCEPT ![nextJobId].features = F]
    /\ pushing' = [pushing EXCEPT ![s] = nextJobId]
    /\ nextJobId' = nextJobId + 1
    /\ UNCHANGED <<pending, holder, age, completed, pendingFetch, needed,
                   accepted, taken>>

\* push puts the job at the front.
PushEnqueueFirst(s) ==
    /\ pushing[s] # 0
    /\ pending' = <<pushing[s]>> \o pending
    /\ needed' = IF ShouldAnnounce THEN job[pushing[s]].features ELSE needed
    /\ pushing' = [pushing EXCEPT ![s] = 0]
    /\ UNCHANGED <<nextJobId, job, holder, age, completed, pendingFetch,
                   accepted, taken>>

\* pull leases the job it finds and leaves it in the queue.
PullWithoutRemoving(b) ==
    \E i \in Matching(b) :
        /\ \A k \in Matching(b) : i <= k
        /\ holder' = [holder EXCEPT ![pending[i]] = b]
        /\ age' = [age EXCEPT ![pending[i]] = 0]
        /\ UNCHANGED <<nextJobId, job, pushing, pending, completed,
                       pendingFetch, needed, accepted, taken>>

\* check_timeouts forgets to drop the lease it returns to the queue.
CheckTimeoutsKeepingLease ==
    \E order \in Orderings(Expired) :
        /\ Expired # {}
        /\ pending' = order \o pending
        /\ UNCHANGED <<nextJobId, job, pushing, holder, age, completed,
                       pendingFetch, needed, accepted, taken>>

\* heartbeat gives the lease to whoever calls it.
HeartbeatByAnyone(j, b) ==
    /\ holder[j] # Null
    /\ holder' = [holder EXCEPT ![j] = b]
    /\ age' = [age EXCEPT ![j] = 0]
    /\ UNCHANGED <<nextJobId, job, pushing, pending, completed, pendingFetch,
                   needed, accepted, taken>>

\* fail looks the job up without removing its lease.
FailKeepingLease(j, b) ==
    /\ holder[j] = b
    /\ completed' = [completed EXCEPT ![job[j].drv] =
                        [kind |-> "Failed", job |-> j, builder |-> b]]
    /\ UNCHANGED <<nextJobId, job, pushing, pending, holder, age,
                   pendingFetch, needed, accepted, taken>>

\* fail drops the lease and returns before it records the outcome.
FailWithoutOutcome(j, b) ==
    /\ holder[j] = b
    /\ holder' = [holder EXCEPT ![j] = Null]
    /\ UNCHANGED <<nextJobId, job, pushing, pending, age, completed,
                   pendingFetch, needed, accepted, taken>>

\* take_pending_fetches returns a clone and leaves the results in place.
TakePendingFetchesByClone ==
    /\ pendingFetch # <<>>
    /\ taken' = taken \cup {pendingFetch[i].job : i \in DOMAIN pendingFetch}
    /\ UNCHANGED <<nextJobId, job, pushing, pending, holder, age, completed,
                   pendingFetch, needed, accepted>>

-----------------------------------------------------------------------------
(* Operations *)

\* push, up to the release of the next_job_id lock: the id is allocated and
\* the job record built.
PushAllocate(s, d, F) ==
    /\ pushing[s] = 0
    /\ nextJobId <= MaxJobs
    /\ job' = [job EXCEPT ![nextJobId] = [drv |-> d, features |-> F]]
    /\ pushing' = [pushing EXCEPT ![s] = nextJobId]
    /\ nextJobId' = nextJobId + 1
    /\ UNCHANGED <<pending, holder, age, completed, pendingFetch, needed,
                   accepted, taken>>

\* push, from the pending lock on: the job joins the back of the queue and
\* its features become the announced ones if the queue was empty or none
\* were chosen yet.
PushEnqueue(s) ==
    /\ pushing[s] # 0
    /\ pending' = Append(pending, pushing[s])
    /\ needed' = IF ShouldAnnounce THEN job[pushing[s]].features ELSE needed
    /\ pushing' = [pushing EXCEPT ![s] = 0]
    /\ UNCHANGED <<nextJobId, job, holder, age, completed, pendingFetch,
                   accepted, taken>>

\* pull: the first job whose features b covers moves from pending to leased.
Pull(b) ==
    \E i \in Matching(b) :
        /\ \A k \in Matching(b) : i <= k
        /\ pending' = Without(pending, i)
        /\ holder' = [holder EXCEPT ![pending[i]] = b]
        /\ age' = [age EXCEPT ![pending[i]] = 0]
        /\ UNCHANGED <<nextJobId, job, pushing, completed, pendingFetch,
                       needed, accepted, taken>>

\* heartbeat by the lease's builder; any other call changes nothing.
Heartbeat(j, b) ==
    /\ holder[j] = b
    /\ age' = [age EXCEPT ![j] = 0]
    /\ UNCHANGED <<nextJobId, job, pushing, pending, holder, completed,
                   pendingFetch, needed, accepted, taken>>

\* complete by the lease's builder (a wrong builder's call puts the lease
\* back and returns false: nothing changes).
Complete(j, b) ==
    /\ holder[j] = b
    /\ holder' = [holder EXCEPT ![j] = Null]
    /\ pendingFetch' = Append(pendingFetch,
                              [job |-> j, drv |-> job[j].drv, builder |-> b])
    /\ completed' = [completed EXCEPT ![job[j].drv] =
                        [kind |-> "Completed", job |-> j, builder |-> b]]
    /\ accepted' = accepted \cup {j}
    /\ UNCHANGED <<nextJobId, job, pushing, pending, age, needed, taken>>

\* fail by the lease's builder.
Fail(j, b) ==
    /\ holder[j] = b
    /\ holder' = [holder EXCEPT ![j] = Null]
    /\ completed' = [completed EXCEPT ![job[j].drv] =
                        [kind |-> "Failed", job |-> j, builder |-> b]]
    /\ UNCHANGED <<nextJobId, job, pushing, pending, age, pendingFetch,
                   needed, accepted, taken>>

\* check_timeouts: every expired lease is dropped and its job pushed to the
\* front of the queue, in the order the hash map happens to be iterated.
CheckTimeouts ==
    \E order \in Orderings(Expired) :
        /\ Expired # {}
        /\ pending' = order \o pending
        /\ holder' = [j \in JobId |-> IF j \in Expired THEN Null ELSE holder[j]]
        /\ UNCHANGED <<nextJobId, job, pushing, age, completed,
                       pendingFetch, needed, accepted, taken>>

\* take_pending_fetches: the fetcher takes all results, the list is emptied.
TakePendingFetches ==
    /\ pendingFetch # <<>>
    /\ taken' = taken \cup {pendingFetch[i].job : i \in DOMAIN pendingFetch}
    /\ pendingFetch' = <<>>
    /\ UNCHANGED <<nextJobId, job, pushing, pending, holder, age, completed,
                   needed, accepted>>

\* Time passes: each lease's heartbeat gets one tick older.
Tick ==
    /\ \E j \in Leased : age[j] <= LeaseTimeout
    /\ age' = [j \in JobId |-> IF j \in Leased /\ age[j] <= LeaseTimeout
                               THEN age[j] + 1 ELSE age[j]]
    /\ UNCHANGED <<nextJobId, job, pushing, pending, holder, completed,
                   pendingFetch, needed, accepted, taken>>

Next ==
    \/ \E s \in Submitter, d \in Drv, F \in SUBSET Feature :
           PushAllocate(s, d, F)
    \/ \E s \in Submitter : PushEnqueue(s)
    \/ \E b \in Builder : Pull(b)
    \/ \E j \in JobId, b \in Builder :
           Heartbeat(j, b) \/ Complete(j, b) \/ Fail(j, b)
    \/ CheckTimeouts
    \/ TakePendingFetches
    \/ Tick

Spec == Init /\ [][Next]_queueVars

-----------------------------------------------------------------------------
(* Properties *)

Pushing == {pushing[s] : s \in Submitter} \ {0}

\* A job handed to the queue and neither waiting nor leased any more.
Done == {j \in JobId : j < nextJobId} \ (Pushing \cup Elements(pending) \cup Leased)

\* No job is in two places: a job that some task is still pushing, that is
\* pending or that is leased is in exactly one of these, occurs once in the
\* queue, and has an id that was allocated.  This is what makes pull hand a
\* job to one builder at a time although push, pull and check_timeouts move
\* jobs between differently locked fields.
OnePlace ==
    /\ \A i, k \in DOMAIN pending : pending[i] = pending[k] => i = k
    /\ \A s, t \in Submitter : pushing[s] # 0 /\ pushing[s] = pushing[t] => s = t
    /\ Elements(pending) \cap Leased = {}
    /\ Pushing \cap (Elements(pending) \cup Leased) = {}
    /\ \A j \in Pushing \cup Elements(pending) \cup Leased : j < nextJobId

\* No job vanishes: a job whose id was handed out is being pushed, pending,
\* leased, or its derivation has an outcome that get_outcome returns.
NoJobLost ==
    \A j \in Done : job[j].drv \in Drv /\ completed[job[j].drv] # Null

\* An outcome is about a job of its own derivation that is really over: it
\* was not returned to the queue or leased again after it was recorded.
OutcomeOfFinishedJob ==
    \A d \in Drv : completed[d] # Null =>
        /\ completed[d].job \in Done
        /\ job[completed[d].job].drv = d

\* Each accepted completion reaches the fetcher exactly once: its result is
\* either waiting in pending_fetch, once, or has been taken, never both, and
\* nothing else is ever handed to the fetcher.
FetchedExactlyOnce ==
    /\ \A i, k \in DOMAIN pendingFetch :
           pendingFetch[i].job = pendingFetch[k].job => i = k
    /\ \A i \in DOMAIN pendingFetch : pendingFetch[i].job \notin taken
    /\ accepted = taken \cup {pendingFetch[i].job : i \in DOMAIN pendingFetch}
    /\ accepted \subseteq Done

-----------------------------------------------------------------------------
(* The queue implements the life cycle of its jobs. *)

phaseOf ==
    [j \in JobId |->
        IF holder[j] # Null THEN "leased"
        ELSE IF j \in Elements(pending) THEN "waiting"
        ELSE IF j < nextJobId /\ j \notin Pushing THEN "done"
        ELSE "none"]

Lifecycle == INSTANCE JobLifecycle WITH phase <- phaseOf, owner <- holder

\* Every step of the queue is a step of the job life cycle or leaves every
\* job's phase and lease alone: a job is leased only while waiting, finished
\* only by its lease holder, and final once finished.
ImplementsLifecycle == Lifecycle!LSpec

\* A program that never calls check_timeouts takes no job back: each one is
\* leased once, to one builder, and ended by it, in whatever order the
\* program's other tasks and its builders use the queue.
ImplementsRun == Lifecycle!RunSpec

=============================================================================
