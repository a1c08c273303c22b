------------------------------ MODULE BuildPush ------------------------------
(***************************************************************************)
(* The build-push command (main.rs, build_push): it sorts the derivations  *)
(* to build (BuildPlan), queues them in that order (BuildQueue), then      *)
(* serves builders and watches the queue until everything is over and      *)
(* fetched.                                                                *)
(*                                                                         *)
(* A builder is a session of BuilderProtocol without faults: it works on   *)
(* one job at a time and reports its end.  Every derivation of the plan    *)
(* has one output, so one fetch stands for a result's outputs.  Input      *)
(* paths are left out: no output of the plan exists when it is queued.     *)
(***************************************************************************)
EXTENDS BuildQueue, BuildPlan

CONSTANT Needs  \* Needs[d]: the system features d requires

\* The queue is the command's own: only its one task pushes jobs.
ASSUME PushAssumption ==
    /\ Needs \in [Drv -> SUBSET Feature]
    /\ \E s \in Submitter : Submitter = {s}

VARIABLES
    phase,    \* what the command is doing
    monitor,  \* where the monitor loop is
    batch,    \* results taken from the queue and not fetched yet
    idle,     \* whether the last statistics showed no job pending or leased
    \* history, read by no operation
    tried     \* jobs whose outputs the monitor tried to fetch

monitorVars == <<monitor, batch, idle, tried>>
bpVars == <<queueVars, planVars, phase, monitorVars>>

BPTypeOK ==
    /\ TypeOK
    /\ PlanTypeOK
    /\ phase \in {"planning", "queueing", "serving", "stopped", "cancelled", "failed"}
    /\ monitor \in {"asleep", "fetching", "deciding"}
    /\ batch \in Seq(BuildResult)
    /\ idle \in BOOLEAN
    /\ tried \subseteq taken

BPInit ==
    /\ Init
    /\ PlanInit
    /\ phase = "planning"
    /\ monitor = "asleep"
    /\ batch = <<>>
    /\ idle = FALSE
    /\ tried = {}

\* Sessions that hold no job.
Free(b) == b \notin {holder[j] : j \in JobId}

-----------------------------------------------------------------------------
(* Seeded faults, used to show that the properties can fail. *)

\* The loop stops on the statistics alone.
DecideByStats ==
    /\ monitor = "deciding"
    /\ phase' = IF idle THEN "stopped" ELSE phase
    /\ monitor' = "asleep"
    /\ UNCHANGED <<queueVars, planVars, batch, idle, tried>>

\* The loop waits for a completion of every job.
DecideByCompletions ==
    /\ monitor = "deciding"
    /\ phase' = IF idle /\ Cardinality(tried) = Len(result) THEN "stopped" ELSE phase
    /\ monitor' = "asleep"
    /\ UNCHANGED <<queueVars, planVars, batch, idle, tried>>

\* The results are read and left in the queue.
TakeResultsByClone ==
    /\ phase = "serving" /\ monitor = "asleep"
    /\ batch' = pendingFetch
    /\ monitor' = "fetching"
    /\ UNCHANGED <<queueVars, planVars, phase, idle, tried>>

-----------------------------------------------------------------------------
(* Planning and queueing: no builder is served yet. *)

PlanNext ==
    /\ phase = "planning"
    /\ Visit
    /\ UNCHANGED <<queueVars, phase, monitorVars>>

\* "Nothing to build" is an end, too.
PlanEnds ==
    /\ phase = "planning"
    /\ queue = <<>>
    /\ phase' = IF result = <<>> THEN "stopped" ELSE "queueing"
    /\ UNCHANGED <<queueVars, planVars, monitorVars>>

QueueNext(s) ==
    /\ phase = "queueing"
    /\ nextJobId <= Len(result)
    /\ LET d == result[nextJobId] IN PushAllocate(s, d, Needs[d])
    /\ UNCHANGED <<planVars, phase, monitorVars>>

\* The job is queued and announced if push says so.  If it cannot be announced
\* the command ends with an error, before it has served anybody.
QueueNextEnds(s) ==
    /\ PushEnqueue(s)
    /\ \/ phase' = phase
       \/ ShouldAnnounce /\ phase' = "failed"
    /\ UNCHANGED <<planVars, monitorVars>>

StartServing ==
    /\ phase = "queueing"
    /\ nextJobId > Len(result)
    /\ \A s \in Submitter : pushing[s] = 0
    /\ phase' = "serving"
    /\ UNCHANGED <<queueVars, planVars, monitorVars>>

-----------------------------------------------------------------------------
(* Builders, as long as the command serves them. *)

BuilderPulls(b) ==
    /\ phase = "serving"
    /\ Free(b)
    /\ Pull(b)
    /\ UNCHANGED <<planVars, phase, monitorVars>>

BuilderEnds(b) ==
    /\ phase = "serving"
    /\ \E j \in JobId : Complete(j, b) \/ Fail(j, b)
    /\ UNCHANGED <<planVars, phase, monitorVars>>

-----------------------------------------------------------------------------
(* The monitor loop *)

\* The timer ticks: the results of completed jobs are taken.
TakeResults ==
    /\ phase = "serving" /\ monitor = "asleep"
    /\ IF pendingFetch = <<>> THEN UNCHANGED queueVars ELSE TakePendingFetches
    /\ batch' = pendingFetch
    /\ monitor' = "fetching"
    /\ UNCHANGED <<planVars, phase, idle, tried>>

\* One result's outputs are fetched and imported; a failure is only printed.
FetchOutputs ==
    /\ monitor = "fetching"
    /\ batch # <<>>
    /\ batch' = Tail(batch)
    /\ tried' = tried \cup {Head(batch).job}
    /\ UNCHANGED <<queueVars, planVars, phase, monitor, idle>>

\* stats: both counts under all locks.
CountJobs ==
    /\ monitor = "fetching"
    /\ batch = <<>>
    /\ idle' = (pending = <<>> /\ Leased = {})
    /\ monitor' = "deciding"
    /\ UNCHANGED <<queueVars, planVars, phase, batch, tried>>

\* The loop stops if no job was left and no result has come in since.
Decide ==
    /\ monitor = "deciding"
    /\ phase' = IF idle /\ pendingFetch = <<>> THEN "stopped" ELSE phase
    /\ monitor' = "asleep"
    /\ UNCHANGED <<queueVars, planVars, batch, idle, tried>>

\* Ctrl-C ends the loop between two rounds.
CtrlC ==
    /\ phase = "serving" /\ monitor = "asleep"
    /\ phase' = "cancelled"
    /\ UNCHANGED <<queueVars, planVars, monitorVars>>

Prepare ==
    \/ PlanNext \/ PlanEnds
    \/ \E s \in Submitter : QueueNext(s) \/ QueueNextEnds(s)
    \/ StartServing

Monitor == TakeResults \/ FetchOutputs \/ CountJobs \/ Decide

BPNext ==
    \/ Prepare
    \/ \E b \in Builder : BuilderPulls(b) \/ BuilderEnds(b)
    \/ Monitor
    \/ CtrlC

BPSpec == BPInit /\ [][BPNext]_bpVars

\* The command's own code runs on; builders ask for jobs and end them.
BPFairSpec ==
    /\ BPSpec
    /\ WF_bpVars(Prepare)
    /\ WF_bpVars(Monitor)
    /\ \A b \in Builder : WF_bpVars(BuilderPulls(b)) /\ WF_bpVars(BuilderEnds(b))

-----------------------------------------------------------------------------
(* Properties *)

\* The command ends of its own accord and without an error only when every job
\* of the plan is over and every result a builder delivered was taken and its
\* fetch tried, although builders deliver while the loop fetches and counts.
StopsWhenOver ==
    phase = "stopped" =>
        /\ Done = 1 .. Len(result)
        /\ accepted = tried /\ batch = <<>>

\* "Ensures dependencies are built before dependents": no derivation is given
\* to a builder before those it depends on are over.  (With one builder that
\* does one job at a time it is so.)
DependentsWait ==
    \A j \in Leased \cup Done : \A i \in 1 .. Len(result) :
        job[i].drv \in deps[job[j].drv] => i \in Done

\* The plan's order survives the queue: no derivation is given to a builder
\* before all those it depends on were given to one, in whatever order builders
\* come and end.  It takes builders with all the features the plan needs: one
\* without overtakes the jobs it cannot do.
DependenciesStartFirst ==
    (\A b \in Builder : \A d \in Drv : Needs[d] \subseteq Offered[b]) =>
        \A j \in Leased \cup Done : \A i \in 1 .. Len(result) :
            job[i].drv \in deps[job[j].drv] => i \in Leased \cup Done

\* The command ends, whatever the graph: a failed build, a failed fetch or a
\* failed announcement does not keep it waiting.
PushEnds == <>(phase \in {"stopped", "cancelled", "failed"})

=============================================================================
