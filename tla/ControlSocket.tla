---------------------------- MODULE ControlSocket ----------------------------
(***************************************************************************)
(* nix's build hook and the daemon's control socket (build_hook.rs,        *)
(* control.rs).  A hook submits a derivation to the daemon and then polls  *)
(* the job's status every 500 ms until it is told that the build completed *)
(* or failed.  A poll takes the queue's locks one after the other, so the  *)
(* job may move while it looks: each read is an action.                    *)
(*                                                                         *)
(* Builders appear here only as the calls their sessions make on the       *)
(* queue (BuilderProtocol has the sessions).  The daemon never calls       *)
(* check_timeouts or take_pending_fetches, and neither is a step here.     *)
(***************************************************************************)
EXTENDS BuildQueue

VARIABLES
    hook,   \* where each hook is
    mine,   \* the job each hook submitted, or 0
    poll,   \* the reads a PollBuild handler has done: next read, drv_hash found
    reply,  \* the BuildState the hook was answered with
    seen    \* history: the phases the job went through during the poll

hookVars == <<hook, mine, poll, reply>>
controlVars == <<hook, mine, poll, reply, seen>>
vars == <<queueVars, controlVars>>

NoPoll == [at |-> "none", drv |-> Null]

CTypeOK ==
    /\ TypeOK
    /\ hook \in [Submitter -> {"idle", "submitting", "waiting", "answered",
                               "succeeded", "gaveUp"}]
    /\ mine \in [Submitter -> JobId \cup {0}]
    /\ poll \in [Submitter -> [at: {"none", "pending1", "leased2", "pending2",
                                    "outcome"},
                               drv: Drv \cup {Null}]]
    /\ reply \in [Submitter -> {"none", "Pending", "Building", "Completed",
                                "Failed"}]
    /\ seen \in [Submitter -> SUBSET Lifecycle!Phase]

CInit ==
    /\ Init
    /\ hook = [s \in Submitter |-> "idle"]
    /\ mine = [s \in Submitter |-> 0]
    /\ poll = [s \in Submitter |-> NoPoll]
    /\ reply = [s \in Submitter |-> "none"]
    /\ seen = [s \in Submitter |-> {}]

-----------------------------------------------------------------------------
(* The hook submits *)

\* has_builders always answers yes, so every derivation nix offers is
\* accepted and submitted.
HookSubmits(s, d, F) ==
    /\ hook[s] = "idle"
    /\ PushAllocate(s, d, F)
    /\ mine' = [mine EXCEPT ![s] = nextJobId]
    /\ hook' = [hook EXCEPT ![s] = "submitting"]
    /\ UNCHANGED <<poll, reply>>

\* The daemon finishes the push whether or not the hook is still there.
SubmitReturns(s) ==
    /\ PushEnqueue(s)
    /\ hook' = [hook EXCEPT ![s] = IF @ = "submitting" THEN "waiting" ELSE @]
    /\ UNCHANGED <<mine, poll, reply>>

-----------------------------------------------------------------------------
(* PollBuild: five reads of the queue, each under its own lock *)

QueueStill == UNCHANGED <<queueVars, mine>>

Answer(s, state) ==
    /\ poll' = [poll EXCEPT ![s] = NoPoll]
    /\ reply' = [reply EXCEPT ![s] = state]
    /\ hook' = [hook EXCEPT ![s] = "answered"]

ReadOn(s, next, drv) ==
    /\ poll' = [poll EXCEPT ![s] = [at |-> next, drv |-> drv]]
    /\ UNCHANGED <<hook, reply>>

DrvOfMine(s) == job[mine[s]].drv

\* list_leased, to find the job's drv_hash.
PollBegins(s) ==
    /\ hook[s] = "waiting"
    /\ poll[s] = NoPoll
    /\ ReadOn(s, "pending1", IF mine[s] \in Leased THEN DrvOfMine(s) ELSE Null)
    /\ QueueStill

\* list_pending, for the drv_hash if the leases did not have it.
PollReadsPending(s) ==
    /\ poll[s].at = "pending1"
    /\ ReadOn(s, "leased2", IF poll[s].drv = Null /\ mine[s] \in Elements(pending)
                            THEN DrvOfMine(s) ELSE poll[s].drv)
    /\ QueueStill

\* Seeded fault: the second look at the leases is dropped.
PollSkipsLeased(s) ==
    /\ poll[s].at = "leased2"
    /\ ReadOn(s, "pending2", poll[s].drv)
    /\ QueueStill

\* list_leased again: a leased job is Building.
PollChecksLeased(s) ==
    /\ poll[s].at = "leased2"
    /\ IF mine[s] \in Leased THEN Answer(s, "Building")
                             ELSE ReadOn(s, "pending2", poll[s].drv)
    /\ QueueStill

\* list_pending again: a pending job is Pending.
PollChecksPending(s) ==
    /\ poll[s].at = "pending2"
    /\ IF mine[s] \in Elements(pending) THEN Answer(s, "Pending")
                                        ELSE ReadOn(s, "outcome", poll[s].drv)
    /\ QueueStill

\* get_outcome, only if a drv_hash was found above; otherwise, and if there
\* is no outcome, Pending.
PollChecksOutcome(s) ==
    /\ poll[s].at = "outcome"
    /\ IF poll[s].drv # Null /\ completed[poll[s].drv] # Null
       THEN Answer(s, completed[poll[s].drv].kind)
       ELSE Answer(s, "Pending")
    /\ QueueStill

-----------------------------------------------------------------------------
(* The hook acts on the answer *)

Verdict == [Pending |-> "waiting", Building |-> "waiting",
            Completed |-> "succeeded", Failed |-> "gaveUp"]

\* Seeded fault: the hook leaves its loop on any final state.
HookLeavesLoop(s) ==
    /\ hook[s] = "answered"
    /\ hook' = [hook EXCEPT ![s] = IF reply[s] \in {"Completed", "Failed"}
                                   THEN "succeeded" ELSE "waiting"]
    /\ reply' = [reply EXCEPT ![s] = "none"]
    /\ UNCHANGED <<poll, mine, queueVars>>

HookReadsAnswer(s) ==
    /\ hook[s] = "answered"
    /\ hook' = [hook EXCEPT ![s] = Verdict[reply[s]]]
    /\ reply' = [reply EXCEPT ![s] = "none"]
    /\ UNCHANGED <<poll, mine, queueVars>>

\* After a success the hook reads nix's next request; after a failure it has
\* exited with an error.
HookTakesNext(s) ==
    /\ hook[s] = "succeeded"
    /\ hook' = [hook EXCEPT ![s] = "idle"]
    /\ mine' = [mine EXCEPT ![s] = 0]
    /\ UNCHANGED <<poll, reply, queueVars>>

\* nix ends the hook at any moment, or the hook has exited with an error; the
\* next one may be offered the same derivation.  The job stays in the queue.
HookDies(s) ==
    /\ hook[s] # "idle"
    /\ hook' = [hook EXCEPT ![s] = "idle"]
    /\ mine' = [mine EXCEPT ![s] = 0]
    /\ poll' = [poll EXCEPT ![s] = NoPoll]
    /\ reply' = [reply EXCEPT ![s] = "none"]
    /\ UNCHANGED queueVars

PollStep(s) ==
    \/ PollBegins(s) \/ PollReadsPending(s) \/ PollChecksLeased(s)
    \/ PollChecksPending(s) \/ PollChecksOutcome(s)

HookStep(s) == SubmitReturns(s) \/ PollStep(s) \/ HookReadsAnswer(s)

-----------------------------------------------------------------------------
BuilderStep ==
    /\ \/ \E b \in Builder : Pull(b)
       \/ \E j \in JobId, b \in Builder : Complete(j, b) \/ Fail(j, b)
    /\ UNCHANGED hookVars

\* seen follows the job from the first read of a poll to its answer.
Watch ==
    seen' = [s \in Submitter |->
        IF poll[s].at = "none" /\ poll'[s].at = "none"
        THEN IF hook'[s] = "answered" THEN seen[s] ELSE {}
        ELSE seen[s] \cup {phaseOf[mine[s]], phaseOf'[mine[s]]}]

CNext ==
    /\ \/ \E s \in Submitter, d \in Drv, F \in SUBSET Feature :
              HookSubmits(s, d, F)
       \/ \E s \in Submitter : HookStep(s) \/ HookTakesNext(s) \/ HookDies(s)
       \/ BuilderStep
    /\ Watch

CSpec == CInit /\ [][CNext]_vars

-----------------------------------------------------------------------------
(* Properties *)

\* No other job has the derivation of s's job.
SoleJob(s) ==
    \A j \in JobId : j # mine[s] /\ j < nextJobId => job[j].drv # DrvOfMine(s)

PhaseNamed == [Pending |-> {"none", "waiting"}, Building |-> {"leased"},
               Completed |-> {"done"}, Failed |-> {"done"}]

\* Although a poll looks at the queue five times without holding its locks,
\* it answers with a state the job was in at some moment of the poll, unless
\* the job was over before the poll began or shares its derivation with
\* another job.
PollOfLiveJobIsAtomic ==
    \A s \in Submitter :
        hook[s] = "answered" /\ seen[s] # {"done"} /\ SoleJob(s) =>
            PhaseNamed[reply[s]] \cap seen[s] # {}

\* A hook reports to nix what happened: it succeeds only if a build of its
\* derivation was accepted and gives up only if one failed; its own job was
\* handed to a builder by then; and if no other job has the derivation, it
\* is its own job that ended this way.
HookVerdictIsReal ==
    \A s \in Submitter : hook[s] \in {"succeeded", "gaveUp"} =>
        LET ends == IF hook[s] = "succeeded" THEN accepted ELSE Done \ accepted IN
        /\ \E j \in ends : job[j].drv = DrvOfMine(s)
        /\ mine[s] \notin Pushing \cup Elements(pending)
        /\ SoleJob(s) => mine[s] \in ends

\* "This handles the case where the job was removed from pending/leased but
\* we still have the outcome": a poll of a job that is over answers with its
\* outcome.
PollOfDoneJobAnswersOutcome ==
    \A s \in Submitter : hook[s] = "answered" /\ seen[s] = {"done"} =>
        reply[s] \in {"Completed", "Failed"}

=============================================================================
