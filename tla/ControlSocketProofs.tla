------------------------ MODULE ControlSocketProofs ------------------------
(* Proofs about ControlSocket, for every value of its constants. *)
EXTENDS ControlSocket, BuildQueueProofs

-----------------------------------------------------------------------------
(* The inductive invariant: the queue's own, and what a hook knows of its   *)
(* job at each point of a poll.                                             *)

\* A hook that is not idle owns a job, and that job is on its way into the
\* queue only while the hook submits it.
OwnsJob(s) ==
    /\ hook[s] = "idle" => mine[s] = 0
    /\ hook[s] # "idle" => mine[s] \in JobId /\ mine[s] < nextJobId
    /\ \A t \in Submitter : mine[s] # 0 /\ pushing[t] = mine[s] =>
           t = s /\ hook[s] = "submitting"

\* A poll runs only while its hook waits, and remembers its own job's
\* derivation or none.
PollOfWaiting(s) ==
    /\ poll[s].at # "none" => hook[s] = "waiting"
    /\ poll[s].at = "none" => poll[s].drv = Null
    /\ poll[s].drv # Null => poll[s].drv = DrvOfMine(s)
    /\ hook[s] = "answered" => reply[s] # "none"

\* What the reads done so far say of the job: a poll starts with nothing seen;
\* one that found no derivation saw the job waiting or began when it was over;
\* one past the second look at the leases saw it waiting, or it is over; one
\* past the second look at the queue has a job that some builder was given.
ReadsSoFar(s) ==
  /\ hook[s] = "waiting" /\ poll[s].at = "none" => seen[s] = {}
  /\ poll[s].at # "none" =>
        /\ poll[s].drv = Null =>
               \/ "waiting" \in seen[s]
               \/ seen[s] = {"done"} /\ mine[s] \in Done
        /\ poll[s].at \in {"pending2", "outcome"} =>
               "waiting" \in seen[s] \/ mine[s] \in Done
        /\ poll[s].at = "outcome" => mine[s] \notin Elements(pending)

\* The job of s ended in the way of the jobs of ends.
EndedIn(s, ends) ==
    /\ \E j \in ends : job[j].drv = DrvOfMine(s)
    /\ mine[s] \notin Pushing \cup Elements(pending)
    /\ SoleJob(s) => mine[s] \in ends

\* An answer "Completed" or "Failed", and the verdict drawn from it, stays
\* true.
AnswerIsReal(s) ==
    /\ \/ hook[s] = "succeeded"
       \/ hook[s] = "answered" /\ reply[s] = "Completed"
       => EndedIn(s, accepted)
    /\ \/ hook[s] = "gaveUp"
       \/ hook[s] = "answered" /\ reply[s] = "Failed"
       => EndedIn(s, Done \ accepted)

\* The answer names a phase the job went through during the poll.
AnswerIsSeen(s) ==
    hook[s] = "answered" /\ seen[s] # {"done"} /\ SoleJob(s) =>
        PhaseNamed[reply[s]] \cap seen[s] # {}

HookInv ==
    /\ IndInv
    /\ CTypeOK
    /\ KindTold
    /\ \A s \in Submitter :
           /\ OwnsJob(s) /\ PollOfWaiting(s) /\ ReadsSoFar(s)
           /\ AnswerIsReal(s) /\ AnswerIsSeen(s)

-----------------------------------------------------------------------------
(* The queue below the hooks. *)

\* Every step of the daemon makes at most one call on the queue, and never
\* check_timeouts.
LEMMA StepCalls ==
    ASSUME [CNext]_vars
    PROVE  Call
  BY DEF CNext, HookSubmits, HookStep, SubmitReturns, PollStep, PollBegins,
         PollReadsPending, PollChecksLeased, PollChecksPending,
         PollChecksOutcome, QueueStill, HookReadsAnswer, HookTakesNext,
         HookDies, BuilderStep, vars, Call, queueVars

\* What the daemon's steps leave alone of the job a hook owns: its record,
\* its ways of having ended, and that it no longer waits.  Another job can
\* come to share its derivation, none can cease to.
LEMMA OwnJobKeeps ==
    ASSUME HookInv, [CNext]_vars, NEW s \in Submitter,
           hook[s] # "idle", mine'[s] = mine[s]
    PROVE  /\ mine[s] \in JobId /\ mine[s] < nextJobId /\ mine[s] < nextJobId'
           /\ DrvOfMine(s)' = DrvOfMine(s)
           /\ SoleJob(s)' => SoleJob(s)
           /\ mine[s] \in Done => mine[s] \in Done'
           /\ mine[s] \notin Pushing \cup Elements(pending) =>
                  mine[s] \notin (Pushing \cup Elements(pending))'
           /\ EndedIn(s, accepted) => EndedIn(s, accepted)'
           /\ EndedIn(s, Done \ accepted) => EndedIn(s, Done \ accepted)'
  <1>1. /\ nextJobId <= nextJobId' /\ nextJobId' \in Int
        /\ \A j \in JobId : j < nextJobId => job'[j] = job[j]
        /\ Done \subseteq Done'
        /\ accepted \subseteq accepted'
        /\ Done \ accepted \subseteq (Done \ accepted)'
        /\ \A j \in JobId :
               j < nextJobId /\ j \notin Pushing \cup Elements(pending) =>
                   j \notin (Pushing \cup Elements(pending))'
    BY StepCalls, CallKeeps DEF HookInv
  <1>2. /\ nextJobId \in Int
        /\ \A j \in JobId : j < nextJobId => j < nextJobId'
    BY <1>1 DEF HookInv, CTypeOK, TypeOK, JobId
  <1>3. mine[s] \in JobId /\ mine[s] < nextJobId /\ mine[s] < nextJobId'
    <2>1. mine[s] \in JobId /\ mine[s] < nextJobId
      BY DEF HookInv, OwnsJob
    <2> QED
      BY <1>2, <2>1
  <1>4. DrvOfMine(s)' = DrvOfMine(s)
    BY <1>1, <1>3 DEF DrvOfMine
  <1>5. SoleJob(s)' => SoleJob(s)
    <2>1. SUFFICES ASSUME SoleJob(s)',
                          NEW j \in JobId, j # mine[s], j < nextJobId
                   PROVE  job[j].drv # DrvOfMine(s)
      BY DEF SoleJob
    <2>2. j < nextJobId' /\ job'[j] = job[j]
      BY <1>1, <1>2, <2>1
    <2>3. job'[j].drv # DrvOfMine(s)'
      BY <2>1, <2>2 DEF SoleJob
    <2> QED
      BY <1>4, <2>2, <2>3
  <1>6. \A j \in accepted \cup Done : j \in JobId /\ j < nextJobId
    BY DEF HookInv, IndInv, FetchedExactlyOnce, Done
  <1>7. EndedIn(s, accepted) => EndedIn(s, accepted)'
    BY <1>1, <1>3, <1>4, <1>5, <1>6 DEF EndedIn
  <1>8. EndedIn(s, Done \ accepted) => EndedIn(s, Done \ accepted)'
    BY <1>1, <1>3, <1>4, <1>5, <1>6 DEF EndedIn
  <1> QED
    BY <1>1, <1>3, <1>4, <1>5, <1>7, <1>8

\* A job that a hook waits for is waiting, leased or done, and its phase says
\* which.
LEMMA PhaseOfOwn ==
    ASSUME HookInv, NEW s \in Submitter, hook[s] \notin {"idle", "submitting"}
    PROVE  /\ mine[s] \in JobId
           /\ mine[s] \notin Pushing
           /\ mine[s] \in Leased => phaseOf[mine[s]] = "leased"
           /\ mine[s] \in Elements(pending) => phaseOf[mine[s]] = "waiting"
           /\ mine[s] \in Done => phaseOf[mine[s]] = "done"
           /\ mine[s] \in Leased \cup Elements(pending) \cup Done
  <1>1. /\ mine[s] \in JobId /\ mine[s] < nextJobId
        /\ \A t \in Submitter : pushing[t] # mine[s]
    BY DEF HookInv, OwnsJob, JobId
  <1>2. mine[s] \notin Pushing
    BY <1>1 DEF Pushing
  <1>3. Elements(pending) \cap Leased = {}
    BY DEF HookInv, IndInv, OnePlace
  <1> QED
    BY <1>1, <1>2, <1>3 DEF phaseOf, Leased, Done

-----------------------------------------------------------------------------
(* Preservation, one lemma per part of the invariant.  Each looks at one    *)
(* hook: a step is either that hook's or its handler's, or leaves what is   *)
(* kept for that hook alone.                                                *)

\* The steps of s and of the handlers that serve it.
StepOf(s) ==
    \/ \E d \in Drv, F \in SUBSET Feature : HookSubmits(s, d, F)
    \/ HookStep(s)
    \/ HookTakesNext(s)
    \/ HookDies(s)

\* What is kept for s does not change.
Undisturbed(s) ==
    /\ hook'[s] = hook[s] /\ mine'[s] = mine[s]
    /\ poll'[s] = poll[s] /\ reply'[s] = reply[s]

\* Hooks have no state in common but the queue.
LEMMA OwnOrElsewhere ==
    ASSUME CTypeOK, [CNext]_vars, NEW s \in Submitter
    PROVE  StepOf(s) \/ Undisturbed(s)
  <1>1. ASSUME NEW t \in Submitter, t # s, StepOf(t)
        PROVE  Undisturbed(s)
    BY <1>1 DEF StepOf, Undisturbed, HookSubmits, HookStep, SubmitReturns,
                PollStep, PollBegins, PollReadsPending, PollChecksLeased,
                PollChecksPending, PollChecksOutcome, QueueStill, Answer,
                ReadOn, HookReadsAnswer, HookTakesNext, HookDies, CTypeOK
  <1>2. BuilderStep \/ UNCHANGED vars => Undisturbed(s)
    BY DEF BuilderStep, Undisturbed, hookVars, vars, controlVars
  <1> QED
    BY <1>1, <1>2 DEF CNext, StepOf

\* Every step keeps the types of the hooks' and handlers' state.
LEMMA HookTypeStep ==
    ASSUME HookInv, [CNext]_vars
    PROVE  CTypeOK'
  <1> DEFINE Hooks == {"idle", "submitting", "waiting", "answered",
                       "succeeded", "gaveUp"}
             Replies == {"none", "Pending", "Building", "Completed", "Failed"}
             At == {"none", "pending1", "leased2", "pending2", "outcome"}
             Polls == [at: At, drv: Drv \cup {Null}]
             HookTypes == /\ hook \in [Submitter -> Hooks]
                          /\ mine \in [Submitter -> JobId \cup {0}]
                          /\ poll \in [Submitter -> Polls]
                          /\ reply \in [Submitter -> Replies]
  <1>1. TypeOK' /\ TypeOK /\ HookTypes
    BY StepCalls, CallKeeps DEF HookInv, IndInv, CTypeOK
  <1>2. HookTypes'
    <2>1. /\ NoPoll \in Polls
          /\ \A s \in Submitter : poll[s].drv \in Drv \cup {Null}
          /\ \A at \in At, d \in Drv \cup {Null} : [at |-> at, drv |-> d] \in Polls
      BY <1>1 DEF NoPoll
    <2> HIDE DEF Polls
    <2>2. ASSUME NEW s \in Submitter
          PROVE  /\ poll[s].at # "none" => hook[s] = "waiting"
                 /\ hook[s] = "waiting" => DrvOfMine(s) \in Drv
                 /\ hook[s] = "answered" => reply[s] # "none"
      <3>1. PollOfWaiting(s) /\ OwnsJob(s) /\ JobsDescribed
        BY DEF HookInv, IndInv
      <3> QED
        BY <3>1 DEF PollOfWaiting, OwnsJob, JobsDescribed, DrvOfMine
    <2>3. ASSUME NEW s \in Submitter, NEW d \in Drv, NEW F \in SUBSET Feature,
                 HookSubmits(s, d, F)
          PROVE  HookTypes'
      <3>1. nextJobId \in JobId
        BY <2>3, PushAllocatePlaces DEF HookSubmits, HookInv, IndInv
      <3> QED
        BY <1>1, <2>3, <3>1 DEF HookSubmits
    <2>4. ASSUME NEW s \in Submitter, SubmitReturns(s)
          PROVE  HookTypes'
      BY <1>1, <2>4 DEF SubmitReturns
    <2>5. ASSUME NEW s \in Submitter, PollBegins(s) \/ PollReadsPending(s)
          PROVE  HookTypes'
      <3>1. PICK at \in At, d \in Drv \cup {Null} : ReadOn(s, at, d)
        BY <2>1, <2>2, <2>5 DEF PollBegins, PollReadsPending
      <3> QED
        BY <1>1, <2>1, <2>5, <3>1
        DEF ReadOn, PollBegins, PollReadsPending, QueueStill
    <2>6. ASSUME NEW s \in Submitter,
                 PollChecksLeased(s) \/ PollChecksPending(s) \/ PollChecksOutcome(s)
          PROVE  HookTypes'
      <3>1. ASSUME poll[s].drv # Null, completed[poll[s].drv] # Null
            PROVE  completed[poll[s].drv].kind \in Replies
        BY <1>1, <2>1, <3>1 DEF TypeOK, Outcome
      <3>2. \/ \E at \in At, d \in Drv \cup {Null} : ReadOn(s, at, d)
            \/ \E state \in Replies : Answer(s, state)
        BY <2>1, <2>6, <3>1
        DEF PollChecksLeased, PollChecksPending, PollChecksOutcome
      <3> QED
        BY <1>1, <2>1, <2>6, <3>2 DEF ReadOn, Answer, PollChecksLeased,
           PollChecksPending, PollChecksOutcome, QueueStill
    <2>7. ASSUME NEW s \in Submitter, HookReadsAnswer(s)
          PROVE  HookTypes'
      <3>1. Verdict[reply[s]] \in Hooks
        BY <1>1, <2>2, <2>7 DEF HookReadsAnswer, Verdict
      <3> QED
        BY <1>1, <2>7, <3>1 DEF HookReadsAnswer
    <2>8. ASSUME NEW s \in Submitter, HookTakesNext(s)
          PROVE  HookTypes'
      BY <1>1, <2>8 DEF HookTakesNext
    <2>9. ASSUME NEW s \in Submitter, HookDies(s)
          PROVE  HookTypes'
      BY <1>1, <2>1, <2>9 DEF HookDies
    <2>10. CASE BuilderStep \/ UNCHANGED vars
      BY <1>1, <2>10 DEF BuilderStep, hookVars, vars, controlVars
    <2> QED
      BY <2>3, <2>4, <2>5, <2>6, <2>7, <2>8, <2>9, <2>10
      DEF CNext, HookStep, PollStep
  <1>3. seen' \in [Submitter -> SUBSET Lifecycle!Phase]
    <2> USE DEF HookInv
    <2>1. ASSUME NEW s \in Submitter, poll[s].at # "none" \/ poll'[s].at # "none"
          PROVE  /\ phaseOf[mine[s]] \in Lifecycle!Phase
                 /\ phaseOf'[mine[s]] \in Lifecycle!Phase
      <3>1. mine[s] \in JobId
        BY <2>1, OwnOrElsewhere
        DEF PollOfWaiting, OwnsJob, StepOf, Undisturbed, HookSubmits, HookStep,
            SubmitReturns, PollStep, PollBegins, PollReadsPending,
            PollChecksLeased, PollChecksPending, PollChecksOutcome,
            HookReadsAnswer, HookTakesNext, HookDies, NoPoll
      <3> QED
        BY <3>1 DEF phaseOf, Lifecycle!Phase
    <2>2. CASE Watch
      BY <2>1, <2>2 DEF Watch, CTypeOK
    <2>3. CASE UNCHANGED vars
      BY <2>3 DEF vars, controlVars, CTypeOK
    <2> QED
      BY <2>2, <2>3 DEF CNext
  <1> QED
    BY <1>1, <1>2, <1>3 DEF CTypeOK

\* A task's id in hand is fresh, kept or given up.
LEMMA IdInHand ==
    ASSUME TypeOK, [Next]_queueVars, NEW t \in Submitter
    PROVE  pushing'[t] \in {0, pushing[t], nextJobId}
  BY DEF Next, TypeOK, PushAllocate, PushEnqueue, Pull, Heartbeat, Complete,
         Fail, CheckTimeouts, TakePendingFetches, Tick, queueVars

\* A hook gets a job by submitting one, and keeps it until it is done with it
\* or dies.
LEMMA OwnJobMoves ==
    ASSUME HookInv, [CNext]_vars, NEW s \in Submitter
    PROVE  \/ \E d \in Drv, F \in SUBSET Feature : HookSubmits(s, d, F)
           \/ mine'[s] = 0 /\ hook'[s] = "idle"
           \/ /\ mine'[s] = mine[s] /\ hook[s] # "idle" /\ hook'[s] # "idle"
              /\ hook[s] = "submitting" =>
                     hook'[s] = "submitting" \/ SubmitReturns(s)
  <1>1. CTypeOK /\ OwnsJob(s) /\ (poll[s].at # "none" => hook[s] = "waiting")
    BY DEF HookInv, PollOfWaiting
  <1>2. CASE SubmitReturns(s)
    BY <1>1, <1>2 DEF SubmitReturns, OwnsJob, CTypeOK
  <1>3. CASE PollStep(s)
    BY <1>1, <1>3 DEF PollStep, PollBegins, PollReadsPending,
       PollChecksLeased, PollChecksPending, PollChecksOutcome, QueueStill,
       Answer, ReadOn, CTypeOK
  <1>4. CASE HookReadsAnswer(s)
    <2>1. Verdict[reply[s]] # "idle"
      BY <1>1, <1>4 DEF HookInv, PollOfWaiting, HookReadsAnswer, Verdict, CTypeOK
    <2> QED
      BY <1>1, <1>4, <2>1 DEF HookReadsAnswer, CTypeOK
  <1>5. CASE HookTakesNext(s) \/ HookDies(s)
    BY <1>1, <1>5 DEF HookTakesNext, HookDies, CTypeOK
  <1>6. CASE Undisturbed(s)
    BY <1>1, <1>6 DEF Undisturbed, OwnsJob
  <1> QED
    BY <1>1, <1>2, <1>3, <1>4, <1>5, <1>6, OwnOrElsewhere DEF StepOf, HookStep

\* A hook's job is its own from the id's allocation on; another task never
\* gets the same id.
LEMMA OwnsJobStep ==
    ASSUME HookInv, [CNext]_vars, NEW s \in Submitter
    PROVE  OwnsJob(s)'
  <1>1. [Next]_queueVars /\ TypeOK /\ OnePlace
    BY StepCalls DEF Call, Next, HookInv, IndInv
  <1>2. /\ OwnsJob(s)
        /\ mine[s] = 0 \/ mine[s] \in JobId
        /\ CTypeOK
    BY DEF HookInv, CTypeOK
  <1>3. ASSUME NEW d \in Drv, NEW F \in SUBSET Feature, HookSubmits(s, d, F)
        PROVE  OwnsJob(s)'
    <2>1. /\ nextJobId \in JobId /\ nextJobId' = nextJobId + 1
          /\ \A t \in Submitter : pushing[t] # nextJobId
      BY <1>1, <1>3, PushAllocatePlaces DEF HookSubmits, Pushing, JobId
    <2>2. \A t \in Submitter : pushing'[t] = nextJobId => t = s
      BY <1>1, <1>3, <2>1 DEF HookSubmits, PushAllocate, TypeOK
    <2>3. mine'[s] = nextJobId /\ hook'[s] = "submitting"
      BY <1>2, <1>3 DEF HookSubmits, CTypeOK
    <2> QED
      BY <2>1, <2>2, <2>3 DEF OwnsJob, JobId
  <1>4. CASE mine'[s] = 0 /\ hook'[s] = "idle"
    BY <1>4 DEF OwnsJob
  <1>5. CASE /\ mine'[s] = mine[s] /\ hook[s] # "idle" /\ hook'[s] # "idle"
             /\ hook[s] = "submitting" => hook'[s] = "submitting" \/ SubmitReturns(s)
    <2>1. /\ mine[s] \in JobId /\ mine[s] < nextJobId'
      BY <1>5, OwnJobKeeps
    <2>2. \A t \in Submitter : pushing'[t] = mine[s] => pushing[t] = mine[s]
      <3>1. nextJobId # mine[s] /\ mine[s] # 0
        BY <1>1, <1>2, <1>5, <2>1 DEF OwnsJob, TypeOK, JobId
      <3> QED
        BY <1>1, <3>1, IdInHand
    <2>3. CASE SubmitReturns(s)
      <3>1. pushing'[s] = 0
        BY <1>1, <2>3 DEF SubmitReturns, PushEnqueue, TypeOK
      <3> QED
        BY <1>2, <1>5, <2>1, <2>2, <3>1 DEF OwnsJob, JobId
    <2>4. CASE hook[s] = "submitting" => hook'[s] = "submitting"
      BY <1>2, <1>5, <2>1, <2>2, <2>4 DEF OwnsJob
    <2> QED
      BY <1>5, <2>3, <2>4
  <1> QED
    BY <1>3, <1>4, <1>5, OwnJobMoves

\* A poll ends before its hook reads the answer, and what it remembers is
\* still the job's derivation.
LEMMA PollOfWaitingStep ==
    ASSUME HookInv, [CNext]_vars, NEW s \in Submitter
    PROVE  PollOfWaiting(s)'
  <1>1. CTypeOK /\ PollOfWaiting(s)
    BY DEF HookInv
  <1>2. \/ mine'[s] = mine[s] /\ hook[s] # "idle"
        \/ \E d \in Drv, F \in SUBSET Feature : HookSubmits(s, d, F)
        \/ hook'[s] = "idle"
    BY OwnJobMoves
  <1>3. hook[s] # "idle" /\ mine'[s] = mine[s] => DrvOfMine(s)' = DrvOfMine(s)
    BY OwnJobKeeps
  <1>4. CASE poll'[s] = poll[s] /\ poll[s].at = "none" /\ hook'[s] # "answered"
    BY <1>1, <1>4 DEF PollOfWaiting
  <1>5. CASE Undisturbed(s)
    BY <1>1, <1>3, <1>5 DEF PollOfWaiting, Undisturbed
  <1>6. ASSUME NEW d \in Drv, NEW F \in SUBSET Feature, HookSubmits(s, d, F)
        PROVE  PollOfWaiting(s)'
    BY <1>1, <1>4, <1>6 DEF HookSubmits, PollOfWaiting, CTypeOK
  <1>7. CASE SubmitReturns(s)
    <2>1. poll' = poll /\ mine' = mine /\ reply' = reply
      BY <1>7 DEF SubmitReturns
    <2>2. hook'[s] = hook[s] \/ (hook[s] = "submitting" /\ hook'[s] = "waiting")
      BY <1>1, <1>7 DEF SubmitReturns, CTypeOK
    <2>3. Undisturbed(s) \/ (poll[s].at = "none" /\ hook'[s] # "answered")
      BY <1>1, <2>1, <2>2 DEF PollOfWaiting, Undisturbed
    <2> QED
      BY <1>4, <1>5, <2>1, <2>3
  <1>8. CASE PollStep(s)
    <2>1. hook[s] = "waiting" /\ mine' = mine
      BY <1>1, <1>8 DEF PollStep, PollBegins, PollReadsPending,
         PollChecksLeased, PollChecksPending, PollChecksOutcome, QueueStill,
         PollOfWaiting
    <2>2. ASSUME NEW at \in {"pending1", "leased2", "pending2", "outcome"},
                 NEW d \in {Null, DrvOfMine(s)}, ReadOn(s, at, d)
          PROVE  PollOfWaiting(s)'
      <3>1. poll'[s].at # "none" /\ poll'[s].drv = d
        BY <1>1, <2>2 DEF ReadOn, CTypeOK
      <3>2. hook'[s] = "waiting" /\ DrvOfMine(s)' = DrvOfMine(s)
        BY <1>3, <2>1, <2>2 DEF ReadOn
      <3> QED
        BY <3>1, <3>2 DEF PollOfWaiting
    <2>3. ASSUME NEW state \in {"Pending", "Building", "Completed", "Failed"},
                 Answer(s, state)
          PROVE  PollOfWaiting(s)'
      BY <1>1, <2>3 DEF Answer, PollOfWaiting, CTypeOK, NoPoll
    <2>4. poll[s].drv \in {Null, DrvOfMine(s)}
      BY <1>1 DEF PollOfWaiting
    <2>5. ASSUME poll[s].drv # Null, completed[poll[s].drv] # Null
          PROVE  completed[poll[s].drv].kind \in {"Completed", "Failed"}
      BY <1>1, <2>5 DEF CTypeOK, TypeOK, Outcome
    <2> QED
      BY <1>8, <2>2, <2>3, <2>4, <2>5 DEF PollStep, PollBegins,
         PollReadsPending, PollChecksLeased, PollChecksPending,
         PollChecksOutcome
  <1>9. CASE HookReadsAnswer(s)
    <2>1. Verdict[reply[s]] # "answered"
      BY <1>1, <1>9 DEF HookReadsAnswer, PollOfWaiting, Verdict, CTypeOK
    <2> QED
      BY <1>1, <1>4, <1>9, <2>1 DEF HookReadsAnswer, PollOfWaiting, CTypeOK
  <1>10. CASE HookTakesNext(s)
    BY <1>1, <1>4, <1>10 DEF HookTakesNext, PollOfWaiting, CTypeOK
  <1>11. CASE HookDies(s)
    BY <1>1, <1>11 DEF HookDies, PollOfWaiting, CTypeOK, NoPoll
  <1> QED
    BY <1>1, <1>5, <1>6, <1>7, <1>8, <1>9, <1>10, <1>11, OwnOrElsewhere
    DEF StepOf, HookStep

\* During a poll the history grows by the phase the job is in.
LEMMA SeenGrows ==
    ASSUME HookInv, [CNext]_vars, NEW s \in Submitter, hook[s] = "waiting",
           mine'[s] = mine[s]
    PROVE  /\ poll[s].at # "none" \/ poll'[s].at # "none" =>
                  \/ seen'[s] = seen[s] \cup {phaseOf[mine[s]], phaseOf'[mine[s]]}
                  \/ UNCHANGED vars
           /\ mine[s] \in Done' => phaseOf'[mine[s]] = "done"
           /\ UNCHANGED queueVars => phaseOf' = phaseOf
  <1>1. mine[s] \in Done' => phaseOf'[mine[s]] = "done"
    BY PhaseOfOwn DEF phaseOf, Leased, Done
  <1>2. UNCHANGED queueVars => phaseOf' = phaseOf
    BY DEF queueVars, phaseOf, Leased, Elements, Done, Pushing
  <1>3. CASE UNCHANGED vars
    BY <1>1, <1>2, <1>3
  <1>4. CASE Watch
    BY <1>1, <1>2, <1>4 DEF Watch
  <1> QED
    BY <1>3, <1>4 DEF CNext

\* Each read of a poll adds what it saw, and what was seen is not undone by
\* the queue's steps in between.
LEMMA ReadsSoFarStep ==
    ASSUME HookInv, [CNext]_vars, NEW s \in Submitter
    PROVE  ReadsSoFar(s)'
  <1>1. CTypeOK /\ PollOfWaiting(s) /\ ReadsSoFar(s)
    BY DEF HookInv
  <1>2. CASE /\ hook'[s] # "waiting" \/ poll[s].at = "none"
             /\ poll'[s].at = "none"
    <2>1. CASE UNCHANGED vars
      BY <1>1, <2>1 DEF vars, controlVars, ReadsSoFar, Done, Pushing, Leased,
                        Elements, queueVars
    <2>2. CASE Watch
      BY <1>2, <2>2 DEF Watch, ReadsSoFar
    <2> QED
      BY <2>1, <2>2 DEF CNext
  <1>3. ASSUME ~ (/\ hook'[s] # "waiting" \/ poll[s].at = "none"
                  /\ poll'[s].at = "none")
        PROVE  hook[s] = "waiting" /\ mine'[s] = mine[s] /\ (PollStep(s) \/ Undisturbed(s))
    <2>1. CASE Undisturbed(s)
      BY <1>1, <1>3, <2>1 DEF Undisturbed, PollOfWaiting
    <2>2. CASE PollStep(s)
      BY <1>1, <2>2 DEF PollStep, PollBegins, PollReadsPending,
         PollChecksLeased, PollChecksPending, PollChecksOutcome, QueueStill,
         PollOfWaiting
    <2>3. CASE HookDies(s)
      BY <1>1, <1>3, <2>3 DEF HookDies, CTypeOK, NoPoll
    <2>4. CASE SubmitReturns(s)
      <3>1. /\ poll' = poll /\ mine' = mine /\ reply' = reply
            /\ hook'[s] = hook[s] \/ hook[s] = "submitting"
        BY <1>1, <2>4 DEF SubmitReturns, CTypeOK
      <3>2. Undisturbed(s) \/ poll[s].at = "none"
        BY <1>1, <3>1 DEF Undisturbed, PollOfWaiting
      <3> QED
        BY <1>3, <2>1, <3>1, <3>2
    <2>5. CASE HookReadsAnswer(s) \/ HookTakesNext(s)
      <3>1. poll' = poll /\ poll[s].at = "none"
        BY <1>1, <2>5 DEF HookReadsAnswer, HookTakesNext, PollOfWaiting
      <3> QED
        BY <1>3, <3>1
    <2>6. ASSUME NEW d \in Drv, NEW F \in SUBSET Feature, HookSubmits(s, d, F)
          PROVE  FALSE
      <3>1. poll' = poll /\ poll[s].at = "none"
        BY <1>1, <2>6 DEF HookSubmits, PollOfWaiting
      <3> QED
        BY <1>3, <3>1
    <2> QED
      BY <1>1, <2>1, <2>2, <2>3, <2>4, <2>5, <2>6, OwnOrElsewhere
      DEF StepOf, HookStep
  <1>4. CASE hook[s] = "waiting" /\ mine'[s] = mine[s]
    <2>1. /\ mine[s] \notin Pushing
          /\ mine[s] \in Leased \cup Elements(pending) \cup Done
          /\ mine[s] \in Elements(pending) => phaseOf[mine[s]] = "waiting"
          /\ mine[s] \in Done => phaseOf[mine[s]] = "done" /\ mine[s] \in Done'
          /\ mine[s] \in Done' => phaseOf'[mine[s]] = "done"
          /\ UNCHANGED queueVars => phaseOf' = phaseOf /\ Done' = Done
                                    /\ Elements(pending)' = Elements(pending)
          /\ mine[s] \notin Pushing \cup Elements(pending) =>
                 mine[s] \notin (Pushing \cup Elements(pending))'
      <3>1. UNCHANGED queueVars => Done' = Done /\ Elements(pending)' = Elements(pending)
        BY DEF queueVars, Leased, Elements, Done, Pushing
      <3> QED
        BY <1>4, <3>1, PhaseOfOwn, OwnJobKeeps, SeenGrows
    <2>2. DrvOfMine(s) # Null
      <3>1. OwnsJob(s) /\ JobsDescribed
        BY DEF HookInv, IndInv
      <3> QED
        BY <1>4, <3>1, QueueAssumption DEF OwnsJob, JobsDescribed, DrvOfMine
    <2>3. ASSUME PollStep(s)
          PROVE  UNCHANGED queueVars /\ seen'[s] = seen[s] \cup {phaseOf[mine[s]]}
      <3>1. UNCHANGED queueVars
        BY <2>3 DEF PollStep, PollBegins, PollReadsPending, PollChecksLeased,
                    PollChecksPending, PollChecksOutcome, QueueStill
      <3>2. poll'[s].at # poll[s].at
        BY <1>1, <2>3 DEF PollStep, PollBegins, PollReadsPending,
           PollChecksLeased, PollChecksPending, PollChecksOutcome, ReadOn,
           Answer, NoPoll, CTypeOK
      <3>3. ~ UNCHANGED vars
        BY <3>2 DEF vars, controlVars
      <3> QED
        BY <1>4, <2>1, <3>1, <3>2, <3>3, SeenGrows
    <2>4. CASE PollBegins(s)
      <3>1. seen'[s] = {phaseOf[mine[s]]} /\ UNCHANGED queueVars
        BY <1>1, <2>3, <2>4 DEF PollStep, PollBegins, ReadsSoFar, NoPoll
      <3>2. /\ poll'[s].at = "pending1"
            /\ poll'[s].drv = IF mine[s] \in Leased THEN DrvOfMine(s) ELSE Null
        BY <1>1, <2>4 DEF PollBegins, ReadOn, CTypeOK
      <3> QED
        BY <1>4, <2>1, <2>2, <3>1, <3>2 DEF ReadsSoFar
    <2>5. CASE PollReadsPending(s)
      <3>1. seen'[s] = seen[s] \cup {phaseOf[mine[s]]} /\ UNCHANGED queueVars
        BY <2>3, <2>5 DEF PollStep
      <3>2. /\ poll[s].at = "pending1" /\ poll'[s].at = "leased2"
            /\ poll'[s].drv = Null => poll[s].drv = Null
        BY <1>1, <2>2, <2>5 DEF PollReadsPending, ReadOn, CTypeOK
      <3> QED
        BY <1>1, <1>4, <2>1, <3>1, <3>2 DEF ReadsSoFar
    <2>6. CASE PollChecksLeased(s) \/ PollChecksPending(s) \/ PollChecksOutcome(s)
      <3>1. seen'[s] = seen[s] \cup {phaseOf[mine[s]]} /\ UNCHANGED queueVars
        BY <2>3, <2>6 DEF PollStep
      <3>2. CASE poll'[s].at = "none" /\ hook'[s] = "answered"
        BY <3>2 DEF ReadsSoFar
      <3>3. CASE /\ poll[s].at = "leased2" /\ poll'[s].at = "pending2"
                 /\ poll'[s].drv = poll[s].drv /\ mine[s] \notin Leased
        BY <1>1, <1>4, <2>1, <3>1, <3>3 DEF ReadsSoFar
      <3>4. CASE /\ poll[s].at = "pending2" /\ poll'[s].at = "outcome"
                 /\ poll'[s].drv = poll[s].drv /\ mine[s] \notin Elements(pending)
        BY <1>1, <1>4, <2>1, <3>1, <3>4 DEF ReadsSoFar
      <3> QED
        BY <1>1, <2>6, <3>2, <3>3, <3>4 DEF PollChecksLeased,
           PollChecksPending, PollChecksOutcome, ReadOn, Answer, NoPoll, CTypeOK
    <2>7. CASE Undisturbed(s) /\ poll[s].at # "none"
      <3>1. \/ seen'[s] = seen[s] \cup {phaseOf[mine[s]]}
            \/ seen'[s] = seen[s] \cup {phaseOf[mine[s]], phaseOf'[mine[s]]}
            \/ seen'[s] = seen[s]
        BY <1>4, <2>7, SeenGrows DEF vars, controlVars
      <3>2. poll[s].at = "outcome" => mine'[s] \notin Elements(pending)'
        BY <1>1, <1>4, <2>1, <2>7 DEF ReadsSoFar
      <3> QED
        BY <1>1, <1>4, <2>1, <2>7, <3>1, <3>2 DEF ReadsSoFar, Undisturbed
    <2> QED
      BY <1>2, <1>3, <2>4, <2>5, <2>6, <2>7 DEF PollStep, Undisturbed
  <1> QED
    BY <1>2, <1>3, <1>4

\* get_outcome is asked only by a poll whose job some builder was given, and
\* what it finds under the job's derivation is how a job of it ended.
LEMMA OutcomeIsReal ==
    ASSUME HookInv, NEW s \in Submitter, poll[s].at = "outcome",
           poll[s].drv # Null, completed[poll[s].drv] # Null
    PROVE  /\ completed[poll[s].drv].kind = "Completed" => EndedIn(s, accepted)
           /\ completed[poll[s].drv].kind = "Failed" => EndedIn(s, Done \ accepted)
           /\ SoleJob(s) => mine[s] \in Done
  <1> DEFINE d == poll[s].drv
             j == completed[d].job
  <1>1. /\ CTypeOK /\ OwnsJob(s) /\ PollOfWaiting(s) /\ ReadsSoFar(s)
        /\ OutcomeOfFinishedJob /\ KindTold
    BY DEF HookInv, IndInv
  <1>2. hook[s] = "waiting" /\ d = DrvOfMine(s) /\ d \in Drv
    BY <1>1 DEF PollOfWaiting, CTypeOK
  <1>3. mine[s] \notin Pushing \cup Elements(pending)
    BY <1>1, <1>2, PhaseOfOwn DEF ReadsSoFar
  <1>4. j \in Done /\ job[j].drv = DrvOfMine(s)
    BY <1>1, <1>2 DEF OutcomeOfFinishedJob
  <1>5. SoleJob(s) => j = mine[s]
    BY <1>4 DEF SoleJob, Done
  <1>6. completed[d].kind = "Completed" <=> j \in accepted
    BY <1>1, <1>2 DEF KindTold
  <1> HIDE DEF j
  <1> QED
    BY <1>3, <1>4, <1>5, <1>6 DEF EndedIn

\* Answers and verdicts come from an outcome; nothing that happens later
\* makes them false.
LEMMA AnswerIsRealStep ==
    ASSUME HookInv, [CNext]_vars, NEW s \in Submitter
    PROVE  AnswerIsReal(s)'
  <1> DEFINE Says(k) == hook[s] = "answered" /\ reply[s] = k
             Good == hook[s] = "succeeded" \/ Says("Completed")
             Bad == hook[s] = "gaveUp" \/ Says("Failed")
  <1>1. /\ CTypeOK /\ PollOfWaiting(s)
        /\ Good => EndedIn(s, accepted)
        /\ Bad => EndedIn(s, Done \ accepted)
    BY DEF HookInv, AnswerIsReal
  <1>2. CASE ~ Good' /\ ~ Bad'
    BY <1>2 DEF AnswerIsReal
  <1>3. CASE /\ hook[s] # "idle" /\ mine'[s] = mine[s]
             /\ Good' => EndedIn(s, accepted)
             /\ Bad' => EndedIn(s, Done \ accepted)
    <2>1. /\ EndedIn(s, accepted) => EndedIn(s, accepted)'
          /\ EndedIn(s, Done \ accepted) => EndedIn(s, Done \ accepted)'
      BY <1>3, OwnJobKeeps
    <2> QED
      BY <1>3, <2>1 DEF AnswerIsReal
  <1>4. CASE Undisturbed(s)
    <2>1. (Good' <=> Good) /\ (Bad' <=> Bad) /\ mine'[s] = mine[s]
      BY <1>4 DEF Undisturbed
    <2>2. Good \/ Bad => hook[s] # "idle"
      OBVIOUS
    <2> HIDE DEF Good, Bad
    <2> QED
      BY <1>1, <1>2, <1>3, <2>1, <2>2
  <1>5. CASE PollBegins(s) \/ PollReadsPending(s) \/ PollChecksLeased(s)
             \/ PollChecksPending(s)
    <2>1. hook[s] = "waiting"
      BY <1>1, <1>5 DEF PollBegins, PollReadsPending, PollChecksLeased,
                        PollChecksPending, PollOfWaiting
    <2>2. hook'[s] = "waiting" \/ (hook'[s] = "answered" /\ reply'[s] \in {"Pending", "Building"})
      BY <1>1, <1>5, <2>1 DEF PollBegins, PollReadsPending, PollChecksLeased,
                        PollChecksPending, ReadOn, Answer, CTypeOK
    <2> QED
      BY <1>2, <2>2
  <1>6. CASE PollChecksOutcome(s)
    <2>1. hook[s] = "waiting" /\ mine' = mine /\ hook'[s] = "answered"
      BY <1>1, <1>6 DEF PollChecksOutcome, PollOfWaiting, QueueStill, Answer, CTypeOK
    <2>2. \/ reply'[s] = "Pending"
          \/ /\ poll[s].drv # Null /\ completed[poll[s].drv] # Null
             /\ reply'[s] = completed[poll[s].drv].kind
      BY <1>1, <1>6 DEF PollChecksOutcome, Answer, CTypeOK
    <2>3. poll[s].at = "outcome"
      BY <1>6 DEF PollChecksOutcome
    <2> QED
      BY <1>2, <1>3, <2>1, <2>2, <2>3, OutcomeIsReal
  <1>7. CASE HookReadsAnswer(s)
    <2>1. hook[s] = "answered" /\ mine' = mine /\ hook'[s] = Verdict[reply[s]]
      BY <1>1, <1>7 DEF HookReadsAnswer, CTypeOK
    <2>2. reply[s] \in {"Pending", "Building", "Completed", "Failed"}
      BY <1>1, <2>1 DEF PollOfWaiting, CTypeOK
    <2>3. (Good' => Good) /\ (Bad' => Bad)
      BY <2>1, <2>2 DEF Verdict
    <2> HIDE DEF Good, Bad
    <2> QED
      BY <1>1, <1>3, <2>1, <2>3
  <1>8. CASE \/ \E d \in Drv, F \in SUBSET Feature : HookSubmits(s, d, F)
             \/ HookTakesNext(s) \/ HookDies(s)
    BY <1>1, <1>2, <1>8 DEF HookSubmits, HookTakesNext, HookDies, CTypeOK
  <1>9. CASE SubmitReturns(s)
    <2>1. Undisturbed(s) \/ hook'[s] = "waiting"
      BY <1>1, <1>9 DEF SubmitReturns, Undisturbed, CTypeOK
    <2> QED
      BY <1>2, <1>4, <2>1
  <1> QED
    BY <1>1, <1>4, <1>5, <1>6, <1>7, <1>8, <1>9, OwnOrElsewhere
    DEF StepOf, HookStep, PollStep

\* A poll answers with what it saw: Building and Pending with what the last
\* read saw, an outcome of a job without a rival with the job's end, and
\* Pending for want of an outcome only if the job was seen to wait.
LEMMA AnswerIsSeenStep ==
    ASSUME HookInv, [CNext]_vars, NEW s \in Submitter
    PROVE  AnswerIsSeen(s)'
  <1>1. CTypeOK /\ PollOfWaiting(s) /\ ReadsSoFar(s) /\ AnswerIsSeen(s)
    BY DEF HookInv
  <1>2. CASE hook'[s] # "answered"
    BY <1>2 DEF AnswerIsSeen
  <1>3. CASE Undisturbed(s) /\ hook[s] = "answered"
    <2>1. seen'[s] = seen[s]
      <3>1. poll[s].at = "none" /\ poll'[s].at = "none" /\ hook'[s] = "answered"
        BY <1>1, <1>3 DEF PollOfWaiting, Undisturbed
      <3>2. CASE Watch
        BY <3>1, <3>2 DEF Watch
      <3>3. CASE UNCHANGED vars
        BY <3>3 DEF vars, controlVars
      <3> QED
        BY <3>2, <3>3 DEF CNext
    <2>2. SoleJob(s)' => SoleJob(s)
      BY <1>3, OwnJobKeeps DEF Undisturbed
    <2>3. reply'[s] = reply[s]
      BY <1>3 DEF Undisturbed
    <2> QED
      BY <1>1, <1>3, <2>1, <2>2, <2>3 DEF AnswerIsSeen, PhaseNamed
  <1>4. ASSUME PollStep(s)
        PROVE  /\ hook[s] = "waiting" /\ mine' = mine
               /\ SoleJob(s)' => SoleJob(s)
               /\ seen'[s] = seen[s] \cup {phaseOf[mine[s]]}
    <2>1. hook[s] = "waiting" /\ mine' = mine /\ UNCHANGED queueVars
      BY <1>1, <1>4 DEF PollStep, PollBegins, PollReadsPending,
         PollChecksLeased, PollChecksPending, PollChecksOutcome, QueueStill,
         PollOfWaiting
    <2>2. poll'[s].at # poll[s].at
      BY <1>1, <1>4 DEF PollStep, PollBegins, PollReadsPending,
         PollChecksLeased, PollChecksPending, PollChecksOutcome, ReadOn,
         Answer, NoPoll, CTypeOK
    <2>3. ~ UNCHANGED vars
      BY <2>2 DEF vars, controlVars
    <2> QED
      BY <2>1, <2>2, <2>3, SeenGrows, OwnJobKeeps
  <1>5. CASE PollBegins(s) \/ PollReadsPending(s)
    BY <1>1, <1>4, <1>5 DEF PollBegins, PollReadsPending, PollStep, ReadOn,
                            AnswerIsSeen
  <1>6. CASE PollChecksLeased(s) /\ hook'[s] = "answered"
    <2>1. mine[s] \in Leased /\ reply'[s] = "Building"
      BY <1>1, <1>4, <1>6 DEF PollChecksLeased, PollStep, ReadOn, Answer, CTypeOK
    <2>2. phaseOf[mine[s]] = "leased"
      BY <1>4, <1>6, <2>1, PhaseOfOwn DEF PollStep
    <2> QED
      BY <1>4, <1>6, <2>1, <2>2 DEF AnswerIsSeen, PhaseNamed, PollStep
  <1>7. CASE PollChecksPending(s) /\ hook'[s] = "answered"
    <2>1. mine[s] \in Elements(pending) /\ reply'[s] = "Pending"
      BY <1>1, <1>4, <1>7 DEF PollChecksPending, PollStep, ReadOn, Answer, CTypeOK
    <2>2. phaseOf[mine[s]] = "waiting"
      BY <1>4, <1>7, <2>1, PhaseOfOwn DEF PollStep
    <2> QED
      BY <1>4, <1>7, <2>1, <2>2 DEF AnswerIsSeen, PhaseNamed, PollStep
  <1>8. CASE PollChecksOutcome(s)
    <2>1. poll[s].at = "outcome" /\ PollStep(s)
      BY <1>8 DEF PollChecksOutcome, PollStep
    <2>2. mine[s] \in Done => phaseOf[mine[s]] = "done"
      BY <1>4, <2>1, PhaseOfOwn
    <2>3. CASE poll[s].drv # Null /\ completed[poll[s].drv] # Null
      <3>1. reply'[s] \in {"Completed", "Failed"}
        <4>1. completed[poll[s].drv] \in Outcome
          BY <1>1, <2>3 DEF CTypeOK, TypeOK
        <4>2. completed[poll[s].drv].kind \in {"Completed", "Failed"}
          BY <4>1 DEF Outcome
        <4> QED
          BY <1>1, <1>8, <2>3, <4>2 DEF PollChecksOutcome, Answer, CTypeOK
      <3>2. SoleJob(s) => mine[s] \in Done
        BY <2>1, <2>3, OutcomeIsReal
      <3> QED
        BY <1>4, <2>1, <2>2, <3>1, <3>2 DEF AnswerIsSeen, PhaseNamed
    <2>4. CASE ~ (poll[s].drv # Null /\ completed[poll[s].drv] # Null)
      <3>1. reply'[s] = "Pending"
        BY <1>1, <1>8, <2>4 DEF PollChecksOutcome, Answer, CTypeOK
      <3>2. "waiting" \in seen[s] \/ (seen[s] = {"done"} /\ mine[s] \in Done)
        <4>1. CASE poll[s].drv = Null
          BY <1>1, <2>1, <4>1 DEF ReadsSoFar
        <4>2. CASE poll[s].drv # Null
          <5>1. poll[s].drv = job[mine[s]].drv
            BY <1>1, <4>2 DEF PollOfWaiting, DrvOfMine
          <5>2. mine[s] \notin Done
            BY <2>4, <4>2, <5>1 DEF HookInv, IndInv, NoJobLost
          <5> QED
            BY <1>1, <2>1, <5>2 DEF ReadsSoFar
        <4> QED
          BY <4>1, <4>2
      <3> QED
        BY <1>4, <2>1, <2>2, <3>1, <3>2 DEF AnswerIsSeen, PhaseNamed
    <2> QED
      BY <2>3, <2>4
  <1>9. CASE HookReadsAnswer(s)
    <2>1. hook'[s] = Verdict[reply[s]] /\ Verdict[reply[s]] # "answered"
      BY <1>1, <1>9 DEF HookReadsAnswer, Verdict, PollOfWaiting, CTypeOK
    <2> QED
      BY <1>2, <2>1
  <1>10. CASE \/ \E d \in Drv, F \in SUBSET Feature : HookSubmits(s, d, F)
              \/ HookTakesNext(s) \/ HookDies(s)
    BY <1>1, <1>2, <1>10 DEF HookSubmits, HookTakesNext, HookDies, CTypeOK
  <1>11. CASE SubmitReturns(s)
    <2>1. Undisturbed(s) \/ hook'[s] = "waiting"
      BY <1>1, <1>11 DEF SubmitReturns, Undisturbed, CTypeOK
    <2> QED
      BY <1>2, <1>3, <2>1 DEF Undisturbed
  <1>12. CASE Undisturbed(s)
    BY <1>2, <1>3, <1>12 DEF Undisturbed
  <1>13. CASE PollStep(s)
    BY <1>2, <1>5, <1>6, <1>7, <1>8, <1>13 DEF PollStep
  <1> QED
    BY <1>1, <1>9, <1>10, <1>11, <1>12, <1>13, OwnOrElsewhere DEF StepOf, HookStep

-----------------------------------------------------------------------------
(* Together. *)

\* At the start the queue is new and every hook idle.
LEMMA HookInit == CInit => HookInv
  <1> SUFFICES ASSUME CInit PROVE HookInv
    OBVIOUS
  <1>1. Init /\ IndInv /\ TypeOK
    BY InitInv DEF CInit, IndInv
  <1>2. CTypeOK
    BY <1>1 DEF CInit, CTypeOK, NoPoll
  <1>3. KindTold
    BY <1>1 DEF Init, KindTold
  <1>4. ASSUME NEW s \in Submitter
        PROVE  /\ OwnsJob(s) /\ PollOfWaiting(s) /\ ReadsSoFar(s)
               /\ AnswerIsReal(s) /\ AnswerIsSeen(s)
    <2>1. /\ hook[s] = "idle" /\ mine[s] = 0
          /\ poll[s].at = "none" /\ poll[s].drv = Null
      BY DEF CInit, NoPoll
    <2> QED
      BY <2>1 DEF OwnsJob, PollOfWaiting, ReadsSoFar, AnswerIsReal, AnswerIsSeen
  <1> QED
    BY <1>1, <1>2, <1>3, <1>4 DEF HookInv

\* Every step of the hooks, the handlers and the builders preserves it.
LEMMA HookStepInv == HookInv /\ [CNext]_vars => HookInv'
  <1> SUFFICES ASSUME HookInv, [CNext]_vars PROVE HookInv'
    OBVIOUS
  <1>1. IndInv' /\ KindTold'
    BY StepCalls, CallKeeps, KindStep DEF HookInv, Call, Next
  <1>2. CTypeOK'
    BY HookTypeStep
  <1>3. ASSUME NEW s \in Submitter
        PROVE  /\ OwnsJob(s)' /\ PollOfWaiting(s)' /\ ReadsSoFar(s)'
               /\ AnswerIsReal(s)' /\ AnswerIsSeen(s)'
    BY OwnsJobStep, PollOfWaitingStep, ReadsSoFarStep, AnswerIsRealStep,
       AnswerIsSeenStep
  <1> QED
    BY <1>1, <1>2, <1>3 DEF HookInv

\* The inductive invariant holds, whatever hooks are started and killed.
THEOREM HookInvariance == CSpec => []HookInv
  BY HookInit, HookStepInv, PTL DEF CSpec

\* The state of hooks and poll handlers keeps its types.
THEOREM HookTypesCorrect == CSpec => []CTypeOK
  <1>1. HookInv => CTypeOK
    BY DEF HookInv
  <1> QED
    BY <1>1, HookInvariance, PTL

\* handle_poll_build reads the queue five times and holds none of its locks in
\* between, and still answers with a state the job was in during the poll.
THEOREM PollAnswersOneState == CSpec => []PollOfLiveJobIsAtomic
  <1>1. HookInv => PollOfLiveJobIsAtomic
    BY DEF HookInv, PollOfLiveJobIsAtomic, AnswerIsSeen
  <1> QED
    BY <1>1, HookInvariance, PTL

\* What a hook reports to nix is how a build of its derivation ended.
THEOREM HookTellsTruth == CSpec => []HookVerdictIsReal
  <1>1. HookInv => HookVerdictIsReal
    BY DEF HookInv, AnswerIsReal, EndedIn, HookVerdictIsReal
  <1> QED
    BY <1>1, HookInvariance, PTL

\* The daemon uses the queue as the queue may be used, so that all that is
\* proved of the queue holds in the daemon.
THEOREM DaemonUsesQueue == CSpec => Spec
  <1>1. CInit => Init
    BY DEF CInit
  <1>2. [CNext]_vars => [Next]_queueVars
    BY StepCalls DEF Call, Next
  <1> QED
    BY <1>1, <1>2, PTL DEF CSpec, Spec

\* The daemon with its hooks implements the life cycle of jobs that takes none
\* back, whenever nix ends a hook.
THEOREM DaemonRefinement == CSpec => ImplementsRun
  <1>1. CInit => Lifecycle!LInit
    BY LifecycleInit DEF CInit
  <1>2. HookInv /\ [CNext]_vars => [Lifecycle!Advance]_(Lifecycle!lvars)
    BY StepCalls, LifecycleCall DEF HookInv
  <1> QED
    BY <1>1, <1>2, HookInvariance, PTL DEF CSpec, ImplementsRun, Lifecycle!RunSpec

=============================================================================
