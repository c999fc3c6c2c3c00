------------------------------ MODULE JobRunner ------------------------------
(***************************************************************************)
(* The in-process runner of long filesystem jobs (compress, extract), from *)
(* apps/api/src/jobs/runner.ts.  Jobs queue per identity, at most          *)
(* Concurrency of one identity run at a time, a finished job stays in the  *)
(* map until its outcome is durable and its retention ends, and the map    *)
(* holds at most MaxJobs.                                                  *)
(*                                                                         *)
(* Node runs every callback to completion, so an action is one callback:   *)
(* a call of submit or cancel, the settling of authorize, of run or of     *)
(* onOutcome, or a retention timer.  Ids are the order of submission,      *)
(* which is the insertion order of the Map the runner prunes from.         *)
(* Progress counters are left out.  A run that throws may leave work       *)
(* behind that still reports: extracting a tar rejects while the upload of *)
(* an entry is in flight, and a late Report carries the job's new state.   *)
(* Reports that repeat the last event are left out: those of a job that    *)
(* runs, and those that come after the event of its outcome.               *)
(***************************************************************************)
EXTENDS Integers, FiniteSets, Sequences

CONSTANTS
    Identities,     \* storage identities that submit jobs
    Inputs,         \* the SubmitJobInputs: identity, authorize?, onOutcome?
    Concurrency,    \* concurrencyPerIdentity
    MaxJobs,        \* maxJobs
    Submissions     \* bound: how many jobs are ever accepted

ASSUME InputsAssumption ==
    Inputs \subseteq [identity : Identities, authorize : BOOLEAN, onOutcome : BOOLEAN]
ASSUME ConcurrencyAssumption == Concurrency \in Nat \ {0}
ASSUME MaxJobsAssumption == MaxJobs \in Nat \ {0}
ASSUME SubmissionsAssumption == Submissions \in Nat

JobIds == 1..Submissions

Terminal == {"done", "failed", "cancelled"}

JobStates == {"queued", "running"} \union Terminal

(***************************************************************************)
(* "none" is a job that has not been submitted.  The step of a running job *)
(* is the promise it waits for: its authorize check or its run.  A job     *)
(* whose run threw is "left": what it had begun can still report.          *)
(***************************************************************************)
VARIABLES
    jobs,            \* keys of the jobs Map
    jobState,        \* job.state
    step,            \* what a job waits for: "idle", "authorize", "run", "left"
    inputs,          \* the SubmitJobInput of each job accepted so far
    aborted,         \* job.controller.signal.aborted
    historyPending,  \* job.historyPending
    timers,          \* jobs with a retention timer
    queues,          \* FIFO queue of each identity
    runningCounts,   \* running jobs of each identity
    lastEvent        \* the state in the job's last event on the bus

jobVars == <<jobs, jobState, step, inputs, aborted, historyPending, timers,
            queues, runningCounts, lastEvent>>

JobInit ==
    /\ jobs = {}
    /\ jobState = [j \in JobIds |-> "none"]
    /\ step = [j \in JobIds |-> "idle"]
    /\ inputs = <<>>
    /\ aborted = [j \in JobIds |-> FALSE]
    /\ historyPending = [j \in JobIds |-> FALSE]
    /\ timers = {}
    /\ queues = [i \in Identities |-> <<>>]
    /\ runningCounts = [i \in Identities |-> 0]
    /\ lastEvent = [j \in JobIds |-> "none"]

(***************************************************************************)
(* startNextQueued: the job an identity starts when `count` of its jobs    *)
(* run and `queue` waits, as a set of at most one job.                     *)
(***************************************************************************)
NextQueued_SlotTooMany(count, queue) ==
    IF count <= Concurrency /\ queue # <<>> THEN {Head(queue)} ELSE {}

NextQueued(count, queue) ==
    IF count < Concurrency /\ queue # <<>> THEN {Head(queue)} ELSE {}

(***************************************************************************)
(* startJob, applied to the jobs in `started`: without an authorize check  *)
(* run is called at once.                                                  *)
(***************************************************************************)
FirstStep(in) == IF in.authorize THEN "authorize" ELSE "run"

(***************************************************************************)
(* pruneIfOverCapacity: the settled jobs it deletes, oldest first, until   *)
(* the map is below its limit.                                             *)
(***************************************************************************)
Evictable_IgnoresHistory == {j \in jobs : jobState[j] \in Terminal}

Evictable == {j \in jobs : ~historyPending[j] /\ jobState[j] \in Terminal}

Evicted ==
    {j \in Evictable :
        Cardinality({k \in Evictable : k < j}) < Cardinality(jobs) - MaxJobs + 1}

HasRoom == Cardinality(jobs \ Evicted) < MaxJobs

(***************************************************************************)
(* submit refused: the pruning it did first stays.  (JobQueueFullError.)   *)
(***************************************************************************)
SubmitRefused ==
    /\ ~HasRoom
    /\ jobs' = jobs \ Evicted
    /\ UNCHANGED <<jobState, step, inputs, aborted, historyPending, timers,
                   queues, runningCounts, lastEvent>>

(* submit enqueues at the end of the identity's queue.                     *)
Enqueued_Front(queue, j) == <<j>> \o queue

Enqueued(queue, j) == Append(queue, j)

Submit(in) ==
    /\ Len(inputs) < Submissions
    /\ HasRoom
    /\ LET j == Len(inputs) + 1
           i == in.identity
           ins == Append(inputs, in)
           queue == Enqueued(queues[i], j)
           started == NextQueued(runningCounts[i], queue)
           Now(k, old) == IF k \in started THEN "running"
                          ELSE IF k = j THEN "queued" ELSE old
       IN  /\ inputs' = ins
           /\ jobs' = (jobs \ Evicted) \union {j}
           /\ jobState' = [k \in JobIds |-> Now(k, jobState[k])]
           /\ lastEvent' = [k \in JobIds |-> Now(k, lastEvent[k])]
           /\ step' = [k \in JobIds |->
                          IF k \in started THEN FirstStep(ins[k]) ELSE step[k]]
           /\ queues' = [queues EXCEPT ![i] =
                          IF started = {} THEN queue ELSE Tail(queue)]
           /\ runningCounts' = [runningCounts EXCEPT ![i] =
                          IF started = {} THEN @ ELSE @ + 1]
    /\ UNCHANGED <<aborted, historyPending, timers>>

(***************************************************************************)
(* What finishJob does to the job itself.  With an onOutcome the job is    *)
(* held, and neither published nor put on a timer, until Recorded.         *)
(***************************************************************************)
SettleJob_NoTimer(j) ==
    /\ historyPending' = [historyPending EXCEPT ![j] = inputs[j].onOutcome]
    /\ timers' = timers

SettleJob(j) ==
    /\ historyPending' = [historyPending EXCEPT ![j] = inputs[j].onOutcome]
    /\ timers' = IF inputs[j].onOutcome THEN timers ELSE timers \union {j}

AnnouncedAtOnce_Always(j) == TRUE

AnnouncedAtOnce(j) == ~inputs[j].onOutcome

(***************************************************************************)
(* finishJob of a job that holds a slot: the slot is released and the next *)
(* queued job of the identity starts in the same callback.  `behind` is    *)
(* the step the job is left at.                                            *)
(***************************************************************************)
FinishRunning(j, outcome, behind) ==
    LET i == inputs[j].identity
        freed == IF runningCounts[i] = 0 THEN 0 ELSE runningCounts[i] - 1
        started == NextQueued(freed, queues[i])
    IN  /\ SettleJob(j)
        /\ jobState' = [k \in JobIds |->
                       IF k \in started THEN "running"
                       ELSE IF k = j THEN outcome ELSE jobState[k]]
        /\ lastEvent' = [k \in JobIds |->
                       IF k \in started THEN "running"
                       ELSE IF k = j /\ AnnouncedAtOnce(j) THEN outcome
                       ELSE lastEvent[k]]
        /\ step' = [k \in JobIds |->
                       IF k \in started THEN FirstStep(inputs[k])
                       ELSE IF k = j THEN behind ELSE step[k]]
        /\ queues' = [queues EXCEPT ![i] = IF started = {} THEN @ ELSE Tail(@)]
        /\ runningCounts' = [runningCounts EXCEPT ![i] =
                       IF started = {} THEN freed ELSE freed + 1]
        /\ UNCHANGED <<jobs, inputs, aborted>>

(***************************************************************************)
(* The catch of startJob: a throw is a cancellation iff the signal is      *)
(* aborted when it arrives.                                                *)
(***************************************************************************)
ThrownOutcome_Signal(j) == IF aborted[j] THEN "aborted" ELSE "failed"

ThrownOutcome(j) == IF aborted[j] THEN "cancelled" ELSE "failed"

(* authorize resolves true: run is called.                                 *)
Authorized(j) ==
    /\ step[j] = "authorize"
    /\ step' = [step EXCEPT ![j] = "run"]
    /\ UNCHANGED <<jobs, jobState, inputs, aborted, historyPending, timers,
                   queues, runningCounts, lastEvent>>

(* authorize resolves false or rejects: run is never called.               *)
Refused(j) ==
    /\ step[j] = "authorize"
    /\ FinishRunning(j, ThrownOutcome(j), "idle")

(* run resolves, also after an abort it did not notice.                    *)
RunResolves(j) ==
    /\ step[j] = "run"
    /\ FinishRunning(j, "done", "idle")

RunThrows(j) ==
    /\ step[j] = "run"
    /\ FinishRunning(j, ThrownOutcome(j), "left")

(***************************************************************************)
(* report, called by what a thrown run left behind: it publishes the state *)
(* the job has by then, also while its history is pending.                 *)
(***************************************************************************)
Report(j) ==
    /\ step[j] = "left"
    /\ lastEvent' = [lastEvent EXCEPT ![j] = jobState[j]]
    /\ UNCHANGED <<jobs, jobState, step, inputs, aborted, historyPending, timers,
                   queues, runningCounts>>

(***************************************************************************)
(* onOutcome settles, resolved or rejected alike.  From now on a late      *)
(* report would repeat this event, so no work is left to follow.           *)
(***************************************************************************)
Recorded(j) ==
    /\ historyPending[j]
    /\ historyPending' = [historyPending EXCEPT ![j] = FALSE]
    /\ lastEvent' = [lastEvent EXCEPT ![j] = jobState[j]]
    /\ step' = [step EXCEPT ![j] = "idle"]
    /\ timers' = timers \union {j}
    /\ UNCHANGED <<jobs, jobState, inputs, aborted, queues, runningCounts>>

(* The retention timer deletes the job, if capacity has not done so.       *)
RetentionPrune(j) ==
    /\ j \in timers
    /\ timers' = timers \ {j}
    /\ jobs' = jobs \ {j}
    /\ UNCHANGED <<jobState, step, inputs, aborted, historyPending,
                   queues, runningCounts, lastEvent>>

(***************************************************************************)
(* cancel: a running job is only signalled; a queued one leaves its queue  *)
(* and finishes without releasing a slot it never held.                    *)
(***************************************************************************)
Splice(queue, n) == SubSeq(queue, 1, n - 1) \o SubSeq(queue, n + 1, Len(queue))

Without(queue, j) ==
    IF \E n \in 1..Len(queue) : queue[n] = j
    THEN Splice(queue, CHOOSE n \in 1..Len(queue) : queue[n] = j)
    ELSE queue

CancelRunning(j) ==
    /\ j \in jobs
    /\ jobState[j] = "running"
    /\ aborted' = [aborted EXCEPT ![j] = TRUE]
    /\ UNCHANGED <<jobs, jobState, step, inputs, historyPending, timers,
                   queues, runningCounts, lastEvent>>

CancelQueued(j) ==
    /\ j \in jobs
    /\ jobState[j] = "queued"
    /\ aborted' = [aborted EXCEPT ![j] = TRUE]
    /\ jobState' = [jobState EXCEPT ![j] = "cancelled"]
    /\ queues' = [queues EXCEPT ![inputs[j].identity] = Without(@, j)]
    /\ SettleJob(j)
    /\ lastEvent' = IF AnnouncedAtOnce(j) THEN [lastEvent EXCEPT ![j] = "cancelled"]
                    ELSE lastEvent
    /\ UNCHANGED <<jobs, step, inputs, runningCounts>>

JobNext ==
    \/ \E in \in Inputs : Submit(in)
    \/ SubmitRefused
    \/ \E j \in JobIds :
        \/ Authorized(j)
        \/ Refused(j)
        \/ RunResolves(j)
        \/ RunThrows(j)
        \/ Report(j)
        \/ Recorded(j)
        \/ RetentionPrune(j)
        \/ CancelRunning(j)
        \/ CancelQueued(j)

(***************************************************************************)
(* Promises settle: an authorize check and a job's own work end, and the   *)
(* history write resolves or rejects.  Timers fire.  Nobody has to submit, *)
(* cancel or report.                                                       *)
(***************************************************************************)
Callback(j) ==
    \/ Authorized(j) \/ Refused(j)
    \/ RunResolves(j) \/ RunThrows(j)
    \/ Recorded(j) \/ RetentionPrune(j)

JobFairness == \A j \in JobIds : WF_jobVars(Callback(j))

JobSpec == JobInit /\ [][JobNext]_jobVars

JobFairSpec == JobSpec /\ JobFairness

-----------------------------------------------------------------------------
Accepted == 1..Len(inputs)

Of(i) == {j \in Accepted : inputs[j].identity = i}

Running(i) == {j \in Of(i) : jobState[j] = "running"}

Queued(i) == {j \in Of(i) : jobState[j] = "queued"}

JobTypeOK ==
    /\ jobs \subseteq JobIds
    /\ jobState \in [JobIds -> JobStates \union {"none"}]
    /\ step \in [JobIds -> {"idle", "authorize", "run", "left"}]
    /\ inputs \in Seq(Inputs)
    /\ Len(inputs) <= Submissions
    /\ aborted \in [JobIds -> BOOLEAN]
    /\ historyPending \in [JobIds -> BOOLEAN]
    /\ timers \subseteq JobIds
    /\ queues \in [Identities -> Seq(JobIds)]
    /\ runningCounts \in [Identities -> Nat]
    /\ lastEvent \in [JobIds -> JobStates \union {"none"}]

(***************************************************************************)
(* The slot counter of every identity is the number of its jobs in state   *)
(* running, at most the concurrency limit: no path of finishJob releases a *)
(* slot twice, keeps one, or releases one it never held.                   *)
(***************************************************************************)
SlotsMatchRunningJobs ==
    \A i \in Identities :
        /\ runningCounts[i] = Cardinality(Running(i))
        /\ runningCounts[i] <= Concurrency

(***************************************************************************)
(* No slot is idle while a job of its identity waits: the callbacks that   *)
(* free a slot also refill it, and cancelling a queued job strands nobody. *)
(***************************************************************************)
NoIdleSlotWhileQueued ==
    \A i \in Identities : Queued(i) # {} => Cardinality(Running(i)) >= Concurrency

(***************************************************************************)
(* Every job that waits, runs or has an outcome still being written is in  *)
(* the map, where get, list and cancel find it: neither capacity nor a     *)
(* retention timer drops a job before its history is durable.              *)
(***************************************************************************)
UnsettledJobsAreHeld ==
    \A j \in Accepted :
        jobState[j] \in {"queued", "running"} \/ historyPending[j] => j \in jobs

(***************************************************************************)
(* A terminal event names the state the job keeps, and finishing a job     *)
(* never publishes one before its outcome has been recorded: subscribers   *)
(* hear of an outcome whose history is still being written only from the   *)
(* late report of work that a throwing run left behind.                    *)
(***************************************************************************)
OnlyLateReportsPrecedeHistory ==
    \A j \in Accepted : lastEvent[j] \in Terminal =>
        /\ lastEvent[j] = jobState[j]
        /\ historyPending[j] => step[j] = "left"

(***************************************************************************)
(* The facts the invariants above rest on, together inductive.             *)
(***************************************************************************)
QueuesAreExact ==
    \A i \in Identities :
        /\ \A n \in 1..Len(queues[i]) : queues[i][n] \in Queued(i)
        /\ \A j \in Queued(i) : \E n \in 1..Len(queues[i]) : queues[i][n] = j
        /\ \A m, n \in 1..Len(queues[i]) : m < n => queues[i][m] < queues[i][n]

SlotsAreRefilled ==
    \A i \in Identities : runningCounts[i] < Concurrency => queues[i] = <<>>

JobsAreCoherent ==
    /\ \A j \in JobIds :
        /\ (jobState[j] = "none") <=> (j \notin Accepted)
        /\ (step[j] \in {"authorize", "run"}) <=> (jobState[j] = "running")
        /\ historyPending[j] \/ step[j] = "left" => jobState[j] \in Terminal
    /\ jobs \subseteq Accepted
    /\ \A j \in timers : jobState[j] \in Terminal /\ ~historyPending[j]

JobIndInv ==
    /\ JobTypeOK
    /\ SlotsMatchRunningJobs
    /\ QueuesAreExact
    /\ SlotsAreRefilled
    /\ JobsAreCoherent
    /\ UnsettledJobsAreHeld

(***************************************************************************)
(* To its clients and subscribers the runner is a JobService: among what   *)
(* that promises, jobs start in the order they were submitted whatever is  *)
(* cancelled between them, a slot goes to the job that waited longest in   *)
(* the callback that frees it, only what was asked to stop is cancelled,   *)
(* and no job is forgotten before its outcome was announced.  The event    *)
(* that follows a late report repeats it: a stutter to the subscribers.    *)
(***************************************************************************)
Owners == [n \in Accepted |-> inputs[n].identity]

Asked == {j \in JobIds : aborted[j]}

Service == INSTANCE JobService WITH
    owner <- Owners,
    state <- jobState,
    asked <- Asked,
    announced <- lastEvent,
    listed <- jobs

ImplementsJobService == Service!Spec

(***************************************************************************)
(* Every accepted job reaches a terminal event, whoever cancels what, and  *)
(* is eventually dropped from memory.                                      *)
(***************************************************************************)
EveryJobSettles == <>[](jobs = {} /\ \A j \in Accepted : lastEvent[j] \in Terminal)
==============================================================================
