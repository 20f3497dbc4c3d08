------------------------------- MODULE JobEngine -------------------------------
(***************************************************************************)
(* JobManager with its JobQueue, JobScheduler and JobStateMachine: jobs    *)
(* submitted, polled into a bounded number of slots, cancelled, timed out  *)
(* and queued again.                                                       *)
(*                                                                         *)
(* Everything but the work itself is synchronous: poll moves a job through *)
(* VALIDATING and PLANNING to EXECUTING at once, and the end of the work   *)
(* through its last states, the catch, the retry and the release of its    *)
(* slot.  In between the job may be cancelled.                             *)
(***************************************************************************)
EXTENDS Naturals, Sequences, FiniteSets

CONSTANTS
    Jobs,            \* job ids
    Priority,        \* their priorities, the lowest first
    MaxConcurrency,  \* maxConcurrency
    MaxQueueSize,    \* maxQueueSize
    MaxRetries,      \* maxRetries of every job
    MaxJobHistory    \* maxJobHistory

ASSUME JobConstantsOK ==
    /\ Priority \in [Jobs -> Nat]
    /\ MaxConcurrency \in Nat \ {0} /\ MaxQueueSize \in Nat \ {0}
    /\ MaxRetries \in Nat /\ MaxJobHistory \in Nat \ {0}

VARIABLES
    jobState,    \* state of each job, NONE before it is submitted
    retries,     \* retryCount of each job
    waiting,     \* JobQueue.queue
    slots,       \* JobQueue.active
    executing,   \* the jobs whose executeJob is under way
    known,       \* JobManager.jobs, oldest first
    recorded,    \* how often JobMetricsService has recorded the job
    dropped,     \* the jobs the queue refused to take back
    stopping     \* shuttingDown

jobVars == <<jobState, retries, waiting, slots, executing, known, recorded,
             dropped, stopping>>

JobActive == {"VALIDATING", "PLANNING", "EXECUTING", "EVALUATING",
              "GENERATING_ARTIFACTS"}
JobStates == {"QUEUED"} \cup JobActive \cup {"COMPLETED", "FAILED", "CANCELLED", "TIMEOUT"}

\* VALID_TRANSITIONS
CanTransition(from, to) ==
    \/ <<from, to>> \in {<<"QUEUED", "VALIDATING">>, <<"VALIDATING", "PLANNING">>,
            <<"PLANNING", "EXECUTING">>, <<"EXECUTING", "EVALUATING">>,
            <<"EVALUATING", "GENERATING_ARTIFACTS">>,
            <<"GENERATING_ARTIFACTS", "COMPLETED">>}
    \/ from \in {"QUEUED"} \cup JobActive /\ to \in {"CANCELLED", "TIMEOUT"}
    \/ from \in JobActive /\ to = "FAILED"
    \/ from \in {"FAILED", "TIMEOUT"} /\ to = "QUEUED"

JobInit ==
    /\ jobState = [j \in Jobs |-> "NONE"]
    /\ retries = [j \in Jobs |-> 0]
    /\ waiting = <<>> /\ slots = {} /\ executing = {}
    /\ known = <<>>
    /\ recorded = [j \in Jobs |-> 0]
    /\ dropped = {} /\ stopping = FALSE

-----------------------------------------------------------------------------
(***************************************************************************)
(* JobQueue                                                                *)
(***************************************************************************)

Accepts == ~stopping /\ Len(waiting) < MaxQueueSize

\* enqueue: j goes before the first job of lower priority, or last.
Enqueued(j) ==
    \E n \in 0..Len(waiting) :
        /\ \A i \in 1..n : Priority[waiting[i]] <= Priority[j]
        /\ n < Len(waiting) => Priority[waiting[n + 1]] > Priority[j]
        /\ waiting' = SubSeq(waiting, 1, n) \o <<j>> \o SubSeq(waiting, n + 1, Len(waiting))

\* Mutant: nothing is removed.
LeftIn(j) == UNCHANGED waiting
\* remove: j is spliced out of the first place it has, if it waits.
TakenOut(j) ==
    \/ (\A i \in DOMAIN waiting : waiting[i] # j) /\ UNCHANGED waiting
    \/ \E n \in DOMAIN waiting :
        /\ waiting[n] = j /\ \A i \in 1..(n - 1) : waiting[i] # j
        /\ waiting' = SubSeq(waiting, 1, n - 1) \o SubSeq(waiting, n + 1, Len(waiting))

-----------------------------------------------------------------------------
(***************************************************************************)
(* JobManager and JobScheduler                                             *)
(***************************************************************************)

Submit(j) ==
    /\ jobState[j] = "NONE" /\ Accepts
    /\ jobState' = [jobState EXCEPT ![j] = "QUEUED"]
    /\ Enqueued(j)
    /\ known' = Append(known, j)
    /\ UNCHANGED <<retries, slots, executing, recorded, dropped, stopping>>

\* The slot is released at once, and the work goes on.
CancelJob(j) ==
    /\ \E i \in DOMAIN known : known[i] = j
    /\ CanTransition(jobState[j], "CANCELLED")
    /\ jobState' = [jobState EXCEPT ![j] = "CANCELLED"]
    /\ TakenOut(j)
    /\ slots' = slots \ {j}
    /\ recorded' = [recorded EXCEPT ![j] = @ + 1]
    /\ UNCHANGED <<retries, executing, known, dropped, stopping>>

\* poll, dequeue and the first part of executeJob.
Poll ==
    /\ ~stopping /\ waiting # <<>>
    /\ Cardinality(slots) < MaxConcurrency
    /\ LET j == Head(waiting) IN
        /\ slots' = slots \cup {j}
        /\ executing' = executing \cup {j}
        /\ jobState' = [jobState EXCEPT ![j] = "EXECUTING"]
    /\ waiting' = Tail(waiting)
    /\ UNCHANGED <<retries, known, recorded, dropped, stopping>>

\* evictHistory: the newest jobs stay, whatever their state.
Evicted(s) == IF Len(s) <= MaxJobHistory THEN s
              ELSE SubSeq(s, Len(s) - MaxJobHistory + 1, Len(s))

\* Mutant: a job that failed or timed out keeps its slot.
LeavesUnlessRetried(j) ==
    /\ executing' = executing \ {j}
    /\ slots' = IF jobState'[j] = "QUEUED" THEN slots ELSE slots \ {j}
    /\ known' = Evicted(known)
\* executeJob ends and the scheduler releases the slot, if j still has it.
Leaves(j) ==
    /\ executing' = executing \ {j}
    /\ slots' = slots \ {j}
    /\ known' = Evicted(known)

\* The job comes to rest in state s, and is recorded.
Rests(j, s) ==
    /\ jobState' = [jobState EXCEPT ![j] = s]
    /\ recorded' = [recorded EXCEPT ![j] = @ + 1]
    /\ UNCHANGED <<retries, waiting, dropped>>

\* isRetryable and shouldRetry: a validation failure is never tried again.
RetriesAgain(j, s, retryable) ==
    CanTransition(s, "QUEUED") /\ retryable /\ retries[j] < MaxRetries

\* The catch of executeJob, with the job in FAILED or TIMEOUT: it is queued
\* again, if the queue takes it, and forgotten in QUEUED when it does not.
Fails(j, s, retryable) ==
    IF RetriesAgain(j, s, retryable)
    THEN /\ jobState' = [jobState EXCEPT ![j] = "QUEUED"]
         /\ retries' = [retries EXCEPT ![j] = @ + 1]
         /\ \/ Accepts /\ Enqueued(j) /\ UNCHANGED dropped
            \/ ~Accepts /\ dropped' = dropped \cup {j} /\ UNCHANGED waiting
         /\ UNCHANGED recorded
    ELSE Rests(j, s)

\* The work ends, or its time is over.  A job cancelled meanwhile makes the next
\* transition throw, and is recorded once more.
WorkEnds(j, how, retryable) ==
    /\ j \in executing
    /\ \/ jobState[j] = "CANCELLED" /\ Rests(j, "CANCELLED")
       \/ jobState[j] = "EXECUTING" /\ how = "COMPLETED" /\ Rests(j, "COMPLETED")
       \/ jobState[j] = "EXECUTING" /\ how # "COMPLETED" /\ Fails(j, how, retryable)
    /\ Leaves(j)
    /\ UNCHANGED stopping

\* JobScheduler.stop: nothing is polled or taken any more.
StopJobs ==
    /\ ~stopping /\ stopping' = TRUE
    /\ UNCHANGED <<jobState, retries, waiting, slots, executing, known, recorded,
                   dropped>>

JobNext ==
    \/ \E j \in Jobs :
        \/ Submit(j) \/ CancelJob(j)
        \/ \E how \in {"COMPLETED", "FAILED", "TIMEOUT"}, retryable \in BOOLEAN :
              WorkEnds(j, how, retryable)
    \/ Poll \/ StopJobs

JobSpec == JobInit /\ [][JobNext]_jobVars

\* The poll timer fires, and no work outlives its timeout.
JobFairness ==
    /\ WF_jobVars(Poll)
    /\ \A j \in Jobs :
          WF_jobVars(\E how \in {"COMPLETED", "FAILED", "TIMEOUT"}, retryable \in BOOLEAN :
                        WorkEnds(j, how, retryable))

-----------------------------------------------------------------------------
(***************************************************************************)
(* Properties                                                              *)
(***************************************************************************)

JobTypeOK ==
    /\ jobState \in [Jobs -> JobStates \cup {"NONE"}]
    /\ retries \in [Jobs -> 0..MaxRetries]
    /\ waiting \in Seq(Jobs)
    /\ slots \subseteq Jobs /\ executing \subseteq Jobs
    /\ known \in Seq(Jobs)
    /\ recorded \in [Jobs -> Nat]
    /\ dropped \subseteq Jobs /\ stopping \in BOOLEAN

\* The slots are the executions that were not cancelled, never more than
\* maxConcurrency: whatever mix of cancels, timeouts and retries released them.
SlotsAreExecutions ==
    /\ slots = {j \in executing : jobState[j] = "EXECUTING"}
    /\ \A j \in Jobs : jobState[j] = "EXECUTING" => j \in executing
    /\ Cardinality(slots) <= MaxConcurrency

\* The queue holds the QUEUED jobs, each once and by priority, but for those a
\* full or closed queue refused to take back; none is both queued and at work.
QueueIsExact ==
    /\ \A i, k \in DOMAIN waiting : i < k =>
          waiting[i] # waiting[k] /\ Priority[waiting[i]] <= Priority[waiting[k]]
    /\ {waiting[i] : i \in DOMAIN waiting} = {j \in Jobs : jobState[j] = "QUEUED"} \ dropped
    /\ {waiting[i] : i \in DOMAIN waiting} \cap executing = {}

\* Jobs come to an end: when no more are submitted none is left waiting or at
\* work, unless the engine stops or the queue, full when the job was to be tried
\* again, has lost it.
JobsEnd ==
    []<>(\A j \in Jobs : jobState[j] \in {"QUEUED", "EXECUTING"} =>
            j \in dropped \/ (stopping /\ jobState[j] = "QUEUED"))
=============================================================================
