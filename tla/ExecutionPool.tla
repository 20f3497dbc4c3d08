----------------------------- MODULE ExecutionPool -----------------------------
(***************************************************************************)
(* ExecutionCoordinator with its ExecutionWorkers and ExecutionJobQueue,   *)
(* as /api/distributed uses them: jobs submitted, taken by workers that    *)
(* poll, timed out, tried again, given up and revived, while health checks *)
(* and an operator change the number of workers.                           *)
(*                                                                         *)
(* A plan whose nodes fail is a result like any other: the job completes.  *)
(* It fails when the plan cannot be made or its time is over; the plan     *)
(* then runs on, and nobody waits for it.                                  *)
(***************************************************************************)
EXTENDS Naturals, Sequences, FiniteSets

CONSTANTS
    PoolJobs,            \* job ids
    Urgency,             \* their priorities, the lowest first
    Workers,             \* worker ids
    MinWorkers, MaxWorkers,
    ScaleUpThreshold,    \* queue depth from which workers are added
    ScaleDownThreshold,  \* idle workers from which some are removed
    MaxAttempts,         \* maxAttempts of every job
    MaxRevivals,         \* bound on the dead letters revived
    MaxScales,           \* bound on what the operator does
    NoJob

ASSUME PoolConstantsOK ==
    /\ Urgency \in [PoolJobs -> Nat]
    /\ MinWorkers \in Nat \ {0} /\ MaxWorkers \in Nat /\ MinWorkers <= MaxWorkers
    /\ ScaleUpThreshold \in Nat \ {0} /\ ScaleDownThreshold \in Nat \ {0}
    /\ MaxAttempts \in Nat \ {0} /\ MaxRevivals \in Nat /\ MaxScales \in Nat
    /\ NoJob \notin PoolJobs
    /\ \E W \in SUBSET Workers : Cardinality(W) = MinWorkers

VARIABLES
    jobQueue,   \* ExecutionJobQueue.queue
    place,      \* where each job is: the queue's maps, and its status
    attempts,   \* attempts of each job
    pool,       \* ExecutionCoordinator.workers
    holds,      \* the job each worker processes; the others are idle
    revivals, scales

poolVars == <<jobQueue, place, attempts, pool, holds, revivals, scales>>

PoolInit ==
    /\ jobQueue = <<>>
    /\ place = [j \in PoolJobs |-> "nowhere"]
    /\ attempts = [j \in PoolJobs |-> 0]
    /\ pool = CHOOSE W \in SUBSET Workers : Cardinality(W) = MinWorkers
    /\ holds = [w \in Workers |-> NoJob]
    /\ revivals = 0 /\ scales = 0

IdleWorkers == {w \in pool : holds[w] = NoJob}

-----------------------------------------------------------------------------
(***************************************************************************)
(* ExecutionJobQueue                                                       *)
(***************************************************************************)

\* enqueue and fail: j goes before the first job that is less urgent.  The queue
\* need not be sorted, a revived job being put last.
Passed(j) == {i \in 1..Len(jobQueue) :
                \A k \in 1..i : Urgency[jobQueue[k]] <= Urgency[j]}
InsertAfter(s, n, j) == SubSeq(s, 1, n) \o <<j>> \o SubSeq(s, n + 1, Len(s))
Queued(j) == InsertAfter(jobQueue, Cardinality(Passed(j)), j)

SubmitJob(j) ==
    /\ place[j] = "nowhere"
    /\ place' = [place EXCEPT ![j] = "queue"]
    /\ jobQueue' = Queued(j)
    /\ UNCHANGED <<attempts, pool, holds, revivals, scales>>

\* Mutant: an attempt is not counted.
AttemptUncounted(j) == attempts[j]
Attempt(j) == attempts[j] + 1

\* A worker of the pool that is idle polls: dequeue, and processJob begins.
Take(w) ==
    /\ w \in IdleWorkers /\ jobQueue # <<>>
    /\ LET j == Head(jobQueue) IN
        /\ place' = [place EXCEPT ![j] = "active"]
        /\ attempts' = [attempts EXCEPT ![j] = Attempt(j)]
        /\ holds' = [holds EXCEPT ![w] = j]
    /\ jobQueue' = Tail(jobQueue)
    /\ UNCHANGED <<pool, revivals, scales>>

\* The plan ends, whatever became of its nodes: complete.
Complete(w) ==
    /\ holds[w] # NoJob
    /\ place' = [place EXCEPT ![holds[w]] = "completed"]
    /\ holds' = [holds EXCEPT ![w] = NoJob]
    /\ UNCHANGED <<jobQueue, attempts, pool, revivals, scales>>

Exhausted(j) == attempts[j] >= MaxAttempts

\* There is no plan, or its time is over: fail.
Fail(w) ==
    /\ holds[w] # NoJob
    /\ LET j == holds[w] IN
        \/ /\ ~Exhausted(j)
           /\ place' = [place EXCEPT ![j] = "queue"]
           /\ jobQueue' = Queued(j)
        \/ /\ Exhausted(j)
           /\ place' = [place EXCEPT ![j] = "deadLetter"]
           /\ UNCHANGED jobQueue
    /\ holds' = [holds EXCEPT ![w] = NoJob]
    /\ UNCHANGED <<attempts, pool, revivals, scales>>

\* Mutant: a revived job keeps its attempts.
RevivedSpent(j) == attempts[j]
Revived(j) == 0

\* retryDeadLetter
Revive(j) ==
    /\ place[j] = "deadLetter" /\ revivals < MaxRevivals
    /\ revivals' = revivals + 1
    /\ place' = [place EXCEPT ![j] = "queue"]
    /\ attempts' = [attempts EXCEPT ![j] = Revived(j)]
    /\ jobQueue' = Append(jobQueue, j)
    /\ UNCHANGED <<pool, holds, scales>>

-----------------------------------------------------------------------------
(***************************************************************************)
(* ExecutionCoordinator                                                    *)
(***************************************************************************)

Lower(m, n) == IF m <= n THEN m ELSE n

\* addWorker, n times, with ids nobody uses.
Adds(n) == \E W \in SUBSET (Workers \ pool) :
              /\ \A w \in W : holds[w] = NoJob
              /\ Cardinality(W) = n
              /\ pool' = pool \cup W

\* removeWorker of n idle workers.
Removes(n) == \E W \in SUBSET IdleWorkers :
                 /\ Cardinality(W) = n
                 /\ pool' = pool \ W

\* computeScalingSignal: half of the queue, rounded up.
Target(size) == Lower(size + (Len(jobQueue) + 1) \div 2, MaxWorkers)

Surplus(size) == Lower(Cardinality(IdleWorkers) - MinWorkers, size - MinWorkers)

\* healthCheck.  No worker of the pool is ever stopped: one that stops leaves it.
HealthCheck ==
    /\ LET size == Cardinality(pool) IN
        IF Len(jobQueue) >= ScaleUpThreshold
        THEN size < MaxWorkers /\ Adds(Target(size) - size)
        ELSE /\ Cardinality(IdleWorkers) >= ScaleDownThreshold
             /\ size > MinWorkers
             /\ Cardinality(IdleWorkers) > MinWorkers
             /\ Removes(Surplus(size))
    /\ UNCHANGED <<jobQueue, place, attempts, holds, revivals, scales>>

\* POST /scale: up without a limit but four at a time, down to no worker at all.
Scale ==
    /\ scales < MaxScales /\ scales' = scales + 1
    /\ \E n \in 1..4 : Adds(n) \/ Removes(n)
    /\ UNCHANGED <<jobQueue, place, attempts, holds, revivals>>

PoolNext ==
    \/ \E j \in PoolJobs : SubmitJob(j) \/ Revive(j)
    \/ \E w \in Workers : Take(w) \/ Complete(w) \/ Fail(w)
    \/ HealthCheck \/ Scale

PoolSpec == PoolInit /\ [][PoolNext]_poolVars

\* The poll and health timers fire, and no job outlives its timeout.
PoolFairness ==
    /\ WF_poolVars(HealthCheck)
    /\ \A w \in Workers : WF_poolVars(Take(w)) /\ WF_poolVars(Complete(w) \/ Fail(w))

-----------------------------------------------------------------------------
(***************************************************************************)
(* Properties                                                              *)
(***************************************************************************)

PoolTypeOK ==
    /\ jobQueue \in Seq(PoolJobs)
    /\ place \in [PoolJobs -> {"nowhere", "queue", "active", "completed", "deadLetter"}]
    /\ attempts \in [PoolJobs -> 0..MaxAttempts]
    /\ pool \subseteq Workers
    /\ holds \in [Workers -> PoolJobs \cup {NoJob}]
    /\ revivals \in 0..MaxRevivals /\ scales \in 0..MaxScales

\* No job is lost or done twice at a time: what is queued is queued once, what
\* is active is with one worker, of the pool, and a dead letter had its attempts.
EveryJobHasItsPlace ==
    /\ \A i, k \in DOMAIN jobQueue : jobQueue[i] = jobQueue[k] => i = k
    /\ {jobQueue[i] : i \in DOMAIN jobQueue} = {j \in PoolJobs : place[j] = "queue"}
    /\ {holds[w] : w \in pool} \ {NoJob} = {j \in PoolJobs : place[j] = "active"}
    /\ \A v, w \in Workers : holds[v] = holds[w] /\ v # w => holds[v] = NoJob
    /\ \A j \in PoolJobs : /\ place[j] = "queue" => attempts[j] < MaxAttempts
                          /\ place[j] = "deadLetter" => attempts[j] = MaxAttempts

\* Jobs are completed or given up: when no more come none is left waiting or at
\* work, unless the operator has left the pool without a worker: then a health
\* check helps only when the queue is long.
JobsSettle ==
    []<>(pool = {} \/ \A j \in PoolJobs : place[j] \notin {"queue", "active"})
=============================================================================
