---------------------------- MODULE GenerationQueue ----------------------------
(***************************************************************************)
(* platform/queue/GenerationQueue: a table of jobs and the queue of those  *)
(* to run, called by requests that enqueue and cancel and by a worker that *)
(* dequeues, and completes or fails what it dequeued, once.  No call looks *)
(* at the status of a job but cancel.                                      *)
(***************************************************************************)
EXTENDS Naturals, Sequences

CONSTANTS
    GenJobs,     \* job ids
    GenPriority, \* their priorities, the lowest first
    GenRetries   \* maxRetries, 3 in the code

ASSUME GenConstantsOK == GenPriority \in [GenJobs -> Nat] /\ GenRetries \in Nat

VARIABLES
    genStatus,   \* jobs: the status of each, "none" before it is enqueued
    genRetried,  \* retryCount of each job
    genQueue,    \* queue
    genWork      \* the jobs dequeued and not answered yet

genVars == <<genStatus, genRetried, genQueue, genWork>>

GenInit ==
    /\ genStatus = [j \in GenJobs |-> "none"]
    /\ genRetried = [j \in GenJobs |-> 0]
    /\ genQueue = <<>> /\ genWork = {}

\* The jobs of s at the places f lists.
Picked(s, f) == [i \in DOMAIN f |-> s[f[i]]]

\* sort, as the order of the places of s: by priority, and stable, so that jobs
\* of one priority keep their order.
SortOf(s) ==
    {f \in [DOMAIN s -> DOMAIN s] :
        /\ \A n \in DOMAIN s : \E i \in DOMAIN s : f[i] = n
        /\ \A i, k \in DOMAIN s : i < k =>
              \/ GenPriority[s[f[i]]] < GenPriority[s[f[k]]]
              \/ GenPriority[s[f[i]]] = GenPriority[s[f[k]]] /\ f[i] < f[k]}

GenEnqueue(j) ==
    /\ genStatus[j] = "none"
    /\ genStatus' = [genStatus EXCEPT ![j] = "queued"]
    /\ LET s == Append(genQueue, j) IN \E f \in SortOf(s) : genQueue' = Picked(s, f)
    /\ UNCHANGED <<genRetried, genWork>>

GenDequeue ==
    /\ genQueue # <<>>
    /\ genQueue' = Tail(genQueue)
    /\ genStatus' = [genStatus EXCEPT ![Head(genQueue)] = "running"]
    /\ genWork' = genWork \cup {Head(genQueue)}
    /\ UNCHANGED genRetried

GenComplete(j) ==
    /\ j \in genWork /\ genWork' = genWork \ {j}
    /\ genStatus' = [genStatus EXCEPT ![j] = "completed"]
    /\ UNCHANGED <<genRetried, genQueue>>

\* Mutant: the job is queued again without its status.
GenRequeuedRunning(j) ==
    /\ genQueue' = Append(genQueue, j)
    /\ UNCHANGED genStatus
GenRequeued(j) ==
    /\ genQueue' = Append(genQueue, j)
    /\ genStatus' = [genStatus EXCEPT ![j] = "queued"]

\* A job with retries left is queued again, last and whatever its status was.
GenFail(j) ==
    /\ j \in genWork /\ genWork' = genWork \ {j}
    /\ IF genRetried[j] < GenRetries
       THEN /\ genRetried' = [genRetried EXCEPT ![j] = @ + 1]
            /\ GenRequeued(j)
       ELSE /\ genStatus' = [genStatus EXCEPT ![j] = "failed"]
            /\ UNCHANGED <<genRetried, genQueue>>

\* filter, as the places that stay, in their order.
Filter(stay) ==
    UNION {{f \in [1..n -> stay] :
              /\ \A i, k \in 1..n : i < k => f[i] < f[k]
              /\ \A m \in stay : \E i \in 1..n : f[i] = m} : n \in 0..Len(genQueue)}

GenCancel(j) ==
    /\ genStatus[j] \notin {"none", "completed", "failed"}
    /\ genStatus' = [genStatus EXCEPT ![j] = "cancelled"]
    /\ LET stay == {i \in DOMAIN genQueue : genQueue[i] # j} IN
       \E f \in Filter(stay) : genQueue' = Picked(genQueue, f)
    /\ UNCHANGED <<genRetried, genWork>>

GenNext == \/ GenDequeue
           \/ \E j \in GenJobs : GenEnqueue(j) \/ GenComplete(j) \/ GenFail(j) \/ GenCancel(j)

GenSpec == GenInit /\ [][GenNext]_genVars

-----------------------------------------------------------------------------
GenTypeOK ==
    /\ genStatus \in [GenJobs -> {"none", "queued", "running", "completed", "failed",
                              "cancelled"}]
    /\ genRetried \in [GenJobs -> 0..GenRetries]
    /\ genQueue \in Seq(GenJobs) /\ genWork \subseteq GenJobs

\* The queue is exactly the jobs said to be queued, each once, and none of them
\* is with the worker: also a job that was cancelled while it ran and whose
\* failure came later, which is queued again.
GenQueueIsExact ==
    /\ \A i, k \in DOMAIN genQueue : genQueue[i] = genQueue[k] => i = k
    /\ {genQueue[i] : i \in DOMAIN genQueue} = {j \in GenJobs : genStatus[j] = "queued"}
    /\ {genQueue[i] : i \in DOMAIN genQueue} \cap genWork = {}
=============================================================================
