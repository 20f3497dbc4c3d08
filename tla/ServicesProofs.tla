---------------------------- MODULE ServicesProofs ----------------------------
(***************************************************************************)
(* Proofs about the services that share no state, each for every value of  *)
(* its constants: the execution pool, the plans, the job engine, the       *)
(* generation queue, autonomous sessions and the planner, and about all of *)
(* them as MCServices composes them.                                       *)
(*                                                                         *)
(* What is said of a step of a session (StoppedStaysStopped, CheckpointsKept, *)
(* RestartLeavesNoneRunning) is proved for one process, any number of      *)
(* requests and any number of crashes: with two processes the code does not *)
(* keep it, as the write queue and the cache are of a process.             *)
(***************************************************************************)
EXTENDS MCServices, PipelineEngineProofs, FiniteSetTheorems, SequenceTheorems,
        WellFoundedInduction, TLAPS

-----------------------------------------------------------------------------
(***************************************************************************)
(* Queues: sequences without repetition, and what is done to them          *)
(***************************************************************************)

InQueue(q) == {q[i] : i \in DOMAIN q}
Distinct(q) == \A i, k \in DOMAIN q : q[i] = q[k] => i = k

\* An element is put behind the first n.
LEMMA Inserted ==
    ASSUME NEW S, NEW q \in Seq(S), NEW j \in S, NEW n \in 0..Len(q)
    PROVE  /\ InsertAfter(q, n, j) \in Seq(S)
           /\ Len(InsertAfter(q, n, j)) = Len(q) + 1
           /\ DOMAIN InsertAfter(q, n, j) = 1..(Len(q) + 1)
           /\ \A i \in 1..(Len(q) + 1) : InsertAfter(q, n, j)[i] =
                  IF i <= n THEN q[i] ELSE IF i = n + 1 THEN j ELSE q[i - 1]
<1> DEFINE r == InsertAfter(q, n, j)
           s == SubSeq(q, 1, n)
           u == SubSeq(q, n + 1, Len(q))
           m == s \o <<j>>
<1>1. /\ s \in Seq(S) /\ Len(s) = n
      /\ \A i \in 1..n : s[i] = q[i]
  BY SMT
<1>2. /\ u \in Seq(S) /\ Len(u) = Len(q) - n
      /\ \A i \in 1..(Len(q) - n) : u[i] = q[n + i]
  BY SMT
<1>3. r = m \o u
  BY DEF InsertAfter
<1> HIDE DEF s, u, r
<1>4. <<j>> \in Seq(S) /\ Len(<<j>>) = 1 /\ <<j>>[1] = j
  OBVIOUS
<1>5. /\ m \in Seq(S) /\ Len(m) = n + 1
      /\ \A i \in 1..(n + 1) : m[i] = IF i <= n THEN s[i] ELSE j
  BY <1>1, <1>4
<1> HIDE DEF m
<1>6. /\ m \o u \in Seq(S) /\ Len(m \o u) = Len(m) + Len(u)
      /\ \A i \in 1..(Len(m) + Len(u)) : (m \o u)[i] =
              IF i <= Len(m) THEN m[i] ELSE u[i - Len(m)]
  BY <1>2, <1>5, ConcatProperties
<1>7. Len(r) = Len(q) + 1 /\ Len(q) \in Nat
  BY <1>2, <1>3, <1>5, <1>6
<1>8. ASSUME NEW i \in 1..(Len(q) + 1)
      PROVE  r[i] = IF i <= n THEN q[i] ELSE IF i = n + 1 THEN j ELSE q[i - 1]
  <2>1. CASE i <= n + 1
    BY <1>1, <1>2, <1>3, <1>5, <1>6, <1>7, <2>1
  <2>2. CASE i > n + 1
    <3>1. r[i] = u[i - (n + 1)] /\ i - (n + 1) \in 1..(Len(q) - n)
      BY <1>2, <1>3, <1>5, <1>6, <1>7, <2>2
    <3> QED BY <1>2, <2>2, <3>1
  <2> QED BY <2>1, <2>2
<1>9. r \in Seq(S) /\ DOMAIN r = 1..(Len(q) + 1)
  BY <1>3, <1>6, <1>7
<1> QED BY <1>7, <1>8, <1>9 DEF r

InsertedIn(q, n, j, r) ==
    /\ DOMAIN r = 1..(Len(q) + 1)
    /\ \A i \in 1..(Len(q) + 1) : r[i] = IF i <= n THEN q[i]
                                        ELSE IF i = n + 1 THEN j ELSE q[i - 1]

LEMMA InsertedInIt ==
    ASSUME NEW S, NEW q \in Seq(S), NEW j \in S, NEW n \in 0..Len(q)
    PROVE  InsertedIn(q, n, j, InsertAfter(q, n, j))
BY Inserted DEF InsertedIn

\* A new element is in the queue once then, and nothing else changes.
LEMMA InsertionAddsOne ==
    ASSUME NEW S, NEW q \in Seq(S), Distinct(q), NEW j \in S, j \notin InQueue(q),
           NEW n \in 0..Len(q)
    PROVE  /\ InsertAfter(q, n, j) \in Seq(S)
           /\ Distinct(InsertAfter(q, n, j))
           /\ InQueue(InsertAfter(q, n, j)) = InQueue(q) \cup {j}
<1> DEFINE r == InsertAfter(q, n, j)
<1>1. /\ r \in Seq(S) /\ Len(r) = Len(q) + 1 /\ DOMAIN r = 1..Len(r)
      /\ \A i \in 1..Len(r) : r[i] = IF i <= n THEN q[i]
                                     ELSE IF i = n + 1 THEN j ELSE q[i - 1]
  BY Inserted
<1> HIDE DEF r
<1>2. DOMAIN q = 1..Len(q) /\ Len(q) \in Nat
  OBVIOUS
<1>3. Distinct(r)
  <2> SUFFICES ASSUME NEW i \in 1..Len(r), NEW k \in 1..Len(r), r[i] = r[k], i # k
               PROVE  FALSE
    BY <1>1 DEF Distinct
  <2> DEFINE at(x) == IF x <= n THEN x ELSE x - 1
  <2>1. ASSUME NEW x \in 1..Len(r), x # n + 1
        PROVE  at(x) \in DOMAIN q /\ r[x] = q[at(x)] /\ r[x] \in InQueue(q)
    <3>1. at(x) \in DOMAIN q /\ r[x] = q[at(x)]
      BY <1>1, <1>2, <2>1
    <3> QED BY <3>1 DEF InQueue
  <2>2. r[n + 1] = j
    BY <1>1, <1>2
  <2>3. CASE i = n + 1 \/ k = n + 1
    BY <2>1, <2>2, <2>3
  <2>4. CASE i # n + 1 /\ k # n + 1
    <3>1. at(i) = at(k)
      BY <2>1, <2>4 DEF Distinct
    <3> QED BY <1>1, <1>2, <2>4, <3>1
  <2> QED BY <2>3, <2>4
<1>4. InQueue(r) = InQueue(q) \cup {j}
  <2>1. ASSUME NEW i \in DOMAIN r PROVE r[i] \in InQueue(q) \cup {j}
    BY <1>1, <1>2 DEF InQueue
  <2>2. ASSUME NEW i \in DOMAIN q PROVE q[i] \in InQueue(r)
    <3>1. CASE i <= n
      <4>1. i \in DOMAIN r /\ r[i] = q[i]
        BY <1>1, <1>2, <3>1
      <4> QED BY <4>1 DEF InQueue
    <3>2. CASE i > n
      <4>1. i + 1 \in DOMAIN r /\ r[i + 1] = q[i]
        BY <1>1, <1>2, <3>2
      <4> QED BY <4>1 DEF InQueue
    <3> QED BY <1>2, <3>1, <3>2
  <2>3. j \in InQueue(r)
    <3>1. n + 1 \in DOMAIN r /\ r[n + 1] = j
      BY <1>1, <1>2
    <3> QED BY <3>1 DEF InQueue
  <2> QED BY <2>1, <2>2, <2>3 DEF InQueue
<1> QED BY <1>1, <1>3, <1>4 DEF r

LEMMA AppendAddsOne ==
    ASSUME NEW S, NEW q \in Seq(S), Distinct(q), NEW j \in S, j \notin InQueue(q)
    PROVE  /\ Append(q, j) \in Seq(S) /\ Distinct(Append(q, j))
           /\ InQueue(Append(q, j)) = InQueue(q) \cup {j}
<1> DEFINE r == Append(q, j)
<1>1. /\ r \in Seq(S) /\ Len(r) = Len(q) + 1 /\ Len(q) \in Nat
      /\ DOMAIN q = 1..Len(q) /\ DOMAIN r = 1..Len(r)
      /\ \A i \in 1..Len(r) : r[i] = IF i = Len(q) + 1 THEN j ELSE q[i]
  OBVIOUS
<1> HIDE DEF r
<1>2. Distinct(r)
  BY <1>1 DEF Distinct, InQueue
<1>3. InQueue(r) = InQueue(q) \cup {j}
  <2>1. ASSUME NEW i \in DOMAIN q PROVE q[i] \in InQueue(r)
    <3>1. i \in DOMAIN r /\ r[i] = q[i] BY <1>1
    <3> QED BY <3>1 DEF InQueue
  <2>2. j \in InQueue(r)
    <3>1. Len(r) \in DOMAIN r /\ r[Len(r)] = j BY <1>1
    <3> QED BY <3>1 DEF InQueue
  <2>3. ASSUME NEW i \in DOMAIN r PROVE r[i] \in InQueue(q) \cup {j}
    BY <1>1 DEF InQueue
  <2> QED BY <2>1, <2>2, <2>3 DEF InQueue
<1> QED BY <1>1, <1>2, <1>3 DEF r

\* The element at place n is taken out.
LEMMA Removed ==
    ASSUME NEW S, NEW q \in Seq(S), NEW n \in DOMAIN q
    PROVE  LET r == SubSeq(q, 1, n - 1) \o SubSeq(q, n + 1, Len(q)) IN
           /\ r \in Seq(S) /\ DOMAIN r = 1..(Len(q) - 1)
           /\ \A i \in 1..(Len(q) - 1) : r[i] = IF i < n THEN q[i] ELSE q[i + 1]
<1> DEFINE s == SubSeq(q, 1, n - 1)
           u == SubSeq(q, n + 1, Len(q))
           r == s \o u
<1>1. n \in 1..Len(q) /\ Len(q) \in Nat
  OBVIOUS
<1>2. /\ s \in Seq(S) /\ Len(s) = n - 1
      /\ \A i \in 1..(n - 1) : s[i] = q[i]
  BY <1>1, SMT
<1>3. /\ u \in Seq(S) /\ Len(u) = Len(q) - n
      /\ \A i \in 1..(Len(q) - n) : u[i] = q[n + i]
  BY <1>1, SMT
<1> HIDE DEF s, u
<1>4. /\ r \in Seq(S) /\ Len(r) = Len(s) + Len(u)
      /\ \A i \in 1..(Len(s) + Len(u)) : r[i] =
              IF i <= Len(s) THEN s[i] ELSE u[i - Len(s)]
  BY <1>2, <1>3, ConcatProperties
<1> HIDE DEF r
<1>5. DOMAIN r = 1..(Len(q) - 1)
  BY <1>1, <1>2, <1>3, <1>4
<1>6. ASSUME NEW i \in 1..(Len(q) - 1)
      PROVE  r[i] = IF i < n THEN q[i] ELSE q[i + 1]
  <2>1. CASE i < n
    BY <1>1, <1>2, <1>3, <1>4, <2>1
  <2>2. CASE i >= n
    <3>1. Len(s) = n - 1 /\ Len(s) + Len(u) = Len(q) - 1 /\ n \in Nat
      BY <1>1, <1>2, <1>3
    <3>2. ~(i <= n - 1) /\ i - (n - 1) = i - n + 1
      BY <2>2, <3>1
    <3>3. r[i] = IF i <= n - 1 THEN s[i] ELSE u[i - (n - 1)]
      BY <1>4, <3>1
    <3>4. r[i] = u[i - n + 1]
      BY <3>2, <3>3
    <3>5. i - n + 1 \in 1..(Len(q) - n) /\ n + (i - n + 1) = i + 1
      BY <1>1, <2>2
    <3> QED BY <1>3, <2>2, <3>4, <3>5
  <2> QED BY <1>1, <2>1, <2>2
<1> QED BY <1>4, <1>5, <1>6 DEF r, s, u

\* r is q without its place n: what was there was taken out, and it alone.
LEMMA RemovalTakesOne ==
    ASSUME NEW S, NEW q \in Seq(S), Distinct(q), NEW n \in DOMAIN q, NEW r,
           DOMAIN r = 1..(Len(q) - 1),
           \A i \in 1..(Len(q) - 1) : r[i] = IF i < n THEN q[i] ELSE q[i + 1]
    PROVE  Distinct(r) /\ InQueue(r) = InQueue(q) \ {q[n]}
<1>1. Len(q) \in Nat /\ DOMAIN q = 1..Len(q)
  OBVIOUS
<1> DEFINE at(i) == IF i < n THEN i ELSE i + 1
<1>2. ASSUME NEW i \in DOMAIN r
      PROVE  i \in Int /\ at(i) \in DOMAIN q /\ at(i) # n /\ r[i] = q[at(i)]
  BY <1>1
<1>3. Distinct(r)
  <2> SUFFICES ASSUME NEW i \in DOMAIN r, NEW k \in DOMAIN r, r[i] = r[k] PROVE i = k
    BY DEF Distinct
  <2>1. at(i) = at(k)
    BY <1>2 DEF Distinct
  <2> QED BY <1>1, <1>2, <2>1
<1>4. ASSUME NEW i \in DOMAIN r PROVE r[i] \in InQueue(q) \ {q[n]}
  <2>1. r[i] = q[at(i)] /\ at(i) \in DOMAIN q /\ at(i) # n
    BY <1>2
  <2> HIDE DEF at
  <2> QED BY <2>1 DEF Distinct, InQueue
<1>5. ASSUME NEW k \in DOMAIN q, k # n PROVE q[k] \in InQueue(r)
  <2> DEFINE i == IF k < n THEN k ELSE k - 1
  <2>1. i \in DOMAIN r /\ r[i] = q[k]
    BY <1>1, <1>5
  <2> QED BY <2>1 DEF InQueue
<1> QED BY <1>3, <1>4, <1>5 DEF InQueue

LEMMA TailTakesOne ==
    ASSUME NEW S, NEW q \in Seq(S), Distinct(q), q # <<>>
    PROVE  /\ Head(q) \in S /\ Head(q) \in InQueue(q)
           /\ Tail(q) \in Seq(S) /\ Distinct(Tail(q))
           /\ InQueue(Tail(q)) = InQueue(q) \ {Head(q)}
<1>1. /\ Len(q) \in Nat \ {0} /\ Head(q) = q[1] /\ DOMAIN q = 1..Len(q)
      /\ Tail(q) \in Seq(S) /\ Len(Tail(q)) = Len(q) - 1
      /\ DOMAIN Tail(q) = 1..(Len(q) - 1)
  OBVIOUS
<1>2. \A i \in 1..(Len(q) - 1) : Tail(q)[i] = q[i + 1]
  BY <1>1
<1>3. \A i \in 1..(Len(q) - 1) : Tail(q)[i] = IF i < 1 THEN q[i] ELSE q[i + 1]
  BY <1>1, <1>2
<1>4. 1 \in DOMAIN q
  BY <1>1
<1>5. Distinct(Tail(q)) /\ InQueue(Tail(q)) = InQueue(q) \ {q[1]}
  BY <1>1, <1>3, <1>4, RemovalTakesOne
<1>6. q[1] \in S /\ q[1] \in InQueue(q)
  BY <1>1, <1>4 DEF InQueue
<1>7. Tail(q) \in Seq(S) /\ Head(q) = q[1]
  BY <1>1
<1> QED BY <1>5, <1>6, <1>7

-----------------------------------------------------------------------------
(***************************************************************************)
(* The execution pool                                                      *)
(*                                                                         *)
(* Beside the property itself the invariant says that a worker outside the *)
(* pool holds no job: health checks and the operator take idle workers     *)
(* only.                                                                   *)
(***************************************************************************)

\* Who is active is with exactly one worker, of the pool.
AtWork ==
    /\ \A w \in Workers : holds[w] # NoJob => w \in pool /\ place[holds[w]] = "active"
    /\ \A j \in PoolJobs : place[j] = "active" => \E w \in pool : holds[w] = j
    /\ \A v, w \in Workers : holds[v] = holds[w] /\ v # w => holds[v] = NoJob

AttemptsFit ==
    \A j \in PoolJobs : /\ place[j] \in {"nowhere", "queue"} => attempts[j] < MaxAttempts
                        /\ place[j] = "deadLetter" => attempts[j] = MaxAttempts

PoolInv ==
    /\ PoolTypeOK
    /\ Distinct(jobQueue)
    /\ InQueue(jobQueue) = {j \in PoolJobs : place[j] = "queue"}
    /\ AtWork /\ AttemptsFit

-----------------------------------------------------------------------------
(***************************************************************************)
(* The queue                                                               *)
(***************************************************************************)

LEMMA PassedCount ==
    ASSUME PoolTypeOK, NEW j \in PoolJobs
    PROVE  Cardinality(Passed(j)) \in 0..Len(jobQueue)
<1> DEFINE n == Len(jobQueue)
<1>1. n \in Nat
  BY DEF PoolTypeOK
<1>2. IsFiniteSet(1..n) /\ Cardinality(1..n) = n
  BY <1>1, FS_Interval
<1>3. Passed(j) \subseteq 1..n
  BY DEF Passed
<1>4. Cardinality(Passed(j)) \in Nat /\ Cardinality(Passed(j)) <= Cardinality(1..n)
  BY <1>2, <1>3, FS_Subset, FS_CardinalityType
<1> QED BY <1>1, <1>2, <1>4

LEMMA QueuedAddsOne ==
    ASSUME PoolInv, NEW j \in PoolJobs, place[j] # "queue"
    PROVE  /\ Queued(j) \in Seq(PoolJobs) /\ Distinct(Queued(j))
           /\ InQueue(Queued(j)) = InQueue(jobQueue) \cup {j}
<1>1. jobQueue \in Seq(PoolJobs) /\ Distinct(jobQueue) /\ j \notin InQueue(jobQueue)
  BY DEF PoolInv, PoolTypeOK
<1> QED BY <1>1, PassedCount, InsertionAddsOne DEF PoolInv, Queued

-----------------------------------------------------------------------------
(***************************************************************************)
(* Steps                                                                   *)
(***************************************************************************)

LEMMA PoolInitRight == PoolInit => PoolInv
<1> SUFFICES ASSUME PoolInit PROVE PoolInv
  OBVIOUS
<1>1. pool \in SUBSET Workers
  BY PoolConstantsOK DEF PoolInit
<1>2. PoolTypeOK
  BY <1>1, PoolConstantsOK DEF PoolInit, PoolTypeOK
<1>3. Distinct(jobQueue) /\ InQueue(jobQueue) = {}
  BY DEF PoolInit, Distinct, InQueue
<1>4. AtWork /\ AttemptsFit
  BY PoolConstantsOK DEF PoolInit, AtWork, AttemptsFit
<1> QED BY <1>2, <1>3, <1>4 DEF PoolInit, PoolInv

LEMMA SubmitRight == ASSUME PoolInv, NEW j \in PoolJobs, SubmitJob(j) PROVE PoolInv'
<1>1. /\ jobQueue' \in Seq(PoolJobs) /\ Distinct(jobQueue')
      /\ InQueue(jobQueue') = InQueue(jobQueue) \cup {j}
  BY QueuedAddsOne DEF SubmitJob
<1>2. place' = [place EXCEPT ![j] = "queue"] /\ place[j] = "nowhere"
      /\ UNCHANGED <<attempts, pool, holds, revivals, scales>>
  BY DEF SubmitJob
<1>3. PoolTypeOK'
  BY <1>1, <1>2 DEF PoolInv, PoolTypeOK
<1>4. InQueue(jobQueue') = {k \in PoolJobs : place'[k] = "queue"}
  BY <1>1, <1>2 DEF PoolInv, PoolTypeOK
<1>5. AtWork' /\ AttemptsFit'
  BY <1>2, PoolConstantsOK DEF PoolInv, PoolTypeOK, AtWork, AttemptsFit
<1> QED BY <1>1, <1>3, <1>4, <1>5 DEF PoolInv, Distinct, InQueue

LEMMA ReviveRight == ASSUME PoolInv, NEW j \in PoolJobs, Revive(j) PROVE PoolInv'
<1>1. /\ jobQueue' \in Seq(PoolJobs) /\ Distinct(jobQueue')
      /\ InQueue(jobQueue') = InQueue(jobQueue) \cup {j}
  <2>1. jobQueue \in Seq(PoolJobs) /\ Distinct(jobQueue) /\ j \notin InQueue(jobQueue)
    BY DEF Revive, PoolInv, PoolTypeOK
  <2> QED BY <2>1, AppendAddsOne DEF Revive
<1>2. /\ place' = [place EXCEPT ![j] = "queue"] /\ place[j] = "deadLetter"
      /\ attempts' = [attempts EXCEPT ![j] = 0]
      /\ revivals < MaxRevivals /\ revivals' = revivals + 1
      /\ UNCHANGED <<pool, holds, scales>>
  BY DEF Revive, Revived
<1>3. PoolTypeOK'
  BY <1>1, <1>2, PoolConstantsOK DEF PoolInv, PoolTypeOK
<1>4. InQueue(jobQueue') = {k \in PoolJobs : place'[k] = "queue"}
  BY <1>1, <1>2 DEF PoolInv, PoolTypeOK
<1>5. AtWork' /\ AttemptsFit'
  BY <1>2, PoolConstantsOK DEF PoolInv, PoolTypeOK, AtWork, AttemptsFit
<1> QED BY <1>1, <1>3, <1>4, <1>5 DEF PoolInv, Distinct, InQueue

LEMMA TakeRight == ASSUME PoolInv, NEW w \in Workers, Take(w) PROVE PoolInv'
<1> DEFINE j == Head(jobQueue)
<1>1. /\ j \in PoolJobs /\ j \in InQueue(jobQueue)
      /\ jobQueue' \in Seq(PoolJobs) /\ Distinct(jobQueue')
      /\ InQueue(jobQueue') = InQueue(jobQueue) \ {j}
  BY TailTakesOne DEF Take, PoolInv, PoolTypeOK
<1>2. /\ place' = [place EXCEPT ![j] = "active"]
      /\ attempts' = [attempts EXCEPT ![j] = attempts[j] + 1]
      /\ holds' = [holds EXCEPT ![w] = j]
      /\ w \in pool /\ holds[w] = NoJob
      /\ UNCHANGED <<pool, revivals, scales>>
  BY DEF Take, Attempt, IdleWorkers
<1>3. place[j] = "queue"
  BY <1>1 DEF PoolInv
<1> HIDE DEF j
<1>4. attempts[j] + 1 \in 0..MaxAttempts
  BY <1>1, <1>3, PoolConstantsOK DEF PoolInv, PoolTypeOK, AttemptsFit
<1>5. PoolTypeOK'
  BY <1>1, <1>2, <1>4 DEF PoolInv, PoolTypeOK
<1>6. InQueue(jobQueue') = {k \in PoolJobs : place'[k] = "queue"}
  BY <1>1, <1>2 DEF PoolInv, PoolTypeOK
<1>7. AttemptsFit'
  BY <1>1, <1>2 DEF PoolInv, PoolTypeOK, AttemptsFit
<1>8. AtWork'
  BY <1>1, <1>2, <1>3, PoolConstantsOK DEF PoolInv, PoolTypeOK, AtWork
<1> QED BY <1>1, <1>5, <1>6, <1>7, <1>8 DEF PoolInv, Distinct, InQueue

\* A worker is done with its job, which goes to where to says.
LEMMA LeftRight ==
    ASSUME PoolInv, NEW w \in Workers, holds[w] # NoJob,
           NEW to \in {"completed", "queue", "deadLetter"},
           to = "queue" => attempts[holds[w]] < MaxAttempts,
           to = "deadLetter" => attempts[holds[w]] = MaxAttempts,
           place' = [place EXCEPT ![holds[w]] = to],
           holds' = [holds EXCEPT ![w] = NoJob],
           jobQueue' \in Seq(PoolJobs), Distinct(jobQueue'),
           InQueue(jobQueue') = IF to = "queue" THEN InQueue(jobQueue) \cup {holds[w]}
                                ELSE InQueue(jobQueue),
           UNCHANGED <<attempts, pool, revivals, scales>>
    PROVE  PoolInv'
<1> DEFINE j == holds[w]
<1>1. j \in PoolJobs /\ place[j] = "active"
  BY DEF PoolInv, PoolTypeOK, AtWork
<1>2. PoolTypeOK'
  BY <1>1 DEF PoolInv, PoolTypeOK
<1>3. InQueue(jobQueue') = {k \in PoolJobs : place'[k] = "queue"}
  BY <1>1 DEF PoolInv, PoolTypeOK
<1>4. AttemptsFit'
  BY <1>1 DEF PoolInv, PoolTypeOK, AttemptsFit
<1>5. AtWork'
  BY <1>1, PoolConstantsOK DEF PoolInv, PoolTypeOK, AtWork
<1> QED BY <1>2, <1>3, <1>4, <1>5 DEF PoolInv, Distinct, InQueue

LEMMA CompleteRight == ASSUME PoolInv, NEW w \in Workers, Complete(w) PROVE PoolInv'
<1>1. jobQueue' \in Seq(PoolJobs) /\ Distinct(jobQueue') /\ InQueue(jobQueue') = InQueue(jobQueue)
  BY DEF Complete, PoolInv, PoolTypeOK
<1> QED BY <1>1, LeftRight DEF Complete

LEMMA FailRight == ASSUME PoolInv, NEW w \in Workers, Fail(w) PROVE PoolInv'
<1> DEFINE j == holds[w]
<1>1. j \in PoolJobs /\ place[j] = "active" /\ attempts[j] \in 0..MaxAttempts /\ j # NoJob
  BY DEF Fail, PoolInv, PoolTypeOK, AtWork
<1>2. CASE /\ ~Exhausted(j) /\ place' = [place EXCEPT ![j] = "queue"]
           /\ jobQueue' = Queued(j)
  <2>1. /\ jobQueue' \in Seq(PoolJobs) /\ Distinct(jobQueue')
        /\ InQueue(jobQueue') = InQueue(jobQueue) \cup {j}
    BY <1>1, <1>2, QueuedAddsOne
  <2>2. attempts[j] < MaxAttempts
    BY <1>1, <1>2, PoolConstantsOK DEF Exhausted
  <2> QED BY <1>1, <1>2, <2>1, <2>2, LeftRight DEF Fail
<1>3. CASE /\ Exhausted(j) /\ place' = [place EXCEPT ![j] = "deadLetter"]
           /\ UNCHANGED jobQueue
  <2>1. jobQueue' \in Seq(PoolJobs) /\ Distinct(jobQueue') /\ InQueue(jobQueue') = InQueue(jobQueue)
    BY <1>3 DEF PoolInv, PoolTypeOK
  <2>2. attempts[j] = MaxAttempts
    BY <1>1, <1>3, PoolConstantsOK DEF Exhausted
  <2> QED BY <1>1, <1>3, <2>1, <2>2, LeftRight DEF Fail
<1> QED BY <1>2, <1>3 DEF Fail

LEMMA ScalingRight ==
    ASSUME PoolInv, NEW n, Adds(n) \/ Removes(n), scales' \in 0..MaxScales,
           UNCHANGED <<jobQueue, place, attempts, holds, revivals>>
    PROVE  PoolInv'
<1>1. pool' \subseteq Workers /\ \A w \in Workers : holds[w] # NoJob /\ w \in pool => w \in pool'
  BY DEF Adds, Removes, IdleWorkers, PoolInv, PoolTypeOK
<1>2. PoolTypeOK'
  BY <1>1 DEF PoolInv, PoolTypeOK
<1>3. AtWork'
  <2>1. \A j \in PoolJobs : place[j] = "active" => \E w \in pool' : holds[w] = j
    <3> SUFFICES ASSUME NEW j \in PoolJobs, place[j] = "active"
                 PROVE  \E w \in pool' : holds[w] = j
      OBVIOUS
    <3>1. PICK w \in pool : holds[w] = j
      BY DEF PoolInv, AtWork
    <3> QED BY <1>1, <3>1, PoolConstantsOK DEF PoolInv, PoolTypeOK
  <2> QED BY <1>1, <2>1 DEF PoolInv, AtWork
<1> QED BY <1>2, <1>3 DEF PoolInv, AttemptsFit, Distinct, InQueue

LEMMA HealthCheckRight == PoolInv /\ HealthCheck => PoolInv'
<1> SUFFICES ASSUME PoolInv, HealthCheck PROVE PoolInv'
  OBVIOUS
<1>1. PICK n : Adds(n) \/ Removes(n)
  BY DEF HealthCheck
<1> QED BY <1>1, ScalingRight DEF HealthCheck, PoolInv, PoolTypeOK

LEMMA ScaleRight == PoolInv /\ Scale => PoolInv'
<1> SUFFICES ASSUME PoolInv, Scale PROVE PoolInv'
  OBVIOUS
<1>1. PICK n \in 1..4 : Adds(n) \/ Removes(n)
  BY DEF Scale
<1>2. scales' \in 0..MaxScales
  BY PoolConstantsOK DEF Scale, PoolInv, PoolTypeOK
<1> QED BY <1>1, <1>2, ScalingRight DEF Scale

LEMMA PoolInvKept == PoolInv /\ [PoolNext]_poolVars => PoolInv'
<1> SUFFICES ASSUME PoolInv, [PoolNext]_poolVars PROVE PoolInv'
  OBVIOUS
<1>1. CASE \E j \in PoolJobs : SubmitJob(j) \/ Revive(j)
  BY <1>1, SubmitRight, ReviveRight
<1>2. CASE \E w \in Workers : Take(w) \/ Complete(w) \/ Fail(w)
  BY <1>2, TakeRight, CompleteRight, FailRight
<1>3. CASE HealthCheck \/ Scale
  BY <1>3, HealthCheckRight, ScaleRight
<1>4. CASE UNCHANGED poolVars
  BY <1>4 DEF poolVars, PoolInv, PoolTypeOK, AtWork, AttemptsFit, Distinct, InQueue
<1> QED BY <1>1, <1>2, <1>3, <1>4 DEF PoolNext

-----------------------------------------------------------------------------
(***************************************************************************)
(* Theorems                                                                *)
(***************************************************************************)

\* PoolInv is an invariant of the specification.
THEOREM PoolInvHolds == PoolSpec => []PoolInv
<1> QED BY PoolInitRight, PoolInvKept, PTL DEF PoolSpec

\* The queue and the maps of the coordinator are well formed, and no job is tried
\* more often than it may.
THEOREM PoolTypeCorrect == PoolSpec => []PoolTypeOK
<1>1. PoolInv => PoolTypeOK
  BY DEF PoolInv
<1> QED BY <1>1, PoolInvHolds, PTL

\* ExecutionCoordinator: through submissions, polls, failures, timeouts, revivals
\* and scaling, no job is lost and none is in two places.
THEOREM JobsKeepTheirPlace == PoolSpec => []EveryJobHasItsPlace
<1>1. PoolInv => EveryJobHasItsPlace
  <2> SUFFICES ASSUME PoolInv PROVE EveryJobHasItsPlace
    OBVIOUS
  <2>1. {holds[w] : w \in pool} \ {NoJob} = {j \in PoolJobs : place[j] = "active"}
    BY PoolConstantsOK DEF PoolInv, PoolTypeOK, AtWork
  <2>2. \A i, k \in DOMAIN jobQueue : jobQueue[i] = jobQueue[k] => i = k
    BY DEF PoolInv, Distinct
  <2>3. {jobQueue[i] : i \in DOMAIN jobQueue} = {j \in PoolJobs : place[j] = "queue"}
    BY DEF PoolInv, InQueue
  <2> QED BY <2>1, <2>2, <2>3 DEF PoolInv, AtWork, AttemptsFit, EveryJobHasItsPlace
<1> QED BY <1>1, PoolInvHolds, PTL

-----------------------------------------------------------------------------
(***************************************************************************)
(* Plans                                                                   *)
(*                                                                         *)
(* That a skipped dependency counts as satisfied does no harm because all  *)
(* that is pending is skipped at once: once a task is skipped none is      *)
(* pending (SkippedAtOnce), so that what a round finds ready builds on     *)
(* tasks that are done.                                                    *)
(***************************************************************************)

DoneWasMade == \A t \in Tasks : status[t] = "done" => t \in made
SkippedAtOnce ==
    \A t, u \in Tasks : status[t] = "skipped" => status[u] # "pending"
\* What an execution has listed for its round can be started whenever its turn
\* comes.
ListsAreMade ==
    \A x \in Executions : \A t \in execution[x].list : dependencies[t] \subseteq made
\* An agent works on a task.
AtATask == \A x \in Executions : execution[x].at = "agent" => execution[x].task \in Tasks

PlanInv ==
    /\ PlanTypeOK /\ AtATask
    /\ DoneWasMade /\ SkippedAtOnce /\ ListsAreMade /\ PlanInOrder

-----------------------------------------------------------------------------
(***************************************************************************)
(* The initial state, and the operators of the steps                       *)
(***************************************************************************)

\* Nothing was started: the invariant holds.
LEMMA PlanInitInv == PlanInit => PlanInv
<1> SUFFICES ASSUME PlanInit PROVE PlanInv
  OBVIOUS
<1>1. Unasked \in PlanRun
  BY DEF Unasked, PlanRun, NodeMaxAttempts
<1>2. PlanTypeOK
  BY <1>1 DEF PlanInit, PlanTypeOK, TaskStatus, Tasks
<1>3. AtATask /\ ListsAreMade
  BY DEF PlanInit, AtATask, ListsAreMade, Unasked
<1>4. DoneWasMade /\ SkippedAtOnce /\ PlanInOrder
  BY DEF PlanInit, DoneWasMade, SkippedAtOnce, PlanInOrder, Tasks
<1> QED
  BY <1>2, <1>3, <1>4 DEF PlanInv

\* The limit of attempts is the ceiling at most.
LEMMA BoundedAttempts ==
    ASSUME NEW r \in RetryRequests PROVE BoundAttempts(r) \in 1..NodeMaxAttempts
BY PlanConstantsOK DEF BoundAttempts, NodeMaxAttempts

\* When the invariant holds, what is ready builds on tasks that were done.
LEMMA ReadyIsMade ==
    ASSUME PlanInv, NEW t \in ReadyTasks
    PROVE  t \in Tasks /\ dependencies[t] \subseteq made
BY DEF PlanInv, DoneWasMade, SkippedAtOnce, ReadyTasks, Satisfied, PlanTypeOK, TaskStatus

-----------------------------------------------------------------------------
(***************************************************************************)
(* The steps                                                               *)
(***************************************************************************)

LEMMA ExecuteInv ==
    ASSUME PlanInv, NEW x \in Executions, NEW s \in {"yes", "no"}, NEW r \in RetryRequests,
           Execute(x, s, r)
    PROVE  PlanInv'
<1> DEFINE asked == [at |-> "between", stopOnFailure |-> s, limit |-> BoundAttempts(r),
                     attempts |-> 0, list |-> {}, task |-> NoTask]
<1>1. asked \in PlanRun /\ asked.at = "between" /\ asked.list = {}
  BY BoundedAttempts DEF PlanRun, NodeMaxAttempts
<1>2. execution' = [execution EXCEPT ![x] = asked]
  BY DEF Execute
<1> HIDE DEF asked
<1>3. PlanTypeOK'
  <2>1. execution' \in [Executions -> PlanRun]
    BY <1>1, <1>2 DEF PlanInv, PlanTypeOK
  <2>2. PlanRun' = PlanRun
    BY DEF Execute, PlanRun, Tasks
  <2> QED
    BY <2>1, <2>2 DEF Execute, PlanInv, PlanTypeOK, Tasks
<1>4. AtATask' /\ ListsAreMade'
  BY <1>1, <1>2 DEF Execute, PlanInv, PlanTypeOK, AtATask, ListsAreMade, Tasks
<1>5. DoneWasMade' /\ SkippedAtOnce' /\ PlanInOrder'
  BY DEF Execute, PlanInv, DoneWasMade, SkippedAtOnce, PlanInOrder, Tasks
<1> QED
  BY <1>3, <1>4, <1>5 DEF PlanInv

\* The first task of a list of startable tasks is started.
LEMMA StartInv ==
    ASSUME PlanInv, NEW x \in Executions, NEW list,
           \A t \in list : t \in Tasks /\ dependencies[t] \subseteq made,
           StartFirst(x, list)
    PROVE  PlanInv'
<1>1. PICK t \in list :
        /\ status' = [status EXCEPT ![t] = "running"]
        /\ execution' = [execution EXCEPT ![x] =
                [@ EXCEPT !.at = "agent", !.attempts = 0, !.task = t, !.list = list \ {t}]]
        /\ reached' = reached \cup {t}
  BY DEF StartFirst
<1>2. UNCHANGED <<dependencies, made, overtaken, cut>>
  BY DEF StartFirst
<1>3. PlanTypeOK'
  <2>1. execution' \in [Executions -> PlanRun]
    <3> DEFINE started == [execution[x] EXCEPT !.at = "agent", !.attempts = 0,
                                               !.task = t, !.list = list \ {t}]
    <3>1. execution[x] \in PlanRun /\ t \in Tasks /\ list \ {t} \subseteq Tasks
      BY DEF PlanInv, PlanTypeOK
    <3>2. started \in PlanRun
      <4>1. 0 \in 0..(NodeMaxAttempts - 1)
        BY DEF NodeMaxAttempts
      <4> QED
        BY <3>1, <4>1 DEF PlanRun
    <3>3. execution' = [execution EXCEPT ![x] = started]
      BY <1>1
    <3> QED
      BY <3>2, <3>3 DEF PlanInv, PlanTypeOK
  <2>2. status' \in [Tasks -> TaskStatus]
    BY <1>1 DEF PlanInv, PlanTypeOK, TaskStatus
  <2> QED
    BY <1>1, <1>2, <2>1, <2>2 DEF PlanInv, PlanTypeOK, Tasks, PlanRun
<1>4. AtATask' /\ ListsAreMade'
  BY <1>1, <1>2 DEF PlanInv, PlanTypeOK, AtATask, ListsAreMade, Tasks, PlanRun
<1>5. DoneWasMade' /\ SkippedAtOnce'
  BY <1>1, <1>2 DEF PlanInv, PlanTypeOK, DoneWasMade, SkippedAtOnce, Tasks
<1>6. PlanInOrder'
  BY <1>1, <1>2 DEF PlanInv, PlanInOrder
<1> QED
  BY <1>3, <1>4, <1>5, <1>6 DEF PlanInv

\* An execution ends and what is pending is skipped.
LEMMA EndInv ==
    ASSUME PlanInv, NEW x \in Executions, Ends(x), cut' \in BOOLEAN
    PROVE  PlanInv'
<1>1. status' = [t \in Tasks |-> IF t \in Blocked THEN "skipped" ELSE status[t]]
  BY DEF Ends
<1>2. execution' = [execution EXCEPT ![x].at = "over", ![x].list = {}]
  BY DEF Ends
<1>3. UNCHANGED <<dependencies, reached, made, overtaken>>
  BY DEF Ends
<1>4. PlanTypeOK'
  <2>1. execution' \in [Executions -> PlanRun]
    BY <1>2 DEF PlanInv, PlanTypeOK, PlanRun
  <2>2. PlanRun' = PlanRun
    BY <1>3 DEF PlanRun, Tasks
  <2>3. status' \in [Tasks -> TaskStatus]
    BY <1>1 DEF PlanInv, PlanTypeOK, TaskStatus
  <2> QED
    BY <1>3, <2>1, <2>2, <2>3 DEF PlanInv, PlanTypeOK, Tasks
<1>5. AtATask' /\ ListsAreMade'
  BY <1>2, <1>3 DEF PlanInv, PlanTypeOK, PlanRun, AtATask, ListsAreMade, Tasks
<1>6. DoneWasMade' /\ SkippedAtOnce' /\ PlanInOrder'
  BY <1>1, <1>3 DEF PlanInv, PlanTypeOK, DoneWasMade, SkippedAtOnce, PlanInOrder,
                    Blocked, Tasks
<1> QED
  BY <1>4, <1>5, <1>6 DEF PlanInv

LEMMA AnswerInv ==
    ASSUME PlanInv, NEW x \in Executions, AgentAnswers(x)
    PROVE  PlanInv'
<1>1. execution[x].task \in Tasks
  BY DEF AgentAnswers, PlanInv, AtATask
<1>2. PlanTypeOK'
  BY <1>1 DEF AgentAnswers, PlanInv, PlanTypeOK, PlanRun, Tasks, TaskStatus
<1>3. AtATask' /\ ListsAreMade'
  BY DEF AgentAnswers, PlanInv, PlanTypeOK, PlanRun, AtATask, ListsAreMade, Tasks
<1>4. DoneWasMade' /\ SkippedAtOnce' /\ PlanInOrder'
  BY <1>1 DEF AgentAnswers, PlanInv, PlanTypeOK, DoneWasMade, SkippedAtOnce, PlanInOrder,
              Tasks
<1> QED
  BY <1>2, <1>3, <1>4 DEF PlanInv

LEMMA FailureInv ==
    ASSUME PlanInv, NEW x \in Executions, AttemptFails(x)
    PROVE  PlanInv'
<1>1. execution[x].task \in Tasks
  BY DEF AttemptFails, PlanInv, AtATask
<1>2. execution' \in [Executions -> PlanRun]
  BY DEF AttemptFails, PlanInv, PlanTypeOK, PlanRun, NodeMaxAttempts
<1>3. PlanTypeOK'
  BY <1>1, <1>2 DEF AttemptFails, PlanInv, PlanTypeOK, PlanRun, Tasks, TaskStatus
<1>4. AtATask' /\ ListsAreMade'
  BY DEF AttemptFails, PlanInv, PlanTypeOK, PlanRun, AtATask, ListsAreMade, Tasks
<1>5. DoneWasMade' /\ SkippedAtOnce' /\ PlanInOrder'
  BY <1>1 DEF AttemptFails, PlanInv, PlanTypeOK, DoneWasMade, SkippedAtOnce, PlanInOrder,
              Tasks
<1> QED
  BY <1>3, <1>4, <1>5 DEF PlanInv

\* Every step of every execution keeps the invariant.
LEMMA PlanNextInv == PlanInv /\ [PlanNext]_planVars => PlanInv'
<1> SUFFICES ASSUME PlanInv, [PlanNext]_planVars PROVE PlanInv'
  OBVIOUS
<1>1. ASSUME NEW x \in Executions, NEW s \in {"yes", "no"}, NEW r \in RetryRequests,
             Execute(x, s, r)
      PROVE  PlanInv'
  BY <1>1, ExecuteInv
<1>2. ASSUME NEW x \in Executions, NextTask(x) PROVE PlanInv'
  <2>1. \A t \in execution[x].list : t \in Tasks /\ dependencies[t] \subseteq made
    BY <1>2 DEF PlanInv, PlanTypeOK, PlanRun, ListsAreMade
  <2> QED
    BY <1>2, <2>1, StartInv DEF NextTask
<1>3. ASSUME NEW x \in Executions, NextRound(x) PROVE PlanInv'
  BY <1>3, ReadyIsMade, StartInv DEF NextRound
<1>4. ASSUME NEW x \in Executions, FinishPlan(x) PROVE PlanInv'
  <2>1. cut' \in BOOLEAN
    BY <1>4 DEF FinishPlan, PlanInv, PlanTypeOK
  <2> QED
    BY <1>4, <2>1, EndInv DEF FinishPlan
<1>5. ASSUME NEW x \in Executions, StopAtFailure(x) PROVE PlanInv'
  BY <1>5, EndInv DEF StopAtFailure
<1>6. ASSUME NEW x \in Executions, AgentAnswers(x) PROVE PlanInv'
  BY <1>6, AnswerInv
<1>7. ASSUME NEW x \in Executions, AttemptFails(x) PROVE PlanInv'
  BY <1>7, FailureInv
<1>8. CASE UNCHANGED planVars
  BY <1>8 DEF planVars, PlanInv, PlanTypeOK, AtATask, DoneWasMade, SkippedAtOnce,
              ListsAreMade, PlanInOrder, Tasks, PlanRun
<1> QED
  BY <1>1, <1>2, <1>3, <1>4, <1>5, <1>6, <1>7, <1>8 DEF PlanNext, PlanStep

-----------------------------------------------------------------------------
\* Every variable has its type, whatever the plans and however many executions.
THEOREM PlanTypeCorrect == PlanSpec => []PlanTypeOK
<1>1. PlanInv => PlanTypeOK
  BY DEF PlanInv
<1> QED
  BY <1>1, PlanInitInv, PlanNextInv, PTL DEF PlanSpec

\* What an end of an execution leaves behind.  A task that runs is with an
\* execution (RunningIsAtWork); after an end nothing is pending (NoneLeft).  As
\* long as no execution was overtaken only one is under way, the tasks it has
\* listed are pending, and the one it works on is running (OneAtATime), so that
\* a failure or a skip stands.
RunningIsAtWork ==
    \A t \in Tasks : status[t] = "running" =>
        \E x \in Executions : execution[x].at = "agent" /\ execution[x].task = t
NoneLeft ==
    (\E x \in Executions : execution[x].at = "over") => \A t \in Tasks : status[t] # "pending"
OneAtATime ==
    ~overtaken =>
        /\ \A x, y \in Executions : UnderWay(x) /\ UnderWay(y) => x = y
        /\ \A x \in Executions : \A t \in execution[x].list :
              UnderWay(x) /\ status[t] = "pending"
        /\ \A x \in Executions :
              execution[x].at = "agent" => status[execution[x].task] = "running"
SkippedBehindFailure ==
    ~overtaken /\ ~cut =>
        \A t \in Tasks : status[t] = "skipped" =>
            \E d \in dependencies[t] : status[d] \in {"failed", "skipped"}

AccountInv == PlanInv /\ RunningIsAtWork /\ NoneLeft /\ OneAtATime /\ SkippedBehindFailure

LEMMA AccountInit == PlanInit => AccountInv
<1> SUFFICES ASSUME PlanInit PROVE AccountInv
  OBVIOUS
<1>1. PlanInv
  BY PlanInitInv
<1>2. RunningIsAtWork /\ NoneLeft /\ OneAtATime /\ SkippedBehindFailure
  BY DEF PlanInit, Unasked, UnderWay, RunningIsAtWork, NoneLeft, OneAtATime,
         SkippedBehindFailure
<1> QED BY <1>1, <1>2 DEF AccountInv

\* What a task depends on are tasks.
LEMMA DependenciesAreTasks ==
    ASSUME PlanInv, NEW t \in Tasks, NEW d \in dependencies[t] PROVE d \in Tasks
BY PlanConstantsOK DEF PlanInv, PlanTypeOK, Tasks

LEMMA ExecuteAccounts ==
    ASSUME AccountInv, NEW x \in Executions, NEW s \in {"yes", "no"}, NEW r \in RetryRequests,
           Execute(x, s, r)
    PROVE  RunningIsAtWork' /\ NoneLeft' /\ OneAtATime' /\ SkippedBehindFailure'
<1> DEFINE asked == [at |-> "between", stopOnFailure |-> s, limit |-> BoundAttempts(r),
                     attempts |-> 0, list |-> {}, task |-> NoTask]
<1>1. /\ execution[x].at = "idle" /\ execution' = [execution EXCEPT ![x] = asked]
      /\ overtaken' = (overtaken \/ \E y \in Executions : UnderWay(y))
      /\ UNCHANGED <<dependencies, status, reached, made, cut>>
  BY DEF Execute
<1>2. asked.at = "between" /\ asked.list = {}
  OBVIOUS
<1> HIDE DEF asked
<1>3. \A y \in Executions : execution'[y] = IF y = x THEN asked ELSE execution[y]
  BY <1>1 DEF AccountInv, PlanInv, PlanTypeOK
<1>4. RunningIsAtWork'
  <2> SUFFICES ASSUME NEW t \in Tasks, status[t] = "running"
               PROVE  \E y \in Executions : execution'[y].at = "agent" /\ execution'[y].task = t
    BY <1>1 DEF RunningIsAtWork, Tasks
  <2>1. PICK y \in Executions : execution[y].at = "agent" /\ execution[y].task = t
    BY DEF AccountInv, RunningIsAtWork
  <2> QED BY <1>1, <1>3, <2>1
<1>5. NoneLeft' /\ SkippedBehindFailure'
  <2>1. \A y \in Executions : execution'[y].at = "over" => execution[y].at = "over"
    BY <1>2, <1>3
  <2>2. ~overtaken' => ~overtaken
    BY <1>1
  <2> QED BY <1>1, <2>1, <2>2 DEF AccountInv, NoneLeft, SkippedBehindFailure, Tasks
<1>6. OneAtATime'
  <2> SUFFICES ASSUME ~overtaken' PROVE OneAtATime'
    BY DEF OneAtATime
  <2>1. ~overtaken /\ \A y \in Executions : ~UnderWay(y)
    BY <1>1
  <2>2. \A y \in Executions : execution[y].list = {} /\ execution[y].at # "agent"
    BY <2>1 DEF AccountInv, OneAtATime, UnderWay
  <2>3. \A y \in Executions : execution'[y].list = {} /\ execution'[y].at # "agent"
    BY <1>2, <1>3, <2>2
  <2>4. \A y \in Executions : UnderWay(y)' => y = x
    BY <1>3, <2>1 DEF UnderWay
  <2> QED BY <2>3, <2>4 DEF OneAtATime
<1> QED BY <1>4, <1>5, <1>6

LEMMA StartAccounts ==
    ASSUME AccountInv, NEW x \in Executions, execution[x].at = "between", NEW list,
           list \subseteq Tasks,
           ~overtaken => \A t \in list : status[t] = "pending",
           StartFirst(x, list)
    PROVE  RunningIsAtWork' /\ NoneLeft' /\ OneAtATime' /\ SkippedBehindFailure'
<1>1. PICK t \in list :
        /\ status' = [status EXCEPT ![t] = "running"]
        /\ execution' = [execution EXCEPT ![x] =
                [@ EXCEPT !.at = "agent", !.attempts = 0, !.task = t, !.list = list \ {t}]]
        /\ reached' = reached \cup {t}
  BY DEF StartFirst
<1> DEFINE started == [execution[x] EXCEPT !.at = "agent", !.attempts = 0, !.task = t,
                                           !.list = list \ {t}]
<1>2. started.at = "agent" /\ started.task = t /\ started.list = list \ {t}
  BY DEF AccountInv, PlanInv, PlanTypeOK, PlanRun
<1>3. execution' = [execution EXCEPT ![x] = started]
  BY <1>1
<1> HIDE DEF started
<1>4. /\ \A y \in Executions : execution'[y] = IF y = x THEN started ELSE execution[y]
      /\ \A u \in Tasks : status'[u] = IF u = t THEN "running" ELSE status[u]
      /\ UNCHANGED <<dependencies, made, overtaken, cut>> /\ t \in Tasks
  BY <1>1, <1>3 DEF AccountInv, PlanInv, PlanTypeOK, StartFirst
<1>5. RunningIsAtWork'
  BY <1>2, <1>4 DEF AccountInv, RunningIsAtWork, Tasks
<1>6. NoneLeft'
  BY <1>2, <1>4 DEF AccountInv, NoneLeft, Tasks
<1>7. OneAtATime'
  <2> SUFFICES ASSUME ~overtaken'
               PROVE  /\ \A y, z \in Executions : UnderWay(y)' /\ UnderWay(z)' => y = z
                      /\ \A y \in Executions : \A u \in execution'[y].list :
                            UnderWay(y)' /\ status'[u] = "pending"
                      /\ \A y \in Executions :
                            execution'[y].at = "agent" => status'[execution'[y].task] = "running"
    BY DEF OneAtATime
  <2>1. \A y, z \in Executions : UnderWay(y) /\ UnderWay(z) => y = z
    BY <1>4 DEF AccountInv, OneAtATime
  <2>2. UnderWay(x) /\ \A y \in Executions : UnderWay(y)' => UnderWay(y)
    BY <1>4 DEF UnderWay
  <2>3. ASSUME NEW y \in Executions, NEW u \in execution'[y].list
        PROVE  UnderWay(y)' /\ status'[u] = "pending"
    <3>1. CASE y = x
      BY <1>2, <1>4, <2>3, <3>1 DEF UnderWay
    <3>2. CASE y # x
      <4>1. u \in execution[y].list
        BY <1>4, <2>3, <3>2
      <4>2. UnderWay(y)
        BY <1>4, <4>1 DEF AccountInv, OneAtATime
      <4> QED BY <2>1, <2>2, <3>2, <4>2
    <3> QED BY <3>1, <3>2
  <2>4. ASSUME NEW y \in Executions, execution'[y].at = "agent"
        PROVE  status'[execution'[y].task] = "running"
    <3>1. UnderWay(y)
      BY <2>2, <2>4 DEF UnderWay
    <3>2. y = x
      BY <2>1, <2>2, <3>1
    <3> QED BY <1>2, <1>4, <3>2
  <2> QED BY <2>1, <2>2, <2>3, <2>4
<1>8. SkippedBehindFailure'
  BY <1>2, <1>4, DependenciesAreTasks DEF AccountInv, SkippedBehindFailure, Tasks
<1> QED BY <1>5, <1>6, <1>7, <1>8

LEMMA EndAccounts ==
    ASSUME AccountInv, NEW x \in Executions, execution[x].at = "between", Ends(x),
           (cut' = cut /\ ReadyTasks = {}) \/ cut' = TRUE
    PROVE  RunningIsAtWork' /\ NoneLeft' /\ OneAtATime' /\ SkippedBehindFailure'
<1>1. \A t \in Tasks : status'[t] = IF status[t] = "pending" THEN "skipped" ELSE status[t]
  BY DEF Ends, Blocked
<1>2. /\ \A y \in Executions : /\ y # x => execution'[y] = execution[y]
                               /\ execution'[y].task = execution[y].task
      /\ execution'[x].at = "over" /\ execution'[x].list = {}
      /\ UNCHANGED <<dependencies, reached, made, overtaken>>
  BY DEF Ends, AccountInv, PlanInv, PlanTypeOK, PlanRun
<1>3. RunningIsAtWork'
  <2> SUFFICES ASSUME NEW t \in Tasks, status'[t] = "running"
               PROVE  \E y \in Executions : execution'[y].at = "agent" /\ execution'[y].task = t
    BY <1>2 DEF RunningIsAtWork, Tasks
  <2>1. PICK y \in Executions : execution[y].at = "agent" /\ execution[y].task = t
    BY <1>1 DEF AccountInv, RunningIsAtWork
  <2> QED BY <1>2, <2>1
<1>4. NoneLeft'
  BY <1>1, <1>2 DEF NoneLeft, Tasks
<1>5. OneAtATime'
  <2> SUFFICES ASSUME ~overtaken' PROVE OneAtATime'
    BY DEF OneAtATime
  <2>1. \A y \in Executions : UnderWay(y) => y = x
    BY <1>2 DEF AccountInv, OneAtATime, UnderWay
  <2>2. \A y \in Executions : ~UnderWay(y)' /\ execution'[y].list = {}
    <3> TAKE y \in Executions
    <3>1. CASE y = x
      BY <1>2, <3>1 DEF UnderWay
    <3>2. CASE y # x
      BY <1>2, <2>1, <3>2 DEF AccountInv, OneAtATime, UnderWay
    <3> QED BY <3>1, <3>2
  <2> QED BY <2>2 DEF OneAtATime, UnderWay
<1>6. SkippedBehindFailure'
  <2> SUFFICES ASSUME ~overtaken', ~cut', NEW t \in Tasks, status'[t] = "skipped"
               PROVE  \E d \in dependencies[t] : status'[d] \in {"failed", "skipped"}
    BY <1>2 DEF SkippedBehindFailure, Tasks
  <2>1. ~overtaken /\ ~cut /\ ReadyTasks = {}
    BY <1>2
  <2>2. ASSUME NEW d \in dependencies[t], status[d] \in {"pending", "failed", "skipped"}
        PROVE  status'[d] \in {"failed", "skipped"}
    BY <1>1, <2>2, DependenciesAreTasks DEF AccountInv
  <2>3. CASE status[t] = "pending"
    <3>1. PICK d \in dependencies[t] : d \in Tasks => status[d] \notin {"done", "skipped"}
      BY <2>1, <2>3 DEF ReadyTasks, Satisfied
    <3>2. d \in Tasks
      BY DependenciesAreTasks DEF AccountInv
    <3>3. status[d] # "running"
      <4> SUFFICES ASSUME NEW y \in Executions, execution[y].at = "agent" PROVE FALSE
        BY <3>2 DEF AccountInv, RunningIsAtWork
      <4> QED BY <2>1 DEF AccountInv, OneAtATime, UnderWay
    <3>4. status[d] \in {"pending", "failed"}
      BY <3>1, <3>2, <3>3 DEF AccountInv, PlanInv, PlanTypeOK, TaskStatus
    <3> QED BY <2>2, <3>4
  <2>4. CASE status[t] # "pending"
    <3>1. PICK d \in dependencies[t] : status[d] \in {"failed", "skipped"}
      BY <1>1, <2>1, <2>4 DEF AccountInv, SkippedBehindFailure
    <3> QED BY <2>2, <3>1
  <2> QED BY <2>3, <2>4
<1> QED BY <1>3, <1>4, <1>5, <1>6

\* The task of x is done or has failed.
LEMMA AttemptAccounts ==
    ASSUME AccountInv, NEW x \in Executions, execution[x].at = "agent",
           NEW s \in {"done", "failed"},
           status' = [status EXCEPT ![execution[x].task] = s],
           execution' = [execution EXCEPT ![x].at = "between"],
           UNCHANGED <<dependencies, overtaken, cut>>
    PROVE  RunningIsAtWork' /\ NoneLeft' /\ OneAtATime' /\ SkippedBehindFailure'
<1> DEFINE u == execution[x].task
<1>1. u \in Tasks /\ \A t \in Tasks : status'[t] = IF t = u THEN s ELSE status[t]
  BY DEF AccountInv, PlanInv, PlanTypeOK, AtATask
<1>2. /\ \A y \in Executions : /\ y # x => execution'[y] = execution[y]
                               /\ execution'[y].task = execution[y].task
                               /\ execution'[y].list = execution[y].list
                               /\ UnderWay(y)' <=> UnderWay(y)
      /\ execution'[x].at = "between"
  BY DEF AccountInv, PlanInv, PlanTypeOK, PlanRun, UnderWay
<1>3. RunningIsAtWork'
  <2> SUFFICES ASSUME NEW t \in Tasks, status'[t] = "running"
               PROVE  \E y \in Executions : execution'[y].at = "agent" /\ execution'[y].task = t
    BY DEF RunningIsAtWork, Tasks
  <2>1. t # u /\ status[t] = "running"
    BY <1>1
  <2>2. PICK y \in Executions : execution[y].at = "agent" /\ execution[y].task = t
    BY <2>1 DEF AccountInv, RunningIsAtWork
  <2> QED BY <1>2, <2>1, <2>2
<1>4. NoneLeft'
  <2>1. \A y \in Executions : execution'[y].at = "over" => execution[y].at = "over"
    BY <1>2
  <2> QED BY <1>1, <2>1 DEF AccountInv, NoneLeft, Tasks
<1>5. OneAtATime'
  <2> SUFFICES ASSUME ~overtaken' PROVE OneAtATime'
    BY DEF OneAtATime
  <2>1. status[u] = "running" /\ \A y \in Executions : UnderWay(y) => y = x
    BY DEF AccountInv, OneAtATime, UnderWay
  <2>2. \A y, z \in Executions : UnderWay(y)' /\ UnderWay(z)' => y = z
    BY <1>2, <2>1
  <2>3. ASSUME NEW y \in Executions, NEW t \in execution'[y].list
        PROVE  UnderWay(y)' /\ status'[t] = "pending"
    <3>1. t \in Tasks /\ UnderWay(y) /\ status[t] = "pending"
      BY <1>2, <2>3 DEF AccountInv, OneAtATime, PlanInv, PlanTypeOK, PlanRun
    <3> QED BY <1>1, <1>2, <2>1, <3>1
  <2>4. \A y \in Executions : execution'[y].at # "agent"
    BY <1>2, <2>1 DEF UnderWay
  <2> QED BY <2>2, <2>3, <2>4 DEF OneAtATime
<1>6. SkippedBehindFailure'
  <2> SUFFICES ASSUME ~overtaken', ~cut', NEW t \in Tasks, status'[t] = "skipped"
               PROVE  \E d \in dependencies[t] : status'[d] \in {"failed", "skipped"}
    BY DEF SkippedBehindFailure, Tasks
  <2>1. status[u] = "running" /\ status[t] = "skipped"
    BY <1>1 DEF AccountInv, OneAtATime
  <2>2. PICK d \in dependencies[t] : status[d] \in {"failed", "skipped"}
    BY <2>1 DEF AccountInv, SkippedBehindFailure
  <2>3. d \in Tasks /\ d # u
    BY <2>1, <2>2, DependenciesAreTasks DEF AccountInv
  <2> QED BY <1>1, <2>2, <2>3
<1> QED BY <1>3, <1>4, <1>5, <1>6

\* The attempt is made again, or nothing happens.
LEMMA RetryAccounts ==
    ASSUME AccountInv, NEW x \in Executions, execution[x].at = "agent",
           execution' = [execution EXCEPT ![x].attempts = @ + 1],
           UNCHANGED <<dependencies, status, overtaken, cut>>
    PROVE  RunningIsAtWork' /\ NoneLeft' /\ OneAtATime' /\ SkippedBehindFailure'
<1>1. \A y \in Executions : /\ execution'[y].at = execution[y].at
                            /\ execution'[y].task = execution[y].task
                            /\ execution'[y].list = execution[y].list
  BY DEF AccountInv, PlanInv, PlanTypeOK, PlanRun
<1>2. \A y \in Executions : UnderWay(y)' <=> UnderWay(y)
  BY <1>1 DEF UnderWay
<1>3. RunningIsAtWork'
  <2> SUFFICES ASSUME NEW t \in Tasks, status[t] = "running"
               PROVE  \E y \in Executions : execution'[y].at = "agent" /\ execution'[y].task = t
    BY DEF RunningIsAtWork, Tasks
  <2> QED BY <1>1 DEF AccountInv, RunningIsAtWork
<1>4. NoneLeft' /\ SkippedBehindFailure'
  BY <1>1 DEF AccountInv, NoneLeft, SkippedBehindFailure, Tasks
<1>5. OneAtATime'
  BY <1>1, <1>2 DEF AccountInv, OneAtATime
<1> QED BY <1>3, <1>4, <1>5

LEMMA AccountNext == AccountInv /\ [PlanNext]_planVars => AccountInv'
<1> SUFFICES ASSUME AccountInv, [PlanNext]_planVars PROVE AccountInv'
  OBVIOUS
<1> DEFINE Goal == RunningIsAtWork' /\ NoneLeft' /\ OneAtATime' /\ SkippedBehindFailure'
<1>1. PlanInv'
  BY PlanNextInv DEF AccountInv
<1>2. ASSUME NEW x \in Executions, NEW s \in {"yes", "no"}, NEW r \in RetryRequests,
             Execute(x, s, r)
      PROVE  Goal
  BY <1>2, ExecuteAccounts
<1>3. ASSUME NEW x \in Executions, NextTask(x) PROVE Goal
  <2>1. /\ execution[x].list \subseteq Tasks
        /\ ~overtaken => \A t \in execution[x].list : status[t] = "pending"
    BY DEF AccountInv, PlanInv, PlanTypeOK, PlanRun, OneAtATime
  <2> QED BY <1>3, <2>1, StartAccounts DEF NextTask
<1>4. ASSUME NEW x \in Executions, NextRound(x) PROVE Goal
  <2>1. ReadyTasks \subseteq Tasks /\ \A t \in ReadyTasks : status[t] = "pending"
    BY DEF ReadyTasks
  <2> QED BY <1>4, <2>1, StartAccounts DEF NextRound
<1>5. ASSUME NEW x \in Executions, FinishPlan(x) \/ StopAtFailure(x) PROVE Goal
  <2>1. /\ execution[x].at = "between" /\ Ends(x)
        /\ (cut' = cut /\ ReadyTasks = {}) \/ cut' = TRUE
    BY <1>5 DEF FinishPlan, StopAtFailure
  <2> QED BY <2>1, EndAccounts
<1>6. ASSUME NEW x \in Executions, AgentAnswers(x) PROVE Goal
  <2>1. /\ execution[x].at = "agent"
        /\ status' = [status EXCEPT ![execution[x].task] = "done"]
        /\ execution' = [execution EXCEPT ![x].at = "between"]
        /\ UNCHANGED <<dependencies, overtaken, cut>>
    BY <1>6 DEF AgentAnswers
  <2> QED BY <2>1, AttemptAccounts
<1>7. ASSUME NEW x \in Executions, AttemptFails(x) PROVE Goal
  <2>1. CASE execution[x].attempts + 1 < execution[x].limit
    BY <1>7, <2>1, RetryAccounts DEF AttemptFails
  <2>2. CASE ~(execution[x].attempts + 1 < execution[x].limit)
    <3>1. /\ execution[x].at = "agent"
          /\ status' = [status EXCEPT ![execution[x].task] = "failed"]
          /\ execution' = [execution EXCEPT ![x].at = "between"]
          /\ UNCHANGED <<dependencies, overtaken, cut>>
      BY <1>7, <2>2 DEF AttemptFails
    <3> QED BY <3>1, AttemptAccounts
  <2> QED BY <2>1, <2>2
<1>8. ASSUME UNCHANGED planVars PROVE Goal
  <2>1. UNCHANGED <<dependencies, status, execution, overtaken, cut>>
    BY <1>8 DEF planVars
  <2>2. RunningIsAtWork' /\ NoneLeft' /\ SkippedBehindFailure'
    BY <2>1 DEF AccountInv, RunningIsAtWork, NoneLeft, SkippedBehindFailure, Tasks
  <2>3. OneAtATime'
    BY <2>1 DEF AccountInv, OneAtATime, UnderWay
  <2> QED BY <2>2, <2>3
<1>9. Goal
  <2> HIDE DEF Goal
  <2> QED BY <1>2, <1>3, <1>4, <1>5, <1>6, <1>7, <1>8 DEF PlanNext, PlanStep
<1> QED BY <1>1, <1>9 DEF AccountInv

\* PlanExecutor: when the executions of a plan are over no task of it is left
\* running or pending, however many there were; and when none was overtaken and
\* none stopped at a failure, a task was skipped only behind one that failed.
THEOREM PlansAccountForAll == PlanSpec => []PlanAccountsForAll
<1>1. AccountInv => PlanAccountsForAll
  <2> SUFFICES ASSUME AccountInv, AllOver, Asked PROVE PlanAccountsForAll
    BY DEF PlanAccountsForAll
  <2>1. \E x \in Executions : execution[x].at = "over"
    BY DEF AllOver, Asked, UnderWay, AccountInv, PlanInv, PlanTypeOK, PlanRun
  <2>2. \A t \in Tasks : status[t] # "pending"
    BY <2>1 DEF AccountInv, NoneLeft
  <2>3. \A t \in Tasks : status[t] # "running"
    BY DEF AllOver, UnderWay, AccountInv, RunningIsAtWork
  <2>4. \A t \in Tasks : status[t] \in {"done", "failed", "skipped"}
    BY <2>2, <2>3 DEF AccountInv, PlanInv, PlanTypeOK, TaskStatus
  <2> QED BY <2>4 DEF PlanAccountsForAll, AccountInv, SkippedBehindFailure
<1> QED BY <1>1, AccountInit, AccountNext, PTL DEF PlanSpec

\* No task of any plan is ever started before what it builds on was done, with
\* any number of executions of the plan at once: executePlan, getReadyNodes and
\* recordBlockedNodes.
THEOREM PlanOrderIsKept == PlanSpec => []PlanInOrder
<1>1. PlanInv => PlanInOrder
  BY DEF PlanInv
<1> QED
  BY <1>1, PlanInitInv, PlanNextInv, PTL DEF PlanSpec

-----------------------------------------------------------------------------
(***************************************************************************)
(* The job engine                                                          *)
(*                                                                         *)
(* What the slots and the queue hold follows from where a job may be while *)
(* its work goes on: EXECUTING, or CANCELLED in the meantime.  A job the   *)
(* queue refused to take back is out of both for good.                     *)
(***************************************************************************)

ByPriority(q) == \A i, k \in DOMAIN q : i < k => Priority[q[i]] <= Priority[q[k]]

SlotsSound ==
    /\ slots = {j \in executing : jobState[j] = "EXECUTING"}
    /\ \A j \in Jobs : jobState[j] = "EXECUTING" => j \in executing
    /\ \A j \in executing : jobState[j] \in {"EXECUTING", "CANCELLED"}
    /\ IsFiniteSet(slots) /\ Cardinality(slots) <= MaxConcurrency

QueueSound ==
    /\ Distinct(waiting) /\ ByPriority(waiting)
    /\ InQueue(waiting) = {j \in Jobs : jobState[j] = "QUEUED"} \ dropped
    /\ InQueue(waiting) \cap executing = {}

DroppedSound ==
    \A j \in dropped : jobState[j] \in {"QUEUED", "CANCELLED"} /\ j \notin executing

JobInv == JobTypeOK /\ SlotsSound /\ QueueSound /\ DroppedSound

LEMMA JobInitSound == JobInit => JobInv
<1> SUFFICES ASSUME JobInit PROVE JobInv
  OBVIOUS
<1>1. JobTypeOK
  <2>1. stopping \in BOOLEAN
    BY Zenon DEF JobInit
  <2> QED BY <2>1, JobConstantsOK DEF JobInit, JobTypeOK
<1>2. IsFiniteSet(slots) /\ Cardinality(slots) = 0
  BY FS_EmptySet DEF JobInit
<1>3. SlotsSound /\ DroppedSound
  BY <1>2, JobConstantsOK DEF JobInit, SlotsSound, DroppedSound
<1>4. QueueSound
  BY DEF JobInit, QueueSound, Distinct, ByPriority, InQueue
<1> QED BY <1>1, <1>3, <1>4 DEF JobInv

\* enqueue keeps the order of the priorities.
LEMMA EnqueuedSound ==
    ASSUME JobTypeOK, NEW j \in Jobs, Distinct(waiting), ByPriority(waiting),
           j \notin InQueue(waiting), Enqueued(j)
    PROVE  /\ waiting' \in Seq(Jobs) /\ Distinct(waiting') /\ ByPriority(waiting')
           /\ InQueue(waiting') = InQueue(waiting) \cup {j}
<1>1. PICK n \in 0..Len(waiting) :
        /\ \A i \in 1..n : Priority[waiting[i]] <= Priority[j]
        /\ n < Len(waiting) => Priority[waiting[n + 1]] > Priority[j]
        /\ waiting' = InsertAfter(waiting, n, j)
  BY DEF Enqueued, InsertAfter
<1> DEFINE q == waiting
           r == InsertAfter(waiting, n, j)
<1>2. q \in Seq(Jobs) /\ Len(q) \in Nat /\ DOMAIN q = 1..Len(q) /\ n \in 0..Len(q)
  BY DEF JobTypeOK
<1>3. /\ r \in Seq(Jobs) /\ DOMAIN r = 1..(Len(q) + 1)
      /\ \A i \in 1..(Len(q) + 1) : r[i] = IF i <= n THEN q[i]
                                          ELSE IF i = n + 1 THEN j ELSE q[i - 1]
  <2>1. n \in 0..Len(waiting) /\ waiting \in Seq(Jobs) /\ j \in Jobs
    BY <1>2
  <2>2. r \in Seq(Jobs)
    BY <2>1, Inserted
  <2>3. InsertedIn(waiting, n, j, InsertAfter(waiting, n, j))
    BY <2>1, InsertedInIt
  <2> QED BY <2>2, <2>3 DEF InsertedIn
<1>4. Distinct(r) /\ InQueue(r) = InQueue(q) \cup {j}
  BY <1>2, InsertionAddsOne
<1>5. \A i \in DOMAIN q : Priority[q[i]] \in Nat
  BY <1>2, JobConstantsOK
<1>6. Priority[j] \in Nat
  BY JobConstantsOK
<1>7. waiting' = r
  BY <1>1
<1>8. \A i, k \in 1..Len(q) : i <= k => Priority[q[i]] <= Priority[q[k]]
  BY <1>2, <1>5 DEF ByPriority
<1>9. /\ \A i \in 1..n : Priority[q[i]] <= Priority[j]
      /\ \A k \in (n + 1)..Len(q) : Priority[j] <= Priority[q[k]]
  <2>1. ASSUME NEW k \in (n + 1)..Len(q) PROVE Priority[j] <= Priority[q[k]]
    <3>1. n < Len(q) /\ n + 1 \in 1..Len(q) /\ k \in 1..Len(q) /\ n + 1 <= k
      BY <1>2
    <3>2. Priority[j] < Priority[q[n + 1]] /\ Priority[q[n + 1]] <= Priority[q[k]]
      BY <1>1, <1>8, <3>1
    <3> QED BY <1>2, <1>5, <1>6, <3>1, <3>2
  <2> QED BY <1>1, <2>1
<1> HIDE DEF q, r
<1>10. ByPriority(r)
  <2> SUFFICES ASSUME NEW i \in DOMAIN r, NEW k \in DOMAIN r, i < k
               PROVE  Priority[r[i]] <= Priority[r[k]]
    BY DEF ByPriority
  <2>1. i \in 1..(Len(q) + 1) /\ k \in 1..(Len(q) + 1)
    BY <1>3
  <2>2. CASE k <= n
    <3>1. r[i] = q[i] /\ r[k] = q[k] /\ i \in 1..Len(q) /\ k \in 1..Len(q)
      BY <1>2, <1>3, <2>1, <2>2
    <3> QED BY <1>8, <2>1, <3>1
  <2>3. CASE k = n + 1
    <3>1. r[i] = q[i] /\ r[k] = j /\ i \in 1..n
      BY <1>2, <1>3, <2>1, <2>3
    <3> QED BY <1>9, <3>1
  <2>4. CASE k > n + 1 /\ i <= n
    <3>1. r[i] = q[i] /\ r[k] = q[k - 1] /\ i \in 1..Len(q) /\ k - 1 \in 1..Len(q) /\ i <= k - 1
      BY <1>2, <1>3, <2>1, <2>4
    <3> QED BY <1>8, <3>1
  <2>5. CASE k > n + 1 /\ i = n + 1
    <3>1. r[i] = j /\ r[k] = q[k - 1] /\ k - 1 \in (n + 1)..Len(q)
      BY <1>2, <1>3, <2>1, <2>5
    <3> QED BY <1>9, <3>1
  <2>6. CASE k > n + 1 /\ i > n + 1
    <3>1. /\ r[i] = q[i - 1] /\ r[k] = q[k - 1] /\ i - 1 <= k - 1
          /\ i - 1 \in 1..Len(q) /\ k - 1 \in 1..Len(q)
      BY <1>2, <1>3, <2>1, <2>6
    <3> QED BY <1>8, <3>1
  <2> QED BY <2>1, <2>2, <2>3, <2>4, <2>5, <2>6
<1> QED BY <1>3, <1>4, <1>7, <1>10 DEF q

\* Taking a place out keeps the order too.
LEMMA RemovalSound ==
    ASSUME JobTypeOK, ByPriority(waiting), NEW n \in DOMAIN waiting, NEW r,
           DOMAIN r = 1..(Len(waiting) - 1),
           \A i \in 1..(Len(waiting) - 1) :
              r[i] = IF i < n THEN waiting[i] ELSE waiting[i + 1]
    PROVE  ByPriority(r)
<1> DEFINE at(i) == IF i < n THEN i ELSE i + 1
<1>1. Len(waiting) \in Nat /\ DOMAIN waiting = 1..Len(waiting)
  BY DEF JobTypeOK
<1> SUFFICES ASSUME NEW i \in DOMAIN r, NEW k \in DOMAIN r, i < k
             PROVE  Priority[r[i]] <= Priority[r[k]]
  BY DEF ByPriority
<1>2. at(i) \in DOMAIN waiting /\ at(k) \in DOMAIN waiting /\ at(i) < at(k)
  BY <1>1
<1>3. r[i] = waiting[at(i)] /\ r[k] = waiting[at(k)]
  BY <1>1
<1> HIDE DEF at
<1> QED BY <1>2, <1>3 DEF ByPriority

LEMMA TakenOutSound ==
    ASSUME JobTypeOK, NEW j \in Jobs, Distinct(waiting), ByPriority(waiting), TakenOut(j)
    PROVE  /\ waiting' \in Seq(Jobs) /\ Distinct(waiting') /\ ByPriority(waiting')
           /\ InQueue(waiting') = InQueue(waiting) \ {j}
<1>1. CASE (\A i \in DOMAIN waiting : waiting[i] # j) /\ UNCHANGED waiting
  BY <1>1 DEF JobTypeOK, InQueue
<1>2. CASE \E n \in DOMAIN waiting :
              /\ waiting[n] = j /\ \A i \in 1..(n - 1) : waiting[i] # j
              /\ waiting' = SubSeq(waiting, 1, n - 1) \o SubSeq(waiting, n + 1, Len(waiting))
  <2>1. PICK n \in DOMAIN waiting :
          /\ waiting[n] = j
          /\ waiting' = SubSeq(waiting, 1, n - 1) \o SubSeq(waiting, n + 1, Len(waiting))
    BY <1>2
  <2> DEFINE r == SubSeq(waiting, 1, n - 1) \o SubSeq(waiting, n + 1, Len(waiting))
  <2>2. waiting \in Seq(Jobs)
    BY DEF JobTypeOK
  <2>3. /\ r \in Seq(Jobs) /\ DOMAIN r = 1..(Len(waiting) - 1)
        /\ \A i \in 1..(Len(waiting) - 1) :
              r[i] = IF i < n THEN waiting[i] ELSE waiting[i + 1]
    BY <2>2, Removed
  <2>4. waiting' = r
    BY <2>1
  <2> HIDE DEF r
  <2>5. Distinct(r) /\ InQueue(r) = InQueue(waiting) \ {waiting[n]}
    BY <2>2, <2>3, RemovalTakesOne
  <2>6. ByPriority(r)
    BY <2>3, RemovalSound
  <2> QED BY <2>1, <2>3, <2>4, <2>5, <2>6
<1> QED BY <1>1, <1>2 DEF TakenOut

LEMMA HeadLeaves ==
    ASSUME JobTypeOK, Distinct(waiting), ByPriority(waiting), waiting # <<>>
    PROVE  /\ Head(waiting) \in Jobs /\ Head(waiting) \in InQueue(waiting)
           /\ Tail(waiting) \in Seq(Jobs) /\ Distinct(Tail(waiting))
           /\ ByPriority(Tail(waiting))
           /\ InQueue(Tail(waiting)) = InQueue(waiting) \ {Head(waiting)}
<1>1. /\ waiting \in Seq(Jobs) /\ Len(waiting) \in Nat \ {0}
      /\ DOMAIN waiting = 1..Len(waiting)
      /\ DOMAIN Tail(waiting) = 1..(Len(waiting) - 1)
  BY DEF JobTypeOK
<1>2. \A i \in 1..(Len(waiting) - 1) : Tail(waiting)[i] = waiting[i + 1]
  BY <1>1
<1>3. \A i \in 1..(Len(waiting) - 1) :
        Tail(waiting)[i] = IF i < 1 THEN waiting[i] ELSE waiting[i + 1]
  BY <1>1, <1>2
<1>4. 1 \in DOMAIN waiting
  BY <1>1
<1>5. ByPriority(Tail(waiting))
  BY <1>1, <1>3, <1>4, RemovalSound
<1> QED BY <1>1, <1>5, TailTakesOne

LEMMA SubmitSound == ASSUME JobInv, NEW j \in Jobs, Submit(j) PROVE JobInv'
<1>1. j \notin InQueue(waiting) /\ j \notin dropped /\ j \notin executing
  BY DEF Submit, JobInv, QueueSound, SlotsSound, DroppedSound
<1>2. /\ waiting' \in Seq(Jobs) /\ Distinct(waiting') /\ ByPriority(waiting')
      /\ InQueue(waiting') = InQueue(waiting) \cup {j}
  BY <1>1, EnqueuedSound DEF Submit, JobInv, QueueSound
<1>3. /\ jobState' = [jobState EXCEPT ![j] = "QUEUED"] /\ jobState[j] = "NONE"
      /\ known' = Append(known, j)
      /\ UNCHANGED <<retries, slots, executing, recorded, dropped, stopping>>
  BY DEF Submit
<1>4. JobTypeOK'
  BY <1>2, <1>3 DEF JobInv, JobTypeOK, JobStates
<1>5. SlotsSound' /\ DroppedSound'
  BY <1>1, <1>3 DEF JobInv, JobTypeOK, SlotsSound, DroppedSound
<1>6. QueueSound'
  <2>1. InQueue(waiting') = {k \in Jobs : jobState'[k] = "QUEUED"} \ dropped'
    BY <1>1, <1>2, <1>3 DEF JobInv, JobTypeOK, QueueSound
  <2>2. InQueue(waiting') \cap executing' = {}
    BY <1>1, <1>2, <1>3 DEF JobInv, QueueSound
  <2> QED BY <1>2, <2>1, <2>2 DEF QueueSound, Distinct, ByPriority, InQueue
<1> QED BY <1>4, <1>5, <1>6 DEF JobInv

\* A set of slots that grows smaller stays within maxConcurrency.
LEMMA FewerSlots ==
    ASSUME JobInv, NEW S \in SUBSET slots
    PROVE  IsFiniteSet(S) /\ Cardinality(S) <= MaxConcurrency
<1>1. IsFiniteSet(slots) /\ Cardinality(slots) <= MaxConcurrency /\ MaxConcurrency \in Nat
  BY JobConstantsOK DEF JobInv, SlotsSound
<1>2. IsFiniteSet(S) /\ Cardinality(S) <= Cardinality(slots)
  BY <1>1, FS_Subset
<1>3. Cardinality(S) \in Nat /\ Cardinality(slots) \in Nat
  BY <1>1, <1>2, FS_CardinalityType
<1> QED BY <1>1, <1>2, <1>3

LEMMA CancelSound == ASSUME JobInv, NEW j \in Jobs, CancelJob(j) PROVE JobInv'
<1>1. /\ waiting' \in Seq(Jobs) /\ Distinct(waiting') /\ ByPriority(waiting')
      /\ InQueue(waiting') = InQueue(waiting) \ {j}
  BY TakenOutSound DEF CancelJob, JobInv, QueueSound
<1>2. /\ jobState' = [jobState EXCEPT ![j] = "CANCELLED"]
      /\ slots' = slots \ {j}
      /\ recorded' = [recorded EXCEPT ![j] = @ + 1]
      /\ UNCHANGED <<retries, executing, known, dropped, stopping>>
  BY DEF CancelJob
<1>3. JobTypeOK'
  BY <1>1, <1>2 DEF JobInv, JobTypeOK, JobStates
<1>4. IsFiniteSet(slots') /\ Cardinality(slots') <= MaxConcurrency
  BY <1>2, FewerSlots
<1>5. SlotsSound' /\ DroppedSound'
  BY <1>2, <1>4 DEF JobInv, JobTypeOK, SlotsSound, DroppedSound
<1>6. QueueSound'
  <2>1. InQueue(waiting') = {k \in Jobs : jobState'[k] = "QUEUED"} \ dropped'
    BY <1>1, <1>2 DEF JobInv, JobTypeOK, QueueSound
  <2>2. InQueue(waiting') \cap executing' = {}
    BY <1>1, <1>2 DEF JobInv, QueueSound
  <2> QED BY <1>1, <2>1, <2>2 DEF QueueSound, Distinct, ByPriority, InQueue
<1> QED BY <1>3, <1>5, <1>6 DEF JobInv

LEMMA PollSound == ASSUME JobInv, Poll PROVE JobInv'
<1> DEFINE j == Head(waiting)
<1>1. /\ j \in Jobs /\ j \in InQueue(waiting)
      /\ waiting' \in Seq(Jobs) /\ Distinct(waiting') /\ ByPriority(waiting')
      /\ InQueue(waiting') = InQueue(waiting) \ {j}
  BY HeadLeaves DEF Poll, JobInv, QueueSound
<1>2. /\ slots' = slots \cup {j} /\ executing' = executing \cup {j}
      /\ jobState' = [jobState EXCEPT ![j] = "EXECUTING"]
      /\ Cardinality(slots) < MaxConcurrency
      /\ UNCHANGED <<retries, known, recorded, dropped, stopping>>
  BY DEF Poll
<1> HIDE DEF j
<1>3. jobState[j] = "QUEUED" /\ j \notin dropped /\ j \notin executing
  BY <1>1 DEF JobInv, QueueSound
<1>4. JobTypeOK'
  BY <1>1, <1>2 DEF JobInv, JobTypeOK, JobStates, JobActive
<1>5. IsFiniteSet(slots') /\ Cardinality(slots') <= MaxConcurrency
  <2>1. IsFiniteSet(slots)
    BY DEF JobInv, SlotsSound
  <2>2. /\ IsFiniteSet(slots')
        /\ Cardinality(slots') = IF j \in slots THEN Cardinality(slots) ELSE Cardinality(slots) + 1
    BY <1>2, <2>1, FS_AddElement
  <2>3. Cardinality(slots) \in Nat
    BY <2>1, FS_CardinalityType
  <2> QED BY <1>2, <2>2, <2>3, JobConstantsOK
<1>6. SlotsSound'
  BY <1>1, <1>2, <1>3, <1>5 DEF JobInv, JobTypeOK, SlotsSound
<1>7. DroppedSound'
  BY <1>1, <1>2, <1>3 DEF JobInv, JobTypeOK, DroppedSound
<1>8. QueueSound'
  <2>1. InQueue(waiting') = {k \in Jobs : jobState'[k] = "QUEUED"} \ dropped'
    BY <1>1, <1>2, <1>3 DEF JobInv, JobTypeOK, QueueSound
  <2>2. InQueue(waiting') \cap executing' = {}
    BY <1>1, <1>2 DEF JobInv, QueueSound
  <2> QED BY <1>1, <2>1, <2>2 DEF QueueSound, Distinct, ByPriority, InQueue
<1> QED BY <1>4, <1>6, <1>7, <1>8 DEF JobInv

\* evictHistory keeps jobs of the history.
LEMMA EvictedType == ASSUME NEW s \in Seq(Jobs) PROVE Evicted(s) \in Seq(Jobs)
<1>1. CASE Len(s) <= MaxJobHistory
  BY <1>1 DEF Evicted
<1>2. CASE Len(s) > MaxJobHistory
  <2>1. Len(s) \in Nat /\ MaxJobHistory \in Nat \ {0}
    BY JobConstantsOK
  <2>2. Len(s) - MaxJobHistory + 1 \in 1..(Len(s) + 1)
    BY <1>2, <2>1
  <2>3. SubSeq(s, Len(s) - MaxJobHistory + 1, Len(s)) \in Seq(Jobs)
    BY <2>1, <2>2
  <2> QED BY <1>2, <2>1, <2>3 DEF Evicted
<1> QED BY <1>1, <1>2, JobConstantsOK

\* The work of j ends and j goes to state s: at rest, or back into the queue.
LEMMA EndSound ==
    ASSUME JobInv, NEW j \in executing, Leaves(j), UNCHANGED stopping,
           NEW s \in {"CANCELLED", "COMPLETED", "FAILED", "TIMEOUT", "QUEUED"},
           jobState' = [jobState EXCEPT ![j] = s],
           retries' \in [Jobs -> 0..MaxRetries], recorded' \in [Jobs -> Nat],
           waiting' \in Seq(Jobs), Distinct(waiting'), ByPriority(waiting'),
           \/ s # "QUEUED" /\ InQueue(waiting') = InQueue(waiting) /\ dropped' = dropped
           \/ s = "QUEUED" /\ InQueue(waiting') = InQueue(waiting) \cup {j} /\ dropped' = dropped
           \/ s = "QUEUED" /\ InQueue(waiting') = InQueue(waiting) /\ dropped' = dropped \cup {j}
    PROVE  JobInv'
<1>1. /\ executing' = executing \ {j} /\ slots' = slots \ {j} /\ known' = Evicted(known)
      /\ j \in Jobs /\ jobState[j] \in {"EXECUTING", "CANCELLED"}
      /\ j \notin InQueue(waiting) /\ j \notin dropped
  BY DEF Leaves, JobInv, JobTypeOK, SlotsSound, QueueSound, DroppedSound
<1>2. JobTypeOK'
  <2>1. known' \in Seq(Jobs)
    BY <1>1, EvictedType DEF JobInv, JobTypeOK
  <2> QED BY <1>1, <2>1 DEF JobInv, JobTypeOK, JobStates
<1>3. IsFiniteSet(slots') /\ Cardinality(slots') <= MaxConcurrency
  BY <1>1, FewerSlots
<1>4. SlotsSound'
  BY <1>1, <1>3 DEF JobInv, JobTypeOK, SlotsSound
<1>5. DroppedSound'
  BY <1>1 DEF JobInv, JobTypeOK, DroppedSound
<1>6. QueueSound'
  <2>1. InQueue(waiting') = {k \in Jobs : jobState'[k] = "QUEUED"} \ dropped'
    BY <1>1 DEF JobInv, JobTypeOK, QueueSound
  <2>2. InQueue(waiting') \cap executing' = {}
    BY <1>1 DEF JobInv, QueueSound
  <2> QED BY <2>1, <2>2 DEF QueueSound, Distinct, ByPriority, InQueue
<1> QED BY <1>2, <1>4, <1>5, <1>6 DEF JobInv

LEMMA WorkEndsSound ==
    ASSUME JobInv, NEW j \in Jobs, NEW how \in {"COMPLETED", "FAILED", "TIMEOUT"},
           NEW again \in BOOLEAN, WorkEnds(j, how, again)
    PROVE  JobInv'
<1>1. j \in executing /\ Leaves(j) /\ UNCHANGED stopping
  BY DEF WorkEnds
<1>2. ASSUME NEW s \in {"CANCELLED", "COMPLETED", "FAILED", "TIMEOUT"}, Rests(j, s)
      PROVE  JobInv'
  <2>1. /\ jobState' = [jobState EXCEPT ![j] = s]
        /\ recorded' = [recorded EXCEPT ![j] = @ + 1]
        /\ UNCHANGED <<retries, waiting, dropped>>
    BY <1>2 DEF Rests
  <2>2. recorded' \in [Jobs -> Nat] /\ retries' \in [Jobs -> 0..MaxRetries]
    BY <2>1 DEF JobInv, JobTypeOK
  <2>3. /\ waiting' \in Seq(Jobs) /\ Distinct(waiting') /\ ByPriority(waiting')
        /\ InQueue(waiting') = InQueue(waiting)
    BY <2>1 DEF JobInv, JobTypeOK, QueueSound
  <2> QED BY <1>1, <2>1, <2>2, <2>3, EndSound
<1>3. ASSUME how # "COMPLETED", Fails(j, how, again) PROVE JobInv'
  <2>1. CASE ~RetriesAgain(j, how, again)
    BY <1>2, <1>3, <2>1 DEF Fails
  <2>2. CASE RetriesAgain(j, how, again)
    <3>1. /\ jobState' = [jobState EXCEPT ![j] = "QUEUED"]
          /\ retries' = [retries EXCEPT ![j] = @ + 1]
          /\ \/ Accepts /\ Enqueued(j) /\ UNCHANGED dropped
             \/ ~Accepts /\ dropped' = dropped \cup {j} /\ UNCHANGED waiting
          /\ UNCHANGED recorded
      BY <1>3, <2>2 DEF Fails
    <3>2. retries' \in [Jobs -> 0..MaxRetries] /\ recorded' \in [Jobs -> Nat]
      <4>1. retries[j] + 1 \in 0..MaxRetries
        BY <2>2, JobConstantsOK DEF RetriesAgain, JobInv, JobTypeOK
      <4> QED BY <3>1, <4>1 DEF JobInv, JobTypeOK
    <3>3. j \notin InQueue(waiting) /\ Distinct(waiting) /\ ByPriority(waiting)
      BY <1>1 DEF JobInv, QueueSound
    <3>4. CASE Accepts /\ Enqueued(j) /\ UNCHANGED dropped
      <4>1. /\ waiting' \in Seq(Jobs) /\ Distinct(waiting') /\ ByPriority(waiting')
            /\ InQueue(waiting') = InQueue(waiting) \cup {j}
        BY <3>3, <3>4, EnqueuedSound DEF JobInv
      <4> QED BY <1>1, <3>1, <3>2, <3>4, <4>1, EndSound
    <3>5. CASE ~Accepts /\ dropped' = dropped \cup {j} /\ UNCHANGED waiting
      <4>1. /\ waiting' \in Seq(Jobs) /\ Distinct(waiting') /\ ByPriority(waiting')
            /\ InQueue(waiting') = InQueue(waiting)
        BY <3>3, <3>5 DEF JobInv, JobTypeOK
      <4> QED BY <1>1, <3>1, <3>2, <3>5, <4>1, EndSound
    <3> QED BY <3>1, <3>4, <3>5
  <2> QED BY <2>1, <2>2
<1> QED BY <1>2, <1>3 DEF WorkEnds

LEMMA JobInvKept == JobInv /\ [JobNext]_jobVars => JobInv'
<1> SUFFICES ASSUME JobInv, [JobNext]_jobVars PROVE JobInv'
  OBVIOUS
<1>1. CASE \E j \in Jobs : Submit(j) \/ CancelJob(j)
  BY <1>1, SubmitSound, CancelSound
<1>2. CASE \E j \in Jobs, how \in {"COMPLETED", "FAILED", "TIMEOUT"},
              retryable \in BOOLEAN : WorkEnds(j, how, retryable)
  BY <1>2, WorkEndsSound
<1>3. CASE Poll
  BY <1>3, PollSound
<1>4. CASE StopJobs \/ UNCHANGED jobVars
  <2>1. stopping' \in BOOLEAN
    BY <1>4, Zenon DEF StopJobs, jobVars, JobInv, JobTypeOK
  <2>2. UNCHANGED <<jobState, retries, waiting, slots, executing, known, recorded, dropped>>
    BY <1>4 DEF StopJobs, jobVars
  <2>3. JobTypeOK'
    BY <2>1, <2>2 DEF JobInv, JobTypeOK
  <2> QED
    BY <2>2, <2>3
       DEF JobInv, SlotsSound, QueueSound, DroppedSound, Distinct, ByPriority, InQueue
<1> QED BY <1>1, <1>2, <1>3, <1>4 DEF JobNext

\* JobInv is an invariant of the specification.
THEOREM JobInvHolds == JobSpec => []JobInv
<1> QED BY JobInitSound, JobInvKept, PTL DEF JobSpec

\* JobManager, JobQueue and JobScheduler: whatever mix of cancels, timeouts and
\* retries releases them, the slots are the executions that were not cancelled,
\* and never more than maxConcurrency.
THEOREM SlotsStayExecutions == JobSpec => []SlotsAreExecutions
<1>1. JobInv => SlotsAreExecutions
  BY DEF JobInv, SlotsSound, SlotsAreExecutions
<1> QED BY <1>1, JobInvHolds, PTL

\* JobQueue: through submissions, retries, cancels and a shutdown the queue holds
\* each QUEUED job once, by priority, but for those it refused to take back.
THEOREM QueueStaysExact == JobSpec => []QueueIsExact
<1>1. JobInv => QueueIsExact
  <2> SUFFICES ASSUME JobInv PROVE QueueIsExact
    OBVIOUS
  <2>1. waiting \in Seq(Jobs) /\ \A i, k \in DOMAIN waiting : i < k => i # k
    BY DEF JobInv, JobTypeOK
  <2> QED BY <2>1 DEF JobInv, QueueSound, QueueIsExact, Distinct, ByPriority, InQueue
<1> QED BY <1>1, JobInvHolds, PTL

-----------------------------------------------------------------------------
(***************************************************************************)
(* The generation queue                                                    *)
(*                                                                         *)
(* That what the worker has is not queued must be said of every job the    *)
(* queue may take: a job at work was enqueued once (WorkKnown).            *)
(***************************************************************************)

WorkKnown == \A j \in genWork : genStatus[j] # "none"

GenInv == GenTypeOK /\ GenQueueIsExact /\ WorkKnown

LEMMA GenQueueSound ==
    ASSUME GenTypeOK
    PROVE  GenQueueIsExact <=> /\ Distinct(genQueue)
                               /\ InQueue(genQueue) = {j \in GenJobs : genStatus[j] = "queued"}
                               /\ InQueue(genQueue) \cap genWork = {}
BY DEF GenQueueIsExact, Distinct, InQueue

\* The next queue, of the next statuses.
LEMMA NextGenQueueSound ==
    ASSUME GenTypeOK', WorkKnown', Distinct(genQueue'),
           InQueue(genQueue') = {j \in GenJobs : genStatus'[j] = "queued"},
           InQueue(genQueue') \cap genWork' = {}
    PROVE  GenInv'
BY DEF GenInv, GenQueueIsExact, Distinct, InQueue

\* Places picked one by one, none twice.
LEMMA PickedPlaces ==
    ASSUME NEW S, NEW q \in Seq(S), Distinct(q), NEW n \in Nat,
           NEW f \in [1..n -> DOMAIN q], \A i, k \in 1..n : f[i] = f[k] => i = k
    PROVE  /\ Picked(q, f) \in Seq(S) /\ Distinct(Picked(q, f))
<1> DEFINE r == Picked(q, f)
<1>1. DOMAIN r = 1..n /\ \A i \in 1..n : r[i] = q[f[i]] /\ r[i] \in S
  BY DEF Picked
<1>2. r \in Seq(S)
  <2>1. r \in [1..n -> S]
    BY DEF Picked
  <2> QED BY <2>1
<1>3. Distinct(r)
  BY <1>1 DEF Distinct
<1> QED BY <1>2, <1>3

\* sort loses no job and doubles none.
LEMMA SortKeepsAll ==
    ASSUME NEW s \in Seq(GenJobs), Distinct(s), NEW f \in SortOf(s)
    PROVE  /\ Picked(s, f) \in Seq(GenJobs) /\ Distinct(Picked(s, f))
           /\ InQueue(Picked(s, f)) = InQueue(s)
<1>1. DOMAIN s = 1..Len(s) /\ Len(s) \in Nat
  OBVIOUS
<1>2. /\ f \in [1..Len(s) -> DOMAIN s]
      /\ \A n \in DOMAIN s : \E i \in 1..Len(s) : f[i] = n
  BY <1>1 DEF SortOf
<1>3. \A i, k \in 1..Len(s) : f[i] = f[k] => i = k
  <2>1. \A n \in DOMAIN s : n \in Int /\ GenPriority[s[n]] \in Nat
    BY <1>1, GenConstantsOK
  <2>2. ASSUME NEW i \in 1..Len(s), NEW k \in 1..Len(s), i < k PROVE f[i] # f[k]
    <3>1. \/ GenPriority[s[f[i]]] < GenPriority[s[f[k]]]
          \/ f[i] < f[k]
      BY <1>1, <2>2 DEF SortOf
    <3> QED BY <1>2, <2>1, <3>1
  <2> QED BY <1>1, <2>2
<1>4. InQueue(s) = {s[f[i]] : i \in 1..Len(s)}
  BY <1>2 DEF InQueue
<1>5. Picked(s, f) \in Seq(GenJobs) /\ Distinct(Picked(s, f))
  BY <1>1, <1>2, <1>3, PickedPlaces
<1>6. InQueue(Picked(s, f)) = {s[f[i]] : i \in 1..Len(s)}
  BY <1>2 DEF InQueue, Picked
<1> QED BY <1>4, <1>5, <1>6

\* filter takes out one job and keeps the others.
LEMMA FilterKeepsOthers ==
    ASSUME GenTypeOK, Distinct(genQueue), NEW j \in GenJobs,
           NEW f \in Filter({i \in DOMAIN genQueue : genQueue[i] # j})
    PROVE  /\ Picked(genQueue, f) \in Seq(GenJobs) /\ Distinct(Picked(genQueue, f))
           /\ InQueue(Picked(genQueue, f)) = InQueue(genQueue) \ {j}
<1> DEFINE stay == {i \in DOMAIN genQueue : genQueue[i] # j}
<1>1. genQueue \in Seq(GenJobs) /\ Len(genQueue) \in Nat
  BY DEF GenTypeOK
<1>2. PICK n \in 0..Len(genQueue) :
        /\ f \in [1..n -> stay]
        /\ \A i, k \in 1..n : i < k => f[i] < f[k]
        /\ \A m \in stay : \E i \in 1..n : f[i] = m
  BY DEF Filter
<1>3. f \in [1..n -> DOMAIN genQueue] /\ n \in Nat
  BY <1>1, <1>2
<1>4. \A i, k \in 1..n : f[i] = f[k] => i = k
  <2>1. \A i \in 1..n : f[i] \in Int
    BY <1>1, <1>3
  <2> QED BY <1>2, <1>3, <2>1
<1>5. {genQueue[f[i]] : i \in 1..n} = InQueue(genQueue) \ {j}
  BY <1>2 DEF InQueue
<1>6. Picked(genQueue, f) \in Seq(GenJobs) /\ Distinct(Picked(genQueue, f))
  BY <1>1, <1>3, <1>4, PickedPlaces
<1>7. InQueue(Picked(genQueue, f)) = {genQueue[f[i]] : i \in 1..n}
  BY <1>3 DEF InQueue, Picked
<1> QED BY <1>5, <1>6, <1>7

LEMMA GenInitSound == GenInit => GenInv
<1> SUFFICES ASSUME GenInit PROVE GenInv
  OBVIOUS
<1>1. GenTypeOK
  BY GenConstantsOK DEF GenInit, GenTypeOK
<1> QED BY <1>1 DEF GenInit, GenInv, GenQueueIsExact, WorkKnown

LEMMA GenEnqueueSound == ASSUME GenInv, NEW j \in GenJobs, GenEnqueue(j) PROVE GenInv'
<1>1. /\ genQueue \in Seq(GenJobs) /\ Distinct(genQueue) /\ j \notin InQueue(genQueue)
      /\ InQueue(genQueue) = {k \in GenJobs : genStatus[k] = "queued"}
      /\ InQueue(genQueue) \cap genWork = {}
  BY GenQueueSound DEF GenEnqueue, GenInv, GenTypeOK
<1>2. /\ Append(genQueue, j) \in Seq(GenJobs) /\ Distinct(Append(genQueue, j))
      /\ InQueue(Append(genQueue, j)) = InQueue(genQueue) \cup {j}
  BY <1>1, AppendAddsOne
<1>3. PICK f \in SortOf(Append(genQueue, j)) : genQueue' = Picked(Append(genQueue, j), f)
  BY DEF GenEnqueue
<1>4. /\ genQueue' \in Seq(GenJobs) /\ Distinct(genQueue')
      /\ InQueue(genQueue') = InQueue(genQueue) \cup {j}
  BY <1>2, <1>3, SortKeepsAll
<1>5. /\ genStatus' = [genStatus EXCEPT ![j] = "queued"] /\ genStatus[j] = "none"
      /\ UNCHANGED <<genRetried, genWork>>
  BY DEF GenEnqueue
<1>6. GenTypeOK' /\ WorkKnown'
  BY <1>4, <1>5 DEF GenInv, GenTypeOK, WorkKnown
<1>7. InQueue(genQueue') = {k \in GenJobs : genStatus'[k] = "queued"}
  BY <1>1, <1>4, <1>5 DEF GenInv, GenTypeOK
<1>8. InQueue(genQueue') \cap genWork' = {}
  BY <1>1, <1>4, <1>5 DEF GenInv, WorkKnown
<1> QED BY <1>4, <1>6, <1>7, <1>8, NextGenQueueSound

LEMMA GenDequeueSound == ASSUME GenInv, GenDequeue PROVE GenInv'
<1> DEFINE j == Head(genQueue)
<1>1. /\ genQueue \in Seq(GenJobs) /\ Distinct(genQueue)
      /\ InQueue(genQueue) = {k \in GenJobs : genStatus[k] = "queued"}
      /\ InQueue(genQueue) \cap genWork = {}
  BY GenQueueSound DEF GenInv, GenTypeOK
<1>2. /\ j \in GenJobs /\ j \in InQueue(genQueue)
      /\ genQueue' \in Seq(GenJobs) /\ Distinct(genQueue')
      /\ InQueue(genQueue') = InQueue(genQueue) \ {j}
  BY <1>1, TailTakesOne DEF GenDequeue
<1>3. /\ genStatus' = [genStatus EXCEPT ![j] = "running"]
      /\ genWork' = genWork \cup {j} /\ UNCHANGED genRetried
  BY DEF GenDequeue
<1> HIDE DEF j
<1>4. GenTypeOK' /\ WorkKnown'
  BY <1>2, <1>3 DEF GenInv, GenTypeOK, WorkKnown
<1>5. InQueue(genQueue') = {k \in GenJobs : genStatus'[k] = "queued"}
  BY <1>1, <1>2, <1>3 DEF GenInv, GenTypeOK
<1>6. InQueue(genQueue') \cap genWork' = {}
  BY <1>1, <1>2, <1>3
<1> QED BY <1>2, <1>4, <1>5, <1>6, NextGenQueueSound

LEMMA GenCompleteSound == ASSUME GenInv, NEW j \in GenJobs, GenComplete(j) PROVE GenInv'
<1>1. /\ Distinct(genQueue)
      /\ InQueue(genQueue) = {k \in GenJobs : genStatus[k] = "queued"}
      /\ InQueue(genQueue) \cap genWork = {}
  BY GenQueueSound DEF GenInv
<1>2. /\ j \in genWork /\ genWork' = genWork \ {j}
      /\ genStatus' = [genStatus EXCEPT ![j] = "completed"]
      /\ UNCHANGED <<genRetried, genQueue>>
  BY DEF GenComplete
<1>3. GenTypeOK' /\ WorkKnown'
  BY <1>2 DEF GenInv, GenTypeOK, WorkKnown
<1>4. InQueue(genQueue') = {k \in GenJobs : genStatus'[k] = "queued"}
  BY <1>1, <1>2 DEF GenInv, GenTypeOK
<1>5. InQueue(genQueue') \cap genWork' = {} /\ Distinct(genQueue')
  BY <1>1, <1>2
<1> QED BY <1>3, <1>4, <1>5, NextGenQueueSound

LEMMA GenFailSound == ASSUME GenInv, NEW j \in GenJobs, GenFail(j) PROVE GenInv'
<1>1. /\ genQueue \in Seq(GenJobs) /\ Distinct(genQueue)
      /\ InQueue(genQueue) = {k \in GenJobs : genStatus[k] = "queued"}
      /\ InQueue(genQueue) \cap genWork = {}
  BY GenQueueSound DEF GenInv, GenTypeOK
<1>2. j \in genWork /\ genWork' = genWork \ {j} /\ j \notin InQueue(genQueue)
  BY <1>1 DEF GenFail
<1>3. CASE genRetried[j] < GenRetries
  <2>1. /\ genRetried' = [genRetried EXCEPT ![j] = @ + 1]
        /\ genQueue' = Append(genQueue, j)
        /\ genStatus' = [genStatus EXCEPT ![j] = "queued"]
    BY <1>3 DEF GenFail, GenRequeued
  <2>2. /\ genQueue' \in Seq(GenJobs) /\ Distinct(genQueue')
        /\ InQueue(genQueue') = InQueue(genQueue) \cup {j}
    BY <1>1, <1>2, <2>1, AppendAddsOne
  <2>3. GenTypeOK' /\ WorkKnown'
    <3>1. genRetried' \in [GenJobs -> 0..GenRetries]
      BY <1>3, <2>1, GenConstantsOK DEF GenInv, GenTypeOK
    <3> QED BY <1>2, <2>1, <2>2, <3>1 DEF GenInv, GenTypeOK, WorkKnown
  <2>4. InQueue(genQueue') = {k \in GenJobs : genStatus'[k] = "queued"}
    BY <1>1, <2>1, <2>2 DEF GenInv, GenTypeOK
  <2>5. InQueue(genQueue') \cap genWork' = {}
    BY <1>1, <1>2, <2>2
  <2> QED BY <2>2, <2>3, <2>4, <2>5, NextGenQueueSound
<1>4. CASE ~(genRetried[j] < GenRetries)
  <2>1. /\ genStatus' = [genStatus EXCEPT ![j] = "failed"]
        /\ UNCHANGED <<genRetried, genQueue>>
    BY <1>4 DEF GenFail
  <2>2. GenTypeOK' /\ WorkKnown'
    BY <1>2, <2>1 DEF GenInv, GenTypeOK, WorkKnown
  <2>3. InQueue(genQueue') = {k \in GenJobs : genStatus'[k] = "queued"}
    BY <1>1, <1>2, <2>1 DEF GenInv, GenTypeOK
  <2>4. InQueue(genQueue') \cap genWork' = {} /\ Distinct(genQueue')
    BY <1>1, <1>2, <2>1
  <2> QED BY <2>2, <2>3, <2>4, NextGenQueueSound
<1> QED BY <1>3, <1>4

LEMMA GenCancelSound == ASSUME GenInv, NEW j \in GenJobs, GenCancel(j) PROVE GenInv'
<1>1. /\ genQueue \in Seq(GenJobs) /\ Distinct(genQueue)
      /\ InQueue(genQueue) = {k \in GenJobs : genStatus[k] = "queued"}
      /\ InQueue(genQueue) \cap genWork = {}
  BY GenQueueSound DEF GenInv, GenTypeOK
<1>2. PICK f \in Filter({i \in DOMAIN genQueue : genQueue[i] # j}) :
        genQueue' = Picked(genQueue, f)
  BY DEF GenCancel
<1>3. /\ genQueue' \in Seq(GenJobs) /\ Distinct(genQueue')
      /\ InQueue(genQueue') = InQueue(genQueue) \ {j}
  BY <1>1, <1>2, FilterKeepsOthers DEF GenInv
<1>4. /\ genStatus' = [genStatus EXCEPT ![j] = "cancelled"]
      /\ UNCHANGED <<genRetried, genWork>>
  BY DEF GenCancel
<1>5. GenTypeOK' /\ WorkKnown'
  BY <1>3, <1>4 DEF GenInv, GenTypeOK, WorkKnown
<1>6. InQueue(genQueue') = {k \in GenJobs : genStatus'[k] = "queued"}
  BY <1>1, <1>3, <1>4 DEF GenInv, GenTypeOK
<1>7. InQueue(genQueue') \cap genWork' = {}
  BY <1>1, <1>3, <1>4
<1> QED BY <1>3, <1>5, <1>6, <1>7, NextGenQueueSound

LEMMA GenInvKept == GenInv /\ [GenNext]_genVars => GenInv'
<1> SUFFICES ASSUME GenInv, [GenNext]_genVars PROVE GenInv'
  OBVIOUS
<1>1. CASE UNCHANGED genVars
  BY <1>1 DEF genVars, GenInv, GenTypeOK, GenQueueIsExact, WorkKnown
<1> QED BY <1>1, GenDequeueSound, GenEnqueueSound, GenCompleteSound, GenFailSound,
           GenCancelSound DEF GenNext

\* GenerationQueue: through enqueues, cancels, failures tried again and a job that
\* fails after it was cancelled, the queue is exactly the jobs said to be queued,
\* each once, and none of them is with the worker.
THEOREM GenQueueStaysExact == GenSpec => []GenQueueIsExact
<1>1. GenInv => GenQueueIsExact
  BY DEF GenInv
<1> QED BY <1>1, GenInitSound, GenInvKept, PTL DEF GenSpec

\* The types of the queue hold with it.
THEOREM GenTypeCorrect == GenSpec => []GenTypeOK
<1>1. GenInv => GenTypeOK
  BY DEF GenInv
<1> QED BY <1>1, GenInitSound, GenInvKept, PTL DEF GenSpec

\* The types of the job engine hold: in the queue, the history and the slots.
THEOREM JobTypeCorrect == JobSpec => []JobTypeOK
<1>1. JobInv => JobTypeOK
  BY DEF JobInv
<1> QED BY <1>1, JobInvHolds, PTL

-----------------------------------------------------------------------------
(***************************************************************************)
(* Autonomous sessions: what every step keeps of the shape of a session, with *)
(* any number of processes.                                                *)
(***************************************************************************)

NodeStatus == {"pending", "running", "completed", "skipped", "failed"}

\* s is r gone on: of the same generation, and with all the checkpoints of r.
From(r, s) ==
    /\ s \in Session
    /\ s.generation = r.generation /\ s.recoveries = r.recoveries /\ s.restart = r.restart
    /\ Extends(r.checkpoints, s.checkpoints)
    /\ s.status = "running" => r.status = "running"

LEMMA ExtendsSame == ASSUME NEW S, NEW s \in Seq(S) PROVE Extends(s, s)
<1>1. Len(s) \in Nat /\ DOMAIN s = 1..Len(s)
  OBVIOUS
<1>2. SubSeq(s, 1, Len(s)) = s
  BY <1>1
<1> QED BY <1>1, <1>2 DEF Extends

LEMMA ExtendsAppend == ASSUME NEW S, NEW s \in Seq(S), NEW x \in S PROVE Extends(s, Append(s, x))
<1>1. SubSeq(Append(s, x), 1, Len(s)) = s
  OBVIOUS
<1> QED BY <1>1 DEF Extends

LEMMA ExtendsOn ==
    ASSUME NEW S, NEW s \in Seq(S), NEW t \in Seq(S), NEW u \in Seq(S),
           Extends(s, t), Extends(t, u)
    PROVE  Extends(s, u)
<1>1. /\ Len(s) \in Nat /\ Len(t) \in Nat /\ Len(u) \in Nat
      /\ Len(s) <= Len(t) /\ Len(t) <= Len(u)
      /\ SubSeq(t, 1, Len(s)) = s /\ SubSeq(u, 1, Len(t)) = t
  BY DEF Extends
<1>2. \A i \in 1..Len(s) : t[i] = s[i]
  BY <1>1
<1>3. \A i \in 1..Len(t) : u[i] = t[i]
  BY <1>1
<1>4. \A i \in 1..Len(s) : u[i] = s[i]
  BY <1>1, <1>2, <1>3
<1>5. SubSeq(u, 1, Len(s)) = s
  BY <1>1, <1>4
<1> QED BY <1>1, <1>5 DEF Extends

LEMMA FromSame == ASSUME NEW r \in Session PROVE From(r, r)
BY ExtendsSame DEF From, Session

LEMMA FromOn == ASSUME NEW r \in Session, NEW s, NEW t, From(r, s), From(s, t) PROVE From(r, t)
<1>1. /\ r.checkpoints \in Seq(Nodes) /\ s.checkpoints \in Seq(Nodes)
      /\ t.checkpoints \in Seq(Nodes)
  BY DEF From, Session
<1>2. Extends(r.checkpoints, t.checkpoints)
  BY <1>1, ExtendsOn DEF From
<1> QED BY <1>2 DEF From

\* What the steps of an execution make of a record.
LEMMA RecordSteps ==
    ASSUME NEW r \in Session
    PROVE  /\ \A k \in Phases, st \in NodeStatus :
                 From(r, With(r, k, st)) /\ With(r, k, st).status = r.status
           /\ \A to \in Status :
                 (to # "running" => From(r, Ended(r, to))) /\ Ended(r, to).status = to
           /\ From(r, Checkpointed(r)) /\ Checkpointed(r).status = r.status
<1>1. ASSUME NEW k \in Phases, NEW st \in NodeStatus
      PROVE From(r, With(r, k, st)) /\ With(r, k, st).status = r.status
  <2> DEFINE s == With(r, k, st)
  <2>1. /\ s \in Session /\ s.status = r.status /\ s.checkpoints = r.checkpoints
        /\ s.generation = r.generation /\ s.recoveries = r.recoveries /\ s.restart = r.restart
    BY DEF With, Session, Nodes, NodeStatus
  <2> HIDE DEF s
  <2>2. From(r, s) /\ s.status = r.status
    BY <2>1, FromSame DEF From
  <2> QED BY <2>2 DEF s
<1>2. ASSUME NEW to \in Status
      PROVE  (to # "running" => From(r, Ended(r, to))) /\ Ended(r, to).status = to
  <2> DEFINE s == Ended(r, to)
  <2>1. /\ s \in Session /\ s.status = to /\ s.checkpoints = r.checkpoints
        /\ s.generation = r.generation /\ s.recoveries = r.recoveries /\ s.restart = r.restart
    BY DEF Ended, Session
  <2> HIDE DEF s
  <2>2. (to # "running" => From(r, s)) /\ s.status = to
    BY <2>1, FromSame DEF From
  <2> QED BY <2>2 DEF s
<1>3. From(r, Checkpointed(r)) /\ Checkpointed(r).status = r.status
  <2> DEFINE s == Checkpointed(r)
  <2>1. /\ s \in Session /\ s.status = r.status
        /\ s.checkpoints = Append(r.checkpoints, r.nodes)
        /\ s.generation = r.generation /\ s.recoveries = r.recoveries /\ s.restart = r.restart
    BY DEF Checkpointed, Session
  <2>2. Extends(r.checkpoints, s.checkpoints)
    BY <2>1, ExtendsAppend DEF Session
  <2> HIDE DEF s
  <2>3. From(r, s) /\ s.status = r.status
    BY <2>1, <2>2 DEF From
  <2> QED BY <2>3 DEF s
<1> QED BY <1>1, <1>2, <1>3

\* A set of naturals that is not empty has a least element.
LEMMA LeastBy ==
    ASSUME NEW R, IsWellFoundedOn(R, Nat), \A j, k \in Nat : (<<j, k>> \in R) <=> (j < k),
           NEW K \in SUBSET Nat, K # {}
    PROVE  \E k \in K : \A j \in K : k <= j
<1> DEFINE HasLeast(T) == \E x \in T : \A y \in T : ~ (<<y, x>> \in R)
<1>1. ASSUME NEW S, IsWellFoundedOn(R, S), NEW T, T \subseteq S, T # {} PROVE HasLeast(T)
  BY <1>1, WFMin
<1>2. K \subseteq Nat
  OBVIOUS
<1> HIDE DEF HasLeast
<1>3. HasLeast(K)
  BY <1>1, <1>2
<1> USE DEF HasLeast
<1>4. PICK k \in K : \A j \in K : ~ (<<j, k>> \in R)
  BY <1>3
<1>5. ASSUME NEW j \in K PROVE k <= j
  <2>1. ~ (j < k)
    BY <1>4
  <2> QED BY <2>1
<1> QED BY <1>5

LEMMA LeastOf ==
    ASSUME NEW K \in SUBSET Nat, K # {}
    PROVE  \E k \in K : \A j \in K : k <= j
<1>1. \A j, k \in Nat : (<<j, k>> \in OpToRel(<, Nat)) <=> (j < k)
  BY DEF OpToRel
<1> QED BY <1>1, NatLessThanWellFounded, LeastBy, Zenon

LEMMA FirstIn ==
    ASSUME NEW K \in SUBSET Phases, K # {}
    PROVE  First(K) \in K
<1>1. K \in SUBSET Nat
  BY SessionConstantsOK DEF Phases
<1>2. \E k \in K : \A j \in K : k <= j
  BY <1>1, LeastOf
<1> QED BY <1>2 DEF First

-----------------------------------------------------------------------------
\* What an execution holds where it is.
Shaped(x) ==
    /\ x.at = "idle" => x = NoExecution
    /\ x.at # "idle" => x.record \in Session
    /\ x.at \in {"phase", "start", "settle"} => x.node \in Phases
    /\ x.at \in {"start", "checkpoint"} => x.record.status = "running"
    /\ x.at = "fail" => x.record.status = "failed"
    /\ x.at = "finish" => x.record.status = "preview_completed"
    /\ x.at = "settle" /\ x.selected => x.rows \in Session
    /\ x.at # "settle" => ~x.selected
    /\ ~x.selected => x.rows = NoSession

\* An execution that goes on from r, to its next write or to its end.
GoesOn(r, x) ==
    /\ x \in Execution /\ Shaped(x) /\ x.at \in Writing \cup {"idle"}
    /\ x.at # "idle" => From(r, x.record)

LEMMA NoExecutionShaped ==
    /\ NoExecution \in Execution /\ Shaped(NoExecution) /\ NoExecution.at = "idle"
    /\ \A r : GoesOn(r, NoExecution)
<1>1. NoExecution \in Execution
  BY DEF NoExecution, Execution, Row, Writing
<1>2. Shaped(NoExecution) /\ NoExecution.at = "idle"
  BY DEF NoExecution, Shaped
<1> QED BY <1>1, <1>2 DEF GoesOn

LEMMA AtGoesOn ==
    ASSUME NEW r, NEW s, From(r, s), NEW point \in Writing, NEW k \in Phases \cup {0},
           point = "start" => k \in Phases,
           point \in {"start", "checkpoint"} => s.status = "running",
           point = "fail" => s.status = "failed",
           point = "finish" => s.status = "preview_completed"
    PROVE  GoesOn(r, At(point, s, k))
<1> DEFINE x == At(point, s, k)
<1>1. /\ x.at = point /\ x.record = s /\ x.node = k
      /\ x.selected = FALSE /\ x.rows = NoSession
  BY DEF At, NoExecution
<1>2. s \in Session
  BY DEF From
<1>3. x \in Execution
  BY <1>2, NoExecutionShaped DEF At, Execution, Row
<1> HIDE DEF x
<1>4. Shaped(x)
  BY <1>1, <1>2 DEF Shaped, Writing
<1>5. GoesOn(r, x)
  BY <1>1, <1>3, <1>4 DEF GoesOn
<1> QED BY <1>5 DEF x

LEMMA FinishGoesOn == ASSUME NEW r \in Session PROVE GoesOn(r, Finish(r))
<1>1. "preview_completed" \in Status /\ "finish" \in Writing
  BY DEF Status, Terminal, Writing
<1> QED BY <1>1, RecordSteps, AtGoesOn DEF Finish

LEMMA AdvanceGoesOn ==
    ASSUME NEW r \in Session, NEW over \in BOOLEAN
    PROVE  GoesOn(r, Advance(r, over))
<1> DEFINE k == First(Todo(r))
<1>1. CASE Todo(r) = {}
  BY <1>1, FinishGoesOn, NoExecutionShaped DEF Advance
<1>2. CASE Todo(r) # {} /\ r.status # "running"
  BY <1>2, NoExecutionShaped DEF Advance
<1>3. CASE Todo(r) # {} /\ r.status = "running"
  <2>1. k \in Phases
    BY <1>3, FirstIn DEF Todo
  <2>2. /\ "failed" \in NodeStatus /\ "running" \in NodeStatus /\ "skipped" \in NodeStatus
        /\ "failed" \in Status /\ {"fail", "start", "checkpoint"} \subseteq Writing
    BY DEF NodeStatus, Status, Terminal, Writing
  <2> HIDE DEF k
  <2>3. /\ From(r, With(r, k, "failed")) /\ From(r, With(r, k, "running"))
        /\ From(r, With(r, k, "skipped"))
        /\ With(r, k, "running").status = "running"
        /\ With(r, k, "skipped").status = "running"
    BY <1>3, <2>1, <2>2, RecordSteps
  <2>4. /\ From(r, Ended(With(r, k, "failed"), "failed"))
        /\ Ended(With(r, k, "failed"), "failed").status = "failed"
    <3>1. With(r, k, "failed") \in Session
      BY <2>3 DEF From
    <3> QED BY <2>2, <2>3, <3>1, RecordSteps, FromOn
  <2>5. /\ From(r, Checkpointed(With(r, k, "skipped")))
        /\ Checkpointed(With(r, k, "skipped")).status = "running"
    <3>1. With(r, k, "skipped") \in Session
      BY <2>3 DEF From
    <3> QED BY <2>3, <3>1, RecordSteps, FromOn
  <2>6. GoesOn(r, At("fail", Ended(With(r, k, "failed"), "failed"), k))
    BY <2>1, <2>2, <2>4, AtGoesOn
  <2>7. GoesOn(r, At("start", With(r, k, "running"), k))
    BY <2>1, <2>2, <2>3, AtGoesOn
  <2>8. GoesOn(r, At("checkpoint", Checkpointed(With(r, k, "skipped")), k))
    BY <2>1, <2>2, <2>5, AtGoesOn
  <2> QED BY <1>3, <2>6, <2>7, <2>8 DEF Advance, k
<1> QED BY <1>1, <1>2, <1>3

LEMMA LeaveGoesOn ==
    ASSUME NEW r \in Session, NEW c \in Session, NEW over \in BOOLEAN
    PROVE  IF Pending(r) = {} THEN GoesOn(r, Leave(r, c, over))
           ELSE GoesOn(c, Leave(r, c, over))
<1>1. CASE r.status # "running"
  BY <1>1, NoExecutionShaped DEF Leave
<1>2. CASE r.status = "running"
  BY <1>2, FinishGoesOn, AdvanceGoesOn DEF Leave
<1> QED BY <1>1, <1>2

\* What a write of r over the acknowledged row a comes to.
LEMMA OutcomeOf ==
    ASSUME NEW r \in Session, NEW a \in Session, NEW allow \in BOOLEAN,
           NEW o, o = Outcome(r, a, allow)
    PROVE  \/ /\ o.saved /\ o.row = r /\ o.record = r
              /\ (allow => a.status # "running" \/ r.status \notin Halted)
              /\ (~allow => IF a.status = "running" THEN r.status \notin Halted
                            ELSE r.status = a.status)
           \/ /\ o.saved /\ o.row = Ended(a, r.status) /\ o.record = r
              /\ allow /\ a.status = "running" /\ r.status \in Halted
           \/ /\ ~o.saved /\ o.row = a /\ o.record = Ended(r, a.status) /\ ~allow
              /\ IF a.status = "running" THEN r.status \in Halted
                 ELSE a.status \in Halted /\ r.status # a.status
           \/ /\ ~o.saved /\ o.row = a /\ o.record = a
              /\ ~allow /\ a.status \in Terminal \ Halted
<1>1. a # NoSession
  BY NoSessionOK
<1>2. r.status \in Status /\ a.status \in Status
  BY DEF Session
<1>3. \/ o = [saved |-> TRUE, row |-> r, record |-> r]
         /\ (allow => a.status # "running" \/ r.status \notin Halted)
         /\ (~allow => IF a.status = "running" THEN r.status \notin Halted
                       ELSE r.status = a.status)
      \/ o = [saved |-> TRUE, row |-> Ended(a, r.status), record |-> r]
         /\ allow /\ a.status = "running" /\ r.status \in Halted
      \/ o = [saved |-> FALSE, row |-> a, record |-> Ended(r, a.status)] /\ ~allow
         /\ IF a.status = "running" THEN r.status \in Halted
            ELSE a.status \in Halted /\ r.status # a.status
      \/ o = [saved |-> FALSE, row |-> a, record |-> a]
         /\ ~allow /\ a.status \in Terminal \ Halted
  BY <1>1, <1>2, Zenon DEF Outcome, Gives, Status, Terminal, Halted
<1> QED BY <1>3

-----------------------------------------------------------------------------
\* What waits in the queue of p: the requests of p that write, and its execution.
Asking(p) == {h \in Handlers : HomeOf[h] = p /\ call[h].at = "write"}
LinedUp(p) == IF exec[p].at \in Writing THEN Asking(p) \cup {"exec"} ELSE Asking(p)

ShapedCall(c) ==
    /\ c.at # "idle" => c.record \in Session
    /\ c.at = "write" => IF c.kind \in {"pause", "cancel"} THEN c.record.status \in Halted
                         ELSE c.record.status = "preview_completed"

ShapedSeen(x) == IF x.selected THEN x.row \in Session ELSE x.row = NoSession

ProcessShaped(p) ==
    /\ Shaped(exec[p])
    /\ exec[p].at # "idle" => control[p] # "none" /\ row # NoSession /\ mode[p] = "serving"
    /\ Distinct(tail[p]) /\ InQueue(tail[p]) = LinedUp(p)
    /\ ShapedSeen(seen[p]) /\ (seen[p].selected => tail[p] # <<>>)

CallInPlace(h) ==
    /\ ShapedCall(call[h])
    /\ call[h].at # "idle" => row # NoSession /\ mode[HomeOf[h]] = "serving"

SessionShape ==
    /\ SessionTypeOK
    /\ \A p \in Procs : ProcessShaped(p)
    /\ \A h \in Handlers : CallInPlace(h)

\* A step of p that leaves the other processes and their requests as they are.
LEMMA ShapeElsewhere ==
    ASSUME SessionShape, NEW p \in Procs, SessionTypeOK', ProcessShaped(p)',
           \A h \in Handlers : HomeOf[h] = p => CallInPlace(h)',
           row # NoSession => row' # NoSession,
           \A q \in Procs \ {p} : /\ exec'[q] = exec[q] /\ control'[q] = control[q]
                                  /\ tail'[q] = tail[q] /\ seen'[q] = seen[q]
                                  /\ mode'[q] = mode[q],
           \A h \in Handlers : HomeOf[h] # p => call'[h] = call[h]
    PROVE  SessionShape'
<1>1. ASSUME NEW q \in Procs, q # p PROVE ProcessShaped(q)'
  <2>1. /\ ProcessShaped(q)
        /\ exec'[q] = exec[q] /\ control'[q] = control[q] /\ tail'[q] = tail[q]
        /\ seen'[q] = seen[q] /\ mode'[q] = mode[q]
    BY <1>1 DEF SessionShape
  <2>2. \A h \in Handlers : HomeOf[h] = q => call'[h] = call[h]
    BY <1>1
  <2>3. Asking(q)' = Asking(q)
    BY <2>2 DEF Asking
  <2>4. LinedUp(q)' = LinedUp(q)
    BY <2>1, <2>3 DEF LinedUp
  <2> QED BY <2>1, <2>4 DEF ProcessShaped
<1>2. ASSUME NEW h \in Handlers, HomeOf[h] # p PROVE CallInPlace(h)'
  BY <1>2, SessionConstantsOK DEF SessionShape, CallInPlace
<1> QED BY <1>1, <1>2 DEF SessionShape

\* The head of a queue that is not empty.
LEMMA HeadInPlace ==
    ASSUME SessionShape, NEW p \in Procs, tail[p] # <<>>
    PROVE  /\ row \in Session
           /\ Tail(tail[p]) \in Seq(Handlers \cup {"exec"}) /\ Distinct(Tail(tail[p]))
           /\ InQueue(Tail(tail[p])) = LinedUp(p) \ {Head(tail[p])}
           /\ Head(tail[p]) \in LinedUp(p)
           /\ Head(tail[p]) = "exec" => exec[p].at \in Writing
           /\ \A h \in Handlers : Head(tail[p]) = h =>
                 call[h].at = "write" /\ HomeOf[h] = p /\ call[h].record \in Session
<1>1. tail[p] \in Seq(Handlers \cup {"exec"}) /\ Distinct(tail[p])
  BY DEF SessionShape, SessionTypeOK, ProcessShaped
<1>2. InQueue(tail[p]) = LinedUp(p)
  BY DEF SessionShape, ProcessShaped
<1>3. /\ Head(tail[p]) \in InQueue(tail[p])
      /\ Tail(tail[p]) \in Seq(Handlers \cup {"exec"}) /\ Distinct(Tail(tail[p]))
      /\ InQueue(Tail(tail[p])) = InQueue(tail[p]) \ {Head(tail[p])}
  BY <1>1, TailTakesOne
<1>4. \A h \in Handlers : h # "exec"
  BY SessionConstantsOK
<1>5. Head(tail[p]) = "exec" => exec[p].at \in Writing
  BY <1>2, <1>3, <1>4 DEF LinedUp, Asking
<1>6. \A h \in Handlers : Head(tail[p]) = h =>
            call[h].at = "write" /\ HomeOf[h] = p /\ call[h].record \in Session
  BY <1>2, <1>3, <1>4 DEF LinedUp, Asking, SessionShape, CallInPlace, ShapedCall
<1>7. row # NoSession
  <2>1. CASE exec[p].at \in Writing
    BY <2>1 DEF SessionShape, ProcessShaped, Writing
  <2>2. CASE \E h \in Asking(p) : TRUE
    BY <2>2 DEF Asking, SessionShape, CallInPlace
  <2> QED BY <1>2, <1>3, <2>1, <2>2 DEF LinedUp
<1> QED BY <1>2, <1>3, <1>5, <1>6, <1>7 DEF SessionShape, SessionTypeOK, Row

\* What Becomes makes of the execution and the queue of p.
LEMMA BecomesShaped ==
    ASSUME SessionShape, NEW p \in Procs, NEW e \in Execution, Shaped(e),
           NEW t \in Seq(Handlers \cup {"exec"}), Distinct(t), InQueue(t) = Asking(p),
           Becomes(p, e, t)
    PROVE  /\ exec' \in [Procs -> Execution]
           /\ tail' \in [Procs -> Seq(Handlers \cup {"exec"})]
           /\ exec'[p] = e
           /\ \A q \in Procs \ {p} : exec'[q] = exec[q] /\ tail'[q] = tail[q]
           /\ Distinct(tail'[p])
           /\ InQueue(tail'[p]) = IF e.at \in Writing THEN Asking(p) \cup {"exec"}
                                  ELSE Asking(p)
           /\ e.at \notin Writing => tail'[p] = t
           /\ e.at \in Writing => tail'[p] = Append(t, "exec")
<1> DEFINE b == IF e.at \in Writing THEN Append(t, "exec") ELSE t
<1>1. exec' = [exec EXCEPT ![p] = e] /\ tail' = [tail EXCEPT ![p] = b]
  BY DEF Becomes
<1>2. "exec" \notin Asking(p)
  BY SessionConstantsOK DEF Asking
<1>3. /\ b \in Seq(Handlers \cup {"exec"}) /\ Distinct(b)
      /\ InQueue(b) = IF e.at \in Writing THEN Asking(p) \cup {"exec"} ELSE Asking(p)
  <2>1. CASE e.at \in Writing
    BY <1>2, <2>1, AppendAddsOne
  <2>2. CASE e.at \notin Writing
    BY <2>2
  <2> QED BY <2>1, <2>2
<1>4. tail'[p] = b
  BY <1>1 DEF SessionShape, SessionTypeOK
<1>5. e.at \in Writing => b = Append(t, "exec")
  OBVIOUS
<1>6. e.at \notin Writing => b = t
  OBVIOUS
<1> HIDE DEF b
<1> QED BY <1>1, <1>3, <1>4, <1>5, <1>6 DEF SessionShape, SessionTypeOK

LEMMA SelectShaped ==
    ASSUME SessionShape, NEW p \in Procs, SelectForWrite(p)
    PROVE  SessionShape'
<1>1. /\ seen' = [seen EXCEPT ![p] = [selected |-> TRUE, row |-> row]]
      /\ tail[p] # <<>>
      /\ UNCHANGED <<row, claimed, taken, mode, cache, control, tail, exec, call, calls, crashes>>
  BY DEF SelectForWrite
<1>2. row \in Session
  BY <1>1, HeadInPlace
<1>3. /\ seen' \in [Procs -> [selected: BOOLEAN, row: Row]]
      /\ seen'[p] = [selected |-> TRUE, row |-> row]
      /\ \A q \in Procs \ {p} : seen'[q] = seen[q]
  BY <1>1, <1>2 DEF SessionShape, SessionTypeOK, Row
<1>4. SessionTypeOK'
  BY <1>1, <1>3 DEF SessionShape, SessionTypeOK
<1>5. ProcessShaped(p)'
  BY <1>1, <1>2, <1>3 DEF SessionShape, ProcessShaped, ShapedSeen, LinedUp, Asking
<1>6. \A h \in Handlers : CallInPlace(h)'
  BY <1>1 DEF SessionShape, CallInPlace
<1> QED BY <1>1, <1>3, <1>4, <1>5, <1>6, ShapeElsewhere

\* Where a write leaves the execution: r is what it wrote, o what came of it.
LEMMA AfterShaped ==
    ASSUME NEW x \in Execution, Shaped(x), x.at \in Writing,
           NEW r \in Session, NEW c \in Session, NEW over \in BOOLEAN,
           NEW p, exec[p] = x
    PROVE  /\ After(p, r, c, over) \in Execution /\ Shaped(After(p, r, c, over))
           /\ After(p, r, c, over).at \in Writing \cup {"idle", "phase"}
<1> DEFINE y == After(p, r, c, over)
<1>1. CASE x.at = "start"
  <2>1. y = [x EXCEPT !.at = "phase", !.record = r]
    BY <1>1 DEF After
  <2>2. y \in Execution /\ Shaped(y) /\ y.at = "phase"
    BY <1>1, <2>1 DEF Execution, Shaped, Row
  <2> QED BY <2>2
<1>2. CASE x.at = "checkpoint"
  BY <1>2, AdvanceGoesOn DEF After, GoesOn
<1>3. CASE x.at = "finish"
  BY <1>3, NoExecutionShaped DEF After
<1>4. CASE x.at \in {"fail", "settled"}
  BY <1>4, LeaveGoesOn DEF After, GoesOn
<1> QED BY <1>1, <1>2, <1>3, <1>4 DEF Writing

\* What is written, what the cache says then, and how the record stands.
LEMMA OutcomeTyped ==
    ASSUME NEW r \in Session, NEW a \in Session, NEW allow \in BOOLEAN,
           NEW o, o = Outcome(r, a, allow)
    PROVE  o.row \in Session /\ o.record \in Session
<1>1. Ended(a, r.status) \in Session /\ Ended(r, a.status) \in Session
  BY DEF Ended, Session
<1> QED BY <1>1, OutcomeOf

LEMMA StoreTyped ==
    ASSUME SessionShape, NEW p \in Procs, NEW o, o.row \in Session, Store(p, o),
           row \in Session
    PROVE  /\ row' \in Session /\ cache' \in [Procs -> Row]
           /\ seen' \in [Procs -> [selected: BOOLEAN, row: Row]]
           /\ seen'[p] = Unselected /\ \A q \in Procs \ {p} : seen'[q] = seen[q]
           /\ ShapedSeen(seen'[p]) /\ ~seen'[p].selected
<1>1. Unselected \in [selected: BOOLEAN, row: Row] /\ ShapedSeen(Unselected)
      /\ ~Unselected.selected
  BY DEF Unselected, Row, ShapedSeen
<1> QED BY <1>1 DEF Store, SessionShape, SessionTypeOK, Row

LEMMA WriteExecutionShaped ==
    ASSUME SessionShape, NEW p \in Procs, NEW over \in BOOLEAN, WriteExecution(p, over)
    PROVE  SessionShape'
<1> DEFINE o == Outcome(exec[p].record, seen[p].row, FALSE)
           e == After(p, o.record, o.row, over)
<1>1. /\ seen[p].selected /\ Head(tail[p]) = "exec" /\ Store(p, o)
      /\ Becomes(p, e, Tail(tail[p]))
      /\ UNCHANGED <<claimed, taken, mode, control, call, calls, crashes>>
  BY DEF WriteExecution
<1>2. tail[p] # <<>> /\ seen[p].row \in Session
  BY <1>1 DEF SessionShape, ProcessShaped, ShapedSeen
<1>3. /\ row \in Session /\ exec[p].at \in Writing
      /\ Tail(tail[p]) \in Seq(Handlers \cup {"exec"}) /\ Distinct(Tail(tail[p]))
      /\ InQueue(Tail(tail[p])) = LinedUp(p) \ {"exec"}
  BY <1>1, <1>2, HeadInPlace
<1>4. InQueue(Tail(tail[p])) = Asking(p)
  BY <1>3, SessionConstantsOK DEF LinedUp, Asking
<1>5. exec[p] \in Execution /\ Shaped(exec[p]) /\ exec[p].record \in Session
      /\ control[p] # "none" /\ mode[p] = "serving"
  BY <1>3 DEF SessionShape, SessionTypeOK, ProcessShaped, Shaped, Writing
<1>6. o.row \in Session /\ o.record \in Session
  BY <1>2, <1>5, OutcomeTyped
<1> HIDE DEF o
<1>7. e \in Execution /\ Shaped(e)
  BY <1>3, <1>5, <1>6, AfterShaped
<1> HIDE DEF e
<1>8. /\ exec' \in [Procs -> Execution] /\ exec'[p] = e
      /\ tail' \in [Procs -> Seq(Handlers \cup {"exec"})]
      /\ \A q \in Procs \ {p} : exec'[q] = exec[q] /\ tail'[q] = tail[q]
      /\ Distinct(tail'[p])
      /\ InQueue(tail'[p]) = IF e.at \in Writing THEN Asking(p) \cup {"exec"} ELSE Asking(p)
  BY <1>1, <1>3, <1>4, <1>7, BecomesShaped
<1>9. /\ row' \in Session /\ cache' \in [Procs -> Row]
      /\ seen' \in [Procs -> [selected: BOOLEAN, row: Row]]
      /\ \A q \in Procs \ {p} : seen'[q] = seen[q]
      /\ ShapedSeen(seen'[p]) /\ ~seen'[p].selected
  BY <1>1, <1>3, <1>6, StoreTyped
<1>10. SessionTypeOK'
  BY <1>1, <1>8, <1>9 DEF SessionShape, SessionTypeOK, Row
<1>11. ProcessShaped(p)'
  <2>1. InQueue(tail'[p]) = LinedUp(p)'
    BY <1>1, <1>8 DEF LinedUp, Asking
  <2> QED BY <1>1, <1>5, <1>7, <1>8, <1>9, <2>1, NoSessionOK DEF ProcessShaped
<1>12. \A h \in Handlers : CallInPlace(h)'
  BY <1>1, <1>9, NoSessionOK DEF SessionShape, CallInPlace
<1> QED BY <1>1, <1>8, <1>9, <1>10, <1>11, <1>12, NoSessionOK, ShapeElsewhere

LEMMA NoCallShaped == NoCall \in Call /\ NoCall.at = "idle" /\ ShapedCall(NoCall)
BY DEF NoCall, Call, Kind, Row, ShapedCall

LEMMA WriteCallShaped ==
    ASSUME SessionShape, NEW h \in Handlers, WriteCall(HomeOf[h], h)
    PROVE  SessionShape'
<1> DEFINE p == HomeOf[h]
           allow == call[h].kind \in {"pause", "cancel"}
           o == Outcome(call[h].record, seen[p].row, allow)
<1>1. p \in Procs
  BY SessionConstantsOK
<1>2. /\ seen[p].selected /\ Head(tail[p]) = h /\ Store(p, o)
      /\ tail' = [tail EXCEPT ![p] = Tail(@)]
      /\ call' = [call EXCEPT ![h] = NoCall]
      /\ control' = IF allow /\ control[p] # "none"
                    THEN [control EXCEPT ![p] = "aborted"] ELSE control
      /\ UNCHANGED <<claimed, taken, mode, exec, calls, crashes>>
  BY DEF WriteCall
<1>3. tail[p] # <<>> /\ seen[p].row \in Session
  BY <1>1, <1>2 DEF SessionShape, ProcessShaped, ShapedSeen
<1>4. /\ row \in Session /\ call[h].at = "write" /\ call[h].record \in Session
      /\ Tail(tail[p]) \in Seq(Handlers \cup {"exec"}) /\ Distinct(Tail(tail[p]))
      /\ InQueue(Tail(tail[p])) = LinedUp(p) \ {h}
  BY <1>1, <1>2, <1>3, HeadInPlace
<1>5. o.row \in Session
  <2>1. allow \in BOOLEAN
    OBVIOUS
  <2> HIDE DEF allow
  <2> QED BY <1>3, <1>4, <2>1, OutcomeTyped DEF o
<1> HIDE DEF o, p, allow
<1>6. /\ row' \in Session /\ cache' \in [Procs -> Row]
      /\ seen' \in [Procs -> [selected: BOOLEAN, row: Row]]
      /\ \A q \in Procs \ {p} : seen'[q] = seen[q]
      /\ ShapedSeen(seen'[p]) /\ ~seen'[p].selected
  BY <1>1, <1>2, <1>4, <1>5, StoreTyped
<1>7. /\ tail' \in [Procs -> Seq(Handlers \cup {"exec"})] /\ tail'[p] = Tail(tail[p])
      /\ \A q \in Procs \ {p} : tail'[q] = tail[q]
  BY <1>1, <1>2, <1>4 DEF SessionShape, SessionTypeOK
<1>8. /\ call' \in [Handlers -> Call] /\ call'[h] = NoCall
      /\ \A g \in Handlers \ {h} : call'[g] = call[g]
  BY <1>2, NoCallShaped DEF SessionShape, SessionTypeOK
<1>9. /\ control' \in [Procs -> {"none", "live", "aborted"}]
      /\ \A q \in Procs \ {p} : control'[q] = control[q]
      /\ control[p] # "none" => control'[p] # "none"
  BY <1>1, <1>2 DEF SessionShape, SessionTypeOK
<1>10. SessionTypeOK'
  BY <1>2, <1>6, <1>7, <1>8, <1>9 DEF SessionShape, SessionTypeOK, Row
<1>11. Asking(p)' = Asking(p) \ {h}
  BY <1>8, NoCallShaped DEF Asking
<1>12. LinedUp(p)' = LinedUp(p) \ {h}
  BY <1>2, <1>11, SessionConstantsOK DEF LinedUp
<1>13. ProcessShaped(p)'
  BY <1>1, <1>2, <1>4, <1>6, <1>7, <1>9, <1>12, NoSessionOK
     DEF ProcessShaped, SessionShape
<1>14. \A g \in Handlers : CallInPlace(g)'
  BY <1>2, <1>6, <1>8, NoCallShaped, NoSessionOK DEF SessionShape, CallInPlace
<1>15. p = HomeOf[h]
  BY DEF p
<1> QED BY <1>1, <1>2, <1>6, <1>7, <1>8, <1>9, <1>10, <1>13, <1>14, <1>15, NoSessionOK,
           ShapeElsewhere

-----------------------------------------------------------------------------
\* A step of p that takes its execution, which was not writing, to e.
LEMMA MovesShaped ==
    ASSUME SessionShape, NEW p \in Procs, NEW e \in Execution, Shaped(e),
           exec[p].at \notin Writing, Becomes(p, e, tail[p]),
           row' \in Row, row # NoSession => row' # NoSession,
           claimed' \subseteq Nat, cache' \in [Procs -> Row],
           control' \in [Procs -> {"none", "live", "aborted"}],
           \A q \in Procs \ {p} : control'[q] = control[q],
           e.at # "idle" => control'[p] # "none" /\ row' # NoSession /\ mode[p] = "serving",
           call' \in [Handlers -> Call], Asking(p)' = Asking(p),
           \A h \in Handlers : HomeOf[h] = p => CallInPlace(h)',
           \A h \in Handlers : HomeOf[h] # p => call'[h] = call[h],
           UNCHANGED <<taken, mode, seen, calls, crashes>>
    PROVE  SessionShape'
<1>1. /\ tail[p] \in Seq(Handlers \cup {"exec"}) /\ Distinct(tail[p])
      /\ InQueue(tail[p]) = Asking(p)
  BY DEF SessionShape, SessionTypeOK, ProcessShaped, LinedUp
<1>2. /\ exec' \in [Procs -> Execution] /\ exec'[p] = e
      /\ tail' \in [Procs -> Seq(Handlers \cup {"exec"})]
      /\ \A q \in Procs \ {p} : exec'[q] = exec[q] /\ tail'[q] = tail[q]
      /\ Distinct(tail'[p])
      /\ InQueue(tail'[p]) = IF e.at \in Writing THEN Asking(p) \cup {"exec"} ELSE Asking(p)
      /\ e.at \notin Writing => tail'[p] = tail[p]
      /\ e.at \in Writing => tail'[p] = Append(tail[p], "exec")
  BY <1>1, BecomesShaped
<1>3. SessionTypeOK'
  BY <1>2 DEF SessionShape, SessionTypeOK
<1>4. ProcessShaped(p)'
  <2>1. InQueue(tail'[p]) = LinedUp(p)'
    BY <1>2 DEF LinedUp
  <2>2. tail[p] # <<>> => tail'[p] # <<>>
    <3>1. Append(tail[p], "exec") # <<>>
      BY <1>1
    <3> QED BY <1>2, <3>1
  <2>3. ShapedSeen(seen'[p]) /\ (seen'[p].selected => tail'[p] # <<>>)
    BY <2>2 DEF SessionShape, ProcessShaped
  <2> QED BY <1>2, <2>1, <2>3 DEF ProcessShaped
<1> QED BY <1>2, <1>3, <1>4, ShapeElsewhere

\* A step of a request that takes it, before it writes, to c.
LEMMA CallMovesShaped ==
    ASSUME SessionShape, NEW h \in Handlers, NEW c \in Call, ShapedCall(c),
           call[h].at # "write", call' = [call EXCEPT ![h] = c],
           IF c.at = "write" THEN tail' = [tail EXCEPT ![HomeOf[h]] = Append(@, h)]
           ELSE tail' = tail,
           row' \in Row, row # NoSession => row' # NoSession,
           c.at # "idle" => row' # NoSession /\ mode[HomeOf[h]] = "serving",
           cache' \in [Procs -> Row], claimed' \subseteq Nat, calls' \in 0..MaxCalls,
           control' \in [Procs -> {"none", "live", "aborted"}],
           \A q \in Procs \ {HomeOf[h]} : control'[q] = control[q],
           control[HomeOf[h]] # "none" => control'[HomeOf[h]] # "none",
           UNCHANGED <<taken, mode, seen, exec, crashes>>
    PROVE  SessionShape'
<1> DEFINE p == HomeOf[h]
<1>1. p \in Procs /\ h # "exec"
  BY SessionConstantsOK
<1>2. /\ call' \in [Handlers -> Call] /\ call'[h] = c
      /\ \A g \in Handlers \ {h} : call'[g] = call[g]
  BY DEF SessionShape, SessionTypeOK
<1>3. /\ tail[p] \in Seq(Handlers \cup {"exec"}) /\ Distinct(tail[p])
      /\ InQueue(tail[p]) = LinedUp(p) /\ h \notin LinedUp(p)
  BY <1>1 DEF SessionShape, SessionTypeOK, ProcessShaped, LinedUp, Asking
<1> HIDE DEF p
<1>4. LinedUp(p)' = IF c.at = "write" THEN LinedUp(p) \cup {h} ELSE LinedUp(p)
  <2>1. Asking(p)' = IF c.at = "write" THEN Asking(p) \cup {h} ELSE Asking(p)
    BY <1>2 DEF Asking, p
  <2> QED BY <1>3, <2>1 DEF LinedUp
<1>5. /\ tail' \in [Procs -> Seq(Handlers \cup {"exec"})]
      /\ \A q \in Procs \ {p} : tail'[q] = tail[q]
      /\ Distinct(tail'[p]) /\ InQueue(tail'[p]) = LinedUp(p)'
      /\ tail[p] # <<>> => tail'[p] # <<>>
  <2>1. CASE c.at = "write"
    <3>1. tail' = [tail EXCEPT ![p] = Append(tail[p], h)]
      BY <2>1 DEF p
    <3>2. /\ Append(tail[p], h) \in Seq(Handlers \cup {"exec"}) /\ Distinct(Append(tail[p], h))
          /\ InQueue(Append(tail[p], h)) = LinedUp(p) \cup {h} /\ Append(tail[p], h) # <<>>
      BY <1>3, AppendAddsOne
    <3>3. tail'[p] = Append(tail[p], h)
      BY <1>1, <3>1 DEF SessionShape, SessionTypeOK
    <3> QED BY <1>4, <2>1, <3>1, <3>2, <3>3 DEF SessionShape, SessionTypeOK
  <2>2. CASE c.at # "write"
    BY <1>3, <1>4, <2>2 DEF SessionShape, SessionTypeOK
  <2> QED BY <2>1, <2>2
<1>6. SessionTypeOK'
  BY <1>2, <1>5 DEF SessionShape, SessionTypeOK
<1>7. ProcessShaped(p)'
  <2>1. ProcessShaped(p)
    BY <1>1 DEF SessionShape
  <2> QED BY <1>5, <2>1 DEF ProcessShaped, p
<1>8. \A g \in Handlers : CallInPlace(g)'
  BY <1>2 DEF SessionShape, CallInPlace
<1> QED BY <1>1, <1>2, <1>5, <1>6, <1>7, <1>8, ShapeElsewhere DEF p

LEMMA FreshShaped == Fresh \in Session
<1>1. 0 \in Nat /\ <<>> \in Seq(Nodes) /\ [k \in Phases |-> "pending"] \in Nodes
      /\ "running" \in Status
  BY DEF Nodes, Status
<1> QED BY <1>1 DEF Fresh, Session

LEMMA RunShaped ==
    ASSUME SessionShape, NEW p \in Procs, NEW over \in BOOLEAN, Run(p, over)
    PROVE  SessionShape'
<1> DEFINE e == Started(p, Fresh, over)
<1>1. /\ mode[p] = "serving" /\ row = NoSession /\ row' = Fresh
      /\ cache' = [cache EXCEPT ![p] = Fresh]
      /\ control' = [control EXCEPT ![p] = "live"]
      /\ Becomes(p, e, tail[p])
      /\ UNCHANGED <<claimed, taken, mode, seen, call, calls, crashes>>
  BY DEF Run
<1>2. exec[p].at = "idle"
  BY <1>1 DEF SessionShape, ProcessShaped
<1>3. e = Advance(Fresh, over)
  BY <1>2 DEF Started
<1> HIDE DEF e
<1>4. e \in Execution /\ Shaped(e)
  BY <1>3, FreshShaped, AdvanceGoesOn DEF GoesOn
<1>5. /\ row' \in Row /\ row' # NoSession /\ cache' \in [Procs -> Row]
  BY <1>1, FreshShaped, NoSessionOK DEF SessionShape, SessionTypeOK, Row
<1>6. /\ control' \in [Procs -> {"none", "live", "aborted"}]
      /\ \A q \in Procs \ {p} : control'[q] = control[q]
      /\ control'[p] # "none"
  BY <1>1 DEF SessionShape, SessionTypeOK
<1>7. exec[p].at \notin Writing
  BY <1>2 DEF Writing
<1>8. call' \in [Handlers -> Call] /\ claimed' \subseteq Nat
  BY <1>1 DEF SessionShape, SessionTypeOK
<1>9. Asking(p)' = Asking(p) /\ \A h \in Handlers : CallInPlace(h)'
  BY <1>1, <1>5 DEF SessionShape, CallInPlace, Asking
<1> QED BY <1>1, <1>4, <1>5, <1>6, <1>7, <1>8, <1>9, MovesShaped

\* A step of p that moves its execution, and touches no record but the cache.
LEMMA ExecutionMovesShaped ==
    ASSUME SessionShape, NEW p \in Procs, NEW e \in Execution, Shaped(e),
           exec[p].at \notin Writing \cup {"idle"}, Becomes(p, e, tail[p]),
           cache' \in [Procs -> Row],
           UNCHANGED <<row, claimed, taken, mode, control, seen, call, calls, crashes>>
    PROVE  SessionShape'
<1>1. /\ row \in Row /\ claimed \subseteq Nat /\ call \in [Handlers -> Call]
      /\ control \in [Procs -> {"none", "live", "aborted"}]
      /\ control[p] # "none" /\ row # NoSession /\ mode[p] = "serving"
  BY DEF SessionShape, SessionTypeOK, ProcessShaped
<1>2. Asking(p)' = Asking(p) /\ \A h \in Handlers : CallInPlace(h)'
  BY DEF SessionShape, CallInPlace, Asking
<1> QED BY <1>1, <1>2, MovesShaped

\* What the end of a phase makes of its execution.
LEMMA PhaseEndsIs ==
    ASSUME SessionShape, NEW p \in Procs, NEW outcome, PhaseEnds(p, outcome)
    PROVE  /\ exec[p].at = "phase" /\ exec[p].record \in Session
           /\ \E e \in Execution :
                 /\ Shaped(e) /\ Becomes(p, e, tail[p]) /\ From(exec[p].record, e.record)
                 /\ e.at = "settle" => e.record = exec[p].record
                 /\ e.at \in Writing \cup {"settle"} /\ ~e.selected /\ e.rows = NoSession
<1> DEFINE r == exec[p].record
           k == exec[p].node
           interrupted == \/ r.status # "running"
                          \/ outcome = "abort"
                          \/ outcome = "done" /\ Aborted(p)
<1>1. /\ exec[p].at = "phase"
      /\ UNCHANGED <<row, claimed, taken, mode, cache, control, seen, call, calls, crashes>>
      /\ \/ /\ exec' = [exec EXCEPT ![p].at = "settle", ![p].signal = "current"]
            /\ UNCHANGED tail
         \/ /\ ~interrupted /\ outcome = "done"
            /\ Becomes(p, At("checkpoint", Checkpointed(With(r, k, "completed")), k), tail[p])
         \/ /\ ~interrupted /\ outcome = "error"
            /\ Becomes(p, At("fail", Ended(With(r, k, "failed"), "failed"), k), tail[p])
  BY DEF PhaseEnds
<1>2. /\ exec[p] \in Execution /\ Shaped(exec[p]) /\ r \in Session /\ k \in Phases
      /\ exec[p].at \notin Writing \cup {"idle"} /\ cache' \in [Procs -> Row]
  BY <1>1 DEF SessionShape, SessionTypeOK, ProcessShaped, Shaped, Writing
<1>3. CASE exec' = [exec EXCEPT ![p].at = "settle", ![p].signal = "current"] /\ UNCHANGED tail
  <2> DEFINE e == [exec[p] EXCEPT !.at = "settle", !.signal = "current"]
  <2>1. /\ e \in Execution /\ Shaped(e) /\ e.at = "settle" /\ e.record = r
        /\ ~e.selected /\ e.rows = NoSession
    BY <1>1, <1>2 DEF Execution, Shaped, Writing
  <2>2. Becomes(p, e, tail[p])
    BY <1>3, <2>1 DEF Becomes, Writing, SessionShape, SessionTypeOK
  <2> HIDE DEF e
  <2> QED BY <1>1, <1>2, <2>1, <2>2, FromSame
<1>4. ASSUME r.status = "running"
      PROVE  /\ From(r, Checkpointed(With(r, k, "completed")))
             /\ Checkpointed(With(r, k, "completed")).status = "running"
             /\ From(r, Ended(With(r, k, "failed"), "failed"))
             /\ Ended(With(r, k, "failed"), "failed").status = "failed"
  <2>1. "completed" \in NodeStatus /\ "failed" \in NodeStatus /\ "failed" \in Status
    BY DEF NodeStatus, Status, Terminal
  <2> HIDE DEF r, k
  <2>2. /\ From(r, With(r, k, "completed")) /\ From(r, With(r, k, "failed"))
        /\ With(r, k, "completed").status = "running"
    BY <1>2, <1>4, <2>1, RecordSteps
  <2>3. With(r, k, "completed") \in Session /\ With(r, k, "failed") \in Session
    BY <2>2 DEF From
  <2>4. /\ From(With(r, k, "completed"), Checkpointed(With(r, k, "completed")))
        /\ Checkpointed(With(r, k, "completed")).status = "running"
        /\ From(With(r, k, "failed"), Ended(With(r, k, "failed"), "failed"))
        /\ Ended(With(r, k, "failed"), "failed").status = "failed"
    BY <2>1, <2>2, <2>3, RecordSteps
  <2> QED BY <1>2, <2>2, <2>4, FromOn
<1>5. CASE ~interrupted /\ Becomes(p, At("checkpoint", Checkpointed(With(r, k, "completed")), k), tail[p])
  <2> DEFINE e == At("checkpoint", Checkpointed(With(r, k, "completed")), k)
  <2>1. GoesOn(r, e)
    <3>1. "checkpoint" \in Writing /\ k \in Phases \cup {0}
      BY <1>2 DEF Writing
    <3> QED BY <1>2, <1>4, <1>5, <3>1, AtGoesOn
  <2>2. Becomes(p, e, tail[p])
    BY <1>5
  <2> HIDE DEF e
  <2>3. e.at # "settle" /\ e.at # "idle" /\ e.at \in Writing
    BY DEF e, At, NoExecution, Writing
  <2>4. e \in Execution /\ Shaped(e) /\ From(r, e.record)
    BY <2>1, <2>3 DEF GoesOn
  <2>5. ~e.selected /\ e.rows = NoSession
    BY <2>3, <2>4 DEF Shaped
  <2> QED BY <1>1, <1>2, <2>2, <2>3, <2>4, <2>5
<1>6. CASE ~interrupted /\ Becomes(p, At("fail", Ended(With(r, k, "failed"), "failed"), k), tail[p])
  <2> DEFINE e == At("fail", Ended(With(r, k, "failed"), "failed"), k)
  <2>1. GoesOn(r, e)
    <3>1. "fail" \in Writing /\ k \in Phases \cup {0}
      BY <1>2 DEF Writing
    <3> QED BY <1>2, <1>4, <1>6, <3>1, AtGoesOn
  <2>2. Becomes(p, e, tail[p])
    BY <1>6
  <2> HIDE DEF e
  <2>3. e.at # "settle" /\ e.at # "idle" /\ e.at \in Writing
    BY DEF e, At, NoExecution, Writing
  <2>4. e \in Execution /\ Shaped(e) /\ From(r, e.record)
    BY <2>1, <2>3 DEF GoesOn
  <2>5. ~e.selected /\ e.rows = NoSession
    BY <2>3, <2>4 DEF Shaped
  <2> QED BY <1>1, <1>2, <2>2, <2>3, <2>4, <2>5
<1> QED BY <1>1, <1>3, <1>5, <1>6

LEMMA PhaseEndsShaped ==
    ASSUME SessionShape, NEW p \in Procs, NEW outcome, PhaseEnds(p, outcome)
    PROVE  SessionShape'
<1>1. exec[p].at \notin Writing \cup {"idle"}
  BY PhaseEndsIs DEF Writing
<1>2. PICK e \in Execution : Shaped(e) /\ Becomes(p, e, tail[p])
  BY PhaseEndsIs
<1>3. UNCHANGED <<row, claimed, taken, mode, cache, control, seen, call, calls, crashes>>
  BY DEF PhaseEnds
<1>4. cache' \in [Procs -> Row]
  BY <1>3 DEF SessionShape, SessionTypeOK
<1> QED BY <1>1, <1>2, <1>3, <1>4, ExecutionMovesShaped

LEMMA SettleSelectShaped ==
    ASSUME SessionShape, NEW p \in Procs, SettleSelect(p)
    PROVE  SessionShape'
<1> DEFINE e == [exec[p] EXCEPT !.selected = TRUE, !.rows = row]
<1>1. /\ exec[p].at = "settle"
      /\ exec' = [exec EXCEPT ![p].selected = TRUE, ![p].rows = row]
      /\ UNCHANGED <<row, claimed, taken, mode, cache, control, tail, seen, call, calls, crashes>>
  BY DEF SettleSelect
<1>2. /\ exec[p] \in Execution /\ Shaped(exec[p])
      /\ exec[p].at \notin Writing \cup {"idle"} /\ cache' \in [Procs -> Row]
      /\ row \in Session
  BY <1>1 DEF SessionShape, SessionTypeOK, ProcessShaped, Writing, Row
<1>3. e \in Execution /\ Shaped(e) /\ e.at = "settle"
  BY <1>1, <1>2, NoSessionOK DEF Execution, Shaped, Writing, Row
<1>4. Becomes(p, e, tail[p])
  BY <1>1, <1>3 DEF Becomes, Writing, SessionShape, SessionTypeOK
<1> HIDE DEF e
<1> QED BY <1>1, <1>2, <1>3, <1>4, ExecutionMovesShaped

\* The phase an execution was in is given back.
LEMMA InterruptedFrom ==
    ASSUME NEW r \in Session, NEW k \in Phases
    PROVE  From(r, Interrupted(r, k)) /\ Interrupted(r, k).status = r.status
<1>1. "pending" \in NodeStatus /\ "skipped" \in NodeStatus
  BY DEF NodeStatus
<1> QED BY <1>1, RecordSteps, FromSame DEF Interrupted

\* What settle makes of its execution: it goes on from the row it selected.
LEMMA SettleApplyIs ==
    ASSUME SessionShape, NEW p \in Procs, NEW over \in BOOLEAN, SettleApply(p, over)
    PROVE  /\ exec[p].at = "settle" /\ exec[p].selected /\ exec[p].rows \in Session
           /\ \E e : GoesOn(exec[p].rows, e) /\ Becomes(p, e, tail[p])
<1> DEFINE a == exec[p].rows
           k == exec[p].node
           e == IF a.generation = exec[p].record.generation
                THEN At("settled", Interrupted(a, k), k) ELSE Leave(a, a, over)
<1>1. exec[p].at = "settle" /\ exec[p].selected /\ Becomes(p, e, tail[p])
  BY DEF SettleApply
<1>2. a \in Session /\ k \in Phases
  BY <1>1 DEF SessionShape, SessionTypeOK, ProcessShaped, Shaped, Writing
<1> HIDE DEF a, k
<1>3. GoesOn(a, e)
  <2>1. GoesOn(a, At("settled", Interrupted(a, k), k))
    BY <1>2, InterruptedFrom, AtGoesOn DEF Writing
  <2>2. GoesOn(a, Leave(a, a, over))
    BY <1>2, LeaveGoesOn
  <2> QED BY <2>1, <2>2
<1> HIDE DEF e
<1> QED BY <1>1, <1>2, <1>3 DEF a

LEMMA SettleApplyShaped ==
    ASSUME SessionShape, NEW p \in Procs, NEW over \in BOOLEAN, SettleApply(p, over)
    PROVE  SessionShape'
<1>1. PICK e : GoesOn(exec[p].rows, e) /\ Becomes(p, e, tail[p])
  BY SettleApplyIs
<1>2. e \in Execution /\ Shaped(e)
  BY <1>1 DEF GoesOn
<1>3. exec[p].at \notin Writing \cup {"idle"} /\ exec[p].rows \in Row
  BY SettleApplyIs DEF Writing, Row
<1>4. /\ cache' = [cache EXCEPT ![p] = exec[p].rows]
      /\ UNCHANGED <<row, claimed, taken, mode, control, seen, call, calls, crashes>>
  BY DEF SettleApply
<1>5. cache' \in [Procs -> Row]
  BY <1>3, <1>4 DEF SessionShape, SessionTypeOK
<1> QED BY <1>1, <1>2, <1>3, <1>4, <1>5, ExecutionMovesShaped

\* The row an answered select gave is a session, and the request is still asked.
LEMMA AskShaped ==
    ASSUME SessionShape, NEW h \in Handlers, NEW kind \in Kind, NEW c \in 0..MaxPhase,
           Ask(h, kind, c)
    PROVE  SessionShape'
<1> DEFINE d == [kind |-> kind, at |-> "selected", record |-> row, checkpoint |-> c]
<1>1. /\ mode[HomeOf[h]] = "serving" /\ call[h].at = "idle" /\ calls < MaxCalls
      /\ calls' = calls + 1 /\ row # NoSession /\ call' = [call EXCEPT ![h] = d]
      /\ UNCHANGED <<row, claimed, taken, mode, cache, control, tail, seen, exec, crashes>>
  BY DEF Ask
<1>2. row \in Session /\ c \in Nat
  BY <1>1, SessionConstantsOK DEF SessionShape, SessionTypeOK, Row
<1>3. d \in Call /\ ShapedCall(d) /\ d.at = "selected"
  BY <1>2 DEF Call, ShapedCall, Row
<1>4. calls' \in 0..MaxCalls
  BY <1>1, SessionConstantsOK DEF SessionShape, SessionTypeOK
<1>5. /\ row \in Row /\ cache \in [Procs -> Row] /\ claimed \subseteq Nat
      /\ control \in [Procs -> {"none", "live", "aborted"}]
  BY DEF SessionShape, SessionTypeOK
<1> HIDE DEF d
<1> QED BY <1>1, <1>3, <1>4, <1>5, CallMovesShaped

\* What every step of a request that has been selected stands on.
LEMMA SelectedShaped ==
    ASSUME SessionShape, NEW h \in Handlers, Selected(h)
    PROVE  /\ call[h] \in Call /\ call[h].record \in Session /\ call[h].at = "selected"
           /\ row \in Session /\ HomeOf[h] \in Procs /\ mode[HomeOf[h]] = "serving"
           /\ cache \in [Procs -> Row] /\ claimed \subseteq Nat /\ calls \in 0..MaxCalls
           /\ control \in [Procs -> {"none", "live", "aborted"}]
<1>1. call[h].at = "selected" /\ call[h] \in Call
  BY DEF Selected, SessionShape, SessionTypeOK
<1>2. call[h].record \in Session /\ row # NoSession /\ mode[HomeOf[h]] = "serving"
  BY <1>1 DEF SessionShape, CallInPlace, ShapedCall
<1> QED BY <1>1, <1>2, SessionConstantsOK DEF SessionShape, SessionTypeOK, Row

LEMMA RefuseShaped ==
    ASSUME SessionShape, NEW h \in Handlers, Selected(h), NEW r \in Row,
           call' = [call EXCEPT ![h] = NoCall],
           cache' = [cache EXCEPT ![HomeOf[h]] = r],
           UNCHANGED <<row, claimed, taken, mode, control, tail, seen, exec, calls, crashes>>
    PROVE  SessionShape'
<1>1. /\ call[h].at = "selected" /\ row \in Row /\ row # NoSession
      /\ claimed \subseteq Nat /\ calls \in 0..MaxCalls
      /\ control \in [Procs -> {"none", "live", "aborted"}]
  BY SelectedShaped, NoSessionOK DEF Row
<1>2. cache' \in [Procs -> Row]
  BY SelectedShaped
<1> QED BY <1>1, <1>2, NoCallShaped, CallMovesShaped

LEMMA StopShaped ==
    ASSUME SessionShape, NEW h \in Handlers, Stop(h)
    PROVE  SessionShape'
<1> DEFINE p == HomeOf[h]
           stopped == IF call[h].kind = "pause" THEN "paused" ELSE "cancelled"
           c == [call[h] EXCEPT !.at = "write", !.record.status = stopped]
<1>1. Selected(h) /\ call[h].kind \in {"pause", "cancel"}
  BY DEF Stop
<1>2. /\ call[h] \in Call /\ call[h].record \in Session /\ call[h].at = "selected"
      /\ row \in Session /\ row # NoSession /\ p \in Procs /\ mode[p] = "serving"
      /\ cache \in [Procs -> Row] /\ claimed \subseteq Nat /\ calls \in 0..MaxCalls
      /\ control \in [Procs -> {"none", "live", "aborted"}]
  BY <1>1, SelectedShaped, NoSessionOK
<1>3. CASE ~Stoppable(h) /\ Refuse(h)
  <2>1. call[h].record \in Row
    BY <1>2 DEF Row
  <2> QED BY <1>1, <1>3, <2>1, RefuseShaped DEF Refuse
<1>4. CASE /\ call' = [call EXCEPT ![h].at = "write", ![h].record.status = stopped]
           /\ tail' = [tail EXCEPT ![p] = Append(@, h)]
           /\ cache' = [cache EXCEPT ![p] = call[h].record]
           /\ UNCHANGED <<row, claimed, taken, mode, control, seen, exec, calls, crashes>>
  <2>1. stopped \in Halted /\ stopped \in Status
    BY DEF Halted, Status
  <2> HIDE DEF stopped
  <2>2. [call[h].record EXCEPT !.status = stopped] \in Session
    BY <1>2, <2>1 DEF Session
  <2>3. c = [call[h] EXCEPT !.at = "write", !.record = [call[h].record EXCEPT !.status = stopped]]
    OBVIOUS
  <2>4. c.at = "write" /\ c.record = [call[h].record EXCEPT !.status = stopped] /\ c.kind = call[h].kind
    BY <1>2, <2>3 DEF Call
  <2>5. c.record.status = stopped
    BY <1>2, <2>4 DEF Session
  <2>6. c \in Call
    BY <1>2, <2>2, <2>3 DEF Call, Row
  <2>7. ShapedCall(c)
    BY <1>1, <2>1, <2>2, <2>4, <2>5 DEF ShapedCall
  <2>8. call' = [call EXCEPT ![h] = c]
    BY <1>4
  <2>9. cache' \in [Procs -> Row] /\ row \in Row
    BY <1>2, <1>4 DEF Row
  <2> HIDE DEF c
  <2> QED BY <1>2, <1>4, <2>4, <2>6, <2>7, <2>8, <2>9, CallMovesShaped
<1> QED BY <1>3, <1>4 DEF Stop

\* The record a resume or a recovery claims with.
LEMMA WantedIs ==
    ASSUME NEW h \in Handlers, call[h] \in Call, call[h].record \in Session,
           NEW r \in Wanted(h)
    PROVE  /\ r \in Session /\ r.status = "running" /\ ~r.restart
           /\ r.generation = call[h].record.generation + 1
           /\ r.checkpoints = call[h].record.checkpoints
           /\ call[h].record.status # "running"
           /\ IF call[h].kind = "resume" THEN r.recoveries = call[h].record.recoveries
              ELSE r.recoveries = call[h].record.recoveries + 1
           /\ call[h].kind = "resume" => ~call[h].record.restart
<1> DEFINE a == call[h].record
<1>1. "running" \in Status
  BY DEF Status
<1>2. CASE call[h].kind = "resume"
  <2>1. /\ a.status = "paused" /\ ~a.restart
        /\ r = [a EXCEPT !.status = "running", !.generation = @ + 1]
    BY <1>2 DEF Wanted
  <2> HIDE DEF a
  <2>2. /\ r \in Session /\ r.status = "running" /\ r.restart = a.restart
        /\ r.generation = a.generation + 1 /\ r.checkpoints = a.checkpoints
        /\ r.recoveries = a.recoveries
    <3> DEFINE g == a.generation + 1
    <3>1. a \in Session
      BY DEF a
    <3>2. g \in Nat
      BY <3>1 DEF Session
    <3>3. r = [a EXCEPT !.status = "running", !.generation = g] /\ g = a.generation + 1
      BY <2>1
    <3> HIDE DEF g
    <3> QED BY <1>1, <3>1, <3>2, <3>3 DEF Session
  <2> QED BY <1>2, <2>1, <2>2 DEF a
<1>3. CASE call[h].kind # "resume"
  <2>1. a.status # "running" /\ \E nodes \in Restorable(h) : r = Restored(a, nodes)
    BY <1>3 DEF Wanted
  <2>2. PICK nodes \in Restorable(h) : r = Restored(a, nodes)
    BY <2>1
  <2>3. nodes \in Nodes
    <3>1. a.checkpoints \in Seq(Nodes) /\ a.nodes \in Nodes
      BY DEF Session
    <3>2. \A i \in DOMAIN a.checkpoints : a.checkpoints[i] \in Nodes
      BY <3>1
    <3> QED BY <2>2, <3>1, <3>2 DEF Restorable
  <2> HIDE DEF a
  <2>4. /\ r \in Session /\ r.status = "running" /\ r.restart = FALSE
        /\ r.generation = a.generation + 1 /\ r.checkpoints = a.checkpoints
        /\ r.recoveries = a.recoveries + 1
    <3> DEFINE g == a.generation + 1
               v == a.recoveries + 1
    <3>1. a \in Session
      BY DEF a
    <3>2. g \in Nat /\ v \in Nat
      BY <3>1 DEF Session
    <3>3. /\ r = [a EXCEPT !.status = "running", !.nodes = nodes, !.recoveries = v,
                           !.generation = g, !.restart = FALSE]
          /\ g = a.generation + 1 /\ v = a.recoveries + 1
      BY <2>2 DEF Restored
    <3> HIDE DEF g, v
    <3> QED BY <1>1, <2>3, <3>1, <3>2, <3>3 DEF Session
  <2> QED BY <1>3, <2>1, <2>4 DEF a
<1> QED BY <1>2, <1>3

LEMMA ClaimShaped ==
    ASSUME SessionShape, NEW h \in Handlers, NEW over \in BOOLEAN, Claim(h, over)
    PROVE  SessionShape'
<1> DEFINE p == HomeOf[h]
<1>1. Selected(h) /\ call[h].kind \in {"resume", "recover"}
      /\ UNCHANGED <<taken, mode, seen, calls, crashes>>
  BY DEF Claim
<1>2. PICK r \in Wanted(h) :
        /\ claimed' = claimed \cup {r.generation}
        /\ row' = r
        /\ cache' = [cache EXCEPT ![p] = r]
        /\ \/ /\ Pending(r) # {}
              /\ control' = [control EXCEPT ![p] = "live"]
              /\ call' = [call EXCEPT ![h] = NoCall]
              /\ IF exec[p].at = "idle"
                 THEN Becomes(p, Advance(r, over), tail[p])
                 ELSE exec' = [exec EXCEPT ![p] = Replaced(p)] /\ UNCHANGED tail
           \/ /\ Pending(r) = {}
              /\ call' = [call EXCEPT ![h].at = "write",
                            ![h].record = Ended(r, "preview_completed")]
              /\ tail' = [tail EXCEPT ![p] = Append(@, h)]
              /\ UNCHANGED <<control, exec>>
  BY DEF Claim
<1>3. /\ call[h] \in Call /\ call[h].record \in Session /\ call[h].at = "selected"
      /\ row \in Session /\ row # NoSession /\ p \in Procs /\ mode[p] = "serving"
      /\ cache \in [Procs -> Row] /\ claimed \subseteq Nat /\ calls \in 0..MaxCalls
      /\ control \in [Procs -> {"none", "live", "aborted"}]
  BY <1>1, SelectedShaped, NoSessionOK
<1>4. r \in Session
  BY <1>2, <1>3, WantedIs
<1>5. /\ row' \in Row /\ row' # NoSession /\ cache' \in [Procs -> Row] /\ claimed' \subseteq Nat
  <2>1. r.generation \in Nat
    BY <1>4 DEF Session
  <2> QED BY <1>2, <1>3, <1>4, <2>1, NoSessionOK DEF Row
<1>6. CASE /\ Pending(r) = {}
           /\ call' = [call EXCEPT ![h].at = "write",
                         ![h].record = Ended(r, "preview_completed")]
           /\ tail' = [tail EXCEPT ![p] = Append(@, h)]
           /\ UNCHANGED <<control, exec>>
  <2> DEFINE c == [call[h] EXCEPT !.at = "write", !.record = Ended(r, "preview_completed")]
  <2>1. /\ Ended(r, "preview_completed") \in Session
        /\ Ended(r, "preview_completed").status = "preview_completed"
    BY <1>4 DEF Ended, Session, Status, Terminal
  <2>2. /\ c.at = "write" /\ c.kind = call[h].kind /\ c.record = Ended(r, "preview_completed")
        /\ c \in Call
    BY <1>3, <2>1 DEF Call, Row
  <2>3. ShapedCall(c)
    BY <1>1, <2>1, <2>2 DEF ShapedCall
  <2>4. call' = [call EXCEPT ![h] = c]
    BY <1>6
  <2> HIDE DEF c
  <2> QED BY <1>1, <1>3, <1>5, <1>6, <2>2, <2>3, <2>4, CallMovesShaped
<1>7. CASE /\ Pending(r) # {}
           /\ control' = [control EXCEPT ![p] = "live"]
           /\ call' = [call EXCEPT ![h] = NoCall]
           /\ IF exec[p].at = "idle"
              THEN Becomes(p, Advance(r, over), tail[p])
              ELSE exec' = [exec EXCEPT ![p] = Replaced(p)] /\ UNCHANGED tail
  <2>1. /\ control' \in [Procs -> {"none", "live", "aborted"}]
        /\ \A q \in Procs \ {p} : control'[q] = control[q]
        /\ control'[p] = "live"
    BY <1>3, <1>7
  <2>2. /\ exec[p] \in Execution /\ Shaped(exec[p])
        /\ exec \in [Procs -> Execution] /\ tail \in [Procs -> Seq(Handlers \cup {"exec"})]
    BY <1>3 DEF SessionShape, SessionTypeOK, ProcessShaped
  <2>3. /\ call' \in [Handlers -> Call] /\ call'[h] = NoCall
        /\ \A g \in Handlers \ {h} : call'[g] = call[g]
    BY <1>7, NoCallShaped DEF SessionShape, SessionTypeOK
  <2>4. Asking(p)' = Asking(p)
    BY <1>3, <2>3, NoCallShaped DEF Asking
  <2>5. \A g \in Handlers : CallInPlace(g)'
    <3> TAKE g \in Handlers
    <3>1. CallInPlace(g)
      BY DEF SessionShape
    <3> QED BY <1>1, <1>5, <2>3, <3>1, NoCallShaped DEF CallInPlace
  <2>6. ASSUME NEW e \in Execution, Shaped(e), Becomes(p, e, tail[p]),
               exec[p].at \notin Writing
        PROVE  SessionShape'
    BY <1>1, <1>3, <1>5, <2>1, <2>3, <2>4, <2>5, <2>6, MovesShaped
  <2>7. CASE exec[p].at = "idle"
    <3>1. GoesOn(r, Advance(r, over))
      BY <1>4, AdvanceGoesOn
    <3> QED BY <1>7, <2>6, <2>7, <3>1 DEF GoesOn, Writing
  <2>8. CASE exec[p].at = "phase"
    <3> DEFINE e == Replaced(p)
    <3>1. e \in Execution /\ Shaped(e) /\ e.at = "phase"
      <4> DEFINE s == IF exec[p].signal = "current" /\ exec[p].at = "phase"
                      THEN control[p] ELSE exec[p].signal
      <4>1. e = [exec[p] EXCEPT !.signal = s]
        BY DEF Replaced
      <4>2. control[p] \in {"live", "aborted"}
        BY <1>3, <2>8 DEF SessionShape, SessionTypeOK, ProcessShaped
      <4>3. s \in {"current", "live", "aborted"}
        BY <2>2, <4>2 DEF Execution
      <4> HIDE DEF e, s
      <4> QED BY <2>2, <2>8, <4>1, <4>3 DEF Execution, Shaped
    <3>2. Becomes(p, e, tail[p])
      BY <1>7, <2>2, <2>8, <3>1 DEF Becomes, Writing
    <3> HIDE DEF e
    <3> QED BY <2>6, <2>8, <3>1, <3>2 DEF Writing
  <2>9. CASE exec[p].at \notin {"idle", "phase"}
    <3>1. Replaced(p) = exec[p]
      <4> DEFINE x == exec[p]
                 b == exec[p].signal = "current" /\ exec[p].at = "phase"
                 s == IF b THEN control[p] ELSE x.signal
      <4>1. Replaced(p) = [x EXCEPT !.signal = s]
        BY DEF Replaced
      <4>2. ~b
        BY <2>9
      <4>3. s = x.signal
        BY <4>2
      <4>4. x \in Execution
        BY <2>2
      <4> HIDE DEF x, s, b
      <4>5. [x EXCEPT !.signal = s] = x
        BY <4>3, <4>4 DEF Execution
      <4> QED BY <4>1, <4>5 DEF x
    <3>2. exec' = exec /\ tail' = tail
      BY <1>7, <2>2, <2>9, <3>1
    <3> QED BY <1>1, <1>3, <1>5, <1>7, <2>1, <3>2, NoCallShaped, CallMovesShaped
  <2> QED BY <2>7, <2>8, <2>9
<1> QED BY <1>2, <1>6, <1>7

LEMMA NoClaimShaped ==
    ASSUME SessionShape, NEW h \in Handlers, NoClaim(h)
    PROVE  SessionShape'
<1> DEFINE c == IF Wanted(h) = {} THEN call[h].record ELSE row
<1>1. /\ Selected(h) /\ cache' = [cache EXCEPT ![HomeOf[h]] = c]
      /\ call' = [call EXCEPT ![h] = NoCall]
      /\ UNCHANGED <<row, claimed, taken, mode, control, tail, seen, exec, calls, crashes>>
  BY DEF NoClaim
<1>2. c \in Row
  BY <1>1, SelectedShaped DEF Row
<1> HIDE DEF c
<1> QED BY <1>1, <1>2, RefuseShaped

LEMMA CrashShaped ==
    ASSUME SessionShape, NEW p \in Procs, Crash(p)
    PROVE  SessionShape'
<1>1. /\ crashes < MaxCrashes /\ crashes' = crashes + 1
      /\ mode' = [mode EXCEPT ![p] = "down"]
      /\ cache' = [cache EXCEPT ![p] = NoSession]
      /\ control' = [control EXCEPT ![p] = "none"]
      /\ tail' = [tail EXCEPT ![p] = <<>>]
      /\ seen' = [seen EXCEPT ![p] = Unselected]
      /\ exec' = [exec EXCEPT ![p] = NoExecution]
      /\ call' = [h \in Handlers |-> IF HomeOf[h] = p THEN NoCall ELSE call[h]]
      /\ UNCHANGED <<row, claimed, taken, calls>>
  BY DEF Crash
<1>2. crashes' \in 0..MaxCrashes
  BY <1>1, SessionConstantsOK DEF SessionShape, SessionTypeOK
<1>3. /\ mode' \in [Procs -> {"down", "booting", "serving"}]
      /\ cache' \in [Procs -> Row]
      /\ control' \in [Procs -> {"none", "live", "aborted"}]
      /\ \A q \in Procs \ {p} : mode'[q] = mode[q] /\ control'[q] = control[q]
  BY <1>1 DEF SessionShape, SessionTypeOK, Row
<1>4. /\ tail' \in [Procs -> Seq(Handlers \cup {"exec"})] /\ tail'[p] = <<>>
      /\ \A q \in Procs \ {p} : tail'[q] = tail[q]
  BY <1>1 DEF SessionShape, SessionTypeOK
<1>5. Unselected \in [selected: BOOLEAN, row: Row] /\ ShapedSeen(Unselected)
      /\ ~Unselected.selected
  BY DEF Unselected, Row, ShapedSeen
<1>6. /\ seen' \in [Procs -> [selected: BOOLEAN, row: Row]] /\ seen'[p] = Unselected
      /\ \A q \in Procs \ {p} : seen'[q] = seen[q]
  BY <1>1, <1>5 DEF SessionShape, SessionTypeOK
<1>7. /\ exec' \in [Procs -> Execution] /\ exec'[p] = NoExecution
      /\ \A q \in Procs \ {p} : exec'[q] = exec[q]
  BY <1>1, NoExecutionShaped DEF SessionShape, SessionTypeOK
<1>8. /\ call' \in [Handlers -> Call]
      /\ \A h \in Handlers : HomeOf[h] = p => call'[h] = NoCall
      /\ \A h \in Handlers : HomeOf[h] # p => call'[h] = call[h]
  BY <1>1, NoCallShaped DEF SessionShape, SessionTypeOK
<1>9. SessionTypeOK'
  BY <1>1, <1>2, <1>3, <1>4, <1>6, <1>7, <1>8 DEF SessionShape, SessionTypeOK
<1>10. ProcessShaped(p)'
  <2>1. LinedUp(p)' = {}
    BY <1>7, <1>8, NoCallShaped, NoExecutionShaped DEF LinedUp, Asking, Writing
  <2>2. InQueue(tail'[p]) = {} /\ Distinct(tail'[p])
    BY <1>4 DEF InQueue, Distinct
  <2> QED BY <1>5, <1>6, <1>7, <2>1, <2>2, NoExecutionShaped DEF ProcessShaped
<1>11. \A h \in Handlers : HomeOf[h] = p => CallInPlace(h)'
  BY <1>8, NoCallShaped DEF CallInPlace
<1> QED BY <1>1, <1>3, <1>4, <1>6, <1>7, <1>8, <1>9, <1>10, <1>11, ShapeElsewhere

\* A process that is not serving has no execution and no request.
LEMMA RestartShaped ==
    ASSUME SessionShape, NEW p \in Procs, mode[p] # "serving",
           mode' \in [Procs -> {"down", "booting", "serving"}],
           \A q \in Procs \ {p} : mode'[q] = mode[q],
           cache' \in [Procs -> Row], row' \in Row, taken' \subseteq Nat,
           row # NoSession => row' # NoSession,
           UNCHANGED <<claimed, control, tail, seen, exec, call, calls, crashes>>
    PROVE  SessionShape'
<1>1. exec[p].at = "idle" /\ \A h \in Handlers : HomeOf[h] = p => call[h].at = "idle"
  BY DEF SessionShape, ProcessShaped, CallInPlace
<1>2. SessionTypeOK'
  BY DEF SessionShape, SessionTypeOK
<1>3. ProcessShaped(p)'
  <2>1. ProcessShaped(p)
    BY DEF SessionShape
  <2> QED BY <1>1, <2>1 DEF ProcessShaped, LinedUp, Asking
<1>4. \A h \in Handlers : HomeOf[h] = p => CallInPlace(h)'
  BY <1>1 DEF SessionShape, CallInPlace
<1> QED BY <1>2, <1>3, <1>4, ShapeElsewhere

LEMMA BootShaped ==
    ASSUME SessionShape, NEW p \in Procs, Boot(p)
    PROVE  SessionShape'
<1>1. /\ mode[p] = "down" /\ mode' = [mode EXCEPT ![p] = "booting"]
      /\ cache' = [cache EXCEPT ![p] = row]
      /\ UNCHANGED <<row, claimed, taken, control, tail, seen, exec, call, calls, crashes>>
  BY DEF Boot
<1>2. /\ mode' \in [Procs -> {"down", "booting", "serving"}]
      /\ \A q \in Procs \ {p} : mode'[q] = mode[q]
      /\ cache' \in [Procs -> Row] /\ row \in Row /\ taken \subseteq Nat
  BY <1>1 DEF SessionShape, SessionTypeOK
<1> QED BY <1>1, <1>2, RestartShaped

LEMMA InterruptedRecordIs ==
    ASSUME NEW r \in Session
    PROVE  LET s == InterruptedRecord(r) IN
           /\ s \in Session /\ s.status = "paused" /\ s.restart
           /\ s.generation = r.generation /\ s.recoveries = r.recoveries
           /\ s.checkpoints = r.checkpoints
<1> DEFINE n == GivenBack(r.nodes)
           s == InterruptedRecord(r)
<1>1. n \in Nodes
  BY DEF GivenBack, Session, Nodes
<1>2. s = [r EXCEPT !.status = "paused", !.restart = TRUE, !.nodes = n]
  BY DEF InterruptedRecord
<1>3. "paused" \in Status
  BY DEF Status, Halted
<1> HIDE DEF n, s
<1>4. /\ s \in Session /\ s.status = "paused" /\ s.restart
      /\ s.generation = r.generation /\ s.recoveries = r.recoveries
      /\ s.checkpoints = r.checkpoints
  BY <1>1, <1>2, <1>3 DEF Session
<1> QED BY <1>4 DEF s

LEMMA MarkInterruptedShaped ==
    ASSUME SessionShape, NEW p \in Procs, MarkInterrupted(p)
    PROVE  SessionShape'
<1> DEFINE r == cache[p]
<1>1. /\ mode[p] = "booting" /\ mode' = [mode EXCEPT ![p] = "serving"]
      /\ \/ /\ Interruptible(r)
            /\ taken' = taken \cup {r.recoveries}
            /\ row' = InterruptedRecord(r)
            /\ cache' = [cache EXCEPT ![p] = InterruptedRecord(r)]
         \/ /\ ~Interruptible(r)
            /\ cache' = [cache EXCEPT ![p] = row]
            /\ UNCHANGED <<row, taken>>
      /\ UNCHANGED <<claimed, control, tail, seen, exec, call, calls, crashes>>
  BY DEF MarkInterrupted
<1>2. /\ mode' \in [Procs -> {"down", "booting", "serving"}]
      /\ \A q \in Procs \ {p} : mode'[q] = mode[q]
  BY <1>1 DEF SessionShape, SessionTypeOK
<1>3. r \in Row /\ row \in Row /\ taken \subseteq Nat /\ cache \in [Procs -> Row]
  BY DEF SessionShape, SessionTypeOK
<1> HIDE DEF r
<1>4. CASE /\ Interruptible(r)
           /\ taken' = taken \cup {r.recoveries}
           /\ row' = InterruptedRecord(r)
           /\ cache' = [cache EXCEPT ![p] = InterruptedRecord(r)]
  <2>1. r \in Session
    BY <1>3, <1>4 DEF Interruptible, Row
  <2>2. InterruptedRecord(r) \in Session /\ r.recoveries \in Nat
    BY <2>1, InterruptedRecordIs DEF Session
  <2>3. row' \in Row /\ row' # NoSession /\ taken' \subseteq Nat /\ cache' \in [Procs -> Row]
    BY <1>3, <1>4, <2>2, NoSessionOK DEF Row
  <2> QED BY <1>1, <1>2, <2>3, RestartShaped
<1>5. CASE /\ cache' = [cache EXCEPT ![p] = row]
           /\ UNCHANGED <<row, taken>>
  <2>1. cache' \in [Procs -> Row]
    BY <1>3, <1>5
  <2> QED BY <1>1, <1>2, <1>3, <1>5, <2>1, RestartShaped
<1> QED BY <1>1, <1>4, <1>5

LEMMA SessionInitShaped == Init => SessionShape
<1> SUFFICES ASSUME Init PROVE SessionShape
  OBVIOUS
<1>1. NoSession \in Row /\ 0 \in 0..MaxCalls /\ 0 \in 0..MaxCrashes
  BY SessionConstantsOK DEF Row
<1>2. SessionTypeOK
  BY <1>1, NoExecutionShaped, NoCallShaped DEF Init, SessionTypeOK
<1>3. \A h \in Handlers : CallInPlace(h)
  BY NoCallShaped DEF Init, CallInPlace
<1>4. ASSUME NEW p \in Procs PROVE ProcessShaped(p)
  <2>1. LinedUp(p) = {}
    BY NoCallShaped, NoExecutionShaped DEF Init, LinedUp, Asking, Writing
  <2>2. InQueue(tail[p]) = {} /\ Distinct(tail[p])
    BY DEF Init, InQueue, Distinct
  <2> QED BY <2>1, <2>2, NoExecutionShaped DEF Init, ProcessShaped, ShapedSeen
<1> QED BY <1>2, <1>3, <1>4 DEF SessionShape

LEMMA SessionStep == SessionShape /\ [Next]_vars => SessionShape'
<1> SUFFICES ASSUME SessionShape, [Next]_vars PROVE SessionShape'
  OBVIOUS
<1>1. ASSUME NEW p \in Procs, NEW over \in BOOLEAN, Run(p, over) PROVE SessionShape'
  BY <1>1, RunShaped
<1>2. ASSUME NEW p \in Procs, ExecutionStep(p) PROVE SessionShape'
  BY <1>2, PhaseEndsShaped, SettleSelectShaped, SettleApplyShaped, WriteExecutionShaped
     DEF ExecutionStep
<1>3. ASSUME NEW p \in Procs, SelectForWrite(p) \/ Crash(p) \/ Boot(p) \/ MarkInterrupted(p)
      PROVE  SessionShape'
  BY <1>3, SelectShaped, CrashShaped, BootShaped, MarkInterruptedShaped
<1>4. ASSUME NEW h \in Handlers, NEW kind \in Kind, NEW c \in 0..MaxPhase, Ask(h, kind, c)
      PROVE  SessionShape'
  BY <1>4, AskShaped
<1>5. ASSUME NEW h \in Handlers, CallStep(h) PROVE SessionShape'
  BY <1>5, StopShaped, ClaimShaped, NoClaimShaped, WriteCallShaped DEF CallStep
<1>6. CASE UNCHANGED vars
  BY <1>6 DEF vars, SessionShape, SessionTypeOK, ProcessShaped, CallInPlace, LinedUp, Asking
<1> QED BY <1>1, <1>2, <1>3, <1>4, <1>5, <1>6 DEF Next

\* AutonomousOrchestrator and AutonomousSessionRepository: the row, the caches,
\* the write queues, the executions and the requests are well formed, with any
\* number of processes, of requests and of crashes.
THEOREM SessionTypeCorrect == Spec => []SessionTypeOK
<1>1. Init => SessionShape
  BY SessionInitShaped
<1>2. SessionShape /\ [Next]_vars => SessionShape'
  BY SessionStep
<1>3. SessionShape => SessionTypeOK
  BY DEF SessionShape
<1> QED BY <1>1, <1>2, <1>3, PTL DEF Spec

-----------------------------------------------------------------------------
(***************************************************************************)
(* Autonomous sessions of one process.  The invariant, Alone(p), says how the *)
(* records the process holds stand to the row: each is of a generation that was *)
(* claimed (KnownFit), a row selected before a write or by settle is still the *)
(* row unless a claim came between (SeenLags, RowsLag), the execution has all *)
(* the checkpoints of its generation (Ahead), and nothing but a stop comes *)
(* between a claim and the end it writes (Closes).                         *)
(***************************************************************************)

\* A record the process holds: of a claimed generation, and not found by a
\* restart that took its recovery count, unless the restart marked it.
Fits(r) == r \in Session =>
    /\ r.generation \in claimed \cup {0}
    /\ \A t \in taken : t <= r.recoveries /\ (t = r.recoveries => r.restart)
    /\ r.status = "running" => ~r.restart

KnownFit(p) ==
    /\ Fits(row) /\ Fits(seen[p].row) /\ Fits(exec[p].record) /\ Fits(exec[p].rows)
    /\ \A h \in Handlers : call[h].at # "idle" => Fits(call[h].record)
    /\ row = NoSession => taken = {}

HeadRecord(p) == IF Head(tail[p]) = "exec" THEN exec[p].record ELSE call[Head(tail[p])].record

\* The row a write has selected is the row, unless a claim came between them.
SeenLags(p) ==
    seen[p].selected =>
        \/ row = seen[p].row
        \/ /\ row.status = "running"
           /\ row.generation # seen[p].row.generation
           /\ row.generation # HeadRecord(p).generation

\* So is the row that settle has selected, while its generation runs.
RowsLag(p) ==
    exec[p].at = "settle" /\ exec[p].selected /\ row.status = "running"
        /\ row.generation = exec[p].rows.generation => row = exec[p].rows

\* The execution has every checkpoint of the row it goes on with.
Ahead(p) ==
    exec[p].at # "idle" /\ row.status = "running"
        /\ row.generation = exec[p].record.generation
        => Extends(row.checkpoints, exec[p].record.checkpoints)

\* A resume or a recovery that had nothing left to run, about to write its end.
Closing(h) == call[h].at = "write" /\ call[h].kind \in {"resume", "recover"}
Behind(q, h) == \E i, j \in DOMAIN q : i < j /\ q[i] = h /\ q[j] = "exec"

\* Nothing comes between the claim of h and its end, but a stop.
ClosesExec(p, h) ==
    exec[p].at # "idle" /\ exec[p].record.generation = call[h].record.generation
        => Behind(tail[p], h)
ClosesRow(h) ==
    row.generation = call[h].record.generation =>
        /\ row.status \in {"running"} \cup Halted
        /\ row.status = "running" => row.checkpoints = call[h].record.checkpoints
ClosesSeen(p, h) ==
    seen[p].selected /\ seen[p].row.generation = call[h].record.generation =>
        seen[p].row.status \in {"running"} \cup Halted
ClosesAlone(h) ==
    \A g \in Handlers \ {h} : Closing(g) => call[g].record.generation # call[h].record.generation
Closes(p) == \A h \in Handlers : Closing(h) =>
    ClosesExec(p, h) /\ ClosesRow(h) /\ ClosesSeen(p, h) /\ ClosesAlone(h)

BootSees(p) == mode[p] = "booting" => cache[p] = row

Alone(p) ==
    /\ KnownFit(p) /\ SeenLags(p) /\ RowsLag(p) /\ Ahead(p) /\ Closes(p) /\ BootSees(p)

-----------------------------------------------------------------------------
LEMMA FitsFrom ==
    ASSUME NEW r \in Session, NEW s, From(r, s), Fits(r)
    PROVE  Fits(s)
BY DEF From, Fits

\* Where an execution goes when its loop is left.
LEMMA LeaveIs ==
    ASSUME NEW r, NEW c, NEW over
    PROVE  \/ Leave(r, c, over) = NoExecution
           \/ r.status = "running" /\ Leave(r, c, over) = Finish(r)
           \/ r.status = "running" /\ Leave(r, c, over) = Advance(c, over)
BY DEF Leave

LEMMA FinishIs ==
    ASSUME NEW r \in Session, NEW to \in Status
    PROVE  /\ From(r, Finish(r).record)
           /\ From(r, Finish(Ended(r, to)).record)
<1>1. /\ Finish(r).record = Ended(r, "preview_completed")
      /\ Finish(Ended(r, to)).record = Ended(Ended(r, to), "preview_completed")
  BY DEF Finish, At, NoExecution
<1>2. "preview_completed" \in Status
  BY DEF Status, Terminal
<1>3. Ended(Ended(r, to), "preview_completed") = Ended(r, "preview_completed")
  BY DEF Ended, Session
<1> QED BY <1>1, <1>2, <1>3, RecordSteps

\* What the execution is, as e, from a write of its record r over a that came to o.
Wrote(r, a, o, e) ==
    /\ e.at # "idle" => From(r, e.record) \/ From(a, e.record)
    /\ o.saved => /\ o.row = r
                  /\ a.status # "running" => r.status = a.status
                  /\ e.at # "idle" => From(r, e.record)
    /\ e.at = "phase" => \/ From(r, e.record)
                         \/ e.record = a /\ a.status \in Terminal \ Halted
    /\ o.row = r \/ o.row = a

LEMMA WriteGoesOn ==
    ASSUME NEW p, NEW r \in Session, NEW a \in Session, NEW over \in BOOLEAN,
           exec[p] \in Execution, Shaped(exec[p]), exec[p].at \in Writing,
           exec[p].record = r,
           NEW allow \in BOOLEAN, ~allow, NEW o, o = Outcome(r, a, allow),
           NEW e, e = After(p, o.record, o.row, over)
    PROVE  Wrote(r, a, o, e)
<1> DEFINE x == exec[p]
<1>1. /\ x.at \in {"start", "checkpoint"} => r.status = "running"
      /\ x.at = "fail" => r.status = "failed"
  BY DEF Shaped
<1>2. /\ x.at = "start" => e = [x EXCEPT !.at = "phase", !.record = o.record]
      /\ x.at = "checkpoint" => e = Advance(o.record, over)
      /\ x.at = "finish" => e = NoExecution
      /\ x.at \in {"fail", "settled"} => e = Leave(o.record, o.row, over)
  BY DEF After
<1>3. x.at \in {"start", "checkpoint", "finish"} \cup {"fail", "settled"}
  BY DEF Writing
<1>4. x.at = "start" => e.at = "phase" /\ e.record = o.record
  BY <1>2 DEF Execution
<1>5. NoExecution.at = "idle"
  BY NoExecutionShaped
<1>6. From(r, r) /\ From(a, a)
  BY FromSame
<1> HIDE DEF x
<1>7. ASSUME o.record = r, o.row = r
      PROVE  e.at # "idle" => From(r, e.record)
  <2>2. x.at = "checkpoint" => (e.at # "idle" => From(r, e.record))
    BY <1>2, <1>7, AdvanceGoesOn DEF GoesOn
  <2>3. x.at \in {"fail", "settled"} => (e.at # "idle" => From(r, e.record))
    BY <1>2, <1>7, LeaveGoesOn DEF GoesOn
  <2> QED BY <1>2, <1>3, <1>4, <1>5, <1>6, <1>7, <2>2, <2>3
<1>8. ASSUME NEW s \in Session, From(r, s), s.status # "running",
             o.record = s
      PROVE  e.at # "idle" => From(r, e.record)
  <2>1. x.at = "checkpoint" => (e.at # "idle" => From(r, e.record))
    BY <1>2, <1>8, AdvanceGoesOn, FromOn DEF GoesOn
  <2>2. x.at \in {"fail", "settled"} => e.at = "idle"
    BY <1>2, <1>5, <1>8, LeaveIs
  <2> QED BY <1>2, <1>3, <1>4, <1>5, <1>8, <2>1, <2>2
<1>9. ASSUME o.row = a, o.record = Ended(r, a.status), a.status = "running", r.status \in Halted
      PROVE  (e.at # "idle" => From(r, e.record) \/ From(a, e.record)) /\ e.at # "phase"
  <2>2. x.at \in {"finish", "fail", "settled"}
    BY <1>1, <1>3, <1>9 DEF Halted
  <2>3. CASE x.at = "finish"
    BY <1>2, <1>5, <2>3
  <2>4. CASE x.at \in {"fail", "settled"}
    <3>1. a.status \in Status
      BY DEF Session
    <3>2. CASE e = NoExecution
      BY <1>5, <3>2
    <3>3. CASE e = Finish(o.record)
      <4>1. e.at = "finish"
        BY <3>3 DEF Finish, At, NoExecution
      <4>2. From(r, e.record)
        BY <1>9, <3>1, <3>3, FinishIs
      <4> QED BY <4>1, <4>2
    <3>4. CASE e = Advance(a, over)
      BY <3>4, AdvanceGoesOn DEF GoesOn, Writing
    <3> QED BY <1>2, <1>9, <2>4, <3>2, <3>3, <3>4, LeaveIs
  <2> QED BY <2>2, <2>3, <2>4
<1>10. ASSUME o.row = a, o.record = a
       PROVE  e.at # "idle" => From(a, e.record)
  <2>2. x.at = "checkpoint" => (e.at # "idle" => From(a, e.record))
    BY <1>2, <1>10, AdvanceGoesOn DEF GoesOn
  <2>3. x.at \in {"fail", "settled"} => (e.at # "idle" => From(a, e.record))
    BY <1>2, <1>10, LeaveGoesOn DEF GoesOn
  <2> QED BY <1>2, <1>3, <1>4, <1>5, <1>6, <1>10, <2>2, <2>3
<1>11. e.at = "phase" => e.record = o.record
  <2>1. CASE x.at = "start"
    BY <1>4, <2>1
  <2>2. CASE x.at = "checkpoint"
    <3>1. o.record \in Session
      BY OutcomeTyped
    <3> QED BY <1>2, <2>2, <3>1, AdvanceGoesOn DEF GoesOn, Writing
  <2>3. CASE x.at = "finish"
    BY <1>2, <1>5, <2>3
  <2>4. CASE x.at \in {"fail", "settled"}
    <3>1. o.record \in Session /\ o.row \in Session
      BY OutcomeTyped
    <3>2. e.at \in Writing \cup {"idle"}
      BY <1>2, <2>4, <3>1, LeaveGoesOn DEF GoesOn
    <3> QED BY <3>2 DEF Writing
  <2> QED BY <1>3, <2>1, <2>2, <2>3, <2>4
<1>12. \/ /\ o.saved /\ o.row = r /\ o.record = r
          /\ (a.status # "running" => r.status = a.status)
       \/ /\ ~o.saved /\ o.row = a /\ o.record = Ended(r, a.status)
          /\ a.status = "running" /\ r.status \in Halted
       \/ /\ ~o.saved /\ o.row = a /\ o.record = Ended(r, a.status) /\ a.status \in Halted
       \/ ~o.saved /\ o.row = a /\ o.record = a /\ a.status \in Terminal \ Halted
  BY OutcomeOf
<1>13. CASE /\ o.saved /\ o.row = r /\ o.record = r
            /\ (a.status # "running" => r.status = a.status)
  BY <1>7, <1>13 DEF Wrote
<1>14. CASE /\ ~o.saved /\ o.row = a /\ o.record = Ended(r, a.status)
            /\ a.status = "running" /\ r.status \in Halted
  BY <1>9, <1>14 DEF Wrote
<1>15. CASE /\ ~o.saved /\ o.row = a /\ o.record = Ended(r, a.status) /\ a.status \in Halted
  <2>1. a.status \in Status /\ a.status # "running"
    BY <1>15 DEF Session, Halted
  <2>2. From(r, Ended(r, a.status)) /\ Ended(r, a.status).status = a.status
    BY <2>1, RecordSteps
  <2>3. Ended(r, a.status) \in Session
    BY <2>2 DEF From
  <2>4. e.at # "idle" => From(r, e.record)
    BY <1>8, <1>15, <2>1, <2>2, <2>3
  <2> QED BY <1>15, <2>4 DEF Wrote
<1>16. CASE ~o.saved /\ o.row = a /\ o.record = a /\ a.status \in Terminal \ Halted
  BY <1>10, <1>11, <1>16 DEF Wrote
<1> QED BY <1>12, <1>13, <1>14, <1>15, <1>16

\* What comes of the write of the record r of a request over a.
LEMMA CallOutcome ==
    ASSUME NEW r \in Session, NEW a \in Session, NEW allow \in BOOLEAN,
           IF allow THEN r.status \in Halted ELSE r.status = "preview_completed",
           NEW o, o = Outcome(r, a, allow)
    PROVE  /\ o.saved => /\ o.row.status # "running"
                         /\ allow => o.row.status \in Halted
                         /\ \/ o.row = r /\ (allow => a.status # "running")
                            \/ allow /\ From(a, o.row) /\ o.row.checkpoints = a.checkpoints
           /\ o.row = r \/ From(a, o.row)
<1> DEFINE s == Ended(a, r.status)
<1>1. "running" \notin Halted /\ r.status # "running" /\ r.status \in Status
  BY DEF Halted, Session
<1>2. s.status = r.status /\ From(a, s) /\ s.checkpoints = a.checkpoints
  <2>1. s.status = r.status /\ From(a, s)
    BY <1>1, RecordSteps
  <2>2. s.checkpoints = a.checkpoints
    BY DEF Ended, Session
  <2> QED BY <2>1, <2>2
<1>3. From(a, a)
  BY FromSame
<1>4. \/ /\ o.saved /\ o.row = r
         /\ (allow => a.status # "running" \/ r.status \notin Halted)
         /\ (~allow => IF a.status = "running" THEN r.status \notin Halted
                       ELSE r.status = a.status)
      \/ o.saved /\ o.row = s /\ allow
      \/ ~o.saved /\ o.row = a
  BY OutcomeOf
<1> HIDE DEF s
<1> QED BY <1>1, <1>2, <1>3, <1>4

-----------------------------------------------------------------------------
\* The execution's write behind that of a request, in a queue that moves.
LEMMA BehindAppend ==
    ASSUME NEW S, NEW q \in Seq(S), NEW x \in S, NEW h
    PROVE  /\ Behind(q, h) => Behind(Append(q, x), h)
           /\ h \in InQueue(q) /\ x = "exec" => Behind(Append(q, x), h)
<1>1. /\ Len(q) \in Nat /\ DOMAIN q = 1..Len(q)
      /\ DOMAIN Append(q, x) = 1..(Len(q) + 1)
      /\ \A i \in 1..Len(q) : Append(q, x)[i] = q[i]
      /\ Append(q, x)[Len(q) + 1] = x
  OBVIOUS
<1>2. ASSUME Behind(q, h) PROVE Behind(Append(q, x), h)
  <2>1. PICK i \in DOMAIN q, j \in DOMAIN q : i < j /\ q[i] = h /\ q[j] = "exec"
    BY <1>2 DEF Behind
  <2>2. i \in DOMAIN Append(q, x) /\ j \in DOMAIN Append(q, x)
    BY <1>1
  <2> QED BY <1>1, <2>1, <2>2 DEF Behind
<1>3. ASSUME h \in InQueue(q), x = "exec" PROVE Behind(Append(q, x), h)
  <2>1. PICK i \in DOMAIN q : q[i] = h
    BY <1>3 DEF InQueue
  <2>2. i \in DOMAIN Append(q, x) /\ Len(q) + 1 \in DOMAIN Append(q, x) /\ i < Len(q) + 1
    BY <1>1
  <2> QED BY <1>1, <1>3, <2>1, <2>2 DEF Behind
<1> QED BY <1>2, <1>3

LEMMA BehindTail ==
    ASSUME NEW S, NEW q \in Seq(S), q # <<>>, NEW h, Behind(q, h)
    PROVE  /\ Head(q) # h => Behind(Tail(q), h)
           /\ Distinct(q) => Head(q) # "exec"
           /\ "exec" \in InQueue(q)
<1>1. /\ Len(q) \in Nat /\ Len(q) > 0 /\ DOMAIN q = 1..Len(q) /\ Head(q) = q[1]
      /\ DOMAIN Tail(q) = 1..(Len(q) - 1)
      /\ \A i \in 1..(Len(q) - 1) : Tail(q)[i] = q[i + 1]
  OBVIOUS
<1>2. PICK i \in DOMAIN q, j \in DOMAIN q : i < j /\ q[i] = h /\ q[j] = "exec"
  BY DEF Behind
<1>3. ASSUME Head(q) # h PROVE Behind(Tail(q), h)
  <2>1. i # 1
    BY <1>1, <1>2, <1>3
  <2>2. i - 1 \in DOMAIN Tail(q) /\ j - 1 \in DOMAIN Tail(q) /\ i - 1 < j - 1
    BY <1>1, <1>2, <2>1
  <2>3. Tail(q)[i - 1] = q[i] /\ Tail(q)[j - 1] = q[j]
    BY <1>1, <2>2
  <2> QED BY <1>2, <2>2, <2>3 DEF Behind
<1>4. ASSUME Distinct(q) PROVE Head(q) # "exec"
  <2>1. 1 \in DOMAIN q /\ j # 1
    BY <1>1, <1>2
  <2> QED BY <1>1, <1>2, <1>4, <2>1 DEF Distinct
<1>5. "exec" \in InQueue(q)
  BY <1>2 DEF InQueue
<1> QED BY <1>3, <1>4, <1>5

\* An execution that is not writing is of no generation about to be closed.
LEMMA NotClosing ==
    ASSUME SessionShape, NEW p \in Procs, Closes(p), NEW h \in Handlers, Closing(h),
           exec[p].at \notin Writing \cup {"idle"}
    PROVE  exec[p].record.generation # call[h].record.generation
<1> SUFFICES ASSUME exec[p].record.generation = call[h].record.generation PROVE FALSE
  OBVIOUS
<1>1. Behind(tail[p], h)
  BY DEF Closes, ClosesExec
<1>2. tail[p] \in Seq(Handlers \cup {"exec"}) /\ InQueue(tail[p]) = LinedUp(p)
  BY DEF SessionShape, SessionTypeOK, ProcessShaped
<1>3. tail[p] # <<>>
  BY <1>1 DEF Behind
<1>4. "exec" \in LinedUp(p)
  BY <1>1, <1>2, <1>3, BehindTail
<1> QED BY <1>4, SessionConstantsOK DEF LinedUp, Asking

\* While a write has selected the row, the record it writes stays what it is.
LEMMA HeadStays ==
    ASSUME SessionShape, NEW p \in Procs, KnownFit(p), seen[p].selected
    PROVE  /\ HeadRecord(p) \in Session /\ Fits(HeadRecord(p))
           /\ \A x, h \in Handlers \cup {"exec"} :
                 /\ tail'[p] = tail[p] \/ tail'[p] = Append(tail[p], x)
                 /\ h = "exec" \/ call[h].at # "write"
                 /\ \A g \in Handlers \ {h} : call'[g] = call[g]
                 /\ exec[p].at \in Writing => exec'[p].record = exec[p].record
                 => HeadRecord(p)' = HeadRecord(p)
<1>1. tail[p] # <<>> /\ tail[p] \in Seq(Handlers \cup {"exec"})
  BY DEF SessionShape, SessionTypeOK, ProcessShaped
<1>2. /\ Head(tail[p]) \in LinedUp(p)
      /\ Head(tail[p]) = "exec" => exec[p].at \in Writing
      /\ \A h \in Handlers : Head(tail[p]) = h =>
            call[h].at = "write" /\ HomeOf[h] = p /\ call[h].record \in Session
  BY <1>1, HeadInPlace
<1>3. Head(tail[p]) = "exec" \/ Head(tail[p]) \in Handlers
  BY <1>1
<1>4. exec[p].at \in Writing => exec[p].record \in Session
  BY DEF SessionShape, ProcessShaped, Shaped, Writing
<1>5. HeadRecord(p) \in Session /\ Fits(HeadRecord(p))
  BY <1>2, <1>3, <1>4 DEF HeadRecord, KnownFit
<1>6. ASSUME NEW x \in Handlers \cup {"exec"}, NEW h \in Handlers \cup {"exec"},
             tail'[p] = tail[p] \/ tail'[p] = Append(tail[p], x),
             h = "exec" \/ call[h].at # "write",
             \A g \in Handlers \ {h} : call'[g] = call[g],
             exec[p].at \in Writing => exec'[p].record = exec[p].record
      PROVE  HeadRecord(p)' = HeadRecord(p)
  <2>1. Head(tail'[p]) = Head(tail[p])
    <3>1. Head(Append(tail[p], x)) = Head(tail[p])
      BY <1>1
    <3> QED BY <1>6, <3>1
  <2>2. CASE Head(tail[p]) = "exec"
    BY <1>2, <1>6, <2>1, <2>2 DEF HeadRecord
  <2>3. CASE Head(tail[p]) # "exec"
    <3>1. Head(tail[p]) \in Handlers \ {h}
      BY <1>2, <1>3, <1>6, <2>3
    <3> QED BY <1>6, <2>1, <2>3, <3>1 DEF HeadRecord
  <2> QED BY <2>2, <2>3
<1> QED BY <1>5, <1>6

\* A step of the execution, which was not writing, to e.
LEMMA ExecutionAlone ==
    ASSUME SessionShape, NEW p, Procs = {p}, Alone(p), NEW e \in Execution, Shaped(e),
           exec[p].at \notin Writing \cup {"idle"}, Becomes(p, e, tail[p]),
           UNCHANGED <<row, claimed, taken, mode, seen, call>>,
           Fits(e.record), Fits(e.rows),
           e.at = "settle" /\ e.selected /\ row.status = "running"
              /\ row.generation = e.rows.generation => row = e.rows,
           e.at # "idle" /\ row.status = "running" /\ row.generation = e.record.generation
              => Extends(row.checkpoints, e.record.checkpoints),
           e.at \notin Writing \cup {"idle"} => e.record = exec[p].record
    PROVE  Alone(p)'
<1>1. p \in Procs
  OBVIOUS
<1>2. /\ tail[p] \in Seq(Handlers \cup {"exec"}) /\ Distinct(tail[p])
      /\ InQueue(tail[p]) = Asking(p) /\ mode[p] = "serving"
  BY <1>1 DEF SessionShape, SessionTypeOK, ProcessShaped, LinedUp
<1>3. /\ exec'[p] = e
      /\ e.at \notin Writing => tail'[p] = tail[p]
      /\ e.at \in Writing => tail'[p] = Append(tail[p], "exec")
  BY <1>1, <1>2, BecomesShaped
<1>4. KnownFit(p)'
  BY <1>3 DEF Alone, KnownFit, Fits
<1>5. SeenLags(p)'
  <2>1. ASSUME seen[p].selected PROVE HeadRecord(p)' = HeadRecord(p)
    <3>1. "exec" \in Handlers \cup {"exec"}
      OBVIOUS
    <3> QED BY <1>1, <1>3, <2>1, <3>1, HeadStays DEF Alone
  <2> QED BY <2>1 DEF Alone, SeenLags
<1>6. RowsLag(p)'
  BY <1>3 DEF RowsLag
<1>7. Ahead(p)'
  BY <1>3 DEF Ahead
<1>8. ASSUME NEW h \in Handlers, Closing(h)
      PROVE  (ClosesExec(p, h) /\ ClosesRow(h) /\ ClosesSeen(p, h) /\ ClosesAlone(h))'
  <2>1. ClosesRow(h) /\ ClosesSeen(p, h) /\ ClosesAlone(h)
    BY <1>8 DEF Alone, Closes
  <2>2. exec[p].record.generation # call[h].record.generation
    BY <1>1, <1>8, NotClosing DEF Alone
  <2>3. ClosesExec(p, h)'
    <3>1. CASE e.at \in Writing
      <4>1. h \in InQueue(tail[p])
        <5>1. HomeOf[h] = p
          BY SessionConstantsOK
        <5> QED BY <1>2, <1>8, <5>1 DEF Asking, Closing
      <4>2. "exec" \in Handlers \cup {"exec"}
        OBVIOUS
      <4>3. Behind(Append(tail[p], "exec"), h)
        BY <1>2, <4>1, <4>2, BehindAppend
      <4> QED BY <1>3, <3>1, <4>3 DEF ClosesExec
    <3>2. CASE e.at \notin Writing
      BY <1>3, <2>2, <3>2 DEF ClosesExec
    <3> QED BY <3>1, <3>2
  <2> QED BY <2>1, <2>3 DEF ClosesRow, ClosesSeen, ClosesAlone, Closing
<1>9. Closes(p)'
  BY <1>8 DEF Closes, Closing
<1>10. BootSees(p)'
  BY <1>2 DEF BootSees
<1> QED BY <1>4, <1>5, <1>6, <1>7, <1>9, <1>10 DEF Alone

\* A step of a request that has claimed nothing.
LEMMA CallAlone ==
    ASSUME SessionShape, NEW p, Procs = {p}, Alone(p), NEW h \in Handlers, NEW c,
           call' = [call EXCEPT ![h] = c], call[h].at # "write",
           tail'[p] = tail[p] \/ tail'[p] = Append(tail[p], h),
           c.at # "idle" => Fits(c.record),
           c.at # "write" \/ c.kind \in {"pause", "cancel"},
           mode[p] = "serving", UNCHANGED <<row, claimed, taken, mode, seen, exec>>
    PROVE  Alone(p)'
<1>1. p \in Procs /\ tail[p] \in Seq(Handlers \cup {"exec"})
  BY DEF SessionShape, SessionTypeOK
<1>2. /\ call'[h] = c
      /\ \A g \in Handlers \ {h} : call'[g] = call[g]
  BY DEF SessionShape, SessionTypeOK
<1>3. KnownFit(p)'
  BY <1>2 DEF Alone, KnownFit, Fits
<1>4. SeenLags(p)'
  <2>1. ASSUME seen[p].selected PROVE HeadRecord(p)' = HeadRecord(p)
    BY <1>1, <1>2, <2>1, HeadStays DEF Alone
  <2> QED BY <2>1 DEF Alone, SeenLags
<1>5. RowsLag(p)' /\ Ahead(p)'
  BY DEF Alone, RowsLag, Ahead
<1>6. \A g \in Handlers : Closing(g)' => Closing(g) /\ call'[g] = call[g]
  BY <1>2 DEF Closing
<1>7. ASSUME NEW g \in Handlers, Closing(g)'
      PROVE  (ClosesExec(p, g) /\ ClosesRow(g) /\ ClosesSeen(p, g) /\ ClosesAlone(g))'
  <2>1. /\ ClosesExec(p, g) /\ ClosesRow(g) /\ ClosesSeen(p, g) /\ ClosesAlone(g)
        /\ call'[g] = call[g]
    BY <1>6, <1>7 DEF Alone, Closes
  <2>2. ClosesExec(p, g)'
    <3>1. Behind(tail[p], g) => Behind(tail'[p], g)
      <4>1. h \in Handlers \cup {"exec"}
        OBVIOUS
      <4>2. Behind(tail[p], g) => Behind(Append(tail[p], h), g)
        BY <1>1, <4>1, BehindAppend
      <4> QED BY <4>2
    <3> QED BY <2>1, <3>1 DEF ClosesExec
  <2>3. ClosesAlone(g)'
    BY <1>6, <2>1 DEF ClosesAlone
  <2> QED BY <2>1, <2>2, <2>3 DEF ClosesRow, ClosesSeen
<1>8. Closes(p)'
  BY <1>7 DEF Closes
<1>9. BootSees(p)'
  BY DEF BootSees
<1> QED BY <1>3, <1>4, <1>5, <1>8, <1>9 DEF Alone

LEMMA FitsNone == Fits(NoSession)
BY NoSessionOK DEF Fits

LEMMA PhaseEndsAlone ==
    ASSUME SessionShape, NEW p, Procs = {p}, Alone(p), NEW outcome, PhaseEnds(p, outcome)
    PROVE  Alone(p)'
<1> DEFINE r == exec[p].record
<1>1. p \in Procs
  OBVIOUS
<1>2. exec[p].at \notin Writing \cup {"idle"} /\ r \in Session /\ exec[p].at # "idle"
  BY <1>1, PhaseEndsIs DEF Writing
<1>3. PICK e \in Execution :
        /\ Shaped(e) /\ Becomes(p, e, tail[p]) /\ From(r, e.record)
        /\ e.at = "settle" => e.record = r
        /\ e.at \in Writing \cup {"settle"} /\ ~e.selected /\ e.rows = NoSession
  BY <1>1, PhaseEndsIs
<1>4. UNCHANGED <<row, claimed, taken, mode, seen, call>>
  BY DEF PhaseEnds
<1>5. Fits(e.record) /\ Fits(e.rows)
  BY <1>2, <1>3, FitsFrom, FitsNone DEF Alone, KnownFit
<1>6. ASSUME row.status = "running", row.generation = e.record.generation
      PROVE  Extends(row.checkpoints, e.record.checkpoints)
  <2>1. Extends(row.checkpoints, r.checkpoints)
    BY <1>2, <1>3, <1>6 DEF Alone, Ahead, From
  <2>2. row \in Session
    BY <1>1, <1>2 DEF SessionShape, SessionTypeOK, ProcessShaped, Row
  <2> QED BY <1>2, <1>3, <2>1, <2>2, ExtendsOn DEF From, Session
<1> QED BY <1>2, <1>3, <1>4, <1>5, <1>6, ExecutionAlone

LEMMA SettleSelectAlone ==
    ASSUME SessionShape, NEW p, Procs = {p}, Alone(p), SettleSelect(p)
    PROVE  Alone(p)'
<1> DEFINE e == [exec[p] EXCEPT !.selected = TRUE, !.rows = row]
<1>1. p \in Procs
  OBVIOUS
<1>2. /\ exec[p].at = "settle"
      /\ exec' = [exec EXCEPT ![p].selected = TRUE, ![p].rows = row]
      /\ UNCHANGED <<row, claimed, taken, mode, cache, control, tail, seen, call, calls, crashes>>
  BY DEF SettleSelect
<1>3. /\ exec[p] \in Execution /\ Shaped(exec[p])
      /\ exec[p].at \notin Writing \cup {"idle"} /\ row \in Session
  BY <1>1, <1>2 DEF SessionShape, SessionTypeOK, ProcessShaped, Writing, Row
<1>4. /\ e \in Execution /\ Shaped(e) /\ e.at = "settle"
      /\ e.record = exec[p].record /\ e.rows = row
  BY <1>2, <1>3, NoSessionOK DEF Execution, Shaped, Writing, Row
<1>5. Becomes(p, e, tail[p])
  BY <1>2, <1>4 DEF Becomes, Writing, SessionShape, SessionTypeOK
<1> HIDE DEF e
<1>6. Fits(e.record) /\ Fits(e.rows)
  BY <1>4 DEF Alone, KnownFit
<1>7. row.status = "running" /\ row.generation = e.record.generation
         => Extends(row.checkpoints, e.record.checkpoints)
  BY <1>3, <1>4 DEF Alone, Ahead
<1> QED BY <1>2, <1>3, <1>4, <1>5, <1>6, <1>7, ExecutionAlone

LEMMA SettleApplyAlone ==
    ASSUME SessionShape, NEW p, Procs = {p}, Alone(p), NEW over \in BOOLEAN,
           SettleApply(p, over)
    PROVE  Alone(p)'
<1> DEFINE a == exec[p].rows
<1>1. p \in Procs
  OBVIOUS
<1>2. exec[p].at = "settle" /\ exec[p].selected /\ a \in Session
  BY <1>1, SettleApplyIs
<1>3. PICK e : GoesOn(a, e) /\ Becomes(p, e, tail[p])
  BY <1>1, SettleApplyIs
<1>4. /\ e \in Execution /\ Shaped(e) /\ e.at \in Writing \cup {"idle"}
      /\ e.at # "idle" => From(a, e.record)
  BY <1>3 DEF GoesOn
<1>5. e.at # "settle" /\ e.rows = NoSession /\ (e.at = "idle" => e.record = NoSession)
  BY <1>4 DEF Shaped, Writing, NoExecution
<1>6. UNCHANGED <<row, claimed, taken, mode, seen, call>>
  BY DEF SettleApply
<1>7. Fits(e.record) /\ Fits(e.rows)
  BY <1>2, <1>4, <1>5, FitsFrom, FitsNone DEF Alone, KnownFit
<1>8. ASSUME e.at # "idle", row.status = "running", row.generation = e.record.generation
      PROVE  Extends(row.checkpoints, e.record.checkpoints)
  <2>1. From(a, e.record)
    BY <1>4, <1>8
  <2>2. row = a
    BY <1>2, <1>8, <2>1 DEF Alone, RowsLag, From
  <2> QED BY <2>1, <2>2 DEF From
<1>9. exec[p].at \notin Writing \cup {"idle"}
  BY <1>2 DEF Writing
<1> HIDE DEF a
<1> QED BY <1>3, <1>4, <1>5, <1>6, <1>7, <1>8, <1>9, ExecutionAlone

LEMMA AskAlone ==
    ASSUME SessionShape, NEW p, Procs = {p}, Alone(p), NEW h \in Handlers,
           NEW kind, NEW c, Ask(h, kind, c)
    PROVE  Alone(p)'
<1> DEFINE d == [kind |-> kind, at |-> "selected", record |-> row, checkpoint |-> c]
<1>1. /\ mode[HomeOf[h]] = "serving" /\ call[h].at = "idle"
      /\ call' = [call EXCEPT ![h] = d]
      /\ UNCHANGED <<row, claimed, taken, mode, tail, seen, exec>>
  BY DEF Ask
<1>2. HomeOf[h] = p
  BY SessionConstantsOK
<1>3. d.at = "selected" /\ d.record = row /\ Fits(row)
  BY DEF Alone, KnownFit
<1> HIDE DEF d
<1> QED BY <1>1, <1>2, <1>3, CallAlone

LEMMA StopAlone ==
    ASSUME SessionShape, NEW p, Procs = {p}, Alone(p), NEW h \in Handlers, Stop(h)
    PROVE  Alone(p)'
<1> DEFINE stopped == IF call[h].kind = "pause" THEN "paused" ELSE "cancelled"
           s == [call[h].record EXCEPT !.status = stopped]
           c == [call[h] EXCEPT !.at = "write", !.record = s]
<1>1. Selected(h) /\ call[h].kind \in {"pause", "cancel"}
  BY DEF Stop
<1>2. /\ call[h] \in Call /\ call[h].record \in Session /\ call[h].at = "selected"
      /\ mode[HomeOf[h]] = "serving" /\ HomeOf[h] = p
  BY <1>1, SelectedShaped, SessionConstantsOK
<1>3. \/ /\ call' = [call EXCEPT ![h].at = "write", ![h].record.status = stopped]
         /\ tail' = [tail EXCEPT ![p] = Append(@, h)]
         /\ UNCHANGED <<row, claimed, taken, mode, seen, exec>>
      \/ /\ call' = [call EXCEPT ![h] = NoCall]
         /\ UNCHANGED <<row, claimed, taken, mode, tail, seen, exec>>
  BY <1>2 DEF Stop, Refuse
<1>4. CASE /\ call' = [call EXCEPT ![h].at = "write", ![h].record.status = stopped]
           /\ tail' = [tail EXCEPT ![p] = Append(@, h)]
           /\ UNCHANGED <<row, claimed, taken, mode, seen, exec>>
  <2>1. call' = [call EXCEPT ![h] = c]
    BY <1>4
  <2>2. stopped \in Status /\ stopped # "running"
    BY DEF Status, Halted
  <2> HIDE DEF stopped
  <2>3. s = Ended(call[h].record, stopped)
    BY DEF Ended
  <2>4. Fits(s)
    BY <1>2, <2>2, <2>3, RecordSteps, FitsFrom DEF Alone, KnownFit
  <2> HIDE DEF s
  <2>5. c.at = "write" /\ c.kind = call[h].kind /\ c.record = s
    BY <1>2 DEF Call
  <2>6. tail'[p] = Append(tail[p], h)
    BY <1>4 DEF SessionShape, SessionTypeOK
  <2> HIDE DEF c
  <2> QED BY <1>1, <1>2, <1>4, <2>1, <2>4, <2>5, <2>6, CallAlone
<1>5. CASE /\ call' = [call EXCEPT ![h] = NoCall]
           /\ UNCHANGED <<row, claimed, taken, mode, tail, seen, exec>>
  BY <1>2, <1>5, NoCallShaped, CallAlone
<1> QED BY <1>3, <1>4, <1>5

LEMMA NoClaimAlone ==
    ASSUME SessionShape, NEW p, Procs = {p}, Alone(p), NEW h \in Handlers, NoClaim(h)
    PROVE  Alone(p)'
<1>1. /\ Selected(h) /\ call' = [call EXCEPT ![h] = NoCall]
      /\ UNCHANGED <<row, claimed, taken, mode, tail, seen, exec>>
  BY DEF NoClaim
<1>2. call[h].at = "selected" /\ mode[HomeOf[h]] = "serving" /\ HomeOf[h] = p
  BY <1>1, SelectedShaped, SessionConstantsOK
<1> QED BY <1>1, <1>2, NoCallShaped, CallAlone

LEMMA SelectAlone ==
    ASSUME SessionShape, NEW p, Procs = {p}, Alone(p), SelectForWrite(p)
    PROVE  Alone(p)'
<1>1. /\ seen' = [seen EXCEPT ![p] = [selected |-> TRUE, row |-> row]]
      /\ UNCHANGED <<row, claimed, taken, mode, cache, tail, exec, call>>
  BY DEF SelectForWrite
<1>2. seen'[p].selected /\ seen'[p].row = row
  BY <1>1 DEF SessionShape, SessionTypeOK
<1>3. KnownFit(p)'
  BY <1>1, <1>2 DEF Alone, KnownFit, Fits
<1>4. SeenLags(p)'
  BY <1>1, <1>2 DEF SeenLags
<1>5. RowsLag(p)' /\ Ahead(p)' /\ BootSees(p)'
  BY <1>1 DEF Alone, RowsLag, Ahead, BootSees
<1>6. ASSUME NEW h \in Handlers, Closing(h)
      PROVE  (ClosesExec(p, h) /\ ClosesRow(h) /\ ClosesSeen(p, h) /\ ClosesAlone(h))'
  <2>1. ClosesExec(p, h) /\ ClosesRow(h) /\ ClosesSeen(p, h) /\ ClosesAlone(h)
    BY <1>6 DEF Alone, Closes
  <2> QED BY <1>1, <1>2, <2>1 DEF ClosesExec, ClosesRow, ClosesSeen, ClosesAlone, Closing
<1>7. Closes(p)'
  BY <1>1, <1>6 DEF Closes, Closing
<1> QED BY <1>3, <1>4, <1>5, <1>7 DEF Alone

\* A process with no execution and no request has no write selected.
LEMMA NothingWaits ==
    ASSUME SessionShape, NEW p \in Procs, exec[p].at = "idle",
           \A h \in Handlers : HomeOf[h] = p => call[h].at = "idle"
    PROVE  ~seen[p].selected /\ seen[p].row = NoSession /\ exec[p] = NoExecution
<1>1. LinedUp(p) = {}
  BY DEF LinedUp, Asking, Writing
<1>2. tail[p] = <<>>
  <2> SUFFICES ASSUME tail[p] # <<>> PROVE FALSE
    OBVIOUS
  <2> QED BY <1>1, HeadInPlace
<1> QED BY <1>2 DEF SessionShape, ProcessShaped, ShapedSeen, Shaped

LEMMA RunAlone ==
    ASSUME SessionShape, NEW p, Procs = {p}, Alone(p), NEW over \in BOOLEAN, Run(p, over)
    PROVE  Alone(p)'
<1>1. /\ mode[p] = "serving" /\ row = NoSession /\ row' = Fresh
      /\ Becomes(p, Started(p, Fresh, over), tail[p])
      /\ UNCHANGED <<claimed, taken, mode, seen, call>>
  BY DEF Run
<1>2. p \in Procs
  OBVIOUS
<1>3. exec[p].at = "idle" /\ \A h \in Handlers : call[h].at = "idle"
  BY <1>1, <1>2 DEF SessionShape, ProcessShaped, CallInPlace
<1>4. ~seen[p].selected /\ seen[p].row = NoSession
  BY <1>2, <1>3, NothingWaits
<1>5. PICK e : e = Advance(Fresh, over) /\ exec'[p] = e
  BY <1>1, <1>2, <1>3 DEF Started, Becomes, SessionShape, SessionTypeOK
<1>6. GoesOn(Fresh, e)
  BY <1>5, FreshShaped, AdvanceGoesOn
<1>7. /\ e.at # "settle" /\ e.rows = NoSession /\ (e.at = "idle" => e.record = NoSession)
      /\ e.at # "idle" => From(Fresh, e.record)
  BY <1>6 DEF GoesOn, Shaped, Writing, NoExecution
<1>8. Fits(Fresh)' /\ Fits(Fresh)
  BY <1>1 DEF Alone, KnownFit, Fits, Fresh
<1>9. KnownFit(p)'
  <2>1. Fits(e.record) /\ Fits(e.rows)
    BY <1>7, <1>8, FreshShaped, FitsFrom, FitsNone
  <2>2. Fits(e.record)' /\ Fits(e.rows)' /\ Fits(NoSession)'
    BY <1>1, <2>1, NoSessionOK DEF Fits
  <2>3. row' # NoSession
    BY <1>1, FreshShaped, NoSessionOK
  <2> QED BY <1>1, <1>3, <1>4, <1>5, <1>8, <2>2, <2>3 DEF KnownFit
<1>10. SeenLags(p)' /\ RowsLag(p)' /\ BootSees(p)'
  BY <1>1, <1>4, <1>5, <1>7 DEF SeenLags, RowsLag, BootSees
<1>11. Ahead(p)'
  BY <1>1, <1>5, <1>7 DEF Ahead, From
<1>12. Closes(p)'
  BY <1>1, <1>3 DEF Closes, Closing
<1> QED BY <1>9, <1>10, <1>11, <1>12 DEF Alone

LEMMA CrashAlone ==
    ASSUME SessionShape, NEW p, Procs = {p}, Alone(p), Crash(p)
    PROVE  Alone(p)'
<1>1. /\ mode' = [mode EXCEPT ![p] = "down"]
      /\ seen' = [seen EXCEPT ![p] = Unselected]
      /\ exec' = [exec EXCEPT ![p] = NoExecution]
      /\ call' = [h \in Handlers |-> IF HomeOf[h] = p THEN NoCall ELSE call[h]]
      /\ UNCHANGED <<row, claimed, taken>>
  BY DEF Crash
<1>2. /\ mode'[p] = "down" /\ seen'[p] = Unselected /\ exec'[p] = NoExecution
      /\ \A h \in Handlers : call'[h].at = "idle"
  BY <1>1, NoCallShaped, SessionConstantsOK DEF SessionShape, SessionTypeOK
<1>3. ~seen'[p].selected /\ seen'[p].row = NoSession
  BY <1>2 DEF Unselected
<1>4. exec'[p].at = "idle" /\ exec'[p].record = NoSession /\ exec'[p].rows = NoSession
  BY <1>2 DEF NoExecution
<1>5. KnownFit(p)'
  <2>1. Fits(row)' /\ Fits(NoSession)'
    BY <1>1, NoSessionOK DEF Alone, KnownFit, Fits
  <2> QED BY <1>1, <1>2, <1>3, <1>4, <2>1 DEF Alone, KnownFit
<1>6. SeenLags(p)' /\ RowsLag(p)' /\ Ahead(p)' /\ BootSees(p)'
  BY <1>2, <1>3, <1>4 DEF SeenLags, RowsLag, Ahead, BootSees
<1>7. Closes(p)'
  BY <1>2 DEF Closes, Closing
<1> QED BY <1>5, <1>6, <1>7 DEF Alone

\* A restart stands where no execution and no request is.
LEMMA RestartAlone ==
    ASSUME SessionShape, NEW p, Procs = {p}, mode[p] # "serving",
           UNCHANGED <<seen, exec, call>>, Fits(row)', row' = NoSession => taken' = {},
           BootSees(p)'
    PROVE  Alone(p)'
<1>1. p \in Procs
  OBVIOUS
<1>2. exec[p].at = "idle" /\ \A h \in Handlers : call[h].at = "idle"
  BY <1>1, SessionConstantsOK DEF SessionShape, ProcessShaped, CallInPlace
<1>3. ~seen[p].selected /\ seen[p].row = NoSession /\ exec[p] = NoExecution
  BY <1>1, <1>2, NothingWaits
<1>4. exec[p].at = "idle" /\ exec[p].record = NoSession /\ exec[p].rows = NoSession
  BY <1>3 DEF NoExecution
<1>5. KnownFit(p)'
  <2>1. Fits(NoSession)'
    BY NoSessionOK DEF Fits
  <2> QED BY <1>2, <1>3, <1>4, <2>1 DEF KnownFit
<1>6. SeenLags(p)' /\ RowsLag(p)' /\ Ahead(p)'
  BY <1>3, <1>4 DEF SeenLags, RowsLag, Ahead
<1>7. Closes(p)'
  BY <1>2 DEF Closes, Closing
<1> QED BY <1>5, <1>6, <1>7 DEF Alone

LEMMA BootAlone ==
    ASSUME SessionShape, NEW p, Procs = {p}, Alone(p), Boot(p)
    PROVE  Alone(p)'
<1>1. /\ mode[p] = "down" /\ cache' = [cache EXCEPT ![p] = row]
      /\ UNCHANGED <<row, claimed, taken, seen, exec, call>>
  BY DEF Boot
<1>2. Fits(row)' /\ (row' = NoSession => taken' = {})
  BY <1>1 DEF Alone, KnownFit, Fits
<1>3. BootSees(p)'
  BY <1>1 DEF BootSees, SessionShape, SessionTypeOK
<1> QED BY <1>1, <1>2, <1>3, RestartAlone

\* What a restart finds running, no restart has marked.
LEMMA MarkInterruptedAlone ==
    ASSUME SessionShape, NEW p, Procs = {p}, Alone(p), MarkInterrupted(p)
    PROVE  /\ Alone(p)'
           /\ row' = NoSession \/ row'.status # "running"
           /\ row' = row \/ /\ row \in Session /\ row.status = "running"
                            /\ row'.generation = row.generation
                            /\ row'.checkpoints = row.checkpoints
<1>1. /\ mode[p] = "booting" /\ mode' = [mode EXCEPT ![p] = "serving"]
      /\ cache[p] = row
      /\ \/ /\ Interruptible(row)
            /\ taken' = taken \cup {row.recoveries}
            /\ row' = InterruptedRecord(row)
         \/ ~Interruptible(row) /\ UNCHANGED <<row, taken>>
      /\ UNCHANGED <<claimed, seen, exec, call>>
  BY DEF MarkInterrupted, Alone, BootSees
<1>2. BootSees(p)'
  BY <1>1 DEF BootSees, SessionShape, SessionTypeOK
<1>3. row \in Row /\ Fits(row)
  BY DEF SessionShape, SessionTypeOK, Alone, KnownFit
<1>4. CASE /\ Interruptible(row)
           /\ taken' = taken \cup {row.recoveries}
           /\ row' = InterruptedRecord(row)
  <2>1. row \in Session /\ row.status = "running" /\ row.recoveries \notin taken
    BY <1>3, <1>4 DEF Interruptible, Row
  <2>2. /\ row' \in Session /\ row'.status = "paused" /\ row'.restart
        /\ row'.generation = row.generation /\ row'.recoveries = row.recoveries
        /\ row'.checkpoints = row.checkpoints
    BY <1>4, <2>1, InterruptedRecordIs
  <2>3. row.recoveries \in Nat
    BY <2>1 DEF Session
  <2>4. Fits(row)'
    BY <1>1, <1>3, <1>4, <2>1, <2>2, <2>3 DEF Fits
  <2>5. row' # NoSession
    BY <2>2, NoSessionOK
  <2> QED BY <1>1, <1>2, <2>1, <2>2, <2>4, <2>5, RestartAlone
<1>5. CASE ~Interruptible(row) /\ UNCHANGED <<row, taken>>
  <2>1. row # NoSession => row.status # "running"
    <3> SUFFICES ASSUME row # NoSession, row.status = "running" PROVE FALSE
      OBVIOUS
    <3>1. row \in Session /\ row.recoveries \in taken
      BY <1>3, <1>5 DEF Interruptible, Row
    <3> QED BY <1>3, <3>1 DEF Fits
  <2>2. Fits(row)' /\ (row' = NoSession => taken' = {})
    BY <1>1, <1>5 DEF Alone, KnownFit, Fits
  <2> QED BY <1>1, <1>2, <1>5, <2>1, <2>2, RestartAlone
<1> QED BY <1>1, <1>4, <1>5

\* What a claim comes to: r is its record, of a generation nobody had claimed.
ClaimsWith(p, h, r) ==
    /\ r \in Session /\ r.status = "running" /\ ~r.restart /\ r.generation \notin claimed \cup {0}
    /\ \A t \in taken : t < r.recoveries
    /\ claimed' = claimed \cup {r.generation} /\ row' = r
    /\ \/ /\ exec'[p].at = exec[p].at /\ exec'[p].record = exec[p].record
          /\ exec'[p].rows = exec[p].rows /\ exec'[p].selected = exec[p].selected
       \/ exec[p].at = "idle" /\ GoesOn(r, exec'[p]) /\ call'[h].at = "idle"
    /\ \E x \in Handlers \cup {"exec"} : tail'[p] = tail[p] \/ tail'[p] = Append(tail[p], x)
    /\ call[h].at = "selected" /\ \A g \in Handlers \ {h} : call'[g] = call[g]
    /\ \/ call'[h].at = "idle"
       \/ call'[h].record \in Session /\ From(r, call'[h].record)
          /\ call'[h].record.checkpoints = r.checkpoints

LEMMA ClaimIs ==
    ASSUME SessionShape, NEW p, Procs = {p}, KnownFit(p), NEW h \in Handlers,
           NEW over \in BOOLEAN, Claim(h, over)
    PROVE  \E r : ClaimsWith(p, h, r)
<1>1. p \in Procs /\ HomeOf[h] = p
  BY SessionConstantsOK
<1>2. Selected(h) /\ call[h].kind \in {"resume", "recover"}
  BY DEF Claim
<1>3. PICK r \in Wanted(h) :
        /\ r.generation \notin claimed
        /\ claimed' = claimed \cup {r.generation}
        /\ row' = r
        /\ \/ /\ Pending(r) # {}
              /\ call' = [call EXCEPT ![h] = NoCall]
              /\ IF exec[p].at = "idle"
                 THEN Becomes(p, Advance(r, over), tail[p])
                 ELSE exec' = [exec EXCEPT ![p] = Replaced(p)] /\ UNCHANGED tail
           \/ /\ Pending(r) = {}
              /\ call' = [call EXCEPT ![h].at = "write",
                            ![h].record = Ended(r, "preview_completed")]
              /\ tail' = [tail EXCEPT ![p] = Append(@, h)]
              /\ UNCHANGED <<control, exec>>
  BY <1>1 DEF Claim
<1>4. call[h] \in Call /\ call[h].record \in Session /\ call[h].at = "selected"
  BY <1>2, SelectedShaped
<1>5. /\ r \in Session /\ r.status = "running" /\ ~r.restart
      /\ r.generation = call[h].record.generation + 1
      /\ IF call[h].kind = "resume"
         THEN r.recoveries = call[h].record.recoveries /\ ~call[h].record.restart
         ELSE r.recoveries = call[h].record.recoveries + 1
  BY <1>4, WantedIs
<1>6. r.generation \notin claimed \cup {0} /\ \A t \in taken : t < r.recoveries
  <2>1. call[h].record.generation \in Nat /\ call[h].record.recoveries \in Nat /\ taken \subseteq Nat
    BY <1>4 DEF Session, SessionShape, SessionTypeOK
  <2>2. \A t \in taken : /\ t <= call[h].record.recoveries
                         /\ t = call[h].record.recoveries => call[h].record.restart
    BY <1>4 DEF KnownFit, Fits
  <2> QED BY <1>3, <1>5, <2>1, <2>2
<1>7. /\ exec[p] \in Execution /\ tail[p] \in Seq(Handlers \cup {"exec"})
      /\ exec \in [Procs -> Execution] /\ tail \in [Procs -> Seq(Handlers \cup {"exec"})]
      /\ call \in [Handlers -> Call]
  BY <1>1 DEF SessionShape, SessionTypeOK
<1>8. h \in Handlers \cup {"exec"} /\ "exec" \in Handlers \cup {"exec"}
  OBVIOUS
<1>9. CASE /\ call' = [call EXCEPT ![h].at = "write",
                         ![h].record = Ended(r, "preview_completed")]
           /\ tail' = [tail EXCEPT ![p] = Append(@, h)]
           /\ UNCHANGED <<control, exec>>
  <2>1. "preview_completed" \in Status /\ "preview_completed" # "running"
    BY DEF Status, Terminal
  <2>2. /\ From(r, Ended(r, "preview_completed"))
        /\ Ended(r, "preview_completed").checkpoints = r.checkpoints
    <3>1. Ended(r, "preview_completed").checkpoints = r.checkpoints
      BY <1>5 DEF Ended, Session
    <3> QED BY <1>5, <2>1, <3>1, RecordSteps
  <2>3. Ended(r, "preview_completed") \in Session
    BY <2>2 DEF From
  <2>4. call'[h].record = Ended(r, "preview_completed")
    BY <1>7, <1>9 DEF Call
  <2>5. \A g \in Handlers \ {h} : call'[g] = call[g]
    BY <1>7, <1>9
  <2>6. tail'[p] = Append(tail[p], h) /\ exec' = exec
    BY <1>1, <1>7, <1>9
  <2> QED BY <1>3, <1>4, <1>5, <1>6, <1>8, <2>2, <2>3, <2>4, <2>5, <2>6 DEF ClaimsWith
<1>10. CASE /\ call' = [call EXCEPT ![h] = NoCall]
            /\ IF exec[p].at = "idle"
               THEN Becomes(p, Advance(r, over), tail[p])
               ELSE exec' = [exec EXCEPT ![p] = Replaced(p)] /\ UNCHANGED tail
  <2>1. call'[h].at = "idle" /\ \A g \in Handlers \ {h} : call'[g] = call[g]
    BY <1>7, <1>10, NoCallShaped
  <2>2. ASSUME exec[p].at = "idle"
        PROVE  /\ GoesOn(r, exec'[p])
               /\ tail'[p] = tail[p] \/ tail'[p] = Append(tail[p], "exec")
    <3>1. Becomes(p, Advance(r, over), tail[p])
      BY <1>10, <2>2
    <3>2. /\ exec'[p] = Advance(r, over)
          /\ tail'[p] = tail[p] \/ tail'[p] = Append(tail[p], "exec")
      BY <1>1, <1>7, <3>1 DEF Becomes
    <3> QED BY <1>5, <3>2, AdvanceGoesOn
  <2>3. ASSUME exec[p].at # "idle"
        PROVE  /\ exec'[p].at = exec[p].at /\ exec'[p].record = exec[p].record
               /\ exec'[p].rows = exec[p].rows /\ exec'[p].selected = exec[p].selected
               /\ tail'[p] = tail[p]
    <3>1. exec'[p] = Replaced(p) /\ tail' = tail
      BY <1>1, <1>7, <1>10, <2>3
    <3>2. /\ Replaced(p).at = exec[p].at /\ Replaced(p).record = exec[p].record
          /\ Replaced(p).rows = exec[p].rows /\ Replaced(p).selected = exec[p].selected
      BY <1>7 DEF Replaced, Execution
    <3> QED BY <3>1, <3>2
  <2> QED BY <1>3, <1>4, <1>5, <1>6, <1>8, <2>1, <2>2, <2>3 DEF ClaimsWith
<1> QED BY <1>3, <1>9, <1>10

LEMMA ClaimAlone ==
    ASSUME SessionShape, NEW p, Procs = {p}, Alone(p), NEW h \in Handlers,
           NEW over \in BOOLEAN, Claim(h, over)
    PROVE  Alone(p)'
<1>1. p \in Procs /\ HomeOf[h] = p /\ tail[p] \in Seq(Handlers \cup {"exec"})
  BY SessionConstantsOK DEF SessionShape, SessionTypeOK
<1>2. UNCHANGED <<taken, mode, seen>> /\ mode[p] = "serving"
  BY <1>1, SelectedShaped DEF Claim
<1>3. PICK r : ClaimsWith(p, h, r)
  BY ClaimIs DEF Alone
<1>4. /\ r \in Session /\ r.status = "running" /\ ~r.restart
      /\ r.generation \notin claimed \cup {0} /\ \A t \in taken : t < r.recoveries
      /\ claimed' = claimed \cup {r.generation} /\ row' = r
  BY <1>3 DEF ClaimsWith
<1>5. \/ /\ exec'[p].at = exec[p].at /\ exec'[p].record = exec[p].record
         /\ exec'[p].rows = exec[p].rows /\ exec'[p].selected = exec[p].selected
      \/ exec[p].at = "idle" /\ GoesOn(r, exec'[p]) /\ call'[h].at = "idle"
  BY <1>3 DEF ClaimsWith
<1>6. PICK x \in Handlers \cup {"exec"} : tail'[p] = tail[p] \/ tail'[p] = Append(tail[p], x)
  BY <1>3 DEF ClaimsWith
<1>7. /\ call[h].at = "selected" /\ \A g \in Handlers \ {h} : call'[g] = call[g]
      /\ \/ call'[h].at = "idle"
         \/ call'[h].record \in Session /\ From(r, call'[h].record)
            /\ call'[h].record.checkpoints = r.checkpoints
  BY <1>3 DEF ClaimsWith
<1>8. \A s \in Session : Fits(s) => s.generation # r.generation
  BY <1>4 DEF Fits
<1>9. Fits(r)'
  <2>1. taken \subseteq Nat /\ r.recoveries \in Nat
    BY <1>4 DEF SessionShape, SessionTypeOK, Session
  <2> QED BY <1>2, <1>4, <2>1 DEF Fits
<1>10. ASSUME NEW s, Fits(s) PROVE Fits(s)'
  BY <1>2, <1>4, <1>10 DEF Fits
<1>11. ASSUME NEW s, From(r, s) PROVE Fits(s)'
  BY <1>2, <1>9, <1>11, <1>4 DEF Fits, From
<1>12. ASSUME exec[p].at = "idle", GoesOn(r, exec'[p])
       PROVE  /\ exec'[p].at # "settle" /\ exec'[p].rows = NoSession
              /\ exec'[p].at = "idle" => exec'[p].record = NoSession
              /\ exec'[p].at # "idle" => From(r, exec'[p].record)
  BY <1>12 DEF GoesOn, Shaped, Writing, NoExecution
<1>13. KnownFit(p)'
  <2>1. Fits(row)'
    BY <1>4, <1>9
  <2>2. Fits(seen[p].row)'
    <3>1. PICK s : s = seen[p].row
      OBVIOUS
    <3>2. Fits(s)'
      BY <1>10, <3>1 DEF Alone, KnownFit
    <3> QED BY <1>2, <3>1, <3>2
  <2>3. Fits(exec[p].record)' /\ Fits(exec[p].rows)'
    <3>1. PICK s : s = exec'[p].record
      OBVIOUS
    <3>2. PICK u : u = exec'[p].rows
      OBVIOUS
    <3>3. Fits(s)' /\ Fits(u)'
      <4>1. CASE exec'[p].record = exec[p].record /\ exec'[p].rows = exec[p].rows
        BY <1>10, <3>1, <3>2, <4>1 DEF Alone, KnownFit
      <4>2. CASE exec[p].at = "idle" /\ GoesOn(r, exec'[p])
        <5>1. Fits(NoSession)'
          BY <1>10, FitsNone
        <5> QED BY <1>11, <1>12, <3>1, <3>2, <4>2, <5>1
      <4> QED BY <1>5, <4>1, <4>2
    <3> QED BY <3>1, <3>2, <3>3
  <2>4. ASSUME NEW g \in Handlers, call'[g].at # "idle" PROVE Fits(call[g].record)'
    <3>1. PICK s : s = call'[g].record
      OBVIOUS
    <3>2. CASE g = h
      BY <1>7, <1>11, <2>4, <3>1, <3>2
    <3>3. CASE g # h
      BY <1>7, <1>10, <2>4, <3>1, <3>3 DEF Alone, KnownFit
    <3> QED BY <3>2, <3>3
  <2>5. row' # NoSession
    BY <1>4, NoSessionOK
  <2> QED BY <2>1, <2>2, <2>3, <2>4, <2>5 DEF KnownFit
<1>14. SeenLags(p)'
  <2>1. ASSUME seen[p].selected
        PROVE  r.generation # seen[p].row.generation /\ r.generation # HeadRecord(p)'.generation
    <3>1. HeadRecord(p) \in Session /\ Fits(HeadRecord(p))
      BY <1>1, <2>1, HeadStays DEF Alone
    <3>2. h \in Handlers \cup {"exec"}
      OBVIOUS
    <3>3. exec[p].at \in Writing => exec'[p].record = exec[p].record
      BY <1>5 DEF Writing
    <3>4. HeadRecord(p)' = HeadRecord(p)
      BY <1>1, <1>6, <1>7, <2>1, <3>2, <3>3, HeadStays DEF Alone
    <3>5. seen[p].row \in Session /\ Fits(seen[p].row)
      BY <1>1, <2>1 DEF Alone, KnownFit, SessionShape, ProcessShaped, ShapedSeen
    <3> QED BY <1>8, <3>1, <3>4, <3>5
  <2> QED BY <1>2, <1>4, <2>1 DEF SeenLags
<1>15. RowsLag(p)'
  <2> SUFFICES ASSUME exec'[p].at = "settle", exec'[p].selected,
                      row'.generation = exec'[p].rows.generation
               PROVE  FALSE
    BY DEF RowsLag
  <2>1. exec[p].at = "settle" /\ exec[p].selected /\ exec'[p].rows = exec[p].rows
    BY <1>5, <1>12
  <2>2. exec[p].rows \in Session /\ Fits(exec[p].rows)
    BY <1>1, <2>1 DEF Alone, KnownFit, SessionShape, ProcessShaped, Shaped
  <2> QED BY <1>4, <1>8, <2>1, <2>2
<1>16. Ahead(p)'
  <2> SUFFICES ASSUME exec'[p].at # "idle", row'.generation = exec'[p].record.generation
               PROVE  Extends(row'.checkpoints, exec'[p].record.checkpoints)
    BY DEF Ahead
  <2>1. CASE exec[p].at = "idle" /\ GoesOn(r, exec'[p])
    BY <1>4, <1>12, <2>1 DEF From
  <2>2. CASE exec'[p].at = exec[p].at /\ exec'[p].record = exec[p].record
    <3>1. exec[p].record \in Session /\ Fits(exec[p].record)
      BY <1>1, <2>2 DEF Alone, KnownFit, SessionShape, ProcessShaped, Shaped
    <3> QED BY <1>4, <1>8, <2>2, <3>1
  <2> QED BY <1>5, <2>1, <2>2
<1>17. ASSUME NEW g \in Handlers, Closing(g)
       PROVE  call[g].record \in Session /\ call[g].record.generation # r.generation
  <2>1. call[g].record \in Session /\ Fits(call[g].record)
    BY <1>17 DEF Closing, Alone, KnownFit, SessionShape, CallInPlace, ShapedCall
  <2> QED BY <1>8, <2>1
<1>18. \A g \in Handlers \ {h} : Closing(g)' => Closing(g) /\ call'[g] = call[g]
  BY <1>7 DEF Closing
<1>19. ASSUME Closing(h)'
       PROVE  call'[h].record.generation = r.generation
              /\ call'[h].record.checkpoints = r.checkpoints
  BY <1>7, <1>19 DEF Closing, From
<1>20. ASSUME NEW g \in Handlers \ {h}, Closing(g)'
       PROVE  (ClosesExec(p, g) /\ ClosesRow(g) /\ ClosesSeen(p, g) /\ ClosesAlone(g))'
  <2>1. /\ ClosesExec(p, g) /\ ClosesSeen(p, g) /\ ClosesAlone(g)
        /\ call'[g] = call[g] /\ call[g].record.generation # r.generation
    BY <1>17, <1>18, <1>20 DEF Alone, Closes
  <2>2. ClosesExec(p, g)'
    <3>1. Behind(tail[p], g) => Behind(tail'[p], g)
      <4>1. Behind(tail[p], g) => Behind(Append(tail[p], x), g)
        BY <1>1, BehindAppend
      <4> QED BY <1>6, <4>1
    <3>2. CASE exec[p].at = "idle" /\ GoesOn(r, exec'[p])
      BY <1>12, <2>1, <3>2 DEF ClosesExec, From
    <3>3. CASE exec'[p].at = exec[p].at /\ exec'[p].record = exec[p].record
      BY <2>1, <3>1, <3>3 DEF ClosesExec
    <3> QED BY <1>5, <3>2, <3>3
  <2>3. ClosesRow(g)'
    BY <1>4, <2>1 DEF ClosesRow
  <2>4. ClosesSeen(p, g)'
    BY <1>2, <2>1 DEF ClosesSeen
  <2>5. ClosesAlone(g)'
    BY <1>18, <1>19, <2>1 DEF ClosesAlone
  <2> QED BY <2>2, <2>3, <2>4, <2>5
<1>21. ASSUME Closing(h)'
       PROVE  (ClosesExec(p, h) /\ ClosesRow(h) /\ ClosesSeen(p, h) /\ ClosesAlone(h))'
  <2>1. call'[h].record.generation = r.generation /\ call'[h].record.checkpoints = r.checkpoints
    BY <1>19, <1>21
  <2>2. ClosesExec(p, h)'
    <3>1. call'[h].at # "idle"
      BY <1>21 DEF Closing
    <3>2. CASE exec'[p].at = exec[p].at /\ exec'[p].record = exec[p].record
      <4>1. exec[p].at # "idle" => exec[p].record \in Session /\ Fits(exec[p].record)
        BY <1>1 DEF Alone, KnownFit, SessionShape, ProcessShaped, Shaped
      <4> QED BY <1>8, <2>1, <3>2, <4>1 DEF ClosesExec
    <3> QED BY <1>5, <3>1, <3>2
  <2>3. ClosesRow(h)'
    BY <1>4, <2>1 DEF ClosesRow
  <2>4. ClosesSeen(p, h)'
    <3>1. seen[p].selected => seen[p].row \in Session /\ Fits(seen[p].row)
      BY <1>1 DEF Alone, KnownFit, SessionShape, ProcessShaped, ShapedSeen
    <3> QED BY <1>2, <1>8, <2>1, <3>1 DEF ClosesSeen
  <2>5. ClosesAlone(h)'
    BY <1>17, <1>18, <2>1 DEF ClosesAlone
  <2> QED BY <2>2, <2>3, <2>4, <2>5
<1>22. Closes(p)'
  BY <1>20, <1>21 DEF Closes
<1>23. BootSees(p)'
  BY <1>2 DEF BootSees
<1> QED BY <1>13, <1>14, <1>15, <1>16, <1>22, <1>23 DEF Alone

\* What a step may not take from the row.
StepKeeps ==
    row # NoSession /\ row.status = "running" /\ row'.generation = row.generation
        => Extends(row.checkpoints, row'.checkpoints)

LEMMA WriteExecutionAlone ==
    ASSUME SessionShape, NEW p, Procs = {p}, Alone(p), NEW over \in BOOLEAN,
           WriteExecution(p, over)
    PROVE  /\ Alone(p)' /\ StepKeeps
           /\ row.status # "running" => row'.status = row.status
<1> PICK r, a : r = exec[p].record /\ a = seen[p].row
  OBVIOUS
<1>a. PICK o, e :
        /\ o = Outcome(exec[p].record, seen[p].row, FALSE)
        /\ e = After(p, o.record, o.row, over)
        /\ Store(p, o) /\ Becomes(p, e, Tail(tail[p]))
  BY Zenon DEF WriteExecution
<1>b. Store(p, o) /\ Becomes(p, e, Tail(tail[p])) /\ e = After(p, o.record, o.row, over)
  BY <1>a, Zenon
<1>c. PICK allow \in BOOLEAN : ~allow /\ o = Outcome(exec[p].record, seen[p].row, allow)
  BY <1>a, Zenon
<1>1. /\ r = exec[p].record /\ a = seen[p].row
      /\ allow \in BOOLEAN /\ ~allow /\ o = Outcome(r, a, allow)
  BY <1>c, Zenon
<1>2. seen[p].selected /\ Head(tail[p]) = "exec" /\ UNCHANGED <<claimed, taken, mode, call>>
  BY DEF WriteExecution
<1>3. p \in Procs
  OBVIOUS
<1>4. tail[p] # <<>> /\ a \in Session /\ tail[p] \in Seq(Handlers \cup {"exec"})
      /\ Distinct(tail[p]) /\ InQueue(tail[p]) = LinedUp(p)
  BY <1>1, <1>2, <1>3 DEF SessionShape, SessionTypeOK, ProcessShaped, ShapedSeen
<1>5. /\ row \in Session /\ exec[p].at \in Writing
      /\ Tail(tail[p]) \in Seq(Handlers \cup {"exec"}) /\ Distinct(Tail(tail[p]))
      /\ InQueue(Tail(tail[p])) = LinedUp(p) \ {"exec"}
  BY <1>2, <1>3, <1>4, HeadInPlace
<1>6. InQueue(Tail(tail[p])) = Asking(p)
  BY <1>5, SessionConstantsOK DEF LinedUp, Asking
<1>7. /\ exec[p] \in Execution /\ Shaped(exec[p]) /\ r \in Session /\ mode[p] = "serving"
      /\ exec[p].at # "idle"
  BY <1>1, <1>3, <1>5 DEF SessionShape, SessionTypeOK, ProcessShaped, Shaped, Writing
<1>8. o.row \in Session /\ o.record \in Session
  BY <1>1, <1>4, <1>7, OutcomeTyped
<1>9. e \in Execution /\ Shaped(e) /\ e.at \in Writing \cup {"idle", "phase"}
  BY <1>b, <1>3, <1>5, <1>7, <1>8, AfterShaped
<1>10. /\ e.at # "idle" => From(r, e.record) \/ From(a, e.record)
       /\ o.saved => /\ o.row = r
                     /\ a.status # "running" => r.status = a.status
                     /\ e.at # "idle" => From(r, e.record)
       /\ e.at = "phase" => \/ From(r, e.record)
                            \/ e.record = a /\ a.status \in Terminal \ Halted
       /\ o.row = r \/ o.row = a
  <2>1. exec[p].record = r
    BY <1>1
  <2>2. Wrote(r, a, o, e)
    BY <1>1, <1>b, <1>4, <1>5, <1>7, <2>1, WriteGoesOn
  <2> QED BY <2>2 DEF Wrote
<1>11. /\ exec'[p] = e
       /\ e.at \notin Writing => tail'[p] = Tail(tail[p])
       /\ e.at \in Writing => tail'[p] = Append(Tail(tail[p]), "exec")
  BY <1>b, <1>3, <1>5, <1>6, <1>9, BecomesShaped
<1>12. /\ row' = IF o.saved THEN o.row ELSE row
       /\ ~seen'[p].selected /\ seen'[p].row = NoSession
  BY <1>b, <1>3 DEF Store, Unselected, SessionShape, SessionTypeOK
<1>13. Fits(row) /\ Fits(r) /\ Fits(a)
  BY <1>1 DEF Alone, KnownFit
<1>14. \/ row = a
       \/ row.status = "running" /\ row.generation # a.generation /\ row.generation # r.generation
  BY <1>1, <1>2 DEF Alone, SeenLags, HeadRecord
<1>15. row.status = "running" /\ row.generation = r.generation
           => Extends(row.checkpoints, r.checkpoints)
  BY <1>1, <1>7 DEF Alone, Ahead
<1>16. Shaped(e) /\ e.at # "settle" /\ e.rows = NoSession /\ (e.at = "idle" => e.record = NoSession)
  BY <1>9 DEF Shaped, Writing, NoExecution
<1>17. Fits(e.record)
  BY <1>4, <1>7, <1>10, <1>13, <1>16, FitsFrom, FitsNone
<1>18. KnownFit(p)'
  <2>1. Fits(row') /\ row' # NoSession
    BY <1>5, <1>7, <1>10, <1>12, <1>13, NoSessionOK
  <2>2. PICK s : s = row'
    OBVIOUS
  <2>3. Fits(s)' /\ Fits(e.record)' /\ Fits(NoSession)'
    BY <1>2, <1>17, <2>1, <2>2, NoSessionOK DEF Fits
  <2>4. Fits(row)' /\ Fits(seen[p].row)' /\ Fits(exec[p].record)' /\ Fits(exec[p].rows)'
    BY <1>11, <1>12, <1>16, <2>2, <2>3
  <2>5. \A h \in Handlers : call'[h].at # "idle" => Fits(call[h].record)'
    BY <1>2 DEF Alone, KnownFit, Fits
  <2> QED BY <2>1, <2>4, <2>5 DEF KnownFit
<1>19. SeenLags(p)' /\ RowsLag(p)' /\ BootSees(p)'
  BY <1>2, <1>7, <1>11, <1>12, <1>16 DEF SeenLags, RowsLag, BootSees
<1>20. Ahead(p)'
  <2> SUFFICES ASSUME e.at # "idle", row'.status = "running",
                      row'.generation = e.record.generation
               PROVE  Extends(row'.checkpoints, e.record.checkpoints)
    BY <1>11 DEF Ahead
  <2>1. CASE o.saved
    BY <1>10, <1>12, <2>1 DEF From
  <2>2. CASE ~o.saved /\ From(r, e.record)
    <3>1. Extends(row.checkpoints, r.checkpoints)
      BY <1>12, <1>15, <2>2 DEF From
    <3> QED BY <1>5, <1>7, <1>12, <2>2, <3>1, ExtendsOn DEF From, Session
  <2>3. CASE ~o.saved /\ From(a, e.record)
    <3>1. row = a
      BY <1>12, <1>14, <2>3 DEF From
    <3> QED BY <1>12, <2>3, <3>1 DEF From
  <2> QED BY <1>10, <2>1, <2>2, <2>3
<1>21. ASSUME NEW h \in Handlers, Closing(h)
       PROVE  (ClosesExec(p, h) /\ ClosesRow(h) /\ ClosesSeen(p, h) /\ ClosesAlone(h))'
  <2>1. ClosesExec(p, h) /\ ClosesRow(h) /\ ClosesSeen(p, h) /\ ClosesAlone(h)
    BY <1>21 DEF Alone, Closes
  <2>2. r.generation # call[h].record.generation
    <3> SUFFICES ASSUME r.generation = call[h].record.generation PROVE FALSE
      OBVIOUS
    <3>1. Behind(tail[p], h)
      BY <1>1, <1>7, <2>1 DEF ClosesExec
    <3> QED BY <1>2, <1>4, <3>1, BehindTail
  <2>3. ClosesExec(p, h)'
    <3>1. CASE e.at \in Writing
      <4>1. HomeOf[h] = p
        BY SessionConstantsOK
      <4>2. h \in InQueue(Tail(tail[p]))
        BY <1>6, <1>21, <4>1 DEF Asking, Closing
      <4>3. "exec" \in Handlers \cup {"exec"}
        OBVIOUS
      <4>4. Behind(Append(Tail(tail[p]), "exec"), h)
        BY <1>5, <4>2, <4>3, BehindAppend
      <4> QED BY <1>11, <3>1, <4>4 DEF ClosesExec
    <3>2. CASE e.at = "phase"
      <4>1. e.record.generation # call[h].record.generation
        <5>1. CASE From(r, e.record)
          BY <2>2, <5>1 DEF From
        <5>2. CASE e.record = a /\ a.status \in Terminal \ Halted
          <6>1. a.status \notin {"running"} \cup Halted
            BY <5>2 DEF Terminal
          <6> QED BY <1>1, <1>2, <2>1, <5>2, <6>1 DEF ClosesSeen
        <5> QED BY <1>10, <3>2, <5>1, <5>2
      <4> QED BY <1>2, <1>11, <4>1 DEF ClosesExec
    <3>3. CASE e.at = "idle"
      BY <1>11, <3>3 DEF ClosesExec
    <3> QED BY <1>9, <3>1, <3>2, <3>3
  <2>4. ClosesRow(h)'
    BY <1>2, <1>10, <1>12, <2>1, <2>2 DEF ClosesRow
  <2>5. ClosesSeen(p, h)'
    BY <1>12 DEF ClosesSeen
  <2>6. ClosesAlone(h)'
    BY <1>2, <2>1 DEF ClosesAlone, Closing
  <2> QED BY <2>3, <2>4, <2>5, <2>6
<1>22. Closes(p)'
  BY <1>2, <1>21 DEF Closes, Closing
<1>23. StepKeeps
  <2> SUFFICES ASSUME row.status = "running", row'.generation = row.generation
               PROVE  Extends(row.checkpoints, row'.checkpoints)
    BY DEF StepKeeps
  <2>1. CASE o.saved
    BY <1>10, <1>12, <1>15, <2>1
  <2>2. CASE ~o.saved
    BY <1>5, <1>12, <2>2, ExtendsSame DEF Session
  <2> QED BY <2>1, <2>2
<1>24. row.status # "running" => row'.status = row.status
  BY <1>10, <1>12, <1>14
<1> QED BY <1>18, <1>19, <1>20, <1>22, <1>23, <1>24 DEF Alone

LEMMA WriteCallAlone ==
    ASSUME SessionShape, NEW p, Procs = {p}, Alone(p), NEW h \in Handlers, WriteCall(p, h)
    PROVE  Alone(p)' /\ StepKeeps
<1> PICK r, a : r = call[h].record /\ a = seen[p].row
  OBVIOUS
<1> DEFINE allow == call[h].kind \in {"pause", "cancel"}
<1>a. PICK o : o = Outcome(call[h].record, seen[p].row, allow) /\ Store(p, o)
  BY Zenon DEF WriteCall
<1>b. Store(p, o) /\ (allow <=> call[h].kind \in {"pause", "cancel"}) /\ allow \in BOOLEAN
  <2>1. Store(p, o)
    BY <1>a, Zenon
  <2>2. (allow <=> call[h].kind \in {"pause", "cancel"}) /\ allow \in BOOLEAN
    OBVIOUS
  <2> QED BY <2>1, <2>2
<1> HIDE DEF allow
<1>1. r = call[h].record /\ a = seen[p].row /\ o = Outcome(r, a, allow)
  BY <1>a, Zenon
<1>2. /\ seen[p].selected /\ Head(tail[p]) = h
      /\ tail' = [tail EXCEPT ![p] = Tail(@)] /\ call' = [call EXCEPT ![h] = NoCall]
      /\ UNCHANGED <<claimed, taken, mode, exec>>
  BY DEF WriteCall
<1>3. p \in Procs
  OBVIOUS
<1>4. tail[p] # <<>> /\ a \in Session /\ tail[p] \in Seq(Handlers \cup {"exec"})
  BY <1>1, <1>2, <1>3 DEF SessionShape, SessionTypeOK, ProcessShaped, ShapedSeen
<1>5. row \in Session /\ call[h].at = "write" /\ r \in Session
  BY <1>1, <1>2, <1>3, <1>4, HeadInPlace
<1>6. IF allow THEN r.status \in Halted ELSE r.status = "preview_completed"
  <2>1. IF call[h].kind \in {"pause", "cancel"} THEN r.status \in Halted
        ELSE r.status = "preview_completed"
    BY <1>1, <1>5 DEF SessionShape, CallInPlace, ShapedCall
  <2> QED BY <1>1, <1>b, <2>1
<1>7. /\ o.saved => /\ o.row.status # "running"
                    /\ allow => o.row.status \in Halted
                    /\ \/ o.row = r /\ (allow => a.status # "running")
                       \/ allow /\ From(a, o.row) /\ o.row.checkpoints = a.checkpoints
      /\ o.row = r \/ From(a, o.row)
  BY <1>1, <1>b, <1>4, <1>5, <1>6, CallOutcome
<1>8. ~allow => Closing(h)
  <2>1. call[h] \in Call
    BY DEF SessionShape, SessionTypeOK
  <2>2. call[h].kind \in Kind
    BY <2>1 DEF Call
  <2>3. call[h].kind \in {"pause", "cancel"} => allow
    BY <1>b
  <2> QED BY <1>5, <2>2, <2>3 DEF Closing, Kind
<1>9. /\ tail'[p] = Tail(tail[p]) /\ call'[h] = NoCall
      /\ \A g \in Handlers \ {h} : call'[g] = call[g]
  BY <1>2, <1>3 DEF SessionShape, SessionTypeOK
<1>10. /\ row' = IF o.saved THEN o.row ELSE row
       /\ ~seen'[p].selected /\ seen'[p].row = NoSession
  BY <1>b, <1>3 DEF Store, Unselected, SessionShape, SessionTypeOK
<1>11. Fits(row) /\ Fits(r) /\ Fits(a)
  BY <1>1, <1>5 DEF Alone, KnownFit
<1>12. \/ row = a
       \/ row.status = "running" /\ row.generation # a.generation /\ row.generation # r.generation
  <2>1. h # "exec"
    BY SessionConstantsOK
  <2> QED BY <1>1, <1>2, <2>1 DEF Alone, SeenLags, HeadRecord
<1>13. mode[p] = "serving"
  <2>1. HomeOf[h] = p
    BY SessionConstantsOK
  <2> QED BY <1>5, <2>1 DEF SessionShape, CallInPlace
<1>14. KnownFit(p)'
  <2>1. Fits(row') /\ row' # NoSession
    <3>1. Fits(o.row) /\ o.row \in Session
      BY <1>4, <1>5, <1>7, <1>11, FitsFrom DEF From
    <3> QED BY <1>5, <1>10, <1>11, <3>1, NoSessionOK
  <2>2. PICK s : s = row'
    OBVIOUS
  <2>3. Fits(s)' /\ Fits(NoSession)'
    BY <1>2, <2>1, <2>2, NoSessionOK DEF Fits
  <2>4. Fits(row)' /\ Fits(seen[p].row)'
    BY <1>10, <2>2, <2>3
  <2>5. Fits(exec[p].record)' /\ Fits(exec[p].rows)'
    BY <1>2 DEF Alone, KnownFit, Fits
  <2>6. ASSUME NEW g \in Handlers, call'[g].at # "idle" PROVE Fits(call[g].record)'
    <3>1. g # h
      BY <1>9, <2>6, NoCallShaped
    <3> QED BY <1>2, <1>9, <2>6, <3>1 DEF Alone, KnownFit, Fits
  <2> QED BY <2>1, <2>4, <2>5, <2>6 DEF KnownFit
<1>15. row' = row \/ row'.status # "running"
  BY <1>7, <1>10
<1>16. SeenLags(p)' /\ RowsLag(p)' /\ Ahead(p)' /\ BootSees(p)'
  BY <1>2, <1>10, <1>13, <1>15 DEF Alone, SeenLags, RowsLag, Ahead, BootSees
<1>17. ASSUME NEW g \in Handlers, Closing(g)'
       PROVE  (ClosesExec(p, g) /\ ClosesRow(g) /\ ClosesSeen(p, g) /\ ClosesAlone(g))'
  <2>1. g # h
    BY <1>9, <1>17, NoCallShaped DEF Closing
  <2>2. call'[g] = call[g] /\ Closing(g)
    BY <1>9, <1>17, <2>1 DEF Closing
  <2>3. ClosesExec(p, g) /\ ClosesRow(g) /\ ClosesSeen(p, g) /\ ClosesAlone(g)
    BY <2>2 DEF Alone, Closes
  <2>4. ClosesExec(p, g)'
    <3>1. Behind(tail[p], g) => Behind(tail'[p], g)
      <4>1. ASSUME Behind(tail[p], g) PROVE Behind(Tail(tail[p]), g)
        BY <1>2, <1>4, <2>1, <4>1, BehindTail
      <4> QED BY <1>9, <4>1
    <3> QED BY <1>2, <2>2, <2>3, <3>1 DEF ClosesExec
  <2>5. ClosesRow(g)'
    <3> SUFFICES ASSUME row'.generation = call[g].record.generation
                 PROVE  /\ row'.status \in {"running"} \cup Halted
                        /\ row'.status = "running" => row'.checkpoints = call[g].record.checkpoints
      BY <2>2 DEF ClosesRow
    <3>1. CASE row' = row
      BY <2>3, <3>1 DEF ClosesRow
    <3>2. CASE o.saved /\ allow
      BY <1>7, <1>10, <3>2
    <3>3. CASE o.saved /\ ~allow
      <4>1. Closing(h) /\ h \in Handlers \ {g}
        BY <1>8, <2>1, <3>3
      <4>2. r.generation # call[g].record.generation
        BY <1>1, <2>3, <4>1 DEF ClosesAlone
      <4> QED BY <1>7, <1>10, <3>3, <4>2
    <3> QED BY <1>10, <3>1, <3>2, <3>3
  <2>6. ClosesSeen(p, g)'
    BY <1>10 DEF ClosesSeen
  <2>7. ClosesAlone(g)'
    <3>1. \A k \in Handlers \ {g} : Closing(k)' => Closing(k) /\ call'[k] = call[k]
      BY <1>9, NoCallShaped DEF Closing
    <3> QED BY <2>2, <2>3, <3>1 DEF ClosesAlone
  <2> QED BY <2>4, <2>5, <2>6, <2>7
<1>18. Closes(p)'
  BY <1>17 DEF Closes
<1>19. StepKeeps
  <2> SUFFICES ASSUME row.status = "running", row'.generation = row.generation
               PROVE  Extends(row.checkpoints, row'.checkpoints)
    BY DEF StepKeeps
  <2>1. CASE row' = row
    BY <1>5, <2>1, ExtendsSame DEF Session
  <2>2. CASE o.saved /\ From(a, o.row) /\ o.row.checkpoints = a.checkpoints
    <3>1. row = a
      BY <1>10, <1>12, <2>2 DEF From
    <3> QED BY <1>4, <1>10, <2>2, <3>1, ExtendsSame DEF Session
  <2>3. CASE o.saved /\ o.row = r
    <3>1. row = a
      BY <1>10, <1>12, <2>3
    <3>2. ~allow \/ From(a, o.row)
      BY <1>7, <2>3, <3>1
    <3>3. CASE ~allow
      <4>1. row.checkpoints = r.checkpoints
        BY <1>1, <1>8, <1>10, <2>3, <3>3 DEF Alone, Closes, ClosesRow
      <4> QED BY <1>5, <1>10, <2>3, <4>1, ExtendsSame DEF Session
    <3>4. CASE From(a, o.row)
      BY <1>10, <2>3, <3>1, <3>4 DEF From
    <3> QED BY <3>2, <3>3, <3>4
  <2> QED BY <1>7, <1>10, <2>1, <2>2, <2>3
<1> QED BY <1>14, <1>16, <1>18, <1>19 DEF Alone

LEMMA AloneInit ==
    ASSUME NEW p, Procs = {p}, Init
    PROVE  Alone(p)
<1>1. /\ row = NoSession /\ taken = {} /\ mode[p] = "serving" /\ exec[p] = NoExecution
      /\ seen[p] = [selected |-> FALSE, row |-> NoSession]
      /\ \A h \in Handlers : call[h] = NoCall
  BY DEF Init
<1>2. exec[p].at = "idle" /\ exec[p].record = NoSession /\ exec[p].rows = NoSession
  BY <1>1 DEF NoExecution
<1>3. \A h \in Handlers : call[h].at = "idle"
  BY <1>1, NoCallShaped
<1> QED BY <1>1, <1>2, <1>3, FitsNone
        DEF Alone, KnownFit, SeenLags, RowsLag, Ahead, Closes, Closing, BootSees

\* What the claim of h changes in the row.
LEMMA ClaimKeeps ==
    ASSUME SessionShape, NEW p, Procs = {p}, Alone(p), NEW h \in Handlers,
           NEW over \in BOOLEAN, Claim(h, over)
    PROVE  StepKeeps /\ Moves(h) /\ call'[h] # call[h]
<1>1. PICK r : ClaimsWith(p, h, r)
  BY ClaimIs DEF Alone
<1>2. p \in Procs /\ row \in Row
  BY DEF SessionShape, SessionTypeOK
<1>3. /\ r.generation \notin claimed \cup {0} /\ row' = r
      /\ call[h].at = "selected"
  BY <1>1 DEF ClaimsWith
<1>4. row # NoSession => row.generation # r.generation
  BY <1>2, <1>3 DEF Alone, KnownFit, Fits, Row
<1>5. call[h].kind \in {"resume", "recover"}
  BY DEF Claim
<1>6. call'[h].at \in {"idle", "write"}
  <2>1. call \in [Handlers -> Call]
    BY DEF SessionShape, SessionTypeOK
  <2>2. PICK s : \/ call' = [call EXCEPT ![h] = NoCall]
                 \/ call' = [call EXCEPT ![h].at = "write", ![h].record = s]
    BY Zenon DEF Claim
  <2>3. CASE call' = [call EXCEPT ![h] = NoCall]
    BY <2>1, <2>3, NoCallShaped
  <2>4. CASE call' = [call EXCEPT ![h].at = "write", ![h].record = s]
    BY <2>1, <2>4 DEF Call
  <2> QED BY <2>2, <2>3, <2>4
<1> QED BY <1>3, <1>4, <1>5, <1>6 DEF StepKeeps, Moves

LEMMA WriteCallMoves ==
    ASSUME SessionShape, NEW h \in Handlers, WriteCall(HomeOf[h], h)
    PROVE  Moves(h) /\ call'[h] # call[h]
<1>1. HomeOf[h] \in Procs
  BY SessionConstantsOK
<1>2. tail[HomeOf[h]] # <<>> /\ Head(tail[HomeOf[h]]) = h /\ call' = [call EXCEPT ![h] = NoCall]
  BY <1>1 DEF WriteCall, SessionShape, ProcessShaped
<1>3. call[h].at = "write"
  BY <1>1, <1>2, HeadInPlace
<1>4. call'[h].at = "idle"
  BY <1>2, NoCallShaped DEF SessionShape, SessionTypeOK
<1> QED BY <1>3, <1>4 DEF Moves

\* A session that is not running changes its status only by a write of a request,
\* or by a claim or a recovery.
Stays == row # NoSession /\ row.status # "running" /\ row'.status # row.status
            => \E h \in Handlers : Moves(h) /\ call'[h] # call[h]

LEMMA RowStays == ASSUME SessionShape, row' = row PROVE StepKeeps /\ Stays
BY ExtendsSame DEF StepKeeps, Stays, SessionShape, SessionTypeOK, Row, Session

LEMMA AloneStep ==
    ASSUME SessionShape, NEW p, Procs = {p}, Alone(p), Next
    PROVE  Alone(p)' /\ StepKeeps /\ Stays /\ BootFindsNone
<1> DEFINE Good == Alone(p)' /\ StepKeeps /\ Stays /\ BootFindsNone
<1>1. ASSUME mode' = mode PROVE BootFindsNone
  BY <1>1 DEF BootFindsNone
<1>2. p \in Procs /\ \A h \in Handlers : HomeOf[h] = p
  BY SessionConstantsOK
<1>3. ASSUME NEW over \in BOOLEAN, Run(p, over) PROVE Good
  <2>1. row = NoSession /\ mode' = mode
    BY <1>3 DEF Run
  <2> QED BY <1>1, <1>3, <2>1, RunAlone DEF StepKeeps, Stays
<1>4. ASSUME ExecutionStep(p) PROVE Good
  <2>1. ASSUME NEW outcome, PhaseEnds(p, outcome) PROVE Good
    <3>1. row' = row /\ mode' = mode
      BY <2>1 DEF PhaseEnds
    <3> QED BY <1>1, <2>1, <3>1, PhaseEndsAlone, RowStays
  <2>2. ASSUME SettleSelect(p) PROVE Good
    <3>1. row' = row /\ mode' = mode
      BY <2>2 DEF SettleSelect
    <3> QED BY <1>1, <2>2, <3>1, SettleSelectAlone, RowStays
  <2>3. ASSUME NEW over \in BOOLEAN, SettleApply(p, over) PROVE Good
    <3>1. row' = row /\ mode' = mode
      BY <2>3 DEF SettleApply
    <3> QED BY <1>1, <2>3, <3>1, SettleApplyAlone, RowStays
  <2>4. ASSUME NEW over \in BOOLEAN, WriteExecution(p, over) PROVE Good
    <3>1. mode' = mode
      BY <2>4 DEF WriteExecution
    <3> QED BY <1>1, <2>4, <3>1, WriteExecutionAlone DEF Stays
  <2> QED BY <1>4, <2>1, <2>2, <2>3, <2>4 DEF ExecutionStep
<1>5. ASSUME SelectForWrite(p) PROVE Good
  <2>1. row' = row /\ mode' = mode
    BY <1>5 DEF SelectForWrite
  <2> QED BY <1>1, <1>5, <2>1, SelectAlone, RowStays
<1>6. ASSUME Crash(p) PROVE Good
  <2>1. row' = row /\ mode'[p] = "down"
    BY <1>6 DEF Crash, SessionShape, SessionTypeOK
  <2> QED BY <1>6, <2>1, CrashAlone, RowStays DEF BootFindsNone
<1>7. ASSUME Boot(p) PROVE Good
  <2>1. row' = row /\ mode'[p] = "booting"
    BY <1>7 DEF Boot, SessionShape, SessionTypeOK
  <2> QED BY <1>7, <2>1, BootAlone, RowStays DEF BootFindsNone
<1>8. ASSUME MarkInterrupted(p) PROVE Good
  <2>1. /\ Alone(p)'
        /\ row' = NoSession \/ row'.status # "running"
        /\ row' = row \/ /\ row \in Session /\ row.status = "running"
                         /\ row'.generation = row.generation
                         /\ row'.checkpoints = row.checkpoints
    BY <1>8, MarkInterruptedAlone
  <2>2. StepKeeps /\ Stays
    <3>1. CASE row' = row
      BY <3>1, RowStays
    <3>2. CASE /\ row \in Session /\ row.status = "running"
               /\ row'.generation = row.generation /\ row'.checkpoints = row.checkpoints
      BY <3>2, ExtendsSame DEF StepKeeps, Stays, Session
    <3> QED BY <2>1, <3>1, <3>2
  <2> QED BY <2>1, <2>2 DEF BootFindsNone
<1>9. ASSUME NEW h \in Handlers, NEW kind \in Kind, NEW c \in 0..MaxPhase, Ask(h, kind, c)
      PROVE  Good
  <2>1. row' = row /\ mode' = mode
    BY <1>9 DEF Ask
  <2> QED BY <1>1, <1>9, <2>1, AskAlone, RowStays
<1>10. ASSUME NEW h \in Handlers, CallStep(h) PROVE Good
  <2>1. ASSUME Stop(h) PROVE Good
    <3>1. row' = row /\ mode' = mode
      BY <2>1 DEF Stop, Refuse
    <3> QED BY <1>1, <2>1, <3>1, StopAlone, RowStays
  <2>2. ASSUME NoClaim(h) PROVE Good
    <3>1. row' = row /\ mode' = mode
      BY <2>2 DEF NoClaim
    <3> QED BY <1>1, <2>2, <3>1, NoClaimAlone, RowStays
  <2>3. ASSUME NEW over \in BOOLEAN, Claim(h, over) PROVE Good
    <3>1. mode' = mode
      BY <2>3 DEF Claim
    <3> QED BY <1>1, <2>3, <3>1, ClaimAlone, ClaimKeeps DEF Stays
  <2>4. ASSUME WriteCall(HomeOf[h], h) PROVE Good
    <3>1. mode' = mode /\ WriteCall(p, h)
      BY <1>2, <2>4 DEF WriteCall
    <3> QED BY <1>1, <2>4, <3>1, WriteCallAlone, WriteCallMoves DEF Stays
  <2> QED BY <1>10, <2>1, <2>2, <2>3, <2>4 DEF CallStep
<1> HIDE DEF Good
<1>11. Good
  BY <1>2, <1>3, <1>4, <1>5, <1>6, <1>7, <1>8, <1>9, <1>10 DEF Next
<1> QED BY <1>11 DEF Good

OneInv(p) == SessionShape /\ Alone(p)

LEMMA OneInvKept ==
    ASSUME NEW p, Procs = {p}
    PROVE  Spec => []OneInv(p)
<1>1. Init => OneInv(p)
  BY SessionInitShaped, AloneInit DEF OneInv
<1>2. OneInv(p) /\ [Next]_vars => OneInv(p)'
  <2> SUFFICES ASSUME OneInv(p), [Next]_vars PROVE OneInv(p)'
    OBVIOUS
  <2>1. SessionShape'
    BY SessionStep DEF OneInv
  <2>2. CASE Next
    BY <2>1, <2>2, AloneStep DEF OneInv
  <2>3. CASE UNCHANGED vars
    <3>1. Alone(p)'
      BY <2>3 DEF OneInv, vars, Alone, KnownFit, Fits, SeenLags, HeadRecord, RowsLag, Ahead,
                  Closes, Closing, ClosesExec, ClosesRow, ClosesSeen, ClosesAlone, BootSees
    <3> QED BY <2>1, <3>1 DEF OneInv
  <2> QED BY <2>2, <2>3
<1> QED BY <1>1, <1>2, PTL DEF Spec

LEMMA OneStep ==
    ASSUME NEW p, Procs = {p}
    PROVE  OneInv(p) /\ [Next]_vars => [StepKeeps /\ Stays /\ BootFindsNone]_vars
BY AloneStep DEF OneInv

\* A session that was paused, cancelled or ended stays so until a request moves
\* it: whatever the execution that is still unwinding writes, save and settle
\* keep the status of the row.
THEOREM StopsHold ==
    ASSUME NEW p, Procs = {p}
    PROVE  Spec => StoppedStaysStopped
<1>1. OneInv(p) /\ [Next]_vars
        => [row # NoSession /\ row.status # "running" /\ row'.status # row.status
            => \E h \in Handlers : Moves(h) /\ call'[h] # call[h]]_vars
  BY OneStep DEF Stays
<1> QED BY <1>1, OneInvKept, PTL DEF Spec, StoppedStaysStopped

\* While a generation runs each write of its session keeps every checkpoint the
\* row has, also a pause or a cancel with a record of before the last phase: the
\* writes of the process stand in one queue, and save merges what it selects.
THEOREM NoCheckpointIsLost ==
    ASSUME NEW p, Procs = {p}
    PROVE  Spec => CheckpointsKept
<1>1. OneInv(p) /\ [Next]_vars
        => [row # NoSession /\ row.status = "running" /\ row'.generation = row.generation
            => Extends(row.checkpoints, row'.checkpoints)]_vars
  BY OneStep DEF StepKeeps
<1> QED BY <1>1, OneInvKept, PTL DEF Spec, CheckpointsKept

\* However often the process crashed before, its restart leaves no session
\* running: the recovery count it claims with is one no restart has taken.
THEOREM RestartFindsAll ==
    ASSUME NEW p, Procs = {p}
    PROVE  Spec => RestartLeavesNoneRunning
<1>1. OneInv(p) /\ [Next]_vars => [BootFindsNone]_vars
  BY OneStep
<1> QED BY <1>1, OneInvKept, PTL DEF Spec, RestartLeavesNoneRunning

-----------------------------------------------------------------------------
(***************************************************************************)
(* The planner: what its walk numbers                                      *)
(***************************************************************************)

Frames == [agent: Opened, deps: SUBSET Declared]

\* The walk has opened finitely many agents.
PlannerInv == PlannerTypeOK /\ IsFiniteSet(Opened)

LEMMA OpenTyped ==
    ASSUME PlannerInv, NEW a \in Declared \ Opened, NEW w \in Seq(Frames), Open(a, w),
           UNCHANGED <<definition, members, plan>>
    PROVE  PlannerInv'
<1> DEFINE O == Opened \cup {a}
           F == [agent: O, deps: SUBSET Declared]
           c == Cardinality(Opened)
<1>1. c \in Nat /\ IsFiniteSet(O)
  BY FS_CardinalityType, FS_AddElement DEF PlannerInv
<1>2. /\ index' = [b \in O |-> IF b = a THEN c ELSE index[b]]
      /\ lowlink' = [b \in O |-> IF b = a THEN c ELSE lowlink[b]]
      /\ stack' = Append(stack, a)
      /\ work' = Append(w, [agent |-> a, deps |-> definition[a] \cap Declared])
  BY DEF Open
<1>3. Opened' = O /\ Declared' = Declared
  BY <1>2 DEF Opened, Declared
<1>4. stack \in Seq(O) /\ w \in Seq(F)
  <2>1. Frames \subseteq F
    BY DEF Frames
  <2>2. stack \in Seq(Opened)
    BY DEF PlannerInv, PlannerTypeOK
  <2> QED BY <2>1, <2>2, SeqMonotonic
<1>5. stack' \in Seq(O) /\ work' \in Seq(F)
  <2>1. [agent |-> a, deps |-> definition[a] \cap Declared] \in F
    OBVIOUS
  <2> HIDE DEF F, O
  <2>2. a \in O
    BY DEF O
  <2> QED BY <1>2, <1>4, <2>1, <2>2
<1>6. \A b \in O : index'[b] \in Nat /\ lowlink'[b] \in 0..index'[b]
  <2> SUFFICES ASSUME NEW b \in O PROVE index'[b] \in Nat /\ lowlink'[b] \in 0..index'[b]
    OBVIOUS
  <2>1. b # a => index[b] \in Nat /\ lowlink[b] \in 0..index[b]
    BY DEF PlannerInv, PlannerTypeOK
  <2> HIDE DEF c, O
  <2> QED BY <1>1, <1>2, <2>1
<1>7. DOMAIN lowlink' = O
  BY <1>2
<1>8. O \subseteq Declared /\ members \subseteq O /\ plan \subseteq Declared
      /\ definition \in Definitions
  BY DEF PlannerInv, PlannerTypeOK
<1> HIDE DEF O, c
<1> QED BY <1>1, <1>3, <1>5, <1>6, <1>7, <1>8 DEF PlannerInv, PlannerTypeOK

LEMMA LastAndFront ==
    ASSUME NEW S, NEW w \in Seq(S), w # <<>>
    PROVE  /\ Len(w) \in Nat \ {0} /\ Len(w) \in 1..Len(w)
           /\ Last(w) \in S /\ w[Len(w)] = Last(w)
           /\ Front(w) \in Seq(S)
<1>1. Len(w) \in Nat \ {0}
  BY EmptySeq
<1>2. w[Len(w)] \in S
  BY <1>1, ElementOfSeq
<1>3. \A i \in 1..(Len(w) - 1) : w[i] \in S
  BY <1>1, ElementOfSeq
<1>4. SubSeq(w, 1, Len(w) - 1) \in Seq(S)
  BY <1>1, <1>3, SubSeqProperties
<1> QED BY <1>1, <1>2, <1>4 DEF Last, Front

\* The frames below the last, and the last one without a dependency.
LEMMA FramesTyped ==
    ASSUME NEW O, NEW D, NEW w \in Seq([agent: O, deps: SUBSET D]), w # <<>>
    PROVE  /\ Last(w) \in [agent: O, deps: SUBSET D]
           /\ Front(w) \in Seq([agent: O, deps: SUBSET D])
           /\ \A d : [w EXCEPT ![Len(w)].deps = @ \ {d}] \in Seq([agent: O, deps: SUBSET D])
<1> DEFINE F == [agent: O, deps: SUBSET D]
           n == Len(w)
<1>1. w \in Seq(F)
  OBVIOUS
<1>2. n \in 1..n /\ w[n] \in F /\ Last(w) \in F /\ Front(w) \in Seq(F)
  <2> HIDE DEF F
  <2> QED BY <1>1, LastAndFront
<1>3. ASSUME NEW d PROVE [w EXCEPT ![n].deps = @ \ {d}] \in Seq(F)
  <2>1. PICK g : g = [w[n] EXCEPT !.deps = @ \ {d}]
    OBVIOUS
  <2>2. g \in F
    BY <1>2, <2>1
  <2>3. [w EXCEPT ![n].deps = @ \ {d}] = [w EXCEPT ![n] = g]
    BY <2>1
  <2>4. [w EXCEPT ![n] = g] \in Seq(F)
    <3> HIDE DEF F
    <3> QED BY <1>1, <1>2, <2>2, ExceptSeq
  <2> QED BY <2>3, <2>4
<1> QED BY <1>2, <1>3

LEMMA BeginTyped ==
    ASSUME PlannerInv, NEW a \in Agents, Begin(a)
    PROVE  PlannerInv'
BY OpenTyped DEF Begin, PlannerInv, PlannerTypeOK, Frames

LEMMA FollowTyped ==
    ASSUME PlannerInv, NEW d \in Agents, Follow(d)
    PROVE  PlannerInv'
<1>1. /\ work \in Seq(Frames) /\ work # <<>> /\ d \in Last(work).deps
      /\ UNCHANGED <<definition, members, plan>>
  BY DEF Follow, PlannerInv, PlannerTypeOK, Frames
<1>2. Last(work) \in Frames /\ Followed(d) \in Seq(Frames)
  BY <1>1, FramesTyped DEF Frames, Followed
<1>3. CASE d \in Opened
  <2> DEFINE a == Last(work).agent
  <2>1. /\ lowlink' = Lowered(a, d) /\ work' = Followed(d)
        /\ UNCHANGED <<index, stack>>
    BY <1>3 DEF Follow
  <2>2. a \in Opened /\ index[d] \in Nat
    BY <1>2, <1>3 DEF Frames, PlannerInv, PlannerTypeOK
  <2>3. DOMAIN lowlink' = Opened /\ \A b \in Opened : lowlink'[b] \in 0..index[b]
    <3>1. DOMAIN lowlink = Opened /\ \A b \in Opened : index[b] \in Nat /\ lowlink[b] \in 0..index[b]
      BY DEF PlannerInv, PlannerTypeOK
    <3>2. Smaller(lowlink[a], index[d]) \in 0..index[a]
      BY <2>2, <3>1 DEF Smaller
    <3> HIDE DEF a
    <3> QED BY <2>1, <2>2, <3>1, <3>2 DEF Lowered
  <2>4. Opened' = Opened /\ Declared' = Declared
    BY <1>1, <2>1 DEF Opened, Declared
  <2>5. work' \in Seq([agent: Opened, deps: SUBSET Declared])
    <3>1. Frames = [agent: Opened, deps: SUBSET Declared]
      BY DEF Frames
    <3> QED BY ONLY <1>2, <2>1, <3>1
  <2> QED BY <1>1, <2>1, <2>3, <2>4, <2>5 DEF PlannerInv, PlannerTypeOK
<1>4. CASE d \notin Opened
  <2>1. Open(d, Followed(d))
    BY <1>4 DEF Follow
  <2>2. d \in Declared
    BY <1>1, <1>2 DEF Frames
  <2> QED BY <1>1, <1>2, <1>4, <2>1, <2>2, OpenTyped
<1> QED BY <1>3, <1>4

LEMMA LeaveTyped ==
    ASSUME PlannerInv, LeaveAgent
    PROVE  PlannerInv'
<1> DEFINE a == Last(work).agent
           rest == Front(work)
<1>1. /\ work \in Seq(Frames) /\ work # <<>>
      /\ UNCHANGED <<definition, index, plan>>
  BY DEF LeaveAgent, PlannerInv, PlannerTypeOK, Frames
<1>2. a \in Opened /\ rest \in Seq(Frames)
  BY <1>1, FramesTyped DEF Frames
<1>3. /\ work' = rest
      /\ lowlink' = IF rest = <<>> THEN lowlink
                    ELSE [lowlink EXCEPT ![Last(rest).agent] = Smaller(@, lowlink[a])]
      /\ \/ stack' = Below(a) /\ members' = members \cup OnCycle(Component(a))
         \/ UNCHANGED <<stack, members>>
  BY DEF LeaveAgent
<1>4. DOMAIN lowlink = Opened /\ \A b \in Opened : index[b] \in Nat /\ lowlink[b] \in 0..index[b]
  BY DEF PlannerInv, PlannerTypeOK
<1>5. DOMAIN lowlink' = Opened /\ \A b \in Opened : lowlink'[b] \in 0..index[b]
  <2>1. CASE rest = <<>>
    BY <1>3, <1>4, <2>1
  <2>2. CASE rest # <<>>
    <3> DEFINE b == Last(rest).agent
    <3>1. b \in Opened
      BY <1>2, <2>2, FramesTyped DEF Frames
    <3>2. Smaller(lowlink[b], lowlink[a]) \in 0..index[b]
      BY <1>2, <1>4, <3>1 DEF Smaller
    <3>3. lowlink' = [lowlink EXCEPT ![b] = Smaller(lowlink[b], lowlink[a])]
      BY <1>3, <2>2
    <3> HIDE DEF b, a
    <3> QED BY <1>4, <3>1, <3>2, <3>3
  <2> QED BY <2>1, <2>2
<1>6. Opened' = Opened /\ Declared' = Declared
  BY <1>1 DEF Opened, Declared
<1>7. stack' \in Seq(Opened) /\ members' \subseteq Opened
  <2>0. stack \in Seq(Opened) /\ IsFiniteSet(Opened) /\ members \subseteq Opened
    BY DEF PlannerInv, PlannerTypeOK
  <2>1. Len(stack) \in Nat /\ Stacked \subseteq Opened
    BY <2>0, LenProperties DEF Stacked
  <2>2. Component(a) \subseteq Opened
    BY <2>1 DEF Component
  <2>3. Cardinality(Component(a)) \in Nat
    BY <2>0, <2>2, FS_Subset, FS_CardinalityType
  <2> DEFINE n == Len(stack) - Cardinality(Component(a))
  <2>4. n \in Int /\ \A i \in 1..n : stack[i] \in Opened
    <3> DEFINE k == Cardinality(Component(a))
    <3> HIDE DEF k
    <3> QED BY <2>0, <2>1, <2>3, ElementOfSeq DEF k
  <2>5. Below(a) \in Seq(Opened)
    <3>1. SubSeq(stack, 1, n) \in Seq(Opened)
      <4> HIDE DEF n
      <4> QED BY <2>4, SubSeqProperties
    <3> QED BY <3>1 DEF Below, n
  <2>6. OnCycle(Component(a)) \subseteq Opened
    BY <2>2 DEF OnCycle
  <2> HIDE DEF a
  <2> QED BY <1>3, <2>0, <2>5, <2>6
<1>8. work' \in Seq([agent: Opened, deps: SUBSET Declared])
  BY <1>2, <1>3 DEF Frames
<1> QED BY <1>1, <1>4, <1>5, <1>6, <1>7, <1>8 DEF PlannerInv, PlannerTypeOK

LEMMA PlannerInvHolds == PlannerSpec => []PlannerInv
<1>1. PlannerInit => PlannerInv
  BY FS_EmptySet DEF PlannerInit, PlannerInv, PlannerTypeOK, Opened
<1>2. PlannerInv /\ [PlannerNext]_plannerVars => PlannerInv'
  <2> SUFFICES ASSUME PlannerInv, [PlannerNext]_plannerVars PROVE PlannerInv'
    OBVIOUS
  <2>1. CASE UNCHANGED plannerVars
    BY <2>1 DEF plannerVars, PlannerInv, PlannerTypeOK, Opened, Declared
  <2>2. ASSUME NEW request \in Requests \cup {Declared}, CreatePlan(request) PROVE PlannerInv'
    BY <2>2 DEF CreatePlan, RequestIsSound, PlannerInv, PlannerTypeOK, Opened, Declared
  <2> QED BY <2>1, <2>2, BeginTyped, FollowTyped, LeaveTyped DEF PlannerNext
<1> QED BY <1>1, <1>2, PTL DEF PlannerSpec

\* PlannerEngine: the walk over any pipeline numbers agents of the pipeline, no
\* lowlink is above its agent's number, and a plan is made of declared agents.
THEOREM PlannerTypeCorrect == PlannerSpec => []PlannerTypeOK
BY PlannerInvHolds, PTL DEF PlannerInv

-----------------------------------------------------------------------------
(***************************************************************************)
(* The cycles of a pipeline.  The stack of the walk holds, in the order    *)
(* they were opened, the agents whose component is not closed yet.  What   *)
(* is walked reaches all that stands above it (ReachesUp), all that stands *)
(* there leads back to what is walked below it (LeadsBack), and a lowlink  *)
(* is both reached (LowReached) and as low as the edges seen so far allow  *)
(* (LowBounds).  So an agent left with its own number as lowlink has its   *)
(* component above it, and nothing of it leads below.                      *)
(***************************************************************************)

\* The agents of frames w, and what is still to follow of agent b.
AgentsOf(w) == {w[i].agent : i \in DOMAIN w}
DepsOf(w, b) == UNION {w[i].deps : i \in {i \in DOMAIN w : w[i].agent = b}}
FramesRise(w) == \A i, j \in DOMAIN w : i < j => index[w[i].agent] < index[w[j].agent]
Walking == AgentsOf(work)
\* The edges of b that were followed.
Seen(b) == (definition[b] \cap Declared) \ DepsOf(work, b)
Closed == Opened \ Stacked

Numbered == \A b \in Opened : /\ index[b] < Cardinality(Opened)
                              /\ \A c \in Opened : index[b] = index[c] => b = c
StackRises == \A i, j \in DOMAIN stack : i < j => index[stack[i]] < index[stack[j]]
\* What is walked reaches all that stands above it on the stack.
ReachesUp == \A g \in Walking : \A x \in Stacked : index[g] < index[x] => x \in Reaches(g)
\* Whatever stands on the stack leads back to what is walked, below it.
LeadsBack == \A x \in Stacked : \E g \in Walking :
                /\ index[g] <= index[x]
                /\ x = g \/ g \in Reaches(x)
\* The frame that x stands above: the last that was opened before it.
Heads(g, x) == index[g] <= index[x] /\ ~\E h \in Walking : index[g] < index[h] /\ index[h] <= index[x]
LowBounds == \A g \in Walking : \A x \in Stacked : Heads(g, x) =>
                \A d \in Seen(x) \cap Stacked : lowlink[g] <= index[d]
LowReached == \A g \in Walking : \E y \in Stacked :
                /\ index[y] = lowlink[g]
                /\ y = g \/ y \in Reaches(g)
MembersClosed == members = {b \in Closed : b \in Reaches(b)}
PlanClosed == \A a \in plan : definition[a] \subseteq plan /\ a \notin Reaches(a)

\* What is closed is closed under edges, and its cycles are those reported.
WalkInv ==
    /\ PlannerInv /\ Numbered
    /\ FramesRise(work) /\ Walking \subseteq Stacked /\ StackRises
    /\ \A b \in Opened : Seen(b) \subseteq Opened /\ DepsOf(work, b) \subseteq definition[b]
    /\ \A b \in Closed : definition[b] \cap Declared \subseteq Closed
    /\ ReachesUp /\ LeadsBack /\ LowBounds /\ LowReached
    /\ MembersClosed /\ PlanClosed

\* What is reached: along edges, of what is reached, and in no more than what is
\* closed under edges.
LEMMA ReachesEdge ==
    ASSUME NEW a, NEW b \in definition[a] \cap Declared
    PROVE  b \in Reaches(a)
BY DEF Reaches

LEMMA ReachesOn ==
    ASSUME NEW a, NEW b \in Reaches(a), NEW c \in Reaches(b)
    PROVE  c \in Reaches(a)
<1> SUFFICES ASSUME NEW S \in SUBSET Declared,
                    \A x \in S \cup {a} : definition[x] \cap Declared \subseteq S
             PROVE  c \in S
  BY DEF Reaches
<1>1. b \in S
  BY DEF Reaches
<1>2. \A x \in S \cup {b} : definition[x] \cap Declared \subseteq S
  BY <1>1
<1> QED BY <1>2 DEF Reaches

LEMMA ReachesWithin ==
    ASSUME NEW a, NEW S \in SUBSET Declared,
           \A x \in S \cup {a} : definition[x] \cap Declared \subseteq S
    PROVE  Reaches(a) \subseteq S
BY DEF Reaches

-----------------------------------------------------------------------------

FrameTypes == work \in Seq(Frames) /\ \A b \in Opened : index[b] \in Nat /\ lowlink[b] \in 0..index[b]
LEMMA FrameTyping == PlannerInv => FrameTypes
BY DEF PlannerInv, PlannerTypeOK, FrameTypes, Frames

\* The last frame is above all others.
LEMMA LastFrame ==
    ASSUME FrameTypes, NEW w \in Seq(Frames), w # <<>>, FramesRise(w)
    PROVE  /\ Last(w) \in Frames /\ Last(w).agent \in Opened
           /\ Last(w).agent \in AgentsOf(w) /\ AgentsOf(w) \subseteq Opened
           /\ Len(w) \in DOMAIN w /\ w[Len(w)] = Last(w) /\ DOMAIN w = 1..Len(w) /\ Len(w) \in Nat
           /\ \A i \in DOMAIN w : w[i] \in Frames /\ (w[i].agent = Last(w).agent => i = Len(w))
           /\ \A g \in AgentsOf(w) : g = Last(w).agent \/ index[g] < index[Last(w).agent]
           /\ DepsOf(w, Last(w).agent) = Last(w).deps
<1>1. /\ Len(w) \in Nat \ {0} /\ DOMAIN w = 1..Len(w) /\ Len(w) \in DOMAIN w
      /\ Last(w) \in Frames /\ w[Len(w)] = Last(w)
  BY LastAndFront, LenProperties
<1>2. \A i \in DOMAIN w : w[i] \in Frames
  BY <1>1, ElementOfSeq
<1>3. \A i \in DOMAIN w : w[i].agent \in Opened /\ index[w[i].agent] \in Nat
  BY <1>2 DEF Frames, FrameTypes
<1>4. \A i \in DOMAIN w : i = Len(w) \/ index[w[i].agent] < index[w[Len(w)].agent]
  <2> TAKE i \in DOMAIN w
  <2>1. i = Len(w) \/ i < Len(w)
    BY <1>1
  <2> QED BY <1>1, <2>1 DEF FramesRise
<1>5. \A i \in DOMAIN w : w[i].agent = Last(w).agent => i = Len(w)
  BY <1>1, <1>3, <1>4
<1>6. \A g \in AgentsOf(w) : g = Last(w).agent \/ index[g] < index[Last(w).agent]
  BY <1>1, <1>4 DEF AgentsOf
<1>7. {i \in DOMAIN w : w[i].agent = Last(w).agent} = {Len(w)}
  BY <1>1, <1>5
<1>8. DepsOf(w, Last(w).agent) = Last(w).deps
  BY <1>1, <1>7 DEF DepsOf
<1> QED BY <1>1, <1>2, <1>3, <1>5, <1>6, <1>8 DEF AgentsOf

\* An edge to d is followed from the last frame.
LEMMA FollowedFrame ==
    ASSUME FrameTypes, work # <<>>, FramesRise(work), NEW d
    PROVE  /\ Followed(d) \in Seq(Frames) /\ Followed(d) # <<>>
           /\ AgentsOf(Followed(d)) = AgentsOf(work) /\ FramesRise(Followed(d))
           /\ \A b : b # Last(work).agent => DepsOf(Followed(d), b) = DepsOf(work, b)
           /\ DepsOf(Followed(d), Last(work).agent) = Last(work).deps \ {d}
           /\ Last(Followed(d)).agent = Last(work).agent
<1>1. PICK n, v : n = Len(work) /\ v = Followed(d)
  OBVIOUS
<1>2. work \in Seq(Frames) /\ n \in DOMAIN work /\ work[n] = Last(work) /\ DOMAIN work = 1..n /\ n \in Nat
      /\ Last(work) \in Frames
      /\ \A i \in DOMAIN work : work[i] \in Frames /\ (work[i].agent = Last(work).agent => i = n)
  BY <1>1, LastFrame DEF FrameTypes
<1>3. PICK f : f = [work[n] EXCEPT !.deps = @ \ {d}]
  OBVIOUS
<1>4. f.agent = Last(work).agent /\ f.deps = Last(work).deps \ {d}
  BY <1>2, <1>3 DEF Frames
<1>5. v = [work EXCEPT ![n] = f]
  BY <1>1, <1>3 DEF Followed
<1>6. DOMAIN v = DOMAIN work /\ v[n] = f /\ \A i \in DOMAIN work : i # n => v[i] = work[i]
  BY <1>2, <1>5
<1>7. \A i \in DOMAIN v : v[i].agent = work[i].agent
  BY <1>2, <1>4, <1>6
<1>8. v \in Seq(Frames)
  <2>1. Frames = [agent: Opened, deps: SUBSET Declared] /\ work \in Seq(Frames)
    BY DEF FrameTypes, Frames
  <2>2. work \in Seq([agent: Opened, deps: SUBSET Declared])
    BY ONLY <2>1
  <2>3. [work EXCEPT ![Len(work)].deps = @ \ {d}] \in Seq([agent: Opened, deps: SUBSET Declared])
    BY <2>2, FramesTyped
  <2>4. v = [work EXCEPT ![Len(work)].deps = @ \ {d}]
    BY <1>1 DEF Followed
  <2> QED BY ONLY <2>1, <2>3, <2>4
<1>9. AgentsOf(v) = AgentsOf(work) /\ FramesRise(v)
  BY <1>6, <1>7 DEF AgentsOf, FramesRise
<1>10. ASSUME NEW b, b # Last(work).agent PROVE DepsOf(v, b) = DepsOf(work, b)
  <2>1. {i \in DOMAIN v : v[i].agent = b} = {i \in DOMAIN work : work[i].agent = b}
    BY <1>6, <1>7
  <2>2. \A i \in {i \in DOMAIN work : work[i].agent = b} : v[i] = work[i]
    BY <1>2, <1>6, <1>10
  <2> QED BY <2>1, <2>2 DEF DepsOf
<1>11. DepsOf(v, Last(work).agent) = f.deps
  <2>1. {i \in DOMAIN v : v[i].agent = Last(work).agent} = {n}
    BY <1>2, <1>6, <1>7
  <2> QED BY <1>6, <2>1 DEF DepsOf
<1>12. Len(v) = n
  BY <1>2, <1>6, <1>8, LenProperties
<1>13. v # <<>>
  BY <1>2, <1>6, EmptySeq
<1>14. Last(v).agent = Last(work).agent
  BY <1>4, <1>6, <1>12 DEF Last
<1> QED BY <1>1, <1>4, <1>8, <1>9, <1>10, <1>11, <1>13, <1>14

\* The last frame is left.
LEMMA FrontFrames ==
    ASSUME FrameTypes, work # <<>>, FramesRise(work)
    PROVE  /\ Front(work) \in Seq(Frames) /\ FramesRise(Front(work))
           /\ AgentsOf(Front(work)) = AgentsOf(work) \ {Last(work).agent}
           /\ \A b : b # Last(work).agent => DepsOf(Front(work), b) = DepsOf(work, b)
           /\ DepsOf(Front(work), Last(work).agent) = {}
<1>1. PICK n, v : n = Len(work) /\ v = Front(work)
  OBVIOUS
<1>2. work \in Seq(Frames) /\ n \in DOMAIN work /\ work[n] = Last(work) /\ DOMAIN work = 1..n /\ n \in Nat
      /\ \A i \in DOMAIN work : work[i] \in Frames /\ (work[i].agent = Last(work).agent => i = n)
  BY <1>1, LastFrame DEF FrameTypes
<1>3. v \in Seq(Frames)
  BY <1>1, FramesTyped DEF FrameTypes, Frames
<1>4. DOMAIN v = 1..(n - 1) /\ \A i \in 1..(n - 1) : v[i] = work[i]
  <2>1. \A i \in 1..(n - 1) : work[i] \in Frames
    BY <1>2
  <2>2. n - 1 \in Int /\ n - 1 >= 0
    BY <1>2
  <2>3. v = SubSeq(work, 1, n - 1)
    BY <1>1 DEF Front
  <2>4. Len(v) = n - 1 /\ \A i \in 1..(n - 1) : v[i] = work[i]
    BY <2>1, <2>2, <2>3, SubSeqProperties
  <2> QED BY <1>3, <2>4, LenProperties
<1>5. \A i \in DOMAIN work : i = n \/ i \in 1..(n - 1)
  BY <1>2
<1>6. \A i \in DOMAIN v : i \in DOMAIN work /\ i # n /\ v[i] = work[i]
  BY <1>2, <1>4
<1>7. AgentsOf(v) = AgentsOf(work) \ {Last(work).agent} /\ FramesRise(v)
  <2>1. \A i \in DOMAIN v : v[i].agent # Last(work).agent
    BY <1>2, <1>6
  <2>2. \A i \in DOMAIN work : work[i].agent # Last(work).agent => i \in DOMAIN v /\ v[i] = work[i]
    BY <1>2, <1>4, <1>5
  <2>3. AgentsOf(v) = AgentsOf(work) \ {Last(work).agent}
    BY <1>6, <2>1, <2>2 DEF AgentsOf
  <2> QED BY <1>6, <2>3 DEF FramesRise
<1>8. ASSUME NEW b, b # Last(work).agent PROVE DepsOf(v, b) = DepsOf(work, b)
  <2>1. {i \in DOMAIN v : v[i].agent = b} = {i \in DOMAIN work : work[i].agent = b}
    BY <1>2, <1>4, <1>5, <1>6, <1>8
  <2>2. \A i \in {i \in DOMAIN v : v[i].agent = b} : v[i] = work[i]
    BY <1>6
  <2> QED BY <2>1, <2>2 DEF DepsOf
<1>9. {i \in DOMAIN v : v[i].agent = Last(work).agent} = {}
  BY <1>2, <1>6
<1>10. DepsOf(v, Last(work).agent) = {}
  BY <1>9 DEF DepsOf
<1> QED BY <1>1, <1>3, <1>7, <1>8, <1>10

\* A frame is put on the others.
LEMMA MoreFrames ==
    ASSUME NEW w \in Seq(Frames), NEW f, f.agent \notin AgentsOf(w)
    PROVE  /\ AgentsOf(Append(w, f)) = AgentsOf(w) \cup {f.agent}
           /\ \A b : b # f.agent => DepsOf(Append(w, f), b) = DepsOf(w, b)
           /\ DepsOf(Append(w, f), f.agent) = f.deps
           /\ \A i \in DOMAIN Append(w, f) : i \in DOMAIN w \/ i = Len(w) + 1
           /\ \A i \in DOMAIN w : i \in Nat /\ i < Len(w) + 1 /\ Append(w, f)[i] = w[i]
           /\ Append(w, f)[Len(w) + 1] = f
<1>1. PICK n, v : n = Len(w) /\ v = Append(w, f)
  OBVIOUS
<1>2. /\ n \in Nat /\ DOMAIN w = 1..n /\ DOMAIN v = 1..(n + 1)
      /\ \A i \in 1..n : v[i] = w[i]
      /\ v[n + 1] = f
  <2>1. n \in Nat /\ DOMAIN w = 1..n
    BY <1>1, LenProperties
  <2>2. Len(v) = n + 1 /\ (\A i \in 1..n : v[i] = w[i]) /\ v[n + 1] = f /\ v \in Seq(Frames \cup {f})
    <3>1. w \in Seq(Frames \cup {f})
      BY SeqMonotonic
    <3> QED BY <1>1, <3>1, AppendProperties
  <2> QED BY <2>1, <2>2, LenProperties
<1>3. /\ \A i \in DOMAIN v : i \in DOMAIN w \/ i = n + 1
      /\ \A i \in DOMAIN w : i \in DOMAIN v /\ i \in Nat /\ i < n + 1 /\ v[i] = w[i] /\ v[i].agent # f.agent
      /\ n + 1 \in DOMAIN v
  BY <1>2 DEF AgentsOf
<1>4. AgentsOf(v) = AgentsOf(w) \cup {f.agent}
  BY <1>2, <1>3 DEF AgentsOf
<1>5. ASSUME NEW b, b # f.agent PROVE DepsOf(v, b) = DepsOf(w, b)
  <2>1. {i \in DOMAIN v : v[i].agent = b} = {i \in DOMAIN w : w[i].agent = b}
    BY <1>2, <1>3, <1>5
  <2>2. \A i \in {i \in DOMAIN w : w[i].agent = b} : v[i] = w[i]
    BY <1>3
  <2> QED BY <2>1, <2>2 DEF DepsOf
<1>6. {i \in DOMAIN v : v[i].agent = f.agent} = {n + 1}
  BY <1>2, <1>3
<1>7. DepsOf(v, f.agent) = f.deps
  BY <1>2, <1>6 DEF DepsOf
<1> QED BY <1>1, <1>2, <1>3, <1>4, <1>5, <1>7

\* What a step says of the definition and of what is reached by it stays.
LEMMA ReachesStays ==
    ASSUME definition' = definition
    PROVE  Declared' = Declared /\ \A a : Reaches(a)' = Reaches(a)
BY DEF Declared, Reaches

\* What stands on the stack once another is put on it.
LEMMA MoreStacked ==
    ASSUME NEW S, stack \in Seq(S), NEW a, stack' = Append(stack, a)
    PROVE  /\ Stacked' = Stacked \cup {a}
           /\ \A i \in DOMAIN stack' : i \in DOMAIN stack \/ i = Len(stack) + 1
           /\ \A i \in DOMAIN stack : i \in Nat /\ i < Len(stack) + 1 /\ stack'[i] = stack[i]
           /\ stack'[Len(stack) + 1] = a
<1>1. /\ Len(stack) \in Nat /\ DOMAIN stack = 1..Len(stack)
      /\ DOMAIN stack' = 1..(Len(stack) + 1)
      /\ \A i \in 1..Len(stack) : stack'[i] = stack[i]
      /\ stack'[Len(stack) + 1] = a
  <2>1. Len(stack) \in Nat /\ DOMAIN stack = 1..Len(stack)
    BY LenProperties
  <2>2. stack \in Seq(S \cup {a})
    BY SeqMonotonic
  <2>3. /\ Len(stack') = Len(stack) + 1 /\ stack' \in Seq(S \cup {a})
        /\ \A i \in 1..Len(stack) : stack'[i] = stack[i]
        /\ stack'[Len(stack) + 1] = a
    BY <2>2, AppendProperties
  <2> QED BY <2>1, <2>3, LenProperties
<1>2. \A i \in DOMAIN stack' : i \in DOMAIN stack \/ i = Len(stack) + 1
  BY <1>1
<1>3. /\ \A i \in DOMAIN stack : i \in DOMAIN stack' /\ i \in Nat /\ i < Len(stack) + 1
                              /\ stack'[i] = stack[i]
      /\ Len(stack) + 1 \in DOMAIN stack'
  BY <1>1
<1> QED BY <1>1, <1>2, <1>3 DEF Stacked

\* Another agent is opened, by itself or from the last frame.
LEMMA OpenSound ==
    ASSUME WalkInv, NEW a \in Declared \ Opened, NEW w \in Seq(Frames), Open(a, w),
           UNCHANGED <<definition, members, plan>>,
           AgentsOf(w) = Walking, FramesRise(w),
           \A b \in Opened : /\ DepsOf(work, b) \subseteq DepsOf(w, b) \cup {a}
                             /\ DepsOf(w, b) \subseteq DepsOf(work, b),
           Walking # {} => \E p \in Walking : /\ a \in definition[p]
                                              /\ \A g \in Walking : g = p \/ index[g] < index[p]
    PROVE  WalkInv'
<1>1. PICK n, f : n = Cardinality(Opened) /\ f = [agent |-> a, deps |-> definition[a] \cap Declared]
  OBVIOUS
<1>2. /\ PlannerInv /\ Numbered /\ StackRises /\ Walking \subseteq Stacked
      /\ ReachesUp /\ LeadsBack /\ LowBounds /\ LowReached /\ MembersClosed /\ PlanClosed
      /\ \A b \in Opened : Seen(b) \subseteq Opened /\ DepsOf(work, b) \subseteq definition[b]
      /\ \A b \in Closed : definition[b] \cap Declared \subseteq Closed
  BY DEF WalkInv
<1>3. PlannerInv'
  BY <1>2, OpenTyped
<1>4. n \in Nat
  BY <1>1, <1>2, FS_CardinalityType DEF PlannerInv
<1>5. /\ Opened' = Opened \cup {a} /\ a \notin Opened
      /\ \A b \in Opened : index'[b] = index[b] /\ lowlink'[b] = lowlink[b]
      /\ index'[a] = n /\ lowlink'[a] = n
      /\ stack' = Append(stack, a) /\ work' = Append(w, f)
  BY <1>1 DEF Open, Opened
<1>6. /\ \A b \in Opened : index[b] \in Nat /\ lowlink[b] \in 0..index[b] /\ index[b] < n
      /\ stack \in Seq(Opened) /\ Stacked \subseteq Opened /\ Walking \subseteq Opened
  <2>1. stack \in Seq(Opened) /\ \A b \in Opened : index[b] \in Nat /\ lowlink[b] \in 0..index[b]
    BY <1>2 DEF PlannerInv, PlannerTypeOK
  <2>2. Stacked \subseteq Opened
    BY <2>1, ElementOfSeq, LenProperties DEF Stacked
  <2> QED BY <1>1, <1>2, <2>1, <2>2 DEF Numbered
<1>7. \A b : Reaches(b)' = Reaches(b) /\ Declared' = Declared
  BY ReachesStays
<1>8. /\ Stacked' = Stacked \cup {a}
      /\ \A i \in DOMAIN stack' : i \in DOMAIN stack \/ i = Len(stack) + 1
      /\ \A i \in DOMAIN stack : i \in Nat /\ i < Len(stack) + 1 /\ stack'[i] = stack[i]
      /\ stack'[Len(stack) + 1] = a
  BY <1>5, <1>6, MoreStacked
<1>9. f.agent = a /\ f.deps = definition[a] \cap Declared /\ a \notin AgentsOf(w)
  BY <1>1, <1>5, <1>6
<1>10. /\ Walking' = Walking \cup {a}
       /\ \A b : b # a => DepsOf(work', b) = DepsOf(w, b)
       /\ DepsOf(work', a) = definition[a] \cap Declared
       /\ \A i \in DOMAIN work' : i \in DOMAIN w \/ i = Len(w) + 1
       /\ \A i \in DOMAIN w : i \in Nat /\ i < Len(w) + 1 /\ work'[i] = w[i]
       /\ work'[Len(w) + 1] = f
  BY <1>5, <1>9, MoreFrames DEF Walking
<1>11. Closed' = Closed
  BY <1>5, <1>6, <1>8 DEF Closed
<1>13. Seen(a)' = {} /\ \A b \in Opened : Seen(b)' \subseteq Seen(b) \cup {a}
  <2>1. Seen(a)' = {}
    BY <1>7, <1>10 DEF Seen
  <2>2. \A b \in Opened : DepsOf(work, b) \subseteq DepsOf(work', b) \cup {a}
    BY <1>5, <1>10
  <2> QED BY <1>7, <2>1, <2>2 DEF Seen
<1>14. Numbered'
  <2>1. Cardinality(Opened') = n + 1
    BY <1>1, <1>2, <1>5, FS_AddElement DEF PlannerInv
  <2>2. \A b \in Opened : index'[b] \in Nat /\ index'[b] < n /\ index'[b] < n + 1
    BY <1>4, <1>5, <1>6
  <2>3. \A b, c \in Opened : index'[b] = index'[c] => b = c
    BY <1>2, <1>5 DEF Numbered
  <2>4. \A b, c \in Opened' : index'[b] = index'[c] => b = c
    BY <1>4, <1>5, <2>2, <2>3
  <2>5. \A b \in Opened' : index'[b] < n + 1
    BY <1>4, <1>5, <2>2
  <2> QED BY <2>1, <2>4, <2>5 DEF Numbered
<1>15. FramesRise(work)'
  <2>1. \A i \in DOMAIN w : w[i].agent \in Opened
    BY <1>6 DEF AgentsOf
  <2>2. ASSUME NEW i \in DOMAIN work', NEW j \in DOMAIN work', i < j
        PROVE  index'[work'[i].agent] < index'[work'[j].agent]
    <3>1. i \in DOMAIN w
      <4>1. CASE j \in DOMAIN w
        <5>1. ~(Len(w) + 1 < j)
          BY <1>10, <2>2, <4>1
        <5> QED BY <1>10, <2>2, <4>1
      <4>2. CASE j = Len(w) + 1
        BY <1>10, <2>2, <4>2
      <4> QED BY <1>10, <4>1, <4>2
    <3>2. work'[i] = w[i] /\ index'[w[i].agent] = index[w[i].agent] /\ index[w[i].agent] < n
      BY <1>5, <1>6, <1>10, <2>1, <3>1
    <3>3. CASE j \in DOMAIN w
      BY <1>5, <1>10, <2>1, <2>2, <3>1, <3>2, <3>3 DEF FramesRise
    <3>4. CASE j = Len(w) + 1
      BY <1>5, <1>9, <1>10, <3>2, <3>4
    <3> QED BY <1>10, <3>3, <3>4
  <2> QED BY <2>2 DEF FramesRise
<1>16. StackRises'
  <2>1. \A i \in DOMAIN stack : stack[i] \in Opened
    BY <1>6 DEF Stacked
  <2>2. ASSUME NEW i \in DOMAIN stack', NEW j \in DOMAIN stack', i < j
        PROVE  index'[stack'[i]] < index'[stack'[j]]
    <3>1. i \in DOMAIN stack
      <4>1. CASE j \in DOMAIN stack
        <5>1. ~(Len(stack) + 1 < j)
          BY <1>8, <2>2, <4>1
        <5> QED BY <1>8, <2>2, <4>1
      <4>2. CASE j = Len(stack) + 1
        BY <1>8, <2>2, <4>2
      <4> QED BY <1>8, <4>1, <4>2
    <3>2. stack'[i] = stack[i] /\ index'[stack[i]] = index[stack[i]] /\ index[stack[i]] < n
      BY <1>5, <1>6, <1>8, <2>1, <3>1
    <3>3. CASE j \in DOMAIN stack
      BY <1>2, <1>5, <1>8, <2>1, <2>2, <3>1, <3>2, <3>3 DEF StackRises
    <3>4. CASE j = Len(stack) + 1
      BY <1>5, <1>8, <3>2, <3>4
    <3> QED BY <1>8, <3>3, <3>4
  <2> QED BY <2>2 DEF StackRises
<1>17. \A b \in Opened' : Seen(b)' \subseteq Opened' /\ DepsOf(work', b) \subseteq definition'[b]
  <2>1. \A b \in Opened : b # a /\ DepsOf(work', b) \subseteq definition[b]
    BY <1>2, <1>5, <1>10
  <2>2. DepsOf(work', a) \subseteq definition[a]
    BY <1>10
  <2> QED BY <1>2, <1>5, <1>13, <2>1, <2>2
<1>18. \A b \in Closed' : definition'[b] \cap Declared' \subseteq Closed'
  BY <1>2, <1>7, <1>11
<1>19. ReachesUp'
  <2> SUFFICES ASSUME NEW g \in Walking', NEW x \in Stacked', index'[g] < index'[x]
               PROVE  x \in Reaches(g)
    BY <1>7 DEF ReachesUp
  <2>1. g # a
    <3> SUFFICES ASSUME g = a PROVE FALSE
      OBVIOUS
    <3> QED BY <1>4, <1>5, <1>6, <1>8
  <2>2. g \in Walking /\ index'[g] = index[g]
    BY <1>5, <1>6, <1>10, <2>1
  <2>3. CASE x \in Stacked
    BY <1>2, <1>5, <1>6, <2>2, <2>3 DEF ReachesUp
  <2>4. CASE x = a
    <3>1. PICK p \in Walking : a \in definition[p] /\ (g = p \/ index[g] < index[p])
      BY <2>2
    <3>2. a \in Reaches(p)
      BY <3>1, ReachesEdge
    <3>3. g = p \/ p \in Reaches(g)
      BY <1>2, <2>2, <3>1 DEF ReachesUp
    <3> QED BY <2>4, <3>2, <3>3, ReachesOn
  <2> QED BY <1>8, <2>3, <2>4
<1>20. LeadsBack'
  <2> SUFFICES ASSUME NEW x \in Stacked'
               PROVE  \E g \in Walking' : index'[g] <= index'[x] /\ (x = g \/ g \in Reaches(x))
    BY <1>7 DEF LeadsBack
  <2>1. CASE x = a
    BY <1>4, <1>5, <1>10, <2>1
  <2>2. CASE x \in Stacked
    <3>1. PICK g \in Walking : index[g] <= index[x] /\ (x = g \/ g \in Reaches(x))
      BY <1>2, <2>2 DEF LeadsBack
    <3> QED BY <1>5, <1>6, <1>10, <2>2, <3>1
  <2> QED BY <1>8, <2>1, <2>2
<1>21. LowBounds'
  <2> SUFFICES ASSUME NEW g \in Walking', NEW x \in Stacked', Heads(g, x)',
                      NEW d \in Seen(x)' \cap Stacked'
               PROVE  lowlink'[g] <= index'[d]
    BY DEF LowBounds
  <2>1. x \in Stacked /\ x \in Opened /\ x # a
    BY <1>5, <1>6, <1>8, <1>13
  <2>2. index'[g] <= index'[x]
    BY DEF Heads
  <2>3. g \in Walking /\ g \in Opened /\ g # a
    <3>1. g # a
      <4> SUFFICES ASSUME g = a PROVE FALSE
        OBVIOUS
      <4>1. index'[x] < n /\ index'[x] \in Nat
        BY <1>5, <1>6, <2>1
      <4> QED BY <1>4, <1>5, <2>2, <4>1
    <3> QED BY <1>6, <1>10, <3>1
  <2>4. Heads(g, x)
    <3>1. \A h \in Walking : h \in Walking' /\ index'[h] = index[h]
      BY <1>5, <1>6, <1>10
    <3> QED BY <1>5, <2>1, <2>3, <3>1 DEF Heads
  <2>5. CASE d = a
    <3>1. lowlink'[g] = lowlink[g] /\ lowlink[g] \in 0..index[g] /\ index[g] < n /\ index[g] \in Nat
      BY <1>5, <1>6, <2>3
    <3> QED BY <1>4, <1>5, <2>5, <3>1
  <2>6. CASE d # a
    <3>1. d \in Seen(x) \cap Stacked /\ d \in Opened
      BY <1>6, <1>8, <1>13, <2>1, <2>6
    <3> QED BY <1>2, <1>5, <2>1, <2>3, <2>4, <3>1 DEF LowBounds
  <2> QED BY <2>5, <2>6
<1>22. LowReached'
  <2> SUFFICES ASSUME NEW g \in Walking'
               PROVE  \E y \in Stacked' : index'[y] = lowlink'[g] /\ (y = g \/ y \in Reaches(g))
    BY <1>7 DEF LowReached
  <2>1. CASE g = a
    BY <1>5, <1>8, <2>1
  <2>2. CASE g \in Walking
    <3>1. PICK y \in Stacked : index[y] = lowlink[g] /\ (y = g \/ y \in Reaches(g))
      BY <1>2, <2>2 DEF LowReached
    <3> QED BY <1>5, <1>6, <1>8, <2>2, <3>1
  <2> QED BY <1>10, <2>1, <2>2
<1>23. MembersClosed' /\ PlanClosed'
  BY <1>2, <1>7, <1>11 DEF MembersClosed, PlanClosed
<1>24. Walking' \subseteq Stacked'
  BY <1>2, <1>8, <1>10
<1> QED BY <1>3, <1>14, <1>15, <1>16, <1>17, <1>18, <1>19, <1>20, <1>21, <1>22, <1>23, <1>24
        DEF WalkInv, DepsOf

LEMMA BeginSound ==
    ASSUME WalkInv, NEW a \in Agents, Begin(a)
    PROVE  WalkInv'
<1>1. /\ work = <<>> /\ a \in Declared \ Opened /\ Open(a, work)
      /\ UNCHANGED <<definition, members, plan>>
  BY DEF Begin
<1>2. work \in Seq(Frames)
  BY FrameTyping DEF WalkInv, FrameTypes
<1>3. Walking = {}
  BY <1>1 DEF Walking, AgentsOf
<1>4. FramesRise(work) /\ AgentsOf(work) = Walking
  BY DEF WalkInv, Walking
<1> QED BY <1>1, <1>2, <1>3, <1>4, OpenSound

\* The walk follows an edge to an agent that was opened.
LEMMA SeenSound ==
    ASSUME WalkInv, NEW d \in Opened, Follow(d)
    PROVE  WalkInv'
<1>1. PICK p : p = Last(work).agent
  OBVIOUS
<1>2. /\ work # <<>> /\ d \in Last(work).deps /\ lowlink' = Lowered(p, d) /\ work' = Followed(d)
      /\ UNCHANGED <<index, stack, definition, members, plan>>
  BY <1>1 DEF Follow
<1>3. /\ PlannerInv /\ Numbered /\ StackRises /\ Walking \subseteq Stacked
      /\ ReachesUp /\ LeadsBack /\ LowBounds /\ LowReached /\ MembersClosed /\ PlanClosed
      /\ \A b \in Opened : Seen(b) \subseteq Opened /\ DepsOf(work, b) \subseteq definition[b]
      /\ \A b \in Closed : definition[b] \cap Declared \subseteq Closed
      /\ FrameTypes /\ FramesRise(work)
  BY FrameTyping DEF WalkInv
<1>4. PlannerInv'
  <2>1. d \in Agents
    BY <1>3, PlannerConstantsOK DEF PlannerInv, PlannerTypeOK, Declared
  <2> QED BY <1>3, <2>1, FollowTyped
<1>5. /\ p \in Walking /\ \A g \in Walking : g = p \/ index[g] < index[p]
      /\ DepsOf(work, p) = Last(work).deps /\ Last(work) \in Frames
  BY <1>1, <1>2, <1>3, LastFrame DEF FrameTypes, Walking
<1>6. /\ AgentsOf(work') = AgentsOf(work) /\ FramesRise(work')
      /\ \A b : b # p => DepsOf(work', b) = DepsOf(work, b)
      /\ DepsOf(work', p) = DepsOf(work, p) \ {d}
  BY <1>1, <1>2, <1>3, <1>5, FollowedFrame
<1>7. Opened' = Opened /\ Stacked' = Stacked /\ Walking' = Walking /\ Closed' = Closed
  BY <1>2, <1>6 DEF Opened, Stacked, Walking, Closed
<1>8. \A b : Reaches(b)' = Reaches(b) /\ Declared' = Declared
  BY <1>2, ReachesStays
<1>9. /\ \A b \in Opened : index[b] \in Nat /\ lowlink[b] \in 0..index[b]
      /\ DOMAIN lowlink = Opened /\ Stacked \subseteq Opened /\ Walking \subseteq Opened
      /\ p \in Opened
  <2>1. /\ stack \in Seq(Opened) /\ \A b \in Opened : index[b] \in Nat /\ lowlink[b] \in 0..index[b]
        /\ DOMAIN lowlink = Opened
    BY <1>3 DEF PlannerInv, PlannerTypeOK
  <2>2. Stacked \subseteq Opened
    BY <2>1, ElementOfSeq, LenProperties DEF Stacked
  <2> QED BY <1>3, <1>5, <2>1, <2>2
<1>10. /\ Seen(p)' \subseteq Seen(p) \cup {d}
       /\ \A b : b # p => Seen(b)' = Seen(b)
  BY <1>2, <1>6, <1>8 DEF Seen
<1>11. /\ \A b \in Opened : b # p => lowlink'[b] = lowlink[b]
       /\ d \in Stacked => lowlink'[p] = Smaller(lowlink[p], index[d])
       /\ d \notin Stacked => lowlink'[p] = lowlink[p]
  BY <1>2, <1>9 DEF Lowered
<1>12. d \in Reaches(p)
  <2>1. d \in definition[p] \cap Declared
    <3>1. work \in Seq(Frames)
      BY <1>3 DEF FrameTypes
    <3>2. d \in Declared
      BY <1>2, <1>5 DEF Frames
    <3>3. d \in definition[p]
      BY <1>2, <1>3, <1>5, <1>9
    <3> QED BY <3>2, <3>3
  <2> QED BY <2>1, ReachesEdge
<1>13. ReachesUp' /\ LeadsBack' /\ MembersClosed' /\ PlanClosed'
  BY <1>2, <1>3, <1>7, <1>8 DEF ReachesUp, LeadsBack, MembersClosed, PlanClosed
<1>14. LowBounds'
  <2> SUFFICES ASSUME NEW g \in Walking, NEW x \in Stacked, Heads(g, x),
                      NEW e \in Seen(x)' \cap Stacked
               PROVE  lowlink'[g] <= index[e]
    BY <1>2, <1>7 DEF LowBounds, Heads
  <2>1. g \in Opened /\ x \in Opened /\ e \in Opened
    BY <1>9
  <2>2. lowlink'[g] <= lowlink[g]
    <3>1. CASE g = p
      BY <1>9, <1>11, <2>1, <3>1 DEF Smaller
    <3>2. CASE g # p
      BY <1>9, <1>11, <2>1, <3>2
    <3> QED BY <3>1, <3>2
  <2>3. CASE e \in Seen(x)
    <3>1. lowlink[g] <= index[e]
      BY <1>3, <2>3 DEF LowBounds
    <3>2. lowlink'[g] \in Nat
      BY <1>9, <1>11, <2>1 DEF Smaller
    <3> QED BY <1>9, <2>1, <2>2, <3>1, <3>2
  <2>4. CASE e \notin Seen(x)
    <3>1. x = p /\ e = d
      BY <1>10, <2>4
    <3>2. g = p
      <4>1. ~(index[g] < index[p])
        BY <1>5, <1>9, <3>1 DEF Heads
      <4> QED BY <1>5, <4>1
    <3>3. lowlink'[p] = Smaller(lowlink[p], index[d])
      BY <1>11, <3>1
    <3> QED BY <1>9, <2>1, <3>1, <3>2, <3>3 DEF Smaller
  <2> QED BY <2>3, <2>4
<1>15. LowReached'
  <2> SUFFICES ASSUME NEW g \in Walking
               PROVE  \E y \in Stacked : index[y] = lowlink'[g] /\ (y = g \/ y \in Reaches(g))
    BY <1>2, <1>7, <1>8 DEF LowReached
  <2>1. CASE lowlink'[g] = lowlink[g]
    BY <1>3, <2>1 DEF LowReached
  <2>2. CASE lowlink'[g] # lowlink[g]
    <3>1. g = p /\ d \in Stacked /\ lowlink'[p] = index[d]
      BY <1>9, <1>11, <2>2 DEF Smaller
    <3> QED BY <1>12, <3>1
  <2> QED BY <2>1, <2>2
<1>16. Numbered' /\ StackRises' /\ Walking' \subseteq Stacked'
  BY <1>2, <1>3, <1>7 DEF Numbered, StackRises
<1>17. FramesRise(work)'
  BY <1>2, <1>6 DEF FramesRise
<1>18. \A b \in Opened' : Seen(b)' \subseteq Opened' /\ DepsOf(work', b) \subseteq definition'[b]
  BY <1>2, <1>3, <1>6, <1>7, <1>10
<1>19. \A b \in Closed' : definition'[b] \cap Declared' \subseteq Closed'
  BY <1>2, <1>3, <1>7, <1>8
<1> QED BY <1>4, <1>13, <1>14, <1>15, <1>16, <1>17, <1>18, <1>19 DEF WalkInv, DepsOf

LEMMA FollowSound ==
    ASSUME WalkInv, NEW d \in Agents, Follow(d)
    PROVE  WalkInv'
<1>1. CASE d \in Opened
  BY <1>1, SeenSound
<1>2. CASE d \notin Opened
  <2>1. PICK p, w : p = Last(work).agent /\ w = Followed(d)
    OBVIOUS
  <2>2. /\ work # <<>> /\ d \in Last(work).deps /\ Open(d, w)
        /\ UNCHANGED <<definition, members, plan>>
    BY <1>2, <2>1 DEF Follow
  <2>3. FrameTypes /\ FramesRise(work)
    BY FrameTyping DEF WalkInv
  <2>4. /\ p \in Walking /\ \A g \in Walking : g = p \/ index[g] < index[p]
        /\ DepsOf(work, p) = Last(work).deps /\ Last(work) \in Frames
    BY <2>1, <2>2, <2>3, LastFrame DEF FrameTypes, Walking
  <2>5. /\ w \in Seq(Frames) /\ AgentsOf(w) = Walking /\ FramesRise(w)
        /\ \A b : b # p => DepsOf(w, b) = DepsOf(work, b)
        /\ DepsOf(w, p) = DepsOf(work, p) \ {d}
    BY <2>1, <2>2, <2>3, <2>4, FollowedFrame DEF Walking
  <2>6. \A b \in Opened : /\ DepsOf(work, b) \subseteq DepsOf(w, b) \cup {d}
                          /\ DepsOf(w, b) \subseteq DepsOf(work, b)
    BY <2>5
  <2>7. d \in Declared \ Opened
    BY <1>2, <2>2, <2>4 DEF Frames
  <2>8. d \in definition[p]
    <3>1. p \in Opened
      BY <2>1, <2>4 DEF Frames
    <3> QED BY <2>2, <2>4, <3>1 DEF WalkInv
  <2> QED BY <2>2, <2>4, <2>5, <2>6, <2>7, <2>8, OpenSound
<1> QED BY <1>1, <1>2

\* What is above a on the stack, a with it, is taken off.
LEMMA StackBelow ==
    ASSUME WalkInv, NEW a \in Stacked, stack' = Below(a)
    PROVE  /\ Stacked' = Stacked \ Component(a)
           /\ \A i \in DOMAIN stack' : i \in DOMAIN stack /\ stack'[i] = stack[i]
<1>1. PICK n, C : n = Len(stack) /\ C = Component(a)
  OBVIOUS
<1>2. /\ stack \in Seq(Opened) /\ StackRises
      /\ \A b \in Opened : index[b] \in Nat
  BY DEF WalkInv, PlannerInv, PlannerTypeOK
<1>3. n \in Nat /\ DOMAIN stack = 1..n /\ \A i \in 1..n : stack[i] \in Opened
  BY <1>1, <1>2, ElementOfSeq, LenProperties
<1>4. PICK k \in 1..n : stack[k] = a
  BY <1>3 DEF Stacked
<1>5. \A i \in 1..n : index[stack[i]] >= index[a] <=> k <= i
  <2> TAKE i \in 1..n
  <2>1. index[stack[i]] \in Nat /\ index[a] \in Nat
    BY <1>2, <1>3, <1>4
  <2>2. CASE i < k
    <3>1. index[stack[i]] < index[a]
      BY <1>2, <1>3, <1>4, <2>2 DEF StackRises
    <3> QED BY <1>3, <1>4, <2>1, <2>2, <3>1
  <2>3. CASE i = k
    BY <1>3, <1>4, <2>1, <2>3
  <2>4. CASE i > k
    <3>1. index[a] < index[stack[i]]
      BY <1>2, <1>3, <1>4, <2>4 DEF StackRises
    <3> QED BY <1>3, <1>4, <2>1, <2>4, <3>1
  <2> QED BY <1>3, <1>4, <2>2, <2>3, <2>4
<1>6. C = {stack[i] : i \in k..n}
  <2>1. \A b : b \in C <=> \E i \in 1..n : b = stack[i] /\ k <= i
    BY <1>1, <1>3, <1>5 DEF Component, Stacked
  <2>2. \A i : i \in k..n <=> i \in 1..n /\ k <= i
    BY <1>3, <1>4
  <2> QED BY <2>1, <2>2
<1>7. \A i, j \in 1..n : stack[i] = stack[j] => i = j
  <2> SUFFICES ASSUME NEW i \in 1..n, NEW j \in 1..n, i < j PROVE stack[i] # stack[j]
    BY <1>3
  <2>1. index[stack[i]] < index[stack[j]] /\ index[stack[i]] \in Nat
    BY <1>2, <1>3 DEF StackRises
  <2> QED BY <2>1
<1>8. Cardinality(C) = n - k + 1
  <2>1. PICK m : m = n - k + 1
    OBVIOUS
  <2>2. m \in Nat /\ \A i \in 1..m : k - 1 + i \in k..n /\ k - 1 + i \in 1..n
    BY <1>3, <1>4, <2>1
  <2>3. PICK f : f = [i \in 1..m |-> stack[k - 1 + i]]
    OBVIOUS
  <2>4. f \in [1..m -> C]
    BY <1>6, <2>2, <2>3
  <2>5. \A i, j \in 1..m : f[i] = f[j] => i = j
    <3> SUFFICES ASSUME NEW i \in 1..m, NEW j \in 1..m, f[i] = f[j] PROVE i = j
      OBVIOUS
    <3>1. k - 1 + i = k - 1 + j
      BY <1>7, <2>2, <2>3
    <3> QED BY <1>3, <1>4, <2>2, <3>1
  <2>6. \A b \in C : \E i \in 1..m : f[i] = b
    <3> TAKE b \in C
    <3>1. PICK i \in k..n : b = stack[i]
      BY <1>6
    <3>2. i - k + 1 \in 1..m /\ k - 1 + (i - k + 1) = i
      BY <1>3, <1>4, <2>1
    <3> QED BY <2>3, <3>1, <3>2
  <2>7. f \in Bijection(1..m, C)
    BY <2>4, <2>5, <2>6 DEF Bijection, Injection, Surjection, IsInjective
  <2>8. ExistsBijection(1..m, C)
    BY <2>7 DEF ExistsBijection
  <2> QED BY <2>1, <2>2, <2>8, FS_CountingElements
<1>9. stack' = SubSeq(stack, 1, k - 1)
  <2>1. n - (n - k + 1) = k - 1
    BY <1>3, <1>4
  <2> QED BY <1>1, <1>8, <2>1 DEF Below
<1>10. DOMAIN stack' = 1..(k - 1) /\ \A i \in 1..(k - 1) : stack'[i] = stack[i]
  <2>1. k - 1 \in Nat /\ \A i \in 1..(k - 1) : i \in 1..n /\ stack[i] \in Opened
    BY <1>3, <1>4
  <2>2. /\ stack' \in Seq(Opened) /\ Len(stack') = k - 1
        /\ \A i \in 1..(k - 1) : stack'[i] = stack[i]
    BY <1>9, <2>1, SubSeqProperties
  <2> QED BY <2>2, LenProperties
<1>11. \A i : i \in 1..(k - 1) <=> i \in 1..n /\ ~(k <= i)
  BY <1>3, <1>4
<1>12. Stacked' = {stack[i] : i \in 1..(k - 1)}
  BY <1>10 DEF Stacked
<1>13. \A b \in Stacked : b \in C \/ b \in Stacked'
  <2> TAKE b \in Stacked
  <2>1. PICK i \in 1..n : b = stack[i]
    BY <1>3 DEF Stacked
  <2> QED BY <1>1, <1>5, <1>11, <1>12, <2>1 DEF Component
<1>14. \A b \in Stacked' : b \in Stacked /\ b \notin C
  <2> TAKE b \in Stacked'
  <2>1. PICK i \in 1..n : b = stack[i] /\ ~(k <= i)
    BY <1>11, <1>12
  <2>2. ~(index[b] >= index[a])
    BY <1>5, <2>1
  <2> QED BY <1>1, <1>3, <2>1, <2>2 DEF Stacked, Component
<1> QED BY <1>1, <1>3, <1>10, <1>11, <1>13, <1>14

\* What leaving the frame of a keeps and what is known of it.
FrameOff(a) ==
    /\ a \in Walking /\ a \in Stacked /\ \A g \in Walking : g = a \/ index[g] < index[a]
    /\ Walking' = Walking \ {a} /\ Opened' = Opened /\ Declared' = Declared
    /\ UNCHANGED <<definition, index, plan>>
    /\ \A b : Reaches(b)' = Reaches(b) /\ Seen(b)' = Seen(b)
    /\ \A b \in Opened : b \notin Walking \ {a} => Seen(b) = definition[b] \cap Declared
    /\ \A b \in Opened : Seen(b) \subseteq Opened
    /\ \A b \in Opened : index[b] \in Nat /\ lowlink[b] \in 0..index[b]
    /\ \A b, c \in Opened : index[b] = index[c] => b = c
    /\ Stacked \subseteq Opened /\ Walking \subseteq Stacked
    /\ \A x \in Stacked : index[x] >= index[a] => Heads(a, x)

LEMMA LeavesFrame ==
    ASSUME WalkInv, LeaveAgent, NEW a, a = Last(work).agent
    PROVE  /\ FrameOff(a)
           /\ PlannerInv' /\ Numbered' /\ FramesRise(work)'
           /\ \A b \in Opened' : Seen(b)' \subseteq Opened' /\ DepsOf(work', b) \subseteq definition'[b]
<1>1. /\ work # <<>> /\ Last(work).deps = {} /\ work' = Front(work)
      /\ UNCHANGED <<definition, index, plan>>
  BY DEF LeaveAgent
<1>2. /\ PlannerInv /\ Numbered /\ Walking \subseteq Stacked
      /\ \A b \in Opened : Seen(b) \subseteq Opened /\ DepsOf(work, b) \subseteq definition[b]
      /\ FrameTypes /\ FramesRise(work)
  BY FrameTyping DEF WalkInv
<1>3. /\ a \in Walking /\ \A g \in Walking : g = a \/ index[g] < index[a]
      /\ DepsOf(work, a) = {}
  BY <1>1, <1>2, LastFrame DEF FrameTypes, Walking
<1>4. /\ Walking' = Walking \ {a} /\ FramesRise(work')
      /\ \A b : DepsOf(work', b) = DepsOf(work, b)
  <2>1. /\ FramesRise(Front(work)) /\ AgentsOf(Front(work)) = AgentsOf(work) \ {a}
        /\ \A b : b # a => DepsOf(Front(work), b) = DepsOf(work, b)
        /\ DepsOf(Front(work), a) = {}
    BY <1>1, <1>2, FrontFrames
  <2>2. \A b : DepsOf(work', b) = DepsOf(work, b)
    BY <1>1, <1>3, <2>1
  <2> QED BY <1>1, <2>1, <2>2 DEF Walking
<1>5. Opened' = Opened
  BY <1>1 DEF Opened
<1>6. Declared' = Declared /\ \A b : Reaches(b)' = Reaches(b)
  BY <1>1, ReachesStays
<1>7. \A b : Seen(b)' = Seen(b)
  BY <1>1, <1>4, <1>6 DEF Seen, DepsOf
<1>8. \A b \in Opened : b \notin Walking \ {a} => Seen(b) = definition[b] \cap Declared
  <2> SUFFICES ASSUME NEW b \in Opened, b \notin Walking \ {a} PROVE DepsOf(work, b) = {}
    BY DEF Seen
  <2>1. CASE b = a
    BY <1>3, <2>1
  <2>2. CASE b \notin Walking
    <3>1. {i \in DOMAIN work : work[i].agent = b} = {}
      BY <2>2 DEF Walking, AgentsOf
    <3> QED BY <3>1 DEF DepsOf
  <2> QED BY <2>1, <2>2
<1>9. /\ \A b \in Opened : index[b] \in Nat /\ lowlink[b] \in 0..index[b]
      /\ Stacked \subseteq Opened
  <2>1. stack \in Seq(Opened) /\ \A b \in Opened : index[b] \in Nat /\ lowlink[b] \in 0..index[b]
    BY <1>2 DEF PlannerInv, PlannerTypeOK
  <2> QED BY <2>1, ElementOfSeq, LenProperties DEF Stacked
<1>10. \A b, c \in Opened : index[b] = index[c] => b = c
  BY <1>2 DEF Numbered
<1>11. \A x \in Stacked : index[x] >= index[a] => Heads(a, x)
  <2> SUFFICES ASSUME NEW x \in Stacked, index[x] >= index[a],
                      NEW h \in Walking, index[a] < index[h]
               PROVE  FALSE
    BY <1>2, <1>3, <1>9 DEF Heads
  <2> QED BY <1>2, <1>3, <1>9
<1>12. PlannerInv'
  BY <1>2, LeaveTyped
<1>13. Numbered'
  BY <1>1, <1>2, <1>5 DEF Numbered
<1>14. FramesRise(work)'
  BY <1>1, <1>4 DEF FramesRise
<1>15. \A b \in Opened' : Seen(b)' \subseteq Opened' /\ DepsOf(work', b) \subseteq definition'[b]
  BY <1>1, <1>2, <1>4, <1>5, <1>7
<1>16. a \in Stacked
  BY <1>2, <1>3
<1>17. FrameOff(a)
  BY <1>1, <1>2, <1>3, <1>4, <1>5, <1>6, <1>7, <1>8, <1>9, <1>10, <1>11, <1>16 DEF FrameOff
<1> QED BY <1>12, <1>13, <1>14, <1>15, <1>17

\* The lowlink of a is handed to the frame below it.
LowersTo(a) ==
    \A g \in Walking \ {a} :
        /\ lowlink'[g] \in Nat /\ lowlink'[g] <= lowlink[g]
        /\ lowlink'[g] = lowlink[g] \/ (lowlink'[g] = lowlink[a] /\ lowlink[a] < lowlink[g])
        /\ (\A h \in Walking \ {a} : h = g \/ index[h] < index[g]) => lowlink'[g] <= lowlink[a]

LEMMA LowlinkHanded ==
    ASSUME WalkInv, LeaveAgent, NEW a, a = Last(work).agent, FrameOff(a)
    PROVE  LowersTo(a)
<1>1. PICK r : r = Front(work)
  OBVIOUS
<1>2. /\ work # <<>>
      /\ lowlink' = IF r = <<>> THEN lowlink
                    ELSE [lowlink EXCEPT ![Last(r).agent] = Smaller(lowlink[Last(r).agent], lowlink[a])]
  BY <1>1 DEF LeaveAgent
<1>3. FrameTypes /\ FramesRise(work) /\ DOMAIN lowlink = Opened
  BY FrameTyping DEF WalkInv, PlannerInv, PlannerTypeOK
<1>4. r \in Seq(Frames) /\ FramesRise(r) /\ AgentsOf(r) = Walking \ {a}
  BY <1>1, <1>2, <1>3, FrontFrames DEF Walking
<1>5. \A b \in Opened : index[b] \in Nat /\ lowlink[b] \in Nat
  BY DEF FrameOff
<1>6. Walking \subseteq Opened /\ a \in Opened
  BY DEF FrameOff
<1>7. CASE r = <<>>
  <2>1. Walking \ {a} = {}
    BY <1>4, <1>7 DEF AgentsOf
  <2> QED BY <2>1 DEF LowersTo
<1>8. CASE r # <<>>
  <2>1. PICK p : p = Last(r).agent
    OBVIOUS
  <2>2. p \in Walking \ {a} /\ \A g \in Walking \ {a} : g = p \/ index[g] < index[p]
    BY <1>3, <1>4, <1>8, <2>1, LastFrame
  <2>3. lowlink' = [lowlink EXCEPT ![p] = Smaller(lowlink[p], lowlink[a])]
    BY <1>2, <1>8, <2>1
  <2>4. lowlink'[p] = Smaller(lowlink[p], lowlink[a])
        /\ \A g \in Walking \ {a} : g # p => lowlink'[g] = lowlink[g]
    BY <1>3, <1>6, <2>2, <2>3
  <2> SUFFICES ASSUME NEW g \in Walking \ {a}
               PROVE  /\ lowlink'[g] \in Nat /\ lowlink'[g] <= lowlink[g]
                      /\ lowlink'[g] = lowlink[g] \/ (lowlink'[g] = lowlink[a] /\ lowlink[a] < lowlink[g])
                      /\ (\A h \in Walking \ {a} : h = g \/ index[h] < index[g]) => lowlink'[g] <= lowlink[a]
    BY DEF LowersTo
  <2>5. g \in Opened
    BY <1>6
  <2>6. CASE g = p
    BY <1>5, <1>6, <2>4, <2>5, <2>6 DEF Smaller
  <2>7. CASE g # p
    <3>1. index[g] < index[p] /\ index[g] \in Nat /\ index[p] \in Nat /\ lowlink'[g] = lowlink[g]
      BY <1>5, <1>6, <2>2, <2>4, <2>5, <2>7
    <3>2. ~\A h \in Walking \ {a} : h = g \/ index[h] < index[g]
      BY <2>2, <2>7, <3>1
    <3> QED BY <1>5, <2>5, <3>1, <3>2
  <2> QED BY <2>6, <2>7
<1> QED BY <1>7, <1>8

\* The frames that are left keep what the walk says of them.
LEMMA LeavePops ==
    ASSUME WalkInv, LeaveAgent, NEW a, a = Last(work).agent, FrameOff(a), LowersTo(a),
           lowlink[a] = index[a]
    PROVE  /\ StackRises' /\ Walking' \subseteq Stacked'
           /\ \A b \in Closed' : definition'[b] \cap Declared' \subseteq Closed'
           /\ ReachesUp' /\ LeadsBack' /\ LowBounds' /\ LowReached'
           /\ MembersClosed' /\ PlanClosed'
<1>1. PICK C : C = Component(a)
  OBVIOUS
<1>2. stack' = Below(a) /\ members' = members \cup OnCycle(C)
  BY <1>1 DEF LeaveAgent
<1>3. /\ StackRises /\ ReachesUp /\ LeadsBack /\ LowBounds /\ LowReached
      /\ MembersClosed /\ PlanClosed
      /\ \A b \in Closed : definition[b] \cap Declared \subseteq Closed
      /\ IsFiniteSet(Opened) /\ Opened \subseteq Declared
  BY DEF WalkInv, PlannerInv, PlannerTypeOK
<1>4. /\ a \in Walking /\ a \in Stacked /\ \A g \in Walking : g = a \/ index[g] < index[a]
      /\ Walking' = Walking \ {a} /\ Opened' = Opened /\ Declared' = Declared
      /\ UNCHANGED <<definition, index, plan>>
      /\ \A b : Reaches(b)' = Reaches(b) /\ Seen(b)' = Seen(b)
  BY DEF FrameOff
<1>5. /\ \A b \in Opened : b \notin Walking \ {a} => Seen(b) = definition[b] \cap Declared
      /\ \A b \in Opened : Seen(b) \subseteq Opened
      /\ \A b \in Opened : index[b] \in Nat /\ lowlink[b] \in 0..index[b]
      /\ \A b, c \in Opened : index[b] = index[c] => b = c
      /\ Stacked \subseteq Opened /\ Walking \subseteq Stacked
      /\ \A x \in Stacked : index[x] >= index[a] => Heads(a, x)
  BY DEF FrameOff
<1>6. /\ Stacked' = Stacked \ C
      /\ \A i \in DOMAIN stack' : i \in DOMAIN stack /\ stack'[i] = stack[i]
  BY <1>1, <1>2, <1>4, StackBelow
<1>7. /\ C \subseteq Stacked /\ a \in C /\ \A x \in Stacked : x \in C <=> index[x] >= index[a]
      /\ C \subseteq Opened
  BY <1>1, <1>4, <1>5 DEF Component
<1>8. Closed' = Closed \cup C /\ C \cap Closed = {}
  BY <1>4, <1>5, <1>6, <1>7 DEF Closed
<1>9. \A x \in C : x \in Walking => x = a
  <2> TAKE x \in C
  <2> HAVE x \in Walking
  <2>1. ~(index[x] < index[a])
    BY <1>4, <1>5, <1>7
  <2> QED BY <1>4, <2>1
\* The edges of the component lead into it, or to what was closed.
<1>10. \A x \in C : definition[x] \cap Declared \subseteq C \cup Closed
  <2> SUFFICES ASSUME NEW x \in C, NEW d \in definition[x] \cap Declared, d \in Stacked
               PROVE  d \in C
    <3>1. \A x \in C : \A d \in definition[x] \cap Declared : d \in Opened
      BY <1>5, <1>7, <1>9
    <3> QED BY <3>1 DEF Closed
  <2>1. Seen(x) = definition[x] \cap Declared
    BY <1>5, <1>7, <1>9
  <2>2. Heads(a, x)
    BY <1>5, <1>7
  <2>3. lowlink[a] <= index[d]
    BY <1>3, <1>4, <1>7, <2>1, <2>2 DEF LowBounds
  <2> QED BY <1>5, <1>7, <2>3
<1>11. \A x \in C : Reaches(x) \subseteq C \cup Closed
  <2> TAKE x \in C
  <2>1. C \cup Closed \in SUBSET Declared
    BY <1>3, <1>7 DEF Closed
  <2>2. \A y \in (C \cup Closed) \cup {x} : definition[y] \cap Declared \subseteq C \cup Closed
    BY <1>3, <1>10
  <2> QED BY <2>1, <2>2, ReachesWithin
\* Whatever is in the component reaches a, and is reached from it.
<1>12. \A x \in C : x # a => x \in Reaches(a) /\ a \in Reaches(x)
  <2> TAKE x \in C
  <2> HAVE x # a
  <2>1. x \in Reaches(a)
    <3>1. index[a] < index[x]
      BY <1>4, <1>5, <1>7
    <3> QED BY <1>3, <1>4, <1>7, <3>1 DEF ReachesUp
  <2>2. PICK g \in Walking : x = g \/ g \in Reaches(x)
    BY <1>3, <1>7 DEF LeadsBack
  <2>3. g \in Reaches(x)
    BY <1>9, <2>2
  <2>4. g \in C
    BY <1>5, <1>11, <2>3 DEF Closed
  <2> QED BY <1>9, <2>1, <2>3, <2>4
<1>13. OnCycle(C) = {b \in C : b \in Reaches(b)}
  <2>1. IsFiniteSet(C) /\ Cardinality(C) \in Nat
    BY <1>3, <1>7, FS_Subset, FS_CardinalityType
  <2>2. CASE Cardinality(C) > 1
    <3>1. PICK c \in C : c # a
      <4> SUFFICES ASSUME \A c \in C : c = a PROVE FALSE
        OBVIOUS
      <4>1. C = {a}
        BY <1>7
      <4> QED BY <2>2, <4>1, FS_Singleton
    <3>2. a \in Reaches(a)
      BY <1>12, <3>1, ReachesOn
    <3>3. \A b \in C : b # a => b \in Reaches(b)
      BY <1>12, ReachesOn
    <3> QED BY <2>2, <3>2, <3>3 DEF OnCycle
  <2>3. CASE ~(Cardinality(C) > 1)
    <3>1. C = {a}
      <4>1. IsFiniteSet(C \ {a}) /\ Cardinality(C \ {a}) = Cardinality(C) - 1
        BY <1>7, <2>1, FS_RemoveElement
      <4>2. Cardinality(C \ {a}) \in Nat
        BY <4>1, FS_CardinalityType
      <4>3. Cardinality(C \ {a}) = 0
        BY <2>1, <2>3, <4>1, <4>2
      <4>4. C \ {a} = {}
        BY <4>1, <4>3, FS_EmptySet
      <4> QED BY <1>7, <4>4
    <3>2. OnCycle(C) = {b \in C : b \in definition[b]}
      BY <2>3 DEF OnCycle
    <3>3. a \in definition[a] => a \in Reaches(a)
      BY <1>3, <1>7, ReachesEdge
    <3>4. a \notin definition[a] => a \notin Reaches(a)
      <4> SUFFICES ASSUME a \notin definition[a] PROVE Reaches(a) \subseteq Closed
        BY <1>7, <1>8
      <4>1. Closed \in SUBSET Declared
        BY <1>3 DEF Closed
      <4>2. \A y \in Closed \cup {a} : definition[y] \cap Declared \subseteq Closed
        BY <1>3, <1>10, <3>1
      <4> QED BY <4>1, <4>2, ReachesWithin
    <3> QED BY <3>1, <3>2, <3>3, <3>4
  <2> QED BY <2>2, <2>3
<1>14. MembersClosed' /\ PlanClosed'
  <2>1. members' = {b \in Closed' : b \in Reaches(b)}
    BY <1>2, <1>3, <1>8, <1>13 DEF MembersClosed
  <2> QED BY <1>3, <1>4, <2>1 DEF MembersClosed, PlanClosed
<1>15. \A b \in Closed' : definition'[b] \cap Declared' \subseteq Closed'
  BY <1>3, <1>4, <1>8, <1>10
<1>16. StackRises'
  BY <1>3, <1>4, <1>6 DEF StackRises
<1>17. Walking' \subseteq Stacked'
  BY <1>4, <1>5, <1>6, <1>9
<1>18. \A x \in Stacked' : x \in Stacked /\ index[x] < index[a] /\ x \in Opened
  BY <1>4, <1>5, <1>6, <1>7
<1>19. \A g \in Walking \ {a} : lowlink'[g] = lowlink[g] /\ g \in Opened /\ index[g] < index[a]
  <2> TAKE g \in Walking \ {a}
  <2>1. g \in Opened /\ index[g] < index[a] /\ a \in Opened
    BY <1>4, <1>5
  <2>2. lowlink'[g] = lowlink[g] \/ (lowlink'[g] = lowlink[a] /\ lowlink[a] < lowlink[g])
    BY DEF LowersTo
  <2> QED BY <1>5, <2>1, <2>2
<1>20. ReachesUp'
  BY <1>3, <1>4, <1>18 DEF ReachesUp
<1>21. LeadsBack'
  <2> SUFFICES ASSUME NEW x \in Stacked'
               PROVE  \E g \in Walking \ {a} : index[g] <= index[x] /\ (x = g \/ g \in Reaches(x))
    BY <1>4 DEF LeadsBack
  <2>1. PICK g \in Walking : index[g] <= index[x] /\ (x = g \/ g \in Reaches(x))
    BY <1>3, <1>18 DEF LeadsBack
  <2>2. g # a
    BY <1>4, <1>5, <1>18, <2>1
  <2> QED BY <2>1, <2>2
<1>22. LowBounds'
  <2> SUFFICES ASSUME NEW g \in Walking \ {a}, NEW x \in Stacked', Heads(g, x)',
                      NEW d \in Seen(x) \cap Stacked'
               PROVE  lowlink[g] <= index[d]
    BY <1>4, <1>19 DEF LowBounds
  <2>1. Heads(g, x)
    <3>1. index[g] <= index[x] /\ ~\E h \in Walking \ {a} : index[g] < index[h] /\ index[h] <= index[x]
      BY <1>4 DEF Heads
    <3>2. ~(index[a] <= index[x])
      BY <1>4, <1>5, <1>18
    <3> QED BY <3>1, <3>2 DEF Heads
  <2> QED BY <1>3, <1>18, <2>1 DEF LowBounds
<1>23. LowReached'
  <2> SUFFICES ASSUME NEW g \in Walking \ {a}
               PROVE  \E y \in Stacked' : index[y] = lowlink[g] /\ (y = g \/ y \in Reaches(g))
    BY <1>4, <1>19 DEF LowReached
  <2>1. PICK y \in Stacked : index[y] = lowlink[g] /\ (y = g \/ y \in Reaches(g))
    BY <1>3 DEF LowReached
  <2>2. index[y] < index[a]
    BY <1>4, <1>5, <1>19, <2>1
  <2>3. y \in Stacked'
    BY <1>4, <1>5, <1>6, <1>7, <2>2
  <2> QED BY <2>1, <2>3
<1> QED BY <1>14, <1>15, <1>16, <1>17, <1>20, <1>21, <1>22, <1>23

LEMMA LeaveKeeps ==
    ASSUME WalkInv, LeaveAgent, NEW a, a = Last(work).agent, FrameOff(a), LowersTo(a),
           lowlink[a] # index[a]
    PROVE  /\ StackRises' /\ Walking' \subseteq Stacked'
           /\ \A b \in Closed' : definition'[b] \cap Declared' \subseteq Closed'
           /\ ReachesUp' /\ LeadsBack' /\ LowBounds' /\ LowReached'
           /\ MembersClosed' /\ PlanClosed'
<1>1. UNCHANGED <<stack, members>>
  BY DEF LeaveAgent
<1>2. /\ StackRises /\ ReachesUp /\ LeadsBack /\ LowBounds /\ LowReached
      /\ MembersClosed /\ PlanClosed
      /\ \A b \in Closed : definition[b] \cap Declared \subseteq Closed
  BY DEF WalkInv
<1>3. /\ a \in Walking /\ a \in Stacked /\ \A g \in Walking : g = a \/ index[g] < index[a]
      /\ Walking' = Walking \ {a} /\ Opened' = Opened /\ Declared' = Declared
      /\ UNCHANGED <<definition, index, plan>>
      /\ \A b : Reaches(b)' = Reaches(b) /\ Seen(b)' = Seen(b)
      /\ \A b \in Opened : index[b] \in Nat /\ lowlink[b] \in 0..index[b]
      /\ \A b, c \in Opened : index[b] = index[c] => b = c
      /\ Stacked \subseteq Opened /\ Walking \subseteq Stacked
      /\ \A x \in Stacked : index[x] >= index[a] => Heads(a, x)
  BY DEF FrameOff
<1>4. Stacked' = Stacked /\ Closed' = Closed
  BY <1>1, <1>3 DEF Stacked, Closed
<1>5. /\ StackRises' /\ Walking' \subseteq Stacked' /\ ReachesUp' /\ MembersClosed' /\ PlanClosed'
      /\ \A b \in Closed' : definition'[b] \cap Declared' \subseteq Closed'
  BY <1>1, <1>2, <1>3, <1>4 DEF StackRises, ReachesUp, MembersClosed, PlanClosed
\* a reaches what was opened before it and is still walked.
<1>6. PICK y \in Stacked : index[y] = lowlink[a] /\ y \in Reaches(a) /\ index[y] < index[a]
  <2>1. PICK y \in Stacked : index[y] = lowlink[a] /\ (y = a \/ y \in Reaches(a))
    BY <1>2, <1>3 DEF LowReached
  <2> QED BY <1>3, <2>1
<1>7. PICK h \in Walking : index[h] < index[a] /\ h \in Reaches(a)
  <2>1. PICK h \in Walking : index[h] <= index[y] /\ (y = h \/ h \in Reaches(y))
    BY <1>2, <1>6 DEF LeadsBack
  <2>2. index[h] < index[a]
    BY <1>3, <1>6, <2>1
  <2> QED BY <1>6, <2>1, <2>2, ReachesOn
<1>8. h \in Walking \ {a}
  BY <1>3, <1>7
<1>9. \A g \in Walking \ {a} : g \in Opened /\ index[g] < index[a] /\ a \in Reaches(g)
  <2> TAKE g \in Walking \ {a}
  <2>1. g \in Opened /\ index[g] < index[a]
    BY <1>3
  <2> QED BY <1>2, <1>3, <2>1 DEF ReachesUp
<1>10. LeadsBack'
  <2> SUFFICES ASSUME NEW x \in Stacked
               PROVE  \E g \in Walking \ {a} : index[g] <= index[x] /\ (x = g \/ g \in Reaches(x))
    BY <1>3, <1>4 DEF LeadsBack
  <2>1. PICK g \in Walking : index[g] <= index[x] /\ (x = g \/ g \in Reaches(x))
    BY <1>2 DEF LeadsBack
  <2>2. CASE g # a
    BY <2>1, <2>2
  <2>3. CASE g = a
    <3>1. index[h] <= index[x]
      BY <1>3, <1>7, <2>1, <2>3
    <3>2. h \in Reaches(x)
      BY <1>7, <2>1, <2>3, ReachesOn
    <3> QED BY <1>8, <3>1, <3>2
  <2> QED BY <2>2, <2>3
<1>11. LowBounds'
  <2> SUFFICES ASSUME NEW g \in Walking \ {a}, NEW x \in Stacked, Heads(g, x)',
                      NEW d \in Seen(x) \cap Stacked
               PROVE  lowlink'[g] <= index[d]
    BY <1>3, <1>4 DEF LowBounds
  <2>1. index[g] <= index[x] /\ ~\E k \in Walking \ {a} : index[g] < index[k] /\ index[k] <= index[x]
    BY <1>3 DEF Heads
  <2>2. /\ lowlink'[g] \in Nat /\ lowlink'[g] <= lowlink[g]
        /\ (\A k \in Walking \ {a} : k = g \/ index[k] < index[g]) => lowlink'[g] <= lowlink[a]
    BY DEF LowersTo
  <2>3. /\ g \in Opened /\ x \in Opened /\ d \in Opened /\ a \in Opened
        /\ index[d] \in Nat /\ lowlink[g] \in Nat /\ lowlink[a] \in Nat
    BY <1>3
  <2>4. CASE Heads(g, x)
    <3>1. lowlink[g] <= index[d]
      BY <1>2, <2>4 DEF LowBounds
    <3> QED BY <2>2, <2>3, <3>1
  <2>5. CASE ~Heads(g, x)
    <3>1. index[a] <= index[x]
      BY <2>1, <2>5 DEF Heads
    <3>2. Heads(a, x)
      BY <1>3, <2>3, <3>1
    <3>3. lowlink[a] <= index[d]
      BY <1>2, <1>3, <3>2 DEF LowBounds
    <3>4. \A k \in Walking \ {a} : k = g \/ index[k] < index[g]
      <4> TAKE k \in Walking \ {a}
      <4>1. k \in Opened /\ index[k] < index[a]
        BY <1>9
      <4>2. index[k] <= index[x]
        BY <1>3, <2>3, <3>1, <4>1
      <4>3. ~(index[g] < index[k])
        BY <2>1, <4>2
      <4> QED BY <1>3, <2>3, <4>1, <4>3
    <3> QED BY <2>2, <2>3, <3>3, <3>4
  <2> QED BY <2>4, <2>5
<1>12. LowReached'
  <2> SUFFICES ASSUME NEW g \in Walking \ {a}
               PROVE  \E z \in Stacked : index[z] = lowlink'[g] /\ (z = g \/ z \in Reaches(g))
    BY <1>3, <1>4 DEF LowReached
  <2>1. lowlink'[g] = lowlink[g] \/ lowlink'[g] = lowlink[a]
    BY DEF LowersTo
  <2>2. CASE lowlink'[g] = lowlink[g]
    BY <1>2, <2>2 DEF LowReached
  <2>3. CASE lowlink'[g] = lowlink[a]
    <3>1. y \in Reaches(g)
      BY <1>6, <1>9, ReachesOn
    <3> QED BY <1>6, <2>3, <3>1
  <2> QED BY <2>1, <2>2, <2>3
<1> QED BY <1>5, <1>10, <1>11, <1>12

LEMMA LeaveSound ==
    ASSUME WalkInv, LeaveAgent
    PROVE  WalkInv'
<1>1. PICK a : a = Last(work).agent
  OBVIOUS
<1>2. /\ FrameOff(a) /\ PlannerInv' /\ Numbered' /\ FramesRise(work)'
      /\ \A b \in Opened' : Seen(b)' \subseteq Opened' /\ DepsOf(work', b) \subseteq definition'[b]
  BY <1>1, LeavesFrame
<1>3. LowersTo(a)
  BY <1>1, <1>2, LowlinkHanded
<1>4. /\ StackRises' /\ Walking' \subseteq Stacked'
      /\ \A b \in Closed' : definition'[b] \cap Declared' \subseteq Closed'
      /\ ReachesUp' /\ LeadsBack' /\ LowBounds' /\ LowReached'
      /\ MembersClosed' /\ PlanClosed'
  <2>1. CASE lowlink[a] = index[a]
    BY <1>1, <1>2, <1>3, <2>1, LeavePops
  <2>2. CASE lowlink[a] # index[a]
    BY <1>1, <1>2, <1>3, <2>2, LeaveKeeps
  <2> QED BY <2>1, <2>2
<1> QED BY <1>2, <1>4 DEF WalkInv, DepsOf

\* When the walk is over nothing stands on the stack, and all was closed.
LEMMA WalkOver ==
    ASSUME WalkInv, WalkIsOver
    PROVE  members = {a \in Declared : a \in Reaches(a)}
<1>1. Walking = {}
  BY DEF WalkIsOver, Walking, AgentsOf
<1>2. Stacked = {}
  BY <1>1 DEF WalkInv, LeadsBack
<1>3. Closed = Declared
  BY <1>2 DEF Closed, WalkIsOver, WalkInv, PlannerInv, PlannerTypeOK
<1> QED BY <1>3 DEF WalkInv, MembersClosed

\* A step that leaves the walk where it is.
LEMMA WalkStays ==
    ASSUME WalkInv, UNCHANGED <<definition, index, lowlink, stack, work, members>>,
           PlannerInv', PlanClosed'
    PROVE  WalkInv'
<1>1. /\ Opened' = Opened /\ Stacked' = Stacked /\ Walking' = Walking /\ Closed' = Closed
      /\ Declared' = Declared /\ \A a : Reaches(a)' = Reaches(a) /\ Seen(a)' = Seen(a)
  <2>1. Opened' = Opened /\ Stacked' = Stacked /\ Walking' = Walking
    BY DEF Opened, Stacked, Walking, AgentsOf
  <2>2. Declared' = Declared /\ \A a : Reaches(a)' = Reaches(a)
    BY ReachesStays
  <2>3. \A a : Seen(a)' = Seen(a)
    BY <2>2 DEF Seen, DepsOf
  <2> QED BY <2>1, <2>2, <2>3 DEF Closed
<1>2. /\ Numbered /\ FramesRise(work) /\ Walking \subseteq Stacked /\ StackRises
      /\ \A b \in Opened : Seen(b) \subseteq Opened /\ DepsOf(work, b) \subseteq definition[b]
      /\ \A b \in Closed : definition[b] \cap Declared \subseteq Closed
      /\ ReachesUp /\ LeadsBack /\ LowBounds /\ LowReached /\ MembersClosed
  BY DEF WalkInv
<1>3. Numbered' /\ FramesRise(work)' /\ StackRises'
  BY <1>1, <1>2 DEF Numbered, FramesRise, StackRises
<1>4. /\ \A b \in Opened' : Seen(b)' \subseteq Opened' /\ DepsOf(work, b)' \subseteq definition'[b]
      /\ \A b \in Closed' : definition'[b] \cap Declared' \subseteq Closed'
  BY <1>1, <1>2 DEF DepsOf
<1>5. ReachesUp' /\ LeadsBack' /\ MembersClosed'
  BY <1>1, <1>2 DEF ReachesUp, LeadsBack, MembersClosed
<1>6. LowBounds' /\ LowReached'
  BY <1>1, <1>2 DEF LowBounds, LowReached, Heads
<1> QED BY <1>1, <1>2, <1>3, <1>4, <1>5, <1>6 DEF WalkInv

LEMMA PlanSound ==
    ASSUME WalkInv, NEW request, CreatePlan(request), PlannerInv'
    PROVE  WalkInv'
<1>1. /\ WalkIsOver /\ DefinitionIsSound /\ RequestIsSound(request) /\ plan' = request
      /\ UNCHANGED <<definition, index, lowlink, stack, work, members>>
  BY DEF CreatePlan
<1>2. PlanClosed'
  <2>1. \A a \in Declared : a \notin Reaches(a)
    BY <1>1, WalkOver DEF DefinitionIsSound
  <2>2. \A a \in request : definition[a] \subseteq request /\ a \notin Reaches(a)
    BY <1>1, <2>1 DEF RequestIsSound
  <2>3. \A a : Reaches(a)' = Reaches(a)
    BY <1>1, ReachesStays
  <2> QED BY <1>1, <2>2, <2>3 DEF PlanClosed
<1> QED BY <1>1, <1>2, WalkStays

LEMMA WalkInvHolds == PlannerSpec => []WalkInv
<1>1. PlannerInit => WalkInv
  <2> SUFFICES ASSUME PlannerInit PROVE WalkInv
    OBVIOUS
  <2>1. PlannerInv
    BY FS_EmptySet DEF PlannerInit, PlannerInv, PlannerTypeOK, Opened
  <2>2. Opened = {} /\ Stacked = {} /\ Walking = {} /\ Closed = {} /\ members = {} /\ plan = {}
        /\ DOMAIN work = {} /\ DOMAIN stack = {}
    BY DEF PlannerInit, Opened, Stacked, Walking, AgentsOf, Closed
  <2> QED BY <2>1, <2>2 DEF WalkInv, Numbered, FramesRise, StackRises, ReachesUp, LeadsBack,
                            LowBounds, LowReached, MembersClosed, PlanClosed
<1>2. WalkInv /\ [PlannerNext]_plannerVars /\ PlannerInv' => WalkInv'
  <2> SUFFICES ASSUME WalkInv, [PlannerNext]_plannerVars, PlannerInv' PROVE WalkInv'
    OBVIOUS
  <2>1. CASE UNCHANGED plannerVars
    <3>1. UNCHANGED <<definition, index, lowlink, stack, work, members, plan>>
      BY <2>1 DEF plannerVars
    <3>2. PlanClosed'
      BY <3>1, ReachesStays DEF WalkInv, PlanClosed
    <3> QED BY <3>1, <3>2, WalkStays
  <2>2. ASSUME NEW request \in Requests \cup {Declared}, CreatePlan(request) PROVE WalkInv'
    BY <2>2, PlanSound
  <2> QED BY <2>1, <2>2, BeginSound, FollowSound, LeaveSound DEF PlannerNext
<1> QED BY <1>1, <1>2, PlannerInvHolds, PTL DEF PlannerSpec

\* When the walk over a pipeline is over, the agents it reports are exactly those
\* that depend on themselves, over whatever others; a plan that is handed out has
\* all that its agents depend on, and no cycle.
THEOREM CyclesAreExact == PlannerSpec => []CyclesExact
<1>1. WalkInv => CyclesExact
  BY WalkOver DEF CyclesExact, WalkInv, PlanClosed
<1> QED BY <1>1, WalkInvHolds, PTL

-----------------------------------------------------------------------------
(***************************************************************************)
(* The services together                                                   *)
(***************************************************************************)

\* What a service does in the composition it may do alone.
LEMMA EachServiceIsItself ==
    ServicesSpec => /\ Spec /\ PipelineSpec /\ JobSpec /\ PoolSpec
                    /\ GenSpec /\ PlannerSpec /\ PlanSpec
<1>1. ServicesInit => /\ Init /\ PipelineInit /\ JobInit /\ PoolInit
                      /\ GenInit /\ PlannerInit /\ PlanInit
  BY DEF ServicesInit
<1> DEFINE Steps == /\ Next \/ UNCHANGED vars
                    /\ PipelineNext \/ UNCHANGED pipelineVars
                    /\ JobNext \/ UNCHANGED jobVars
                    /\ PoolNext \/ UNCHANGED poolVars
                    /\ GenNext \/ UNCHANGED genVars
                    /\ PlannerNext \/ UNCHANGED plannerVars
                    /\ PlanNext \/ UNCHANGED planVars
<1>2. ServicesNext => Steps
  BY DEF ServicesNext
<1>3. UNCHANGED servicesVars => Steps
  BY DEF servicesVars
<1>4. Steps => /\ [Next]_vars /\ [PipelineNext]_pipelineVars /\ [JobNext]_jobVars
               /\ [PoolNext]_poolVars /\ [GenNext]_genVars
               /\ [PlannerNext]_plannerVars /\ [PlanNext]_planVars
  OBVIOUS
<1> HIDE DEF Steps
<1>5. [ServicesNext]_servicesVars
        => /\ [Next]_vars /\ [PipelineNext]_pipelineVars /\ [JobNext]_jobVars
           /\ [PoolNext]_poolVars /\ [GenNext]_genVars
           /\ [PlannerNext]_plannerVars /\ [PlanNext]_planVars
  BY <1>2, <1>3, <1>4
<1> QED BY <1>1, <1>5, PTL
        DEF ServicesSpec, Spec, PipelineSpec, JobSpec, PoolSpec, GenSpec, PlannerSpec, PlanSpec

\* Sessions, pipelines, job engine, pool, generation queue, planner and plans:
\* every variable has its type, whatever the constants of any of them.
THEOREM ServicesTypesCorrect == ServicesSpec => []ServicesTypeOK
BY EachServiceIsItself, SessionTypeCorrect, PipelineTypeCorrect, JobTypeCorrect,
   PoolTypeCorrect, GenTypeCorrect, PlannerTypeCorrect, PlanTypeCorrect, PTL
   DEF ServicesTypeOK

\* JobQueue and GenerationQueue: neither queue loses a job that its table says
\* is queued, holds one twice, or keeps one that is not queued any more.
THEOREM QueuesStayExact == ServicesSpec => []QueuesAreExact
BY EachServiceIsItself, QueueStaysExact, GenQueueStaysExact, PTL DEF QueuesAreExact
=============================================================================
