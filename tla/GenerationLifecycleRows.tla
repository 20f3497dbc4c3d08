----------------------- MODULE GenerationLifecycleRows ------------------------
(***************************************************************************)
(* Theorems: an Idempotency-Key starts one execution, whoever repeats the  *)
(* request is told that one, and the run history agrees with the records.  *)
(*                                                                         *)
(* The request row of a key is written in the transaction that starts its  *)
(* execution, and required absent there.  Rows are copied to caches and to *)
(* refreshes in flight, which may be old, so KeyInv says of every copy     *)
(* that it names executions that have started with that key.  The history  *)
(* of an execution is written with its record, but a sweep closes only the *)
(* history its cache shows, so HistoryInv says that it shows one.          *)
(***************************************************************************)
EXTENDS GenerationLifecycleClaims

-----------------------------------------------------------------------------
(***************************************************************************)
(* The inductive invariant                                                 *)
(***************************************************************************)

\* The request rows r, read at any time, name executions started with their key.
NamesStarted(r) ==
    \A k \in Keys : r[k] # None => r[k] \in started /\ KeyOf[r[k]] = k

EveryCopyNamesStarted ==
    /\ NamesStarted(db.request)
    /\ \A i \in Instances : NamesStarted(cache[i].request)
    /\ \A e \in Execs : NamesStarted(task[e].snap.request)

\* A deletion drops keys that were used on its project only.
RemovedKeysAreOwn ==
    \A i \in Instances : \A k \in proc[i].removal.keys :
        \E x \in started : KeyOf[x] = k /\ ProjectOf[x] = proc[i].removal.project

\* The row of a key stays as long as no project the key was used on is erased.
StartedIsRecorded ==
    \A e \in started : KeyUndeleted(KeyOf[e]) => db.request[KeyOf[e]] = e

\* Who was told an execution was told one that started with the key sent.
ToldStarted ==
    \A e \in Execs :
        answer[e].kind \in {"started", "replayed"} =>
            answer[e].exec \in started /\ KeyOf[answer[e].exec] = KeyOf[e]

KeyInv ==
    /\ EveryCopyNamesStarted
    /\ RemovedKeysAreOwn
    /\ StartedIsRecorded
    /\ ToldStarted
    /\ ReplayAnswersOwnRequest

-----------------------------------------------------------------------------
(***************************************************************************)
(* Where the copies of the request rows come from                          *)
(***************************************************************************)

NoRequest == NoSnap.request
SnapFrom(x) == task'[x].snap.request \in {task[x].snap.request, db.request, NoRequest}

\* What the idle records and a refresh of the claims alone hold of them.
LEMMA NoRequestOf ==
  /\ DoneTask.snap.request = NoRequest /\ NewTask.snap.request = NoRequest
  /\ \A s \in Store : ClaimsOnly(s).request = NoRequest
  /\ EmptyStore.request = NoRequest /\ \A k \in Keys : NoRequest[k] = None
BY DEF NoRequest, NoSnap, DoneTask, NewTask, ClaimsOnly, StartCollections, EmptyStore

\* A task that ends or throws holds nothing of them.
LEMMA EndedFrom ==
  ASSUME TypeOK, NEW e \in Execs, NEW i,
         task' \in {Finished(e), Settled(i, Finished(e)), Thrown(e), Settled(i, Thrown(e))}
  PROVE \A x \in Execs : SnapFrom(x)
<1>1. ASSUME NEW t \in {Finished(e), Thrown(e)}
      PROVE /\ t \in [Execs -> Task] /\ t[e].snap.request = NoRequest
            /\ \A x \in Execs \ {e} : t[x] = task[x]
  <2>1. t \in [Execs -> Task] /\ \A x \in Execs \ {e} : t[x] = task[x]
    BY FinishedType DEF Finished, Thrown, TypeOK
  <2>2. Finished(e)[e].snap = NoSnap /\ Thrown(e)[e].snap = NoSnap
    BY DEF Finished, Thrown, TypeOK, DoneTask, NewTask
  <2> QED
    BY <2>1, <2>2 DEF NoRequest
<1>2. PICK t \in {Finished(e), Thrown(e)} : task' = t \/ task' = Settled(i, t)
  OBVIOUS
<1>3. \A x \in Execs : task'[x].snap = t[x].snap
  BY <1>1, <1>2, SettledKeeps
<1> QED
  BY <1>1, <1>3 DEF SnapFrom

\* A refresh in flight has read the rows, or nothing of them.
LEMMA StartSnapFrom ==
  ASSUME TypeOK, NEW e \in Execs, StartStep(e)
  PROVE \A x \in Execs : SnapFrom(x)
<1>1. CASE StartSelect(e)
  BY <1>1 DEF StartSelect, StartCollections, TypeOK, Task, SnapFrom
<1>2. CASE StartReplay(e) \/ StartRefused(e) \/ ClaimPublish(e) \/ StartFault(e)
  <2>1. task' \in {Finished(e), Settled(Home(e), Finished(e))}
    BY <1>2 DEF StartReplay, StartRefused, ClaimPublish, StartFault
  <2> QED
    BY <2>1, EndedFrom
<1>3. CASE StartPrepare(e)
  BY <1>3 DEF StartPrepare, TypeOK, Task, SnapFrom, NoRequest
<1>4. CASE StartCommit(e)
  <2> DEFINE r == [task[e] EXCEPT !.pc = "queued", !.pend = NoProject]
  <2>1. r \in Task /\ r.snap = task[e].snap
        /\ task' = Settled(Home(e), [task EXCEPT ![e] = r])
    BY <1>4, TaskOf, PcTypes, ConstantTypes DEF StartCommit, TypeOK, Task
  <2> HIDE DEF r
  <2> QED
    BY <2>1, SettledStep DEF SnapFrom, Kept
<1>5. CASE StartConflict(e)
  <2>1. CASE ClaimTaken(e)
    <3>1. task' = [Settled(Home(e), task) EXCEPT ![e].pc = "claimSelect",
                                              ![e].behind = Queued(Home(e)) - 1,
                                              ![e].pend = NoProject]
      BY <1>5, <2>1 DEF StartConflict
    <3>2. /\ \A x \in Execs : Settled(Home(e), task)[x].snap = task[x].snap
          /\ Settled(Home(e), task) \in [Execs -> Task]
      BY SettledKeeps DEF TypeOK, Settled, Task
    <3> QED
      BY <3>1, <3>2 DEF SnapFrom, Task
  <2>2. CASE ~ClaimTaken(e)
    BY <1>5, <2>2, EndedFrom DEF StartConflict
  <2> QED
    BY <2>1, <2>2
<1>6. CASE ClaimSelect(e)
  BY <1>6, NoRequestOf DEF ClaimSelect, TypeOK, Task, SnapFrom
<1> QED
  BY <1>1, <1>2, <1>3, <1>4, <1>5, <1>6 DEF StartStep

\* A worker reads claims, and no request rows.
LEMMA WorkerSnapFrom ==
  ASSUME TypeOK, NEW e \in Execs, WorkerStep(e)
  PROVE \A x \in Execs : SnapFrom(x)
<1>1. CASE RunNext(e) \/ DagSucceeds(e) \/ DagFails(e) \/ OutcomePublish(e)
  <2>1. CASE RunNext(e) \/ OutcomePublish(e)
    <3>1. PICK pc : task' = [task EXCEPT ![e].pc = pc]
      BY <2>1 DEF RunNext, OutcomePublish, Goto
    <3> QED
      BY <3>1 DEF TypeOK, Task, SnapFrom
  <2>2. CASE DagSucceeds(e)
    <3>1. PICK o : task' = [task EXCEPT ![e].pc = "finish", ![e].outcome = o]
      BY <2>2 DEF DagSucceeds
    <3> QED
      BY <3>1 DEF TypeOK, Task, SnapFrom
  <2>3. CASE DagFails(e)
    BY <2>3 DEF DagFails, TypeOK, Task, SnapFrom
  <2> QED
    BY <1>1, <2>1, <2>2, <2>3
<1>2. CASE BridgeProject(e) \/ BridgeHist(e) \/ BridgeFault(e)
  <2>1. HistoryNext(e) \in Pc /\ "finish" \in Pc
    BY PcTypes DEF HistoryNext, BridgePc
  <2> DEFINE r1 == [task[e] EXCEPT !.pc = HistoryNext(e), !.pend = NoProject]
             r2 == [task[e] EXCEPT !.pc = "finish"]
             r3 == [task[e] EXCEPT !.pc = "finish", !.pend = NoProject]
  <2>2. \A r \in {r1, r2, r3} : r \in Task /\ r.snap = task[e].snap
    BY <2>1, TaskOf, ConstantTypes DEF Task
  <2>a. /\ [task EXCEPT ![e] = r1] = [task EXCEPT ![e].pc = HistoryNext(e), ![e].pend = NoProject]
        /\ [task EXCEPT ![e] = r2] = Goto(e, "finish")
        /\ [task EXCEPT ![e] = r3] = [task EXCEPT ![e].pc = "finish", ![e].pend = NoProject]
    BY DEF Goto, TypeOK, Task
  <2> HIDE DEF r1, r2, r3
  <2>3. \E r \in {r1, r2, r3} : task' = Settled(Home(e), [task EXCEPT ![e] = r])
    <3>1. CASE BridgeProject(e)
      BY <3>1, <2>a DEF BridgeProject
    <3>2. CASE BridgeHist(e)
      BY <3>2, <2>a DEF BridgeHist
    <3>3. CASE BridgeFault(e)
      BY <3>3, <2>a DEF BridgeFault
    <3> QED
      BY <1>2, <3>1, <3>2, <3>3
  <2>4. PICK r \in {r1, r2, r3} : task' = Settled(Home(e), [task EXCEPT ![e] = r])
    BY <2>3
  <2>5. r \in Task /\ r.snap = task[e].snap
    BY <2>2
  <2>6. /\ \A x \in Execs \ {e} : Kept(x)
        /\ task'[e].snap = r.snap
    BY <2>4, <2>5, SettledStep
  <2> QED
    BY <2>5, <2>6 DEF SnapFrom, Kept
<1>3. CASE OutcomeBegin(e)
  <2>1. CASE task' \in {Finished(e), Thrown(e)}
    BY <2>1, EndedFrom
  <2>2. CASE task' = [task EXCEPT ![e].pc = "outSelect", ![e].behind = Queued(Home(e)),
                                  ![e].pend = Released(e)]
    BY <2>2 DEF TypeOK, Task, SnapFrom
  <2> QED
    BY <1>3, <2>1, <2>2 DEF OutcomeBegin
<1>4. CASE OutcomeSelect(e)
  BY <1>4, NoRequestOf DEF OutcomeSelect, TypeOK, Task, SnapFrom
<1>5. CASE OutcomeCommit(e) \/ OutcomeFault(e)
  <2>1. task' \in {Settled(Home(e), Finished(e)), Thrown(e), Settled(Home(e), Thrown(e))}
    BY <1>5 DEF OutcomeCommit, OutcomeFault
  <2> QED
    BY <2>1, EndedFrom
<1> QED
  BY <1>1, <1>2, <1>3, <1>4, <1>5 DEF WorkerStep

\* The steps of a process read none for a task, and its end drops what was read.
LEMMA ProcSnapFrom ==
  ASSUME TypeOK, NEW i \in Instances, ProcStep(i)
  PROVE \A x \in Execs : SnapFrom(x)
<1>1. CASE task' = Settled(i, task)
  BY <1>1, SettledAll DEF Kept, SnapFrom
<1>2. CASE task' = task
  BY <1>2 DEF SnapFrom
<1>3. CASE Stop(i)
  BY <1>3, NoRequestOf DEF Stop, SnapFrom
<1>4. ASSUME NEW e \in Execs, StartRequest(i, e)
      PROVE \A x \in Execs : SnapFrom(x)
  <2>1. CASE task' = Finished(e)
    BY <2>1, EndedFrom
  <2>2. CASE task' # Finished(e)
    BY <1>4, <2>2 DEF StartRequest, TypeOK, Task, SnapFrom
  <2> QED
    BY <2>1, <2>2
<1> QED
  BY <1>1, <1>2, <1>3, <1>4
  DEF ProcStep, EditCommit, DeleteCommit, RequestFault, Boot, Drain, SweepCommit,
      SweepFault, Serve, EditRequest, DeleteRequest

\* What the batches do to the request rows.
WithKey(r, e) == [r EXCEPT ![KeyOf[e]] = e]
WithoutKeys(r, ks) == [k \in Keys |-> IF k \in ks THEN None ELSE r[k]]

\* Only the batches of a start and of a deletion touch them.
LEMMA BatchRequests ==
  ASSUME NEW s \in Store
  PROVE /\ \A e \in Execs : StartRows(s, e).request = WithKey(s.request, e)
        /\ \A e \in Execs : OutcomeRows(s, e).request = s.request
        /\ \A w : SweepRows(s, w).request = s.request
        /\ \A r : RemovalRows(s, r).request = WithoutKeys(s.request, r.keys)
BY DEF StartRows, OutcomeRows, SweepRows, RemovalRows, WithKey, WithoutKeys, Store

\* The rows of the store and the executions started change together.
StartedBy(e) ==
    /\ started' = started \cup {e} /\ db.request[KeyOf[e]] = None
    /\ db'.request = WithKey(db.request, e)
    /\ deleted' = deleted
RemovedBy(i) ==
    LET r == proc[i].removal IN
    /\ r.project # None
    /\ db'.request = WithoutKeys(db.request, r.keys)
    /\ started' = started /\ deleted' = deleted \cup {r.project}
RequestsKept == db'.request = db.request /\ started' = started /\ deleted' = deleted

\* A cache changes by a batch of its process, by a refresh, at boot or at its end.
CacheFrom(i) ==
    \/ cache'[i].request \in {cache[i].request, db.request, NoRequest}
    \/ \E e \in Execs : cache'[i].request = task[e].snap.request
    \/ \E e \in started' : cache'[i].request = WithKey(cache[i].request, e)
    \/ \E ks : cache'[i].request = WithoutKeys(cache[i].request, ks)

Copies ==
    /\ \/ RequestsKept
       \/ \E e \in Execs : StartedBy(e)
       \/ \E i \in Instances : RemovedBy(i)
    /\ \A i \in Instances : CacheFrom(i)

\* The steps of a start copy rows to a cache, or record the request.
LEMMA StartCopies ==
  ASSUME TypeOK, NEW e \in Execs, StartStep(e)
  PROVE Copies
<1> USE DEF store, ghosts
<1>1. CASE StartSelect(e) \/ ClaimSelect(e) \/ StartConflict(e)
  BY <1>1 DEF StartSelect, ClaimSelect, StartConflict, Copies, RequestsKept, CacheFrom
<1>2. CASE StartReplay(e) \/ StartPrepare(e) \/ StartRefused(e)
  <2>1. Published(e) /\ RequestsKept
    BY <1>2 DEF StartReplay, StartPrepare, StartRefused, RequestsKept
  <2>2. cache' = [cache EXCEPT ![Home(e)].project = task[e].snap.project,
                               ![Home(e)].claim = task[e].snap.claim,
                               ![Home(e)].request = task[e].snap.request]
    BY <2>1 DEF Published
  <2>3. \A i \in Instances : cache'[i].request \in {cache[i].request, task[e].snap.request}
    BY <2>2 DEF TypeOK, Store
  <2> QED
    BY <2>1, <2>3 DEF Copies, CacheFrom
<1>3. CASE ClaimPublish(e)
  BY <1>3 DEF ClaimPublish, TypeOK, Store, Copies, RequestsKept, CacheFrom
<1>4. CASE StartCommit(e)
  <2>1. StartedBy(e)
    BY <1>4, BatchRequests DEF StartCommit, StartedBy, KeyTaken, TypeOK
  <2>2. \A i \in Instances :
            \/ cache'[i] = cache[i]
            \/ cache'[i].request = WithKey(cache[i].request, e)
    <3>1. cache' = [cache EXCEPT ![Home(e)] = StartRows(cache[Home(e)], e)]
      BY <1>4 DEF StartCommit
    <3>2. \A i \in Instances : cache'[i] \in {cache[i], StartRows(cache[i], e)}
      BY <3>1 DEF TypeOK
    <3>3. \A i \in Instances : cache[i] \in Store
      BY DEF TypeOK
    <3> QED
      BY <3>2, <3>3, BatchRequests
  <2> QED
    BY <2>1, <2>2 DEF Copies, CacheFrom, StartedBy
<1>5. CASE StartFault(e)
  <2>1. RequestsKept \/ StartedBy(e)
    <3>1. \/ UNCHANGED <<db, started>>
          \/ ~KeyTaken(e) /\ db' = StartRows(db, e) /\ started' = started \cup {e}
      BY <1>5 DEF StartFault
    <3>2. deleted' = deleted /\ db \in Store
      BY <1>5 DEF StartFault, TypeOK
    <3> QED
      BY <3>1, <3>2, BatchRequests DEF StartedBy, KeyTaken, RequestsKept
  <2> QED
    BY <1>5, <2>1 DEF StartFault, Copies, CacheFrom
<1> QED
  BY <1>1, <1>2, <1>3, <1>4, <1>5 DEF StartStep

\* The steps of a worker leave the request rows alone, and those of its cache.
LEMMA WorkerCopies ==
  ASSUME TypeOK, NEW e \in Execs, WorkerStep(e)
  PROVE Copies
<1> USE DEF store, ghosts
<1>1. db'.request = db.request
  <2>1. CASE BridgeProject(e) \/ BridgeHist(e) \/ BridgeFault(e)
    BY <2>1 DEF BridgeProject, BridgeHist, BridgeFault, TypeOK, Store
  <2>2. CASE OutcomeCommit(e) \/ OutcomeFault(e)
    BY <2>2, BatchRequests DEF OutcomeCommit, OutcomeFault, TypeOK
  <2> QED
    BY <2>1, <2>2 DEF WorkerStep, RunNext, DagSucceeds, DagFails, OutcomeBegin,
                      OutcomeSelect, OutcomePublish
<1>2. started' = started /\ deleted' = deleted
  BY DEF WorkerStep, RunNext, DagSucceeds, DagFails, BridgeProject, BridgeHist,
         BridgeFault, OutcomeBegin, OutcomeSelect, OutcomePublish, OutcomeCommit,
         OutcomeFault
<1>3. \A i \in Instances : cache'[i].request = cache[i].request
  <2>1. CASE BridgeProject(e) \/ BridgeHist(e) \/ OutcomePublish(e)
    <3>1. \/ cache' = [cache EXCEPT ![Home(e)].project[ProjectOf[e]] = Pend(e)]
          \/ cache' = [cache EXCEPT ![Home(e)].hist[e] = "failed"]
          \/ cache' = [cache EXCEPT ![Home(e)].claim = task[e].snap.claim]
      BY <2>1 DEF BridgeProject, BridgeHist, OutcomePublish
    <3>2. CASE cache' = [cache EXCEPT ![Home(e)].project[ProjectOf[e]] = Pend(e)]
      BY <3>2 DEF TypeOK, Store
    <3>3. CASE cache' = [cache EXCEPT ![Home(e)].hist[e] = "failed"]
      BY <3>3 DEF TypeOK, Store
    <3>4. CASE cache' = [cache EXCEPT ![Home(e)].claim = task[e].snap.claim]
      BY <3>4 DEF TypeOK, Store
    <3> QED
      BY <3>1, <3>2, <3>3, <3>4
  <2>2. CASE OutcomeCommit(e)
    <3>1. cache' = [cache EXCEPT ![Home(e)] = OutcomeRows(cache[Home(e)], e)]
      BY <2>2 DEF OutcomeCommit
    <3>2. \A i \in Instances : cache'[i] \in {cache[i], OutcomeRows(cache[i], e)}
      BY <3>1 DEF TypeOK
    <3>3. \A i \in Instances : cache[i] \in Store
      BY DEF TypeOK
    <3> QED
      BY <3>2, <3>3, BatchRequests
  <2> QED
    BY <2>1, <2>2 DEF WorkerStep, RunNext, DagSucceeds, DagFails, OutcomeBegin,
                      OutcomeSelect, BridgeFault, OutcomeFault
<1> QED
  BY <1>1, <1>2, <1>3 DEF Copies, RequestsKept, CacheFrom

\* A process loads the rows at boot, and a deletion drops the keys of its
\* project.
LEMMA ProcCopies ==
  ASSUME TypeOK, NEW i \in Instances, ProcStep(i)
  PROVE Copies
<1> USE DEF store, ghosts
<1>1. CASE EditCommit(i)
  BY <1>1 DEF EditCommit, TypeOK, Store, Copies, RequestsKept, CacheFrom
<1>2. CASE DeleteCommit(i)
  <2>1. RemovedBy(i)
    BY <1>2, BatchRequests DEF DeleteCommit, RemovedBy, TypeOK
  <2>2. \A j \in Instances :
            \/ cache'[j] = cache[j]
            \/ cache'[j].request = WithoutKeys(cache[j].request, proc[i].removal.keys)
    <3>1. cache' = [cache EXCEPT ![i] = RemovalRows(cache[i], proc[i].removal)]
      BY <1>2 DEF DeleteCommit
    <3>2. \A j \in Instances :
              cache'[j] \in {cache[j], RemovalRows(cache[j], proc[i].removal)}
      BY <3>1 DEF TypeOK
    <3>3. \A j \in Instances : cache[j] \in Store
      BY DEF TypeOK
    <3> QED
      BY <3>2, <3>3, BatchRequests
  <2> QED
    BY <2>1, <2>2 DEF Copies, CacheFrom
<1>3. CASE RequestFault(i)
  <2>1. RequestsKept \/ RemovedBy(i)
    <3>1. CASE Turn(i, "edit") /\ proc[i].edit.project # None /\ UNCHANGED deleted
               /\ db' \in {db, [db EXCEPT !.project[proc[i].edit.project] = proc[i].edit.rec]}
      BY <1>3, <3>1 DEF RequestFault, RequestsKept, TypeOK, Store
    <3>2. CASE UNCHANGED <<db, deleted>>
      BY <1>3, <3>2 DEF RequestFault, RequestsKept
    <3>3. CASE /\ proc[i].removal.project # None
               /\ db' = RemovalRows(db, proc[i].removal)
               /\ deleted' = deleted \cup {proc[i].removal.project}
      <4>1. db \in Store /\ started' = started
        BY <1>3 DEF RequestFault, TypeOK
      <4> QED
        BY <3>3, <4>1, BatchRequests DEF RemovedBy
    <3> QED
      BY <1>3, <3>1, <3>2, <3>3 DEF RequestFault
  <2> QED
    BY <1>3, <2>1 DEF RequestFault, Copies, CacheFrom
<1>4. CASE Boot(i)
  BY <1>4 DEF Boot, TypeOK, Copies, RequestsKept, CacheFrom
<1>5. CASE SweepCommit(i)
  <2>1. db'.request = db.request /\ \A j \in Instances : cache'[j].request = cache[j].request
    <3> DEFINE Closed(x) == SweepRows(x, proc[i].sweep)
    <3>1. /\ db' \in {db, Closed(db)}
          /\ cache' = cache \/ cache' = [cache EXCEPT ![i] = Closed(cache[i])]
      BY <1>5 DEF SweepCommit
    <3>2. db \in Store /\ \A j \in Instances : cache[j] \in Store
      BY DEF TypeOK
    <3>3. \A x \in Store : Closed(x).request = x.request
      BY BatchRequests
    <3> HIDE DEF Closed
    <3>4. \A j \in Instances : cache'[j] \in {cache[j], Closed(cache[j])}
      BY <3>1 DEF TypeOK
    <3> QED
      BY <3>1, <3>2, <3>3, <3>4
  <2> QED
    BY <1>5, <2>1 DEF SweepCommit, Copies, RequestsKept, CacheFrom
<1>6. CASE SweepFault(i)
  <2>1. db'.request = db.request
    <3>1. db' = db \/ db' = SweepRows(db, proc[i].sweep)
      BY <1>6 DEF SweepFault
    <3>2. db \in Store
      BY DEF TypeOK
    <3> QED
      BY <3>1, <3>2, BatchRequests
  <2> QED
    BY <1>6, <2>1 DEF SweepFault, Copies, RequestsKept, CacheFrom
<1>7. CASE Stop(i)
  BY <1>7, NoRequestOf DEF Stop, TypeOK, Copies, RequestsKept, CacheFrom
<1>8. CASE \/ Drain(i) \/ Serve(i) \/ \E e \in Execs : StartRequest(i, e)
           \/ \E p \in Projects : EditRequest(i, p) \/ DeleteRequest(i, p)
  BY <1>8 DEF Drain, Serve, StartRequest, EditRequest, DeleteRequest, Copies,
              RequestsKept, CacheFrom
<1> QED
  BY <1>1, <1>2, <1>3, <1>4, <1>5, <1>6, <1>7, <1>8 DEF ProcStep
-----------------------------------------------------------------------------
(***************************************************************************)
(* Every step keeps KeyInv                                                 *)
(***************************************************************************)

\* Rows are copied and changed in no other way.
LEMMA StepCopies ==
  ASSUME TypeOK, [Next]_vars
  PROVE Copies /\ \A x \in Execs : SnapFrom(x)
<1>1. CASE UNCHANGED vars
  BY <1>1 DEF vars, Copies, RequestsKept, CacheFrom, SnapFrom
<1>2. ASSUME NEW e \in Execs, StartStep(e) \/ WorkerStep(e)
      PROVE Copies /\ \A x \in Execs : SnapFrom(x)
  BY <1>2, StartCopies, WorkerCopies, StartSnapFrom, WorkerSnapFrom
<1>3. ASSUME NEW i \in Instances, ProcStep(i)
      PROVE Copies /\ \A x \in Execs : SnapFrom(x)
  BY <1>3, ProcCopies, ProcSnapFrom
<1> QED
  BY <1>1, <1>2, <1>3 DEF Next

\* A copy of rows that name started executions does so as well.
LEMMA CopiesKeepNames ==
  ASSUME TypeOK, TypeOK', EveryCopyNamesStarted, Copies, \A x \in Execs : SnapFrom(x)
  PROVE EveryCopyNamesStarted' /\ started \subseteq started'
<1>1. started \subseteq started'
  BY DEF Copies, RequestsKept, StartedBy, RemovedBy
<1> DEFINE Names(r) == \A k \in Keys : r[k] # None => r[k] \in started' /\ KeyOf[r[k]] = k
<1>2. \A r : NamesStarted(r) => Names(r)
  BY <1>1 DEF NamesStarted
<1>3. /\ Names(db.request) /\ Names(NoRequest)
      /\ \A i \in Instances : Names(cache[i].request)
      /\ \A e \in Execs : Names(task[e].snap.request)
  BY <1>2, NoRequestOf DEF EveryCopyNamesStarted
<1>4. ASSUME NEW r \in [Keys -> Execs \cup {None}], Names(r), NEW e \in started'
      PROVE Names(WithKey(r, e))
  BY <1>4 DEF WithKey
<1>5. ASSUME NEW r, Names(r), NEW ks
      PROVE Names(WithoutKeys(r, ks))
  BY <1>5 DEF WithoutKeys
<1>6. /\ db.request \in [Keys -> Execs \cup {None}]
      /\ \A i \in Instances : cache[i].request \in [Keys -> Execs \cup {None}]
  BY DEF TypeOK, Store
<1> HIDE DEF Names
<1>7. Names(db'.request)
  BY <1>3, <1>4, <1>5, <1>6 DEF Copies, RequestsKept, StartedBy, RemovedBy
<1>8. \A i \in Instances : Names(cache'[i].request)
  BY <1>3, <1>4, <1>5, <1>6 DEF Copies, CacheFrom
<1>9. \A e \in Execs : Names(task'[e].snap.request)
  BY <1>3 DEF SnapFrom
<1> QED
  BY <1>1, <1>7, <1>8, <1>9 DEF EveryCopyNamesStarted, NamesStarted, Names

\* A start commits only on a key without a row, so no other execution started
\* with that key, unless a project it was used on has been erased.
LEMMA CopiesKeepRecords ==
  ASSUME TypeOK, RemovedKeysAreOwn, StartedIsRecorded, Copies
  PROVE StartedIsRecorded'
<1> SUFFICES ASSUME NEW x \in started', KeyUndeleted(KeyOf[x])'
             PROVE db'.request[KeyOf[x]] = x
  BY DEF StartedIsRecorded
<1>0. /\ started \subseteq Execs /\ db.request \in [Keys -> Execs \cup {None}]
      /\ \A e \in Execs : KeyOf[e] \in Keys
  BY ConstantsOK DEF TypeOK, Store
<1>1. deleted \subseteq deleted' /\ KeyUndeleted(KeyOf[x])
  BY DEF Copies, RequestsKept, StartedBy, RemovedBy, KeyUndeleted
<1>2. CASE RequestsKept
  BY <1>1, <1>2 DEF RequestsKept, StartedIsRecorded
<1>3. ASSUME NEW e \in Execs, StartedBy(e)
      PROVE db'.request[KeyOf[x]] = x
  <2>1. CASE x = e
    BY <1>0, <1>3, <2>1 DEF StartedBy, WithKey
  <2>2. CASE x # e
    <3>1. x \in started /\ db.request[KeyOf[x]] = x
      BY <1>1, <1>3, <2>2 DEF StartedBy, StartedIsRecorded
    <3>2. KeyOf[x] # KeyOf[e]
      BY <1>0, <1>3, <3>1, ConstantsOK DEF StartedBy
    <3> QED
      BY <1>0, <1>3, <3>1, <3>2 DEF StartedBy, WithKey
  <2> QED
    BY <2>1, <2>2
<1>4. ASSUME NEW i \in Instances, RemovedBy(i)
      PROVE db'.request[KeyOf[x]] = x
  <2>1. x \in started /\ db.request[KeyOf[x]] = x
    BY <1>1, <1>4 DEF RemovedBy, StartedIsRecorded
  <2>2. KeyOf[x] \notin proc[i].removal.keys
    BY <1>0, <1>4, <2>1 DEF RemovedBy, RemovedKeysAreOwn, KeyUndeleted
  <2> QED
    BY <1>0, <1>4, <2>1, <2>2 DEF RemovedBy, WithoutKeys
<1> QED
  BY <1>2, <1>3, <1>4 DEF Copies

\* The keys a deletion gathers are those its cache shows for its project.
LEMMA RemovedKeysStep ==
  ASSUME TypeOK, EveryCopyNamesStarted, RemovedKeysAreOwn, [Next]_vars,
         started \subseteq started'
  PROVE RemovedKeysAreOwn'
<1> SUFFICES ASSUME NEW j \in Instances, NEW k \in proc'[j].removal.keys
             PROVE \E x \in started : KeyOf[x] = k /\ ProjectOf[x] = proc'[j].removal.project
  BY DEF RemovedKeysAreOwn
<1>1. CASE proc'[j].removal \in {proc[j].removal, NoRemoval}
  BY <1>1 DEF RemovedKeysAreOwn, NoRemoval
<1>2. CASE \E p \in Projects : proc'[j].removal = RemovalOf(j, p)
  <2>1. PICK p \in Projects : proc'[j].removal = RemovalOf(j, p)
    BY <1>2
  <2>2. /\ RemovalOf(j, p).project = p
        /\ k \in Keys /\ cache[j].request[k] \in Execs
        /\ ProjectOf[cache[j].request[k]] = p
    BY <2>1 DEF RemovalOf
  <2> QED
    BY <2>1, <2>2, ConstantsOK DEF EveryCopyNamesStarted, NamesStarted
<1> QED
  BY <1>1, <1>2, RemovalChanges
\* An answer that names an execution names the one just started, or the recorded
\* one of the same request.
Answers(e) ==
    \E kind, x :
        /\ Tell(e, kind, x)
        /\ kind = "started" => x = e /\ e \in started'
        /\ kind = "replayed" => x = Recorded(e) /\ x # None /\ SameRequest(e, x)

\* What a step tells clients: of a run that started with their key, or of none.
LEMMA AnswerOf ==
  ASSUME TypeOK, [Next]_vars
  PROVE answer' = answer \/ \E e \in Execs : Answers(e)
<1>1. ASSUME NEW e \in Execs, StartStep(e)
      PROVE answer' = answer \/ Answers(e)
  <2>1. CASE StartSelect(e) \/ StartPrepare(e) \/ ClaimSelect(e)
    BY <2>1 DEF StartSelect, StartPrepare, ClaimSelect
  <2>2. CASE StartReplay(e)
    <3>1. Recorded(e) # None
      BY <2>2 DEF StartReplay
    <3>2. \/ Tell(e, "idempotency", None) \/ Tell(e, "replayError", None)
          \/ SameRequest(e, Recorded(e)) /\ Tell(e, "replayed", Recorded(e))
      BY <2>2 DEF StartReplay
    <3> QED
      BY <3>1, <3>2 DEF Answers
  <2>3. CASE StartCommit(e)
    <3>1. Tell(e, "started", e) /\ e \in started'
      BY <2>3 DEF StartCommit
    <3> QED
      BY <3>1 DEF Answers
  <2>4. CASE StartRefused(e) \/ StartConflict(e) \/ ClaimPublish(e) \/ StartFault(e)
    <3>1. \/ answer' = answer
          \/ \E kind \in {"error", "idempotency", "active"} : \E x : Tell(e, kind, x)
      BY <2>4 DEF StartRefused, StartConflict, ClaimPublish, StartFault
    <3> QED
      BY <3>1 DEF Answers
  <2> QED
    BY <1>1, <2>1, <2>2, <2>3, <2>4 DEF StartStep
<1>2. ASSUME NEW e \in Execs, WorkerStep(e)
      PROVE answer' = answer
  BY <1>2 DEF WorkerStep, RunNext, DagSucceeds, DagFails, BridgeProject, BridgeHist,
              BridgeFault, OutcomeBegin, OutcomeSelect, OutcomePublish, OutcomeCommit,
              OutcomeFault
<1>3. ASSUME NEW i \in Instances, ProcStep(i)
      PROVE answer' = answer \/ \E e \in Execs : Answers(e)
  <2>1. ASSUME NEW e \in Execs, StartRequest(i, e)
        PROVE answer' = answer \/ Answers(e)
    <3>1. answer' = answer \/ Tell(e, "error", None)
      BY <2>1 DEF StartRequest
    <3> QED
      BY <3>1 DEF Answers
  <2> QED
    BY <1>3, <2>1
    DEF ProcStep, EditCommit, DeleteCommit, RequestFault, Boot, Drain, SweepCommit,
        SweepFault, Serve, Stop, EditRequest, DeleteRequest
<1>4. CASE UNCHANGED vars
  BY <1>4 DEF vars
<1> QED
  BY <1>1, <1>2, <1>3, <1>4 DEF Next

\* Hence every answer names a started run of the request, whatever was read.
LEMMA AnswerStep ==
  ASSUME TypeOK, TypeOK', EveryCopyNamesStarted, ToldStarted, ReplayAnswersOwnRequest,
         [Next]_vars, started \subseteq started'
  PROVE ToldStarted' /\ ReplayAnswersOwnRequest'
<1>1. CASE answer' = answer
  BY <1>1 DEF ToldStarted, ReplayAnswersOwnRequest
<1>2. ASSUME NEW e \in Execs, Answers(e)
      PROVE ToldStarted' /\ ReplayAnswersOwnRequest'
  <2>1. PICK kind, x :
          /\ Tell(e, kind, x)
          /\ kind = "started" => x = e /\ e \in started'
          /\ kind = "replayed" => x = Recorded(e) /\ x # None /\ SameRequest(e, x)
    BY <1>2 DEF Answers
  <2>2. /\ answer'[e] = [kind |-> kind, exec |-> x]
        /\ \A y \in Execs \ {e} : answer'[y] = answer[y]
    BY <2>1 DEF Tell, TypeOK
  <2>3. kind = "replayed" => /\ x \in started' /\ KeyOf[x] = KeyOf[e]
                            /\ ProjectOf[x] = ProjectOf[e] /\ TagOf[x] = TagOf[e]
    BY <2>1, ConstantsOK DEF Recorded, EveryCopyNamesStarted, NamesStarted, SameRequest
  <2>4. ToldStarted'
    BY <2>1, <2>2, <2>3 DEF ToldStarted
  <2>5. ReplayAnswersOwnRequest'
    BY <2>2, <2>3 DEF ReplayAnswersOwnRequest
  <2> QED
    BY <2>4, <2>5
<1> QED
  BY <1>1, <1>2, AnswerOf

\* Every step keeps KeyInv.
LEMMA KeyInvStep ==
  ASSUME TypeOK, TypeOK', KeyInv, [Next]_vars
  PROVE KeyInv'
<1>1. Copies /\ \A x \in Execs : SnapFrom(x)
  BY StepCopies
<1>2. EveryCopyNamesStarted' /\ started \subseteq started'
  BY <1>1, CopiesKeepNames DEF KeyInv
<1>3. StartedIsRecorded'
  BY <1>1, CopiesKeepRecords DEF KeyInv
<1>4. RemovedKeysAreOwn'
  BY <1>2, RemovedKeysStep DEF KeyInv
<1>5. ToldStarted' /\ ReplayAnswersOwnRequest'
  BY <1>2, AnswerStep DEF KeyInv
<1> QED
  BY <1>2, <1>3, <1>4, <1>5 DEF KeyInv

\* KeyInv holds initially.
LEMMA KeyInvInit == Init => KeyInv
<1> SUFFICES ASSUME Init
             PROVE KeyInv
  OBVIOUS
<1>1. /\ \A k \in Keys : db.request[k] = None
      /\ \A i \in Instances, k \in Keys : cache[i].request[k] = None
      /\ \A e \in Execs, k \in Keys : task[e].snap.request[k] = None
  BY NoRequestOf DEF Init, EmptyStore, NoRequest
<1>2. started = {} /\ \A e \in Execs : answer[e].kind = "none"
  BY DEF Init, NoAnswer
<1>3. \A i \in Instances : proc[i].removal.keys = {}
  BY DEF Init, DownProc, NoRemoval
<1> QED
  BY <1>1, <1>2, <1>3 DEF KeyInv, EveryCopyNamesStarted, NamesStarted, RemovedKeysAreOwn,
                          StartedIsRecorded, ToldStarted, ReplayAnswersOwnRequest

\* KeyInv is an invariant of the specification.
LEMMA KeyInvAlways == Spec => []KeyInv
<1>1. TypeOK /\ TypeOK' /\ KeyInv /\ [Next]_vars => KeyInv'
  BY KeyInvStep
<1> QED
  BY <1>1, KeyInvInit, TypeCorrect, PTL DEF Spec

-----------------------------------------------------------------------------
(***************************************************************************)
(* How the task of an attempt moves                                        *)
(***************************************************************************)

\* The program points of a run before it has an outcome to commit.
Early == {"queued", "running"} \cup BridgePc

\* A run is early only from its start on; an attempt gets its process from a
\* request that process serves; an outcome decides from the claims it reads.
Moves(e) ==
    /\ task'[e].pc \in Early =>
           task[e].pc \in Early \/ (task[e].pc = "startWrite" /\ db'.exec[e] = "running")
    /\ task'[e].inst \in {task[e].inst, None} \/ proc[task'[e].inst].mode = "serving"
    /\ task'[e].pc \in Deciding =>
           \/ task[e].pc \in Deciding /\ task'[e].snap = task[e].snap
           \/ task'[e].snap.claim = db.claim /\ db'.claim = db.claim

\* A task that stays where it is.
LEMMA KeptMoves ==
  ASSUME NEW e \in Execs, Kept(e)
  PROVE Moves(e)
BY DEF Kept, Moves, Early, BridgePc

\* A task that ends, or leaves for a point that is neither early nor deciding.
LEMMA LeavingMoves ==
  ASSUME TypeOK, NEW e \in Execs, NEW i, NEW r \in Task,
         r.pc \notin Early \cup Deciding, r.inst \in {task[e].inst, None},
         task' \in {[task EXCEPT ![e] = r], Settled(i, [task EXCEPT ![e] = r])}
  PROVE \A x \in Execs : Moves(x)
<1>1. /\ \A x \in Execs \ {e} : Kept(x)
      /\ task'[e].pc = r.pc /\ task'[e].inst = r.inst
  <2>1. CASE task' = [task EXCEPT ![e] = r]
    BY <2>1 DEF TypeOK, Kept
  <2>2. CASE task' = Settled(i, [task EXCEPT ![e] = r])
    BY <2>2, SettledStep
  <2> QED
    BY <2>1, <2>2
<1>2. Moves(e)
  BY <1>1 DEF Moves
<1> QED
  BY <1>1, <1>2, KeptMoves

\* A task that ends or throws.
LEMMA EndedMoves ==
  ASSUME TypeOK, NEW e \in Execs, NEW i,
         task' \in {Finished(e), Settled(i, Finished(e)), Thrown(e), Settled(i, Thrown(e))}
  PROVE \A x \in Execs : Moves(x)
<1>1. DoneTask \in Task /\ DoneTask.pc = "done" /\ DoneTask.inst = None
      /\ Finished(e) = [task EXCEPT ![e] = DoneTask]
  BY ConstantTypes DEF Finished, DoneTask, NewTask
<1>2. PICK q \in Task : /\ Thrown(e) = [task EXCEPT ![e] = q]
                       /\ q.pc \in {"finish", "fatal"} /\ q.inst = task[e].inst
  BY ThrownTask
<1>3. \E r \in {DoneTask, q} :
         task' \in {[task EXCEPT ![e] = r], Settled(i, [task EXCEPT ![e] = r])}
  BY <1>1, <1>2
<1>4. \A r \in {DoneTask, q} : /\ r \in Task /\ r.pc \notin Early \cup Deciding
                              /\ r.inst \in {task[e].inst, None}
  BY <1>1, <1>2 DEF Early, BridgePc, Deciding
<1>5. PICK r \in {DoneTask, q} :
         task' \in {[task EXCEPT ![e] = r], Settled(i, [task EXCEPT ![e] = r])}
  BY <1>3
<1> QED
  BY <1>4, <1>5, LeavingMoves

\* The steps of a start: only its batch makes a run of it.
LEMMA StartMoves ==
  ASSUME TypeOK, NEW e \in Execs, StartStep(e)
  PROVE \A x \in Execs : Moves(x)
<1> USE DEF store, ghosts, Early, BridgePc, Deciding
<1>1. CASE StartSelect(e) \/ ClaimSelect(e) \/ StartPrepare(e)
  <2>1. \A x \in Execs \ {e} : Kept(x)
    BY <1>1 DEF StartSelect, ClaimSelect, StartPrepare, TypeOK, Kept
  <2>2. /\ task'[e].pc \in {"startPublish", "claimPublish", "startWrite"}
        /\ task'[e].inst = task[e].inst
    BY <1>1 DEF StartSelect, ClaimSelect, StartPrepare, TypeOK, Task
  <2> QED
    BY <2>1, <2>2, KeptMoves DEF Moves
<1>2. CASE StartReplay(e) \/ StartRefused(e) \/ ClaimPublish(e) \/ StartFault(e)
  <2>1. task' \in {Finished(e), Settled(Home(e), Finished(e))}
    BY <1>2 DEF StartReplay, StartRefused, ClaimPublish, StartFault
  <2> QED
    BY <2>1, EndedMoves
<1>3. CASE StartCommit(e)
  <2> DEFINE r == [task[e] EXCEPT !.pc = "queued", !.pend = NoProject]
  <2>1. /\ r \in Task /\ r.inst = task[e].inst /\ r.pc = "queued"
        /\ task' = Settled(Home(e), [task EXCEPT ![e] = r])
    BY <1>3, TaskOf, PcTypes, ConstantTypes DEF StartCommit, TypeOK, Task
  <2> HIDE DEF r
  <2>2. /\ \A x \in Execs \ {e} : Kept(x)
        /\ task'[e].pc = "queued" /\ task'[e].inst = task[e].inst
    BY <2>1, SettledStep
  <2>3. db' = StartRows(db, e) /\ task[e].pc = "startWrite"
    BY <1>3 DEF StartCommit, WriteAt, At
  <2>4. db'.exec[e] = "running"
    BY <2>3 DEF StartRows, TypeOK, Store
  <2> QED
    BY <2>2, <2>3, <2>4, KeptMoves DEF Moves
<1>4. CASE StartConflict(e)
  <2>1. CASE ClaimTaken(e)
    <3>1. task' = [Settled(Home(e), task) EXCEPT ![e].pc = "claimSelect",
                                              ![e].behind = Queued(Home(e)) - 1,
                                              ![e].pend = NoProject]
      BY <1>4, <2>1 DEF StartConflict
    <3>2. /\ \A x \in Execs : /\ Settled(Home(e), task)[x].pc = task[x].pc
                              /\ Settled(Home(e), task)[x].inst = task[x].inst
                              /\ Settled(Home(e), task)[x].snap = task[x].snap
          /\ Settled(Home(e), task) \in [Execs -> Task]
      BY SettledKeeps DEF TypeOK, Settled, Task
    <3>3. /\ \A x \in Execs \ {e} : Kept(x)
          /\ task'[e].pc = "claimSelect" /\ task'[e].inst = task[e].inst
      BY <3>1, <3>2 DEF Kept, Task
    <3> QED
      BY <3>3, KeptMoves DEF Moves
  <2>2. CASE ~ClaimTaken(e)
    BY <1>4, <2>2, EndedMoves DEF StartConflict
  <2> QED
    BY <2>1, <2>2
<1> QED
  BY <1>1, <1>2, <1>3, <1>4 DEF StartStep

\* The steps of a worker: no run is early again once it has an outcome.
LEMMA WorkerMoves ==
  ASSUME TypeOK, NEW e \in Execs, WorkerStep(e)
  PROVE \A x \in Execs : Moves(x)
<1> USE DEF store, ghosts, Early, BridgePc, Deciding
<1>1. CASE RunNext(e) \/ OutcomePublish(e)
  <2>1. PICK pc : /\ task' = [task EXCEPT ![e].pc = pc]
                  /\ \/ pc = "running" /\ task[e].pc = "queued"
                     \/ pc = "outWrite" /\ task[e].pc = "outPublish"
    BY <1>1 DEF RunNext, OutcomePublish, Goto, At
  <2>2. /\ \A x \in Execs \ {e} : Kept(x)
        /\ task'[e].pc = pc /\ task'[e].inst = task[e].inst /\ task'[e].snap = task[e].snap
    BY <2>1 DEF TypeOK, Task, Kept
  <2> QED
    BY <2>1, <2>2, KeptMoves DEF Moves
<1>2. CASE DagSucceeds(e)
  <2>1. PICK o : task' = [task EXCEPT ![e].pc = "finish", ![e].outcome = o]
    BY <1>2 DEF DagSucceeds
  <2>2. /\ \A x \in Execs \ {e} : Kept(x)
        /\ task'[e].pc = "finish" /\ task'[e].inst = task[e].inst
    BY <2>1 DEF TypeOK, Task, Kept
  <2> QED
    BY <2>2, KeptMoves DEF Moves
<1>3. CASE DagFails(e)
  <2>0. HistoryNext(e) \in {"bridgeHist", "finish"} /\ task[e].pc = "running"
    BY <1>3 DEF HistoryNext, DagFails, At
  <2>1. /\ \A x \in Execs \ {e} : Kept(x)
        /\ task'[e].pc \in {"bridgeProject", "bridgeHist", "finish"}
        /\ task'[e].inst = task[e].inst
    BY <1>3, <2>0 DEF DagFails, Kept, TypeOK, Task
  <2> QED
    BY <2>0, <2>1, KeptMoves DEF Moves
<1>4. CASE BridgeProject(e) \/ BridgeHist(e) \/ BridgeFault(e)
  <2>1. /\ HistoryNext(e) \in {"bridgeHist", "finish"}
        /\ HistoryNext(e) \in Pc /\ "finish" \in Pc
    BY PcTypes DEF HistoryNext
  <2> DEFINE r1 == [task[e] EXCEPT !.pc = HistoryNext(e), !.pend = NoProject]
             r2 == [task[e] EXCEPT !.pc = "finish"]
             r3 == [task[e] EXCEPT !.pc = "finish", !.pend = NoProject]
  <2>2. \A r \in {r1, r2, r3} : /\ r \in Task /\ r.pc \in {"bridgeHist", "finish"}
                               /\ r.inst = task[e].inst
    BY <2>1, TaskOf, ConstantTypes DEF Task
  <2>3. /\ [task EXCEPT ![e] = r1] = [task EXCEPT ![e].pc = HistoryNext(e), ![e].pend = NoProject]
        /\ [task EXCEPT ![e] = r2] = Goto(e, "finish")
        /\ [task EXCEPT ![e] = r3] = [task EXCEPT ![e].pc = "finish", ![e].pend = NoProject]
    BY DEF Goto, TypeOK, Task
  <2> HIDE DEF r1, r2, r3
  <2>4. PICK r \in {r1, r2, r3} : task' = Settled(Home(e), [task EXCEPT ![e] = r])
    <3>1. CASE BridgeProject(e)
      BY <2>3, <3>1 DEF BridgeProject
    <3>2. CASE BridgeHist(e)
      BY <2>3, <3>2 DEF BridgeHist
    <3>3. CASE BridgeFault(e)
      BY <2>3, <3>3 DEF BridgeFault
    <3> QED
      BY <1>4, <3>1, <3>2, <3>3
  <2>5. r \in Task /\ r.pc \in {"bridgeHist", "finish"} /\ r.inst = task[e].inst
    BY <2>2
  <2>6. /\ \A x \in Execs \ {e} : Kept(x)
        /\ task'[e].pc = r.pc /\ task'[e].inst = r.inst
    BY <2>4, <2>5, SettledStep
  <2>7. task[e].pc \in Early
    BY <1>4 DEF BridgeProject, BridgeHist, BridgeFault, WriteAt, At
  <2> QED
    BY <2>5, <2>6, <2>7, KeptMoves DEF Moves
<1>5. CASE OutcomeBegin(e)
  <2>1. CASE task' \in {Finished(e), Thrown(e)}
    BY <2>1, EndedMoves
  <2>2. CASE task' = [task EXCEPT ![e].pc = "outSelect", ![e].behind = Queued(Home(e)),
                                  ![e].pend = Released(e)]
    <3>1. /\ \A x \in Execs \ {e} : Kept(x)
          /\ task'[e].pc = "outSelect" /\ task'[e].inst = task[e].inst
      BY <2>2 DEF TypeOK, Task, Kept
    <3> QED
      BY <3>1, KeptMoves DEF Moves
  <2> QED
    BY <1>5, <2>1, <2>2 DEF OutcomeBegin
<1>6. CASE OutcomeSelect(e)
  <2>1. /\ task' = [task EXCEPT ![e].pc = "outPublish", ![e].snap = ClaimsOnly(db)]
        /\ db' = db
    BY <1>6 DEF OutcomeSelect
  <2>2. /\ \A x \in Execs \ {e} : Kept(x)
        /\ task'[e].pc = "outPublish" /\ task'[e].inst = task[e].inst
        /\ task'[e].snap = ClaimsOnly(db)
    BY <2>1 DEF TypeOK, Task, Kept
  <2>3. ClaimsOnly(db).claim = db.claim
    BY DEF ClaimsOnly, StartCollections, EmptyStore
  <2> QED
    BY <2>1, <2>2, <2>3, KeptMoves DEF Moves
<1>7. CASE OutcomeCommit(e) \/ OutcomeFault(e)
  <2>1. task' \in {Settled(Home(e), Finished(e)), Thrown(e), Settled(Home(e), Thrown(e))}
    BY <1>7 DEF OutcomeCommit, OutcomeFault
  <2> QED
    BY <2>1, EndedMoves
<1> QED
  BY <1>1, <1>2, <1>3, <1>4, <1>5, <1>6, <1>7 DEF WorkerStep

\* The steps of a process: a request gets that process, the end of it ends its
\* tasks.
LEMMA ProcMoves ==
  ASSUME TypeOK, NEW i \in Instances, ProcStep(i)
  PROVE \A x \in Execs : Moves(x)
<1> USE DEF Early, BridgePc, Deciding
<1>1. CASE task' = Settled(i, task)
  BY <1>1, SettledAll, KeptMoves
<1>2. CASE task' = task
  BY <1>2, KeptMoves DEF Kept
<1>3. CASE Stop(i)
  <2>1. \A x \in Execs : task'[x] = task[x] \/ (task'[x].pc = "done" /\ task'[x].inst = None)
    BY <1>3 DEF Stop, DoneTask, NewTask
  <2> QED
    BY <2>1 DEF Moves
<1>4. ASSUME NEW e \in Execs, StartRequest(i, e)
      PROVE \A x \in Execs : Moves(x)
  <2>1. CASE task' = Finished(e)
    BY <2>1, EndedMoves
  <2>2. CASE task' # Finished(e)
    <3>1. /\ \A x \in Execs \ {e} : Kept(x)
          /\ task'[e].pc = "startSelect" /\ task'[e].inst = i
      BY <1>4, <2>2 DEF StartRequest, TypeOK, Task, Kept
    <3>2. proc[i].mode = "serving"
      BY <1>4 DEF StartRequest
    <3> QED
      BY <3>1, <3>2, KeptMoves DEF Moves
  <2> QED
    BY <2>1, <2>2
<1> QED
  BY <1>1, <1>2, <1>3, <1>4
  DEF ProcStep, EditCommit, DeleteCommit, RequestFault, Boot, Drain, SweepCommit,
      SweepFault, Serve, EditRequest, DeleteRequest

\* Every step moves the tasks in these ways.
LEMMA StepMoves ==
  ASSUME TypeOK, [Next]_vars
  PROVE \A x \in Execs : Moves(x)
<1>1. CASE UNCHANGED vars
  BY <1>1, KeptMoves DEF vars, Kept
<1>2. ASSUME NEW e \in Execs, StartStep(e) \/ WorkerStep(e)
      PROVE \A x \in Execs : Moves(x)
  BY <1>2, StartMoves, WorkerMoves
<1>3. ASSUME NEW i \in Instances, ProcStep(i)
      PROVE \A x \in Execs : Moves(x)
  BY <1>3, ProcMoves
<1> QED
  BY <1>1, <1>2, <1>3 DEF Next

-----------------------------------------------------------------------------
(***************************************************************************)
(* The run history: where the cached rows and the lists of sweeps come     *)
(* from                                                                    *)
(***************************************************************************)

Undeleted(e) == ProjectOf[e] \notin deleted

\* The rows s show a history of every execution they show.
Told(s) == \A e \in Execs : Undeleted(e) /\ s.exec[e] # "absent" => s.hist[e] # "absent"

\* Only a sweep closes a run before its worker has an outcome.
EarlyIsRunningOrFailed ==
    \A e \in Execs :
        task[e].pc \in Early /\ Undeleted(e) => db.exec[e] \in {"running", "failed"}

\* Whatever a sweep has yet to close has its history closed with it.
ListedHasHistory ==
    \A i \in Instances, e \in Execs : Undeleted(e) =>
        /\ e \in proc[i].stranded => cache[i].hist[e] # "absent"
        /\ proc[i].sweep.exec = e => proc[i].sweep.hist

HistoryInv ==
    /\ EarlyIsRunningOrFailed
    /\ \A i \in Instances : Told(cache[i])
    /\ ListedHasHistory
    /\ HistoryAgrees

\* The rows t hold what the rows s did, but for what has been erased: they lose
\* no history, and show no execution without one that s did not show.
Shows(s, t) ==
    \A e \in Execs : Undeleted(e)' =>
        /\ s.hist[e] # "absent" => t.hist[e] # "absent"
        /\ t.exec[e] # "absent" => s.exec[e] # "absent" \/ t.hist[e] # "absent"
CacheShows(i) == Shows(cache[i], cache'[i])

\* Rows that keep their executions and histories.
LEMMA ShowsItself ==
  ASSUME NEW s, NEW t, t.exec = s.exec, t.hist = s.hist
  PROVE Shows(s, t)
BY DEF Shows

\* The batches write a history with every execution, except that of a sweep,
\* which knows of one.
LEMMA BatchShows ==
  ASSUME NEW s \in Store
  PROVE /\ \A e \in Execs : Shows(s, StartRows(s, e)) /\ Shows(s, OutcomeRows(s, e))
        /\ \A w \in Sweep : (w.exec \in Execs /\ (ProjectOf[w.exec] \notin deleted' => w.hist))
                                => Shows(s, SweepRows(s, w))
        /\ \A r : (\A e \in Execs : Undeleted(e)' => e \notin r.execs \cup r.hists)
                     => Shows(s, RemovalRows(s, r))
<1>1. \A e \in Execs : Shows(s, StartRows(s, e)) /\ Shows(s, OutcomeRows(s, e))
  BY DEF Shows, StartRows, OutcomeRows, Store, RunOutcome
<1>2. ASSUME NEW w \in Sweep, w.exec \in Execs, ProjectOf[w.exec] \notin deleted' => w.hist
      PROVE Shows(s, SweepRows(s, w))
  <2>1. /\ SweepRows(s, w).exec = [s.exec EXCEPT ![w.exec] = "failed"]
        /\ SweepRows(s, w).hist = [s.hist EXCEPT ![w.exec] = IF w.hist THEN "failed" ELSE @]
    BY DEF SweepRows, Store
  <2>2. s.exec \in [Execs -> RunStatus] /\ s.hist \in [Execs -> RunStatus]
    BY DEF Store
  <2> QED
    BY <1>2, <2>1, <2>2 DEF Shows, Undeleted
<1>3. ASSUME NEW r, \A e \in Execs : Undeleted(e)' => e \notin r.execs \cup r.hists
      PROVE Shows(s, RemovalRows(s, r))
  BY <1>3 DEF Shows, RemovalRows
<1> QED
  BY <1>1, <1>2, <1>3

\* A cache goes on showing what it does, or is loaded at boot, or lost.
CacheStep(i) == CacheShows(i) \/ cache'[i] = db \/ cache'[i] = EmptyStore

\* The steps of a process that neither boots nor ends.
GoesOn(i) ==
    \/ EditCommit(i) \/ DeleteCommit(i) \/ RequestFault(i)
    \/ Drain(i) \/ SweepCommit(i) \/ SweepFault(i) \/ Serve(i)
    \/ \E e \in Execs : StartRequest(i, e)
    \/ \E p \in Projects : EditRequest(i, p) \/ DeleteRequest(i, p)

\* What a start writes or publishes hides nothing.
LEMMA StartCacheStep ==
  ASSUME TypeOK, NEW e \in Execs, StartStep(e)
  PROVE \A i \in Instances : CacheShows(i)
<1> USE DEF store, ghosts
<1>0. \A i \in Instances : cache[i] \in Store
  BY DEF TypeOK
<1>1. CASE cache' = cache
  BY <1>1, ShowsItself DEF CacheShows
<1>2. CASE StartReplay(e) \/ StartPrepare(e) \/ StartRefused(e)
  <2>1. cache' = [cache EXCEPT ![Home(e)].project = task[e].snap.project,
                               ![Home(e)].claim = task[e].snap.claim,
                               ![Home(e)].request = task[e].snap.request]
    BY <1>2 DEF StartReplay, StartPrepare, StartRefused, Published
  <2>2. \A i \in Instances : cache'[i].exec = cache[i].exec /\ cache'[i].hist = cache[i].hist
    BY <2>1 DEF TypeOK, Store
  <2> QED
    BY <2>2, ShowsItself DEF CacheShows
<1>3. CASE ClaimPublish(e)
  <2>1. cache' = [cache EXCEPT ![Home(e)].claim = task[e].snap.claim]
    BY <1>3 DEF ClaimPublish
  <2>2. \A i \in Instances : cache'[i].exec = cache[i].exec /\ cache'[i].hist = cache[i].hist
    BY <2>1 DEF TypeOK, Store
  <2> QED
    BY <2>2, ShowsItself DEF CacheShows
<1>4. CASE StartCommit(e)
  <2>1. cache' = [cache EXCEPT ![Home(e)] = StartRows(cache[Home(e)], e)]
    BY <1>4 DEF StartCommit
  <2>2. \A i \in Instances : cache'[i] \in {cache[i], StartRows(cache[i], e)}
    BY <2>1 DEF TypeOK
  <2> QED
    BY <1>0, <2>2, BatchShows, ShowsItself DEF CacheShows
<1> QED
  BY <1>1, <1>2, <1>3, <1>4
  DEF StartStep, StartSelect, StartConflict, ClaimSelect, StartFault

\* Nor does what a worker writes or publishes.
LEMMA WorkerCacheStep ==
  ASSUME TypeOK, NEW e \in Execs, WorkerStep(e)
  PROVE \A i \in Instances : CacheShows(i)
<1> USE DEF store, ghosts
<1>0. \A i \in Instances : cache[i] \in Store
  BY DEF TypeOK
<1>1. CASE cache' = cache
  BY <1>1, ShowsItself DEF CacheShows
<1>2. CASE BridgeProject(e)
  <2>1. cache' = [cache EXCEPT ![Home(e)].project[ProjectOf[e]] = Pend(e)]
    BY <1>2 DEF BridgeProject
  <2>2. \A i \in Instances : cache'[i].exec = cache[i].exec /\ cache'[i].hist = cache[i].hist
    BY <2>1 DEF TypeOK, Store
  <2> QED
    BY <2>2, ShowsItself DEF CacheShows
<1>3. CASE OutcomePublish(e)
  <2>1. cache' = [cache EXCEPT ![Home(e)].claim = task[e].snap.claim]
    BY <1>3 DEF OutcomePublish
  <2>2. \A i \in Instances : cache'[i].exec = cache[i].exec /\ cache'[i].hist = cache[i].hist
    BY <2>1 DEF TypeOK, Store
  <2> QED
    BY <2>2, ShowsItself DEF CacheShows
<1>4. CASE BridgeHist(e)
  <2>1. cache' = [cache EXCEPT ![Home(e)].hist[e] = "failed"]
    BY <1>4 DEF BridgeHist
  <2>2. \A i \in Instances :
            /\ cache'[i].exec = cache[i].exec
            /\ cache'[i].hist \in {cache[i].hist, [cache[i].hist EXCEPT ![e] = "failed"]}
    BY <2>1 DEF TypeOK, Store
  <2>3. \A i \in Instances : cache[i].hist \in [Execs -> RunStatus]
    BY <1>0 DEF Store
  <2> QED
    BY <2>2, <2>3 DEF CacheShows, Shows
<1>5. CASE OutcomeCommit(e)
  <2>1. cache' = [cache EXCEPT ![Home(e)] = OutcomeRows(cache[Home(e)], e)]
    BY <1>5 DEF OutcomeCommit
  <2>2. \A i \in Instances : cache'[i] \in {cache[i], OutcomeRows(cache[i], e)}
    BY <2>1 DEF TypeOK
  <2> QED
    BY <1>0, <2>2, BatchShows, ShowsItself DEF CacheShows
<1> QED
  BY <1>1, <1>2, <1>3, <1>4, <1>5
  DEF WorkerStep, RunNext, DagSucceeds, DagFails, OutcomeBegin, OutcomeSelect,
      BridgeFault, OutcomeFault

\* Nor do the steps of a process, short of a boot and an end.
LEMMA ProcCacheStep ==
  ASSUME TypeOK, RemovalIsOwn, ListedHasHistory, NEW i \in Instances, GoesOn(i)
  PROVE \A j \in Instances : CacheShows(j)
<1> USE DEF store, ghosts
<1>0. \A j \in Instances : cache[j] \in Store
  BY DEF TypeOK
<1>1. CASE cache' = cache
  BY <1>1, ShowsItself DEF CacheShows
<1>2. CASE EditCommit(i)
  <2>1. cache' = [cache EXCEPT ![i].project[proc[i].edit.project] = proc[i].edit.rec]
    BY <1>2 DEF EditCommit
  <2>2. \A j \in Instances : cache'[j].exec = cache[j].exec /\ cache'[j].hist = cache[j].hist
    BY <2>1 DEF TypeOK, Store
  <2> QED
    BY <2>2, ShowsItself DEF CacheShows
<1>3. CASE DeleteCommit(i)
  <2>1. /\ cache' = [cache EXCEPT ![i] = RemovalRows(cache[i], proc[i].removal)]
        /\ deleted' = deleted \cup {proc[i].removal.project}
    BY <1>3 DEF DeleteCommit
  <2>2. \A j \in Instances : cache'[j] \in {cache[j], RemovalRows(cache[j], proc[i].removal)}
    BY <2>1 DEF TypeOK
  <2>3. \A e \in Execs : Undeleted(e)' => e \notin proc[i].removal.execs \cup proc[i].removal.hists
    BY <2>1 DEF RemovalIsOwn, Undeleted
  <2>4. \A j \in Instances : Shows(cache[j], RemovalRows(cache[j], proc[i].removal))
    BY <1>0, <2>3, BatchShows
  <2> QED
    BY <2>2, <2>4, ShowsItself DEF CacheShows
<1>4. CASE SweepCommit(i)
  <2> DEFINE w == proc[i].sweep
  <2>1. \/ cache' = cache
        \/ cache' = [cache EXCEPT ![i] = SweepRows(cache[i], w)]
    BY <1>4 DEF SweepCommit
  <2>2. w \in Sweep /\ w.exec \in Execs /\ deleted' = deleted
    BY <1>4 DEF SweepCommit, TypeOK, Proc, Sweep
  <2>3. ProjectOf[w.exec] \notin deleted' => w.hist
    BY <2>2 DEF ListedHasHistory, Undeleted
  <2>4. \A j \in Instances : Shows(cache[j], SweepRows(cache[j], w))
    BY <1>0, <2>2, <2>3, BatchShows
  <2> HIDE DEF w
  <2>5. \A j \in Instances : cache'[j] \in {cache[j], SweepRows(cache[j], w)}
    BY <2>1 DEF TypeOK
  <2> QED
    BY <2>4, <2>5, ShowsItself DEF CacheShows
<1> QED
  BY <1>1, <1>2, <1>3, <1>4
  DEF GoesOn, RequestFault, Drain, SweepFault, Serve, StartRequest, EditRequest,
      DeleteRequest

\* What a sweep has yet to close it had already, or finds running in the cache of
\* its process; the batch of one is prepared from that cache.
ListFrom(i) ==
    \A e \in Execs :
        LET known == \/ e \in proc[i].stranded /\ CacheShows(i)
                     \/ cache'[i].exec[e] = "running"
        IN
        /\ e \in proc'[i].stranded => known
        /\ proc'[i].sweep.exec = e =>
               \/ proc'[i].sweep = proc[i].sweep
               \/ known /\ proc'[i].sweep.hist = (cache'[i].hist[e] # "absent")

\* A process that goes on with the same sweep.
LEMMA SameList ==
  ASSUME NEW i \in Instances, CacheShows(i),
         proc'[i].stranded = proc[i].stranded, proc'[i].sweep = proc[i].sweep
  PROVE ListFrom(i)
BY DEF ListFrom

\* A process whose sweep is over or lost.
LEMMA EmptyList ==
  ASSUME NEW i \in Instances, proc'[i].stranded = {}, proc'[i].sweep = NoSweep
  PROVE ListFrom(i)
<1>1. proc'[i].sweep.exec \notin Execs
  BY ConstantsOK DEF NoSweep
<1> QED
  BY <1>1 DEF ListFrom

\* A process that prepares the next batch of a sweep.
LEMMA NewList ==
  ASSUME TypeOK, NEW i \in Instances, NEW r \in Proc, NEW listed \in SUBSET Execs,
         cache'[i] \in Store, SweepsOn(i, r, listed, cache'[i]),
         \A e \in listed : \/ e \in proc[i].stranded /\ CacheShows(i)
                           \/ cache'[i].exec[e] = "running"
  PROVE /\ ListFrom(i)
        /\ \A j \in Instances \ {i} : proc'[j] = proc[j]
<1> DEFINE c == cache'[i]
<1>1. /\ proc'[i].stranded \subseteq listed
      /\ proc'[i].sweep.exec \in listed \cup {None}
      /\ proc'[i].sweep \in {NoSweep} \cup {SweepOf(c, e) : e \in listed}
      /\ \A j \in Instances \ {i} : proc'[j] = proc[j]
  BY SweepsOnType
<1>2. \A e : SweepOf(c, e).exec = e /\ SweepOf(c, e).hist = (c.hist[e] # "absent")
  BY DEF SweepOf
<1>3. NoSweep.exec \notin Execs
  BY ConstantsOK DEF NoSweep
<1> QED
  BY <1>1, <1>2, <1>3 DEF ListFrom

\* Caches and sweeps change in no other way.
LEMMA ListSteps ==
  ASSUME TypeOK, TypeOK', RemovalIsOwn, ListedHasHistory, [Next]_vars
  PROVE \A i \in Instances : CacheStep(i) /\ ListFrom(i)
<1> USE DEF store, ghosts
<1>0. ASSUME \A j \in Instances : CacheShows(j), NEW i \in Instances,
             \A j \in Instances \ {i} : proc'[j] = proc[j], ListFrom(i)
      PROVE \A j \in Instances : CacheStep(j) /\ ListFrom(j)
  BY <1>0, SameList DEF CacheStep
<1>1. CASE UNCHANGED vars
  BY <1>1, SameList, ShowsItself DEF vars, CacheStep, CacheShows
<1>2. ASSUME NEW e \in Execs, StartStep(e) \/ WorkerStep(e)
      PROVE \A i \in Instances : CacheStep(i) /\ ListFrom(i)
  <2>1. \A i \in Instances : CacheShows(i)
    BY <1>2, StartCacheStep, WorkerCacheStep
  <2>2. \A i \in Instances : /\ proc'[i].stranded = proc[i].stranded
                             /\ proc'[i].sweep = proc[i].sweep
    <3>1. \/ proc' = proc
          \/ \E q : proc' = [proc EXCEPT ![Home(e)].tail = q]
      <4>1. CASE StartStep(e)
        BY <4>1 DEF StartStep, StartSelect, StartReplay, StartPrepare, StartRefused,
                    StartCommit, StartConflict, ClaimSelect, ClaimPublish, StartFault,
                    Enqueue, Dequeue
      <4>2. CASE WorkerStep(e)
        BY <4>2 DEF WorkerStep, RunNext, DagSucceeds, DagFails, BridgeProject, BridgeHist,
                    BridgeFault, OutcomeBegin, OutcomeSelect, OutcomePublish,
                    OutcomeCommit, OutcomeFault, Enqueue, Dequeue
      <4> QED
        BY <1>2, <4>1, <4>2
    <3>2. CASE \E q : proc' = [proc EXCEPT ![Home(e)].tail = q]
      <4>1. PICK q : proc' = [proc EXCEPT ![Home(e)].tail = q]
        BY <3>2
      <4>2. proc \in [Instances -> Proc]
        BY DEF TypeOK
      <4> QED
        BY <4>1, <4>2 DEF Proc
    <3> QED
      BY <3>1, <3>2
  <2> QED
    BY <2>1, <2>2, SameList DEF CacheStep
<1>3. ASSUME NEW i \in Instances, ProcStep(i)
      PROVE \A j \in Instances : CacheStep(j) /\ ListFrom(j)
  <2>0. GoesOn(i) => \A j \in Instances : CacheShows(j)
    BY ProcCacheStep
  <2>t. proc[i] \in Proc /\ cache[i] \in Store /\ db \in Store /\ cache'[i] \in Store
    BY DEF TypeOK
  <2>1. CASE Boot(i)
    <3>1. cache'[i] = db /\ \A j \in Instances \ {i} : cache'[j] = cache[j]
      BY <2>1 DEF Boot, TypeOK
    <3>2. SweepsOn(i, [proc[i] EXCEPT !.mode = "booting"], StrandedIn(db), cache'[i])
      BY <2>1, <3>1 DEF Boot
    <3>3. [proc[i] EXCEPT !.mode = "booting"] \in Proc
      BY <2>t DEF Proc, Mode
    <3>4. StrandedIn(db) \subseteq Execs /\ \A e \in StrandedIn(db) : cache'[i].exec[e] = "running"
      BY <3>1 DEF StrandedIn
    <3>5. ListFrom(i) /\ \A j \in Instances \ {i} : proc'[j] = proc[j]
      BY <2>t, <3>2, <3>3, <3>4, NewList
    <3>6. \A j \in Instances \ {i} : CacheShows(j)
      BY <3>1, ShowsItself DEF CacheShows
    <3> QED
      BY <3>1, <3>5, <3>6, SameList DEF CacheStep
  <2>2. CASE Stop(i)
    <3>1. cache'[i] = EmptyStore /\ \A j \in Instances \ {i} : cache'[j] = cache[j]
      BY <2>2 DEF Stop, TypeOK
    <3>2. proc'[i] = DownProc /\ \A j \in Instances \ {i} : proc'[j] = proc[j]
      BY <2>2 DEF Stop, TypeOK
    <3>3. ListFrom(i)
      BY <3>2, EmptyList DEF DownProc
    <3>6. \A j \in Instances \ {i} : CacheShows(j)
      BY <3>1, ShowsItself DEF CacheShows
    <3> QED
      BY <3>1, <3>2, <3>3, <3>6, SameList DEF CacheStep
  <2>3. CASE Drain(i)
    <3>1. cache' = cache
      BY <2>3 DEF Drain
    <3>2. SweepsOn(i, [proc[i] EXCEPT !.mode = "draining"], StrandedIn(cache[i]), cache'[i])
      BY <2>3, <3>1 DEF Drain
    <3>3. [proc[i] EXCEPT !.mode = "draining"] \in Proc
      BY <2>t DEF Proc, Mode
    <3>4. /\ StrandedIn(cache[i]) \subseteq Execs
          /\ \A e \in StrandedIn(cache[i]) : cache'[i].exec[e] = "running"
      BY <3>1 DEF StrandedIn
    <3>5. ListFrom(i) /\ \A j \in Instances \ {i} : proc'[j] = proc[j]
      BY <2>t, <3>2, <3>3, <3>4, NewList
    <3>6. \A j \in Instances : CacheShows(j)
      BY <3>1, ShowsItself DEF CacheShows
    <3> QED
      BY <1>0, <3>5, <3>6
  <2>4. CASE SweepCommit(i)
    <3>0. \A j \in Instances : CacheShows(j)
      BY <2>0, <2>4 DEF GoesOn
    <3> DEFINE r == [proc[i] EXCEPT !.tail = Tail(@)]
    <3>1. Turn(i, "sweep")
      BY <2>4 DEF SweepCommit
    <3>2. /\ r \in Proc /\ r.stranded = proc[i].stranded
          /\ proc[i].stranded \in SUBSET Execs
      <4>1. Tail(proc[i].tail) \in Seq(Writer)
        BY <3>1, SettledTail
      <4> QED
        BY <2>t, <4>1 DEF Proc
    <3>3. SweepsOn(i, r, proc[i].stranded, cache'[i])
      <4>1. CASE proc[i].sweep.exec \in recovered
        BY <2>4, <3>2, <4>1 DEF SweepCommit
      <4>2. CASE proc[i].sweep.exec \notin recovered
        <5>1. SweepsOn(i, r, r.stranded, SweepRows(cache[i], proc[i].sweep))
          BY <2>4, <4>2 DEF SweepCommit
        <5>2. cache' = [cache EXCEPT ![i] = SweepRows(cache[i], proc[i].sweep)]
          BY <2>4, <4>2 DEF SweepCommit
        <5>3. cache'[i] = SweepRows(cache[i], proc[i].sweep)
          BY <5>2 DEF TypeOK
        <5> QED
          BY <3>2, <5>1, <5>3
      <4> QED
        BY <4>1, <4>2
    <3> HIDE DEF r
    <3>4. ListFrom(i) /\ \A j \in Instances \ {i} : proc'[j] = proc[j]
      BY <2>t, <3>0, <3>2, <3>3, NewList
    <3> QED
      BY <1>0, <3>0, <3>4
  <2>5. CASE SweepFault(i)
    <3>1. \A j \in Instances : CacheShows(j)
      BY <2>5, ShowsItself DEF SweepFault, CacheShows
    <3>2. /\ proc'[i].stranded = {} /\ proc'[i].sweep = NoSweep
          /\ \A j \in Instances \ {i} : proc'[j] = proc[j]
      BY <2>5, <2>t DEF SweepFault, TypeOK, Proc
    <3> QED
      BY <1>0, <3>1, <3>2, EmptyList
  <2>6. CASE \/ EditCommit(i) \/ DeleteCommit(i) \/ RequestFault(i) \/ Serve(i)
             \/ \E e \in Execs : StartRequest(i, e)
             \/ \E p \in Projects : EditRequest(i, p) \/ DeleteRequest(i, p)
    <3>0. proc \in [Instances -> Proc]
      BY DEF TypeOK
    <3> DEFINE Same == \A j \in Instances : /\ proc'[j].stranded = proc[j].stranded
                                           /\ proc'[j].sweep = proc[j].sweep
    <3>1. Same
      <4>1. \/ proc' = proc
            \/ proc' = [proc EXCEPT ![i].mode = "serving"]
            \/ \E a, b : \/ proc' = [proc EXCEPT ![i].edit = a, ![i].tail = b]
                         \/ proc' = [proc EXCEPT ![i].removal = a, ![i].tail = b]
        BY <2>6 DEF EditCommit, DeleteCommit, RequestFault, Serve, StartRequest,
                    EditRequest, DeleteRequest
      <4>2. CASE proc' = [proc EXCEPT ![i].mode = "serving"]
        BY <3>0, <4>2 DEF Proc
      <4>3. ASSUME NEW a, NEW b, proc' = [proc EXCEPT ![i].edit = a, ![i].tail = b]
            PROVE Same
        BY <3>0, <4>3 DEF Proc
      <4>4. ASSUME NEW a, NEW b, proc' = [proc EXCEPT ![i].removal = a, ![i].tail = b]
            PROVE Same
        BY <3>0, <4>4 DEF Proc
      <4> QED
        BY <4>1, <4>2, <4>3, <4>4
    <3>2. \A j \in Instances : CacheShows(j)
      BY <2>0, <2>6 DEF GoesOn
    <3> QED
      BY <3>1, <3>2, SameList DEF CacheStep
  <2> QED
    BY <1>3, <2>1, <2>2, <2>3, <2>4, <2>5, <2>6 DEF ProcStep
<1> QED
  BY <1>1, <1>2, <1>3 DEF Next

\* A run is marked failed in its history only while it has no outcome, and every
\* other batch changes record and history together.
LEMMA HistoryAgreesStep ==
  ASSUME TypeOK, HistoryInv, ExecChange, deleted \subseteq deleted'
  PROVE HistoryAgrees'
<1> SUFFICES ASSUME NEW e \in Execs, ProjectOf[e] \notin deleted'
             PROVE \/ db'.hist[e] = db'.exec[e]
                   \/ db'.hist[e] = "failed" /\ db'.exec[e] = "running"
  BY DEF HistoryAgrees
<1>1. /\ Undeleted(e) /\ db.exec \in [Execs -> RunStatus] /\ db.hist \in [Execs -> RunStatus]
      /\ \/ db.hist[e] = db.exec[e]
         \/ db.hist[e] = "failed" /\ db.exec[e] = "running"
  BY DEF HistoryInv, HistoryAgrees, Undeleted, TypeOK, Store
<1>2. CASE ExecsKept
  <2>1. CASE task[e].pc = "bridgeHist"
    <3>1. db.exec[e] \in {"running", "failed"}
      BY <1>1, <2>1 DEF HistoryInv, EarlyIsRunningOrFailed, Early, BridgePc
    <3> QED
      BY <1>1, <1>2, <3>1 DEF ExecsKept
  <2> QED
    BY <1>1, <1>2, <2>1 DEF ExecsKept
<1>3. ASSUME NEW x \in Execs, ExecStarted(x) \/ ExecEnded(x)
      PROVE \/ db'.hist[e] = db'.exec[e]
            \/ db'.hist[e] = "failed" /\ db'.exec[e] = "running"
  BY <1>1, <1>3 DEF ExecStarted, ExecEnded
<1>4. ASSUME NEW x \in Execs, ExecClosed(x)
      PROVE \/ db'.hist[e] = db'.exec[e]
            \/ db'.hist[e] = "failed" /\ db'.exec[e] = "running"
  <2>1. PICK i \in Instances :
           /\ proc[i].sweep.exec = x
           /\ db'.hist = [db.hist EXCEPT ![x] = IF proc[i].sweep.hist THEN "failed" ELSE @]
    BY <1>4 DEF ExecClosed
  <2>2. x = e => proc[i].sweep.hist
    BY <1>1, <2>1 DEF HistoryInv, ListedHasHistory
  <2> QED
    BY <1>1, <1>4, <2>1, <2>2 DEF ExecClosed
<1>5. ASSUME NEW p \in Projects, ExecsRemoved(p)
      PROVE db'.exec[e] = db.exec[e] /\ db'.hist[e] = db.hist[e]
  BY <1>5 DEF ExecsRemoved
<1> QED
  BY <1>1, <1>2, <1>3, <1>4, <1>5 DEF ExecChange

\* A run without an outcome is running, or closed by a sweep.
LEMMA EarlyStep ==
  ASSUME TypeOK, HistoryInv, ExecChange, deleted \subseteq deleted',
         \A x \in Execs : Moves(x)
  PROVE EarlyIsRunningOrFailed'
<1> SUFFICES ASSUME NEW e \in Execs, task'[e].pc \in Early, ProjectOf[e] \notin deleted'
             PROVE db'.exec[e] \in {"running", "failed"}
  BY DEF EarlyIsRunningOrFailed, Undeleted, Early, BridgePc
<1>1. \/ task[e].pc \in Early
      \/ task[e].pc = "startWrite" /\ db'.exec[e] = "running"
  BY DEF Moves
<1>2. CASE task[e].pc \in Early
  <2>1. db.exec[e] \in {"running", "failed"} /\ db.exec \in [Execs -> RunStatus]
    BY <1>2 DEF HistoryInv, EarlyIsRunningOrFailed, Undeleted, TypeOK, Store
  <2>2. task[e].pc # "outWrite"
    BY <1>2 DEF Early, BridgePc
  <2> QED
    BY <2>1, <2>2 DEF ExecChange, ExecsKept, ExecStarted, ExecEnded, ExecClosed, ExecsRemoved
<1> QED
  BY <1>1, <1>2

\* A history that a cache shows stays there as long as a sweep may need it.
LEMMA ListedStep ==
  ASSUME TypeOK, HistoryInv, deleted \subseteq deleted',
         \A i \in Instances : CacheStep(i) /\ ListFrom(i)
  PROVE (\A i \in Instances : Told(cache[i]))' /\ ListedHasHistory'
<1> DEFINE Gone(e) == ProjectOf[e] \in deleted'
           Has(s) == \A e \in Execs : ~Gone(e) /\ s.exec[e] # "absent" => s.hist[e] # "absent"
<1>1. \A s : Told(s) => Has(s)
  BY DEF Told, Undeleted
<1>2. Has(db) /\ Has(EmptyStore)
  BY DEF HistoryInv, HistoryAgrees, EmptyStore
<1>3. ASSUME NEW i \in Instances
      PROVE Has(cache'[i])
  <2>1. Has(cache[i])
    BY <1>1 DEF HistoryInv
  <2>2. CASE CacheShows(i)
    BY <2>1, <2>2 DEF CacheShows, Shows, Undeleted
  <2> QED
    BY <1>2, <2>2 DEF CacheStep
<1>4. ASSUME NEW i \in Instances, NEW e \in Execs, ~Gone(e)
      PROVE /\ e \in proc'[i].stranded => cache'[i].hist[e] # "absent"
            /\ proc'[i].sweep.exec = e => proc'[i].sweep.hist
  <2>1. /\ e \in proc[i].stranded => cache[i].hist[e] # "absent"
        /\ proc[i].sweep.exec = e => proc[i].sweep.hist
    BY <1>4 DEF HistoryInv, ListedHasHistory, Undeleted
  <2>2. CacheShows(i) => (cache[i].hist[e] # "absent" => cache'[i].hist[e] # "absent")
    BY <1>4 DEF CacheShows, Shows, Undeleted
  <2>3. cache'[i].exec[e] = "running" => cache'[i].hist[e] # "absent"
    BY <1>3, <1>4
  <2> QED
    BY <2>1, <2>2, <2>3 DEF ListFrom
<1> QED
  BY <1>3, <1>4 DEF Told, ListedHasHistory, Undeleted

\* Every step keeps HistoryInv.
LEMMA HistoryInvStep ==
  ASSUME TypeOK, TypeOK', RemovalIsOwn, HistoryInv, [Next]_vars
  PROVE HistoryInv'
<1>1. /\ ExecChange /\ deleted \subseteq deleted' /\ ListedHasHistory
      /\ \A x \in Execs : Moves(x)
  BY ExecChanges, GhostsGrow, StepMoves DEF HistoryInv
<1>2. \A i \in Instances : CacheStep(i) /\ ListFrom(i)
  BY <1>1, ListSteps
<1>3. HistoryAgrees' /\ EarlyIsRunningOrFailed'
  BY <1>1, HistoryAgreesStep, EarlyStep
<1>4. (\A i \in Instances : Told(cache[i]))' /\ ListedHasHistory'
  BY <1>1, <1>2, ListedStep
<1> QED
  BY <1>3, <1>4 DEF HistoryInv

\* HistoryInv holds initially.
LEMMA HistoryInvInit == Init => HistoryInv
<1> SUFFICES ASSUME Init
             PROVE HistoryInv
  OBVIOUS
<1>1. /\ \A e \in Execs : db.exec[e] = "absent" /\ db.hist[e] = "absent" /\ task[e].pc = "new"
      /\ \A i \in Instances : cache[i] = EmptyStore /\ proc[i] = DownProc
  BY DEF Init, EmptyStore, NewTask
<1>2. DownProc.stranded = {} /\ DownProc.sweep.exec \notin Execs
      /\ \A e \in Execs : EmptyStore.exec[e] = "absent"
  BY ConstantsOK DEF DownProc, NoSweep, EmptyStore
<1> QED
  BY <1>1, <1>2 DEF HistoryInv, EarlyIsRunningOrFailed, Early, BridgePc, Told,
                    ListedHasHistory, HistoryAgrees

\* HistoryInv is an invariant of the specification.
LEMMA HistoryInvAlways == Spec => []HistoryInv
<1>1. TypeOK /\ TypeOK' /\ RemovalIsOwn /\ HistoryInv /\ [Next]_vars => HistoryInv'
  BY HistoryInvStep
<1>2. Spec => [](ClaimInv /\ RemovalIsOwn)
  BY ClaimInvAlways
<1> QED
  BY <1>1, <1>2, HistoryInvInit, TypeCorrect, PTL DEF Spec

-----------------------------------------------------------------------------
(***************************************************************************)
(* Theorems                                                                *)
(***************************************************************************)

\* One Idempotency-Key starts one execution, on any number of processes and
\* however often and wherever the request is repeated, until a project it was
\* used on is erased: the request row is required absent by the start batch.
THEOREM OneExecutionPerKeyAlways == Spec => []OneExecutionPerKey
<1>1. KeyInv => OneExecutionPerKey
  BY DEF KeyInv, StartedIsRecorded, OneExecutionPerKey
<1> QED
  BY <1>1, KeyInvAlways, PTL

\* Clients that repeated one request and were told an execution were told the
\* same one, whichever processes answered them.
THEOREM SameRequestSameExecutionAlways == Spec => []SameRequestSameExecution
<1>1. KeyInv => SameRequestSameExecution
  BY DEF KeyInv, StartedIsRecorded, ToldStarted, SameRequestSameExecution
<1> QED
  BY <1>1, KeyInvAlways, PTL

\* A replay answers a request with a run of that request that has started, however
\* old the rows are that the process read.
THEOREM ReplayAnswersOwnRequestAlways == Spec => []ReplayAnswersOwnRequest
<1>1. KeyInv => ReplayAnswersOwnRequest
  BY DEF KeyInv
<1> QED
  BY <1>1, KeyInvAlways, PTL

\* Record and history of an execution tell the same outcome, on any number of
\* processes and whoever closes it, the history ahead of the record at most
\* between the pipeline.failed event and the outcome.
THEOREM HistoryAgreesAlways == Spec => []HistoryAgrees
<1>1. HistoryInv => HistoryAgrees
  BY DEF HistoryInv
<1> QED
  BY <1>1, HistoryInvAlways, PTL
=============================================================================
