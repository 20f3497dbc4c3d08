---------------------- MODULE GenerationLifecycleTypes -----------------------
(***************************************************************************)
(* Type correctness of GenerationLifecycle, for every set of processes,    *)
(* projects, attempts and keys, with storage faults or without.            *)
(***************************************************************************)
EXTENDS GenerationLifecycle, TLAPS

-----------------------------------------------------------------------------
\* The empty store is a store.
LEMMA EmptyStoreType == EmptyStore \in Store
BY ConstantsOK DEF EmptyStore, Store, ProjectRec, NoProject, RunStatus, ProjectStatus

\* A start batch keeps the rows well typed.
LEMMA StartRowsType ==
  ASSUME NEW s \in Store, NEW e \in Execs, TypeOK
  PROVE StartRows(s, e) \in Store
<1>1. Pend(e) \in ProjectRec
  BY DEF TypeOK, Task, Pend
<1> QED
  BY <1>1, ConstantsOK DEF StartRows, Store, RunStatus

\* An outcome batch keeps the rows well typed.
LEMMA OutcomeRowsType ==
  ASSUME NEW s \in Store, NEW e \in Execs, TypeOK
  PROVE OutcomeRows(s, e) \in Store
<1>1. Pend(e) \in ProjectRec
  BY DEF TypeOK, Task, Pend
<1> QED
  BY <1>1, ConstantsOK DEF OutcomeRows, Store, RunStatus, RunOutcome

\* The batch of a sweep keeps the rows well typed.
LEMMA SweepRowsType ==
  ASSUME NEW s \in Store, NEW w \in Sweep, w.exec \in Execs
  PROVE SweepRows(s, w) \in Store
BY ConstantsOK DEF SweepRows, Store, RunStatus, Sweep

\* A deletion batch keeps the rows well typed.
LEMMA RemovalRowsType ==
  ASSUME NEW s \in Store, NEW r \in Removal
  PROVE RemovalRows(s, r) \in Store
BY ConstantsOK
DEF RemovalRows, Store, RunStatus, Removal, NoProject, ProjectRec, ProjectStatus

\* Settling a write keeps the tasks well typed: behind is lowered only above 0.
LEMMA SettledType ==
  ASSUME NEW t \in [Execs -> Task], NEW i \in Instances
  PROVE Settled(i, t) \in [Execs -> Task]
BY DEF Settled, Task

\* The idle records have the types of the records they stand for.
LEMMA ConstantTypes ==
  /\ NoProject \in ProjectRec
  /\ EmptyStore \in Store
  /\ NoSnap \in Snap
  /\ NewTask \in Task /\ DoneTask \in Task
  /\ NoSweep \in Sweep /\ NoRemoval \in Removal /\ NoEdit \in Edit
  /\ DownProc \in Proc
<1>1. NoProject \in ProjectRec
  BY DEF NoProject, ProjectRec, ProjectStatus
<1>2. EmptyStore \in Store
  BY EmptyStoreType
<1>3. NoSnap \in Snap
  BY <1>2 DEF NoSnap, Snap, StartCollections, Store
<1>4. NewTask \in Task /\ DoneTask \in Task
  BY <1>1, <1>3 DEF NewTask, DoneTask, Task, Pc, Outcome
<1>5. NoSweep \in Sweep /\ NoRemoval \in Removal /\ NoEdit \in Edit
  BY <1>1 DEF NoSweep, Sweep, NoRemoval, Removal, NoEdit, Edit
<1>6. DownProc \in Proc
  BY <1>5 DEF DownProc, Proc, Mode
<1> QED
  BY <1>1, <1>2, <1>3, <1>4, <1>5, <1>6

\* The named program points are program points.
LEMMA PcTypes ==
  /\ {"new", "done", "fatal", "queued", "running", "finish"} \subseteq Pc
  /\ StartPc \subseteq Pc /\ BridgePc \subseteq Pc /\ OutcomePc \subseteq Pc
BY DEF Pc, LivePc, WorkerPc

\* What a refresh reads of well-typed rows is well typed.
LEMMA SnapTypes ==
  ASSUME NEW s \in Store
  PROVE StartCollections(s) \in Snap /\ ClaimsOnly(s) \in Snap
BY EmptyStoreType DEF StartCollections, ClaimsOnly, Store, Snap

\* A task that ends or throws is a task.
LEMMA FinishedType ==
  ASSUME TypeOK, NEW e \in Execs
  PROVE Finished(e) \in [Execs -> Task] /\ Thrown(e) \in [Execs -> Task]
<1>1. Finished(e) \in [Execs -> Task]
  BY ConstantTypes DEF TypeOK, Finished
<1>2. {"fatal", "finish"} \subseteq Pc /\ "error" \in Outcome
  BY DEF Pc, LivePc, WorkerPc, Outcome
<1>3. Thrown(e) \in [Execs -> Task]
  BY <1>2, ConstantTypes DEF TypeOK, Thrown, Task
<1> QED
  BY <1>1, <1>3

\* A queue of writes stays one when it grows or loses its head.
LEMMA TailType ==
  ASSUME TypeOK, NEW i \in Instances
  PROVE proc[i] \in Proc /\ proc[i].tail \in Seq(Writer)
BY DEF TypeOK, Proc

\* A write that settles keeps the tasks and the queues well typed.
LEMMA SettledTail ==
  ASSUME TypeOK, NEW i \in Instances, NEW w, Turn(i, w)
  PROVE /\ Tail(proc[i].tail) \in Seq(Writer)
        /\ Len(proc[i].tail) - 1 \in Nat
        /\ [proc EXCEPT ![i].tail = Tail(@)] \in [Instances -> Proc]
<1>1. proc[i].tail \in Seq(Writer) /\ proc[i].tail # <<>>
  BY TailType DEF Turn
<1>2. Tail(proc[i].tail) \in Seq(Writer) /\ Len(proc[i].tail) - 1 \in Nat
  BY <1>1
<1>3. [proc EXCEPT ![i].tail = Tail(@)] \in [Instances -> Proc]
  BY <1>2 DEF TypeOK, Proc
<1> QED
  BY <1>2, <1>3

\* A queued write keeps the processes well typed.
LEMMA EnqueueType ==
  ASSUME TypeOK, NEW i \in Instances, NEW w \in Writer
  PROVE [proc EXCEPT ![i].tail = Append(@, w)] \in [Instances -> Proc]
<1>1. Append(proc[i].tail, w) \in Seq(Writer)
  BY TailType
<1> QED
  BY <1>1 DEF TypeOK, Proc


\* The fields of a task are well typed.
LEMMA TaskOf ==
  ASSUME TypeOK, NEW e \in Execs
  PROVE /\ task[e] \in Task
        /\ task[e].snap \in Snap /\ Pend(e) \in ProjectRec
        /\ task[e].behind \in Nat
        /\ Home(e) \in Instances \cup {None}
BY DEF TypeOK, Task, Pend, Home

\* Every step of a start keeps TypeOK.
LEMMA StartTypes ==
  ASSUME TypeOK, NEW e \in Execs, StartStep(e)
  PROVE TypeOK'
<1> USE PcTypes DEF store, ghosts
<1> DEFINE i == Home(e)
<1>0. /\ ProjectOf[e] \in Projects /\ KeyOf[e] \in Keys
      /\ \A w \in Execs : w \in Writer
  BY ConstantsOK DEF Writer
<1>1. CASE StartSelect(e)
  <2>1. task' \in [Execs -> Task]
    BY <1>1, SnapTypes DEF StartSelect, TypeOK, Task, StartPc
  <2> QED
    BY <1>1, <2>1 DEF StartSelect, TypeOK
<1>a. ASSUME Published(e)
      PROVE i \in Instances /\ cache' \in [Instances -> Store]
  <2>1. i \in Instances
    BY <1>a DEF Published, At
  <2>2. task[e].snap \in Snap
    BY TaskOf
  <2> QED
    BY <1>a, <2>1, <2>2 DEF Published, TypeOK, Store, Snap
<1>2. CASE StartPrepare(e)
  <2>1. i \in Instances /\ cache' \in [Instances -> Store]
    BY <1>2, <1>a DEF StartPrepare
  <2>2. Generating(e) \in ProjectRec
    <3>1. Stored(e) \in ProjectRec
      BY <1>0, TaskOf DEF Stored, Snap
    <3> QED
      BY <3>1 DEF Generating, ProjectRec, ProjectStatus
  <2>3. task' \in [Execs -> Task]
    BY <1>2, <2>2, ConstantTypes DEF StartPrepare, TypeOK, Task, StartPc
  <2>4. proc' \in [Instances -> Proc]
    BY <1>2, <1>0, <2>1, EnqueueType DEF StartPrepare, Enqueue
  <2> QED
    BY <1>2, <2>1, <2>3, <2>4 DEF StartPrepare, TypeOK
<1>b. ASSUME NEW kind, NEW x \in Execs \cup {None}, Tell(e, kind, x),
             kind \in {"started", "replayed", "replayError", "active",
                       "idempotency", "error"}
      PROVE answer' \in [Execs -> Answer]
  BY <1>b DEF Tell, TypeOK, Answer
<1>3. CASE StartRefused(e)
  <2>1. cache' \in [Instances -> Store]
    BY <1>3, <1>a DEF StartRefused
  <2>2. answer' \in [Execs -> Answer]
    BY <1>3, <1>b DEF StartRefused
  <2> QED
    BY <1>3, <2>1, <2>2, FinishedType DEF StartRefused, TypeOK
<1>4. CASE StartReplay(e)
  <2>1. cache' \in [Instances -> Store]
    BY <1>4, <1>a DEF StartReplay
  <2>2. Recorded(e) \in Execs \cup {None}
    BY <1>0, TaskOf DEF Recorded, Snap
  <2>3. answer' \in [Execs -> Answer]
    BY <1>4, <1>b, <2>2 DEF StartReplay
  <2> QED
    BY <1>4, <2>1, <2>3, FinishedType DEF StartReplay, TypeOK
<1>c. ASSUME WriteAt(e, "startWrite")
      PROVE /\ i \in Instances
            /\ Dequeue(i) => proc' \in [Instances -> Proc]
            /\ Len(proc[i].tail) - 1 \in Nat
  <2>1. i \in Instances /\ Turn(i, e)
    BY <1>c DEF WriteAt, At
  <2> QED
    BY <2>1, SettledTail DEF Dequeue
<1>5. CASE StartCommit(e)
  <2>1. i \in Instances /\ proc' \in [Instances -> Proc]
    BY <1>5, <1>c DEF StartCommit
  <2>2. db' \in Store
    BY <1>5, StartRowsType DEF StartCommit, TypeOK
  <2>3. cache' \in [Instances -> Store]
    <3>1. StartRows(cache[i], e) \in Store
      BY <2>1, StartRowsType DEF TypeOK
    <3> QED
      BY <1>5, <2>1, <3>1 DEF StartCommit, TypeOK
  <2>4. [task EXCEPT ![e].pc = "queued", ![e].pend = NoProject] \in [Execs -> Task]
    BY ConstantTypes DEF TypeOK, Task
  <2>5. task' \in [Execs -> Task]
    BY <1>5, <2>1, <2>4, SettledType DEF StartCommit
  <2>6. answer' \in [Execs -> Answer]
    BY <1>5, <1>b DEF StartCommit
  <2> QED
    BY <1>5, <2>1, <2>2, <2>3, <2>5, <2>6 DEF StartCommit, TypeOK
<1>6. CASE StartConflict(e)
  <2>1. i \in Instances /\ proc' \in [Instances -> Proc] /\ Queued(i) - 1 \in Nat
    BY <1>6, <1>c DEF StartConflict, Queued
  <2>2. task' \in [Execs -> Task] /\ answer' \in [Execs -> Answer]
    <3>1. CASE ClaimTaken(e)
      <4>1. Settled(i, task) \in [Execs -> Task]
        BY <2>1, SettledType DEF TypeOK
      <4>2. [Settled(i, task) EXCEPT ![e].pc = "claimSelect",
                                     ![e].behind = Queued(i) - 1,
                                     ![e].pend = NoProject] \in [Execs -> Task]
        BY <4>1, <2>1, ConstantTypes DEF Task, StartPc
      <4> QED
        BY <1>6, <3>1, <4>2 DEF StartConflict, TypeOK
    <3>2. CASE ~ClaimTaken(e)
      <4>1. Settled(i, Finished(e)) \in [Execs -> Task]
        BY <2>1, SettledType, FinishedType
      <4> QED
        BY <1>6, <3>2, <4>1, <1>b DEF StartConflict
    <3> QED
      BY <3>1, <3>2
  <2> QED
    BY <1>6, <2>1, <2>2 DEF StartConflict, TypeOK
<1>7. CASE ClaimSelect(e)
  <2>1. task' \in [Execs -> Task]
    BY <1>7, SnapTypes DEF ClaimSelect, TypeOK, Task, StartPc
  <2> QED
    BY <1>7, <2>1 DEF ClaimSelect, TypeOK
<1>8. CASE ClaimPublish(e)
  <2>1. i \in Instances /\ task[e].snap \in Snap
    BY <1>8, TaskOf DEF ClaimPublish, At
  <2>2. cache' \in [Instances -> Store]
    BY <1>8, <2>1 DEF ClaimPublish, TypeOK, Store, Snap
  <2>3. task[e].snap.claim[ProjectOf[e]] \in Execs \cup {None}
    BY <1>0, <2>1 DEF Snap
  <2>4. answer' \in [Execs -> Answer]
    BY <1>8, <1>b, <2>3 DEF ClaimPublish
  <2> QED
    BY <1>8, <2>2, <2>4, FinishedType DEF ClaimPublish, TypeOK
<1>9. CASE StartFault(e)
  <2>1. answer' \in [Execs -> Answer]
    BY <1>9, <1>b DEF StartFault
  <2>2. CASE WriteAt(e, "startWrite")
    <3>1. i \in Instances /\ proc' \in [Instances -> Proc]
      BY <1>9, <2>2, <1>c DEF StartFault, TypeOK
    <3>2. Settled(i, Finished(e)) \in [Execs -> Task]
      BY <3>1, SettledType, FinishedType
    <3>3. task' \in [Execs -> Task]
      BY <1>9, <3>2, FinishedType DEF StartFault
    <3>4. db' \in Store /\ started' \subseteq Execs
      BY <1>9, StartRowsType DEF StartFault, TypeOK
    <3> QED
      BY <1>9, <2>1, <3>1, <3>3, <3>4 DEF StartFault, TypeOK
  <2>3. CASE ~WriteAt(e, "startWrite")
    BY <1>9, <2>1, <2>3, FinishedType DEF StartFault, TypeOK
  <2> QED
    BY <2>2, <2>3
<1> QED
  BY <1>1, <1>2, <1>3, <1>4, <1>5, <1>6, <1>7, <1>8, <1>9 DEF StartStep

\* What a write of an attempt does to its process and to the tasks is well typed.
LEMMA WriteTypes ==
  ASSUME TypeOK, NEW e \in Execs, NEW pc, WriteAt(e, pc)
  PROVE /\ Home(e) \in Instances
        /\ Tail(proc[Home(e)].tail) \in Seq(Writer)
        /\ [proc EXCEPT ![Home(e)].tail = Tail(@)] \in [Instances -> Proc]
        /\ \A t \in [Execs -> Task] : Settled(Home(e), t) \in [Execs -> Task]
<1>1. Home(e) \in Instances /\ Turn(Home(e), e)
  BY DEF WriteAt, At
<1> QED
  BY <1>1, SettledTail, SettledType

\* The bridge queues at most one write, for the history row.
LEMMA HistoryTypes ==
  ASSUME TypeOK, NEW e \in Execs, Home(e) \in Instances, NEW s \in Seq(Writer)
  PROVE HistoryNext(e) \in Pc /\ QueueHistory(e, s) \in Seq(Writer)
<1>1. e \in Writer
  BY DEF Writer
<1> QED
  BY <1>1, PcTypes DEF HistoryNext, QueueHistory, BridgePc

\* Every step of a worker keeps TypeOK.
LEMMA WorkerTypes ==
  ASSUME TypeOK, NEW e \in Execs, WorkerStep(e)
  PROVE TypeOK'
<1> USE PcTypes DEF store, ghosts
<1> DEFINE i == Home(e)
           p == ProjectOf[e]
<1>0. /\ p \in Projects /\ e \in Writer
      /\ {"completed", "failed", "error"} \subseteq Outcome
      /\ BridgePc \cup OutcomePc \subseteq Pc
  BY ConstantsOK DEF Writer, Outcome
<1>1. CASE RunNext(e)
  <2>1. task' \in [Execs -> Task]
    BY <1>1 DEF RunNext, Goto, TypeOK, Task
  <2> QED
    BY <1>1, <2>1 DEF RunNext, TypeOK
<1>2. CASE DagSucceeds(e)
  <2>1. PICK o \in {"completed", "error"} :
            task' = [task EXCEPT ![e].pc = "finish", ![e].outcome = o]
    BY <1>2 DEF DagSucceeds
  <2>2. task' \in [Execs -> Task]
    BY <2>1, <1>0 DEF TypeOK, Task
  <2> QED
    BY <1>2, <2>2 DEF DagSucceeds, TypeOK
<1>a. ASSUME i \in Instances
      PROVE cache[i].project[p] \in ProjectRec
  BY <1>0, <1>a DEF TypeOK, Store
<1>3. CASE DagFails(e)
  <2>1. i \in Instances /\ proc[i].tail \in Seq(Writer)
    BY <1>3, TailType DEF DagFails, At
  <2>2. CASE cache[i].project[p].status # "absent"
    <3>1. [cache[i].project[p] EXCEPT !.status = "draft"] \in ProjectRec
      BY <1>a, <2>1 DEF ProjectRec, ProjectStatus
    <3>2. task' \in [Execs -> Task]
      <4>1. task' = [task EXCEPT ![e].pc = "bridgeProject", ![e].outcome = "failed",
                       ![e].pend = [cache[i].project[p] EXCEPT !.status = "draft"]]
        BY <1>3, <2>2 DEF DagFails
      <4>2. "bridgeProject" \in Pc
        BY DEF BridgePc
      <4> QED
        BY <4>1, <4>2, <3>1, <1>0 DEF TypeOK, Task
    <3>3. proc' \in [Instances -> Proc]
      BY <1>3, <2>1, <2>2, <1>0, EnqueueType DEF DagFails, Enqueue
    <3> QED
      BY <1>3, <3>2, <3>3 DEF DagFails, TypeOK
  <2>3. CASE cache[i].project[p].status = "absent"
    <3>1. HistoryNext(e) \in Pc /\ QueueHistory(e, proc[i].tail) \in Seq(Writer)
      BY <2>1, HistoryTypes
    <3>a. /\ task' = [task EXCEPT ![e].pc = HistoryNext(e), ![e].outcome = "failed"]
          /\ proc' = [proc EXCEPT ![i].tail = QueueHistory(e, @)]
      BY <1>3, <2>3 DEF DagFails
    <3>2. task' \in [Execs -> Task]
      BY <3>a, <3>1, <1>0 DEF TypeOK, Task
    <3>3. proc' \in [Instances -> Proc]
      BY <3>a, <2>1, <3>1 DEF TypeOK, Proc
    <3> QED
      BY <1>3, <3>2, <3>3 DEF DagFails, TypeOK
  <2> QED
    BY <2>2, <2>3
<1>4. CASE BridgeProject(e)
  <2>1. /\ i \in Instances /\ Tail(proc[i].tail) \in Seq(Writer)
        /\ \A t \in [Execs -> Task] : Settled(i, t) \in [Execs -> Task]
    BY <1>4, WriteTypes DEF BridgeProject
  <2>2. HistoryNext(e) \in Pc /\ QueueHistory(e, Tail(proc[i].tail)) \in Seq(Writer)
    BY <2>1, HistoryTypes
  <2>3. [task EXCEPT ![e].pc = HistoryNext(e), ![e].pend = NoProject] \in [Execs -> Task]
    BY <2>2, ConstantTypes DEF TypeOK, Task
  <2>4. task' \in [Execs -> Task]
    BY <1>4, <2>1, <2>3 DEF BridgeProject
  <2>5. proc' \in [Instances -> Proc]
    BY <1>4, <2>1, <2>2 DEF BridgeProject, TypeOK, Proc
  <2>6. db' \in Store /\ cache' \in [Instances -> Store]
    BY <1>4, <1>0, <2>1, TaskOf DEF BridgeProject, TypeOK, Store
  <2> QED
    BY <1>4, <2>4, <2>5, <2>6 DEF BridgeProject, TypeOK
<1>5. CASE BridgeHist(e)
  <2>1. /\ i \in Instances /\ proc' \in [Instances -> Proc]
        /\ \A t \in [Execs -> Task] : Settled(i, t) \in [Execs -> Task]
    BY <1>5, WriteTypes DEF BridgeHist, Dequeue
  <2>2. Goto(e, "finish") \in [Execs -> Task]
    BY DEF Goto, TypeOK, Task
  <2>3. task' \in [Execs -> Task]
    BY <1>5, <2>1, <2>2 DEF BridgeHist
  <2>4. db' \in Store /\ cache' \in [Instances -> Store]
    BY <1>5, <2>1 DEF BridgeHist, TypeOK, Store, RunStatus
  <2> QED
    BY <1>5, <2>1, <2>3, <2>4 DEF BridgeHist, TypeOK
<1>6. CASE BridgeFault(e)
  <2>1. /\ i \in Instances /\ proc' \in [Instances -> Proc]
        /\ \A t \in [Execs -> Task] : Settled(i, t) \in [Execs -> Task]
    BY <1>6, WriteTypes DEF BridgeFault, Dequeue
  <2>2. [task EXCEPT ![e].pc = "finish", ![e].pend = NoProject] \in [Execs -> Task]
    BY ConstantTypes DEF TypeOK, Task
  <2>3. task' \in [Execs -> Task]
    BY <1>6, <2>1, <2>2 DEF BridgeFault
  <2>4. /\ [db EXCEPT !.project[p] = Pend(e)] \in Store
        /\ [db EXCEPT !.hist[e] = "failed"] \in Store
    BY <1>0, TaskOf DEF TypeOK, Store, RunStatus
  <2>5. db' \in Store
    BY <1>6, <2>4 DEF BridgeFault, TypeOK
  <2> QED
    BY <1>6, <2>1, <2>3, <2>5 DEF BridgeFault, TypeOK
<1>7. CASE OutcomeBegin(e)
  <2>1. i \in Instances /\ Queued(i) \in Nat
    BY <1>7, TailType DEF OutcomeBegin, At, Queued
  <2>2. Released(e) \in ProjectRec
    BY <1>a, <2>1 DEF Released, ProjectRec, ProjectStatus
  <2>3. [task EXCEPT ![e].pc = "outSelect", ![e].behind = Queued(i),
                     ![e].pend = Released(e)] \in [Execs -> Task]
    BY <2>1, <2>2 DEF TypeOK, Task, OutcomePc
  <2>4. task' \in [Execs -> Task]
    BY <1>7, <2>3, FinishedType DEF OutcomeBegin
  <2> QED
    BY <1>7, <2>4 DEF OutcomeBegin, TypeOK
<1>8. CASE OutcomeSelect(e)
  <2>1. task' \in [Execs -> Task]
    BY <1>8, SnapTypes DEF OutcomeSelect, TypeOK, Task, OutcomePc
  <2> QED
    BY <1>8, <2>1 DEF OutcomeSelect, TypeOK
<1>9. CASE OutcomePublish(e)
  <2>1. i \in Instances /\ task[e].snap \in Snap
    BY <1>9, TaskOf DEF OutcomePublish, At
  <2>2. cache' \in [Instances -> Store]
    BY <1>9, <2>1 DEF OutcomePublish, TypeOK, Store, Snap
  <2>3. task' \in [Execs -> Task]
    BY <1>9 DEF OutcomePublish, Goto, TypeOK, Task, OutcomePc
  <2>4. proc' \in [Instances -> Proc]
    BY <1>9, <1>0, <2>1, EnqueueType DEF OutcomePublish, Enqueue
  <2> QED
    BY <1>9, <2>2, <2>3, <2>4 DEF OutcomePublish, TypeOK
<1>10. CASE OutcomeCommit(e)
  <2>1. /\ i \in Instances /\ proc' \in [Instances -> Proc]
        /\ \A t \in [Execs -> Task] : Settled(i, t) \in [Execs -> Task]
    BY <1>10, WriteTypes DEF OutcomeCommit, Dequeue
  <2>2. db' \in Store /\ OutcomeRows(cache[i], e) \in Store
    BY <1>10, <2>1, OutcomeRowsType DEF OutcomeCommit, TypeOK
  <2>3. cache' \in [Instances -> Store]
    BY <1>10, <2>1, <2>2 DEF OutcomeCommit, TypeOK
  <2>4. task' \in [Execs -> Task]
    BY <1>10, <2>1, FinishedType DEF OutcomeCommit
  <2> QED
    BY <1>10, <2>1, <2>2, <2>3, <2>4 DEF OutcomeCommit, TypeOK
<1>11. CASE OutcomeFault(e)
  <2>1. CASE ReadAt(e, "outSelect")
    <3>1. ~WriteAt(e, "outWrite")
      BY <2>1 DEF ReadAt, WriteAt, At
    <3> QED
      BY <1>11, <2>1, <3>1, FinishedType DEF OutcomeFault, TypeOK
  <2>2. CASE WriteAt(e, "outWrite")
    <3>1. ~ReadAt(e, "outSelect")
      BY <2>2 DEF ReadAt, WriteAt, At
    <3>2. /\ i \in Instances /\ proc' \in [Instances -> Proc]
          /\ \A t \in [Execs -> Task] : Settled(i, t) \in [Execs -> Task]
      BY <1>11, <2>2, <3>1, WriteTypes DEF OutcomeFault, Dequeue
    <3>3. task' \in [Execs -> Task]
      BY <1>11, <3>1, <3>2, FinishedType DEF OutcomeFault
    <3>4. db' \in Store /\ unacked' \subseteq Execs
      BY <1>11, <3>1, OutcomeRowsType DEF OutcomeFault, TypeOK
    <3> QED
      BY <1>11, <3>1, <3>2, <3>3, <3>4 DEF OutcomeFault, TypeOK
  <2> QED
    BY <1>11, <2>1, <2>2 DEF OutcomeFault
<1> QED
  BY <1>1, <1>2, <1>3, <1>4, <1>5, <1>6, <1>7, <1>8, <1>9, <1>10, <1>11 DEF WorkerStep

\* The batch of a sweep is well typed.
LEMMA SweepOfType ==
  ASSUME NEW c \in Store, NEW e \in Execs
  PROVE SweepOf(c, e) \in Sweep
<1> DEFINE p == c.project[ProjectOf[e]]
<1>1. p \in ProjectRec
  BY ConstantsOK DEF Store
<1>2. [p EXCEPT !.status = "draft"] \in ProjectRec
  BY <1>1 DEF ProjectRec, ProjectStatus
<1> QED
  BY <1>2, ConstantTypes DEF SweepOf, Sweep

\* A sweep that goes on leaves the other processes alone, and what it still has to
\* close are executions it has listed.
LEMMA SweepsOnType ==
  ASSUME TypeOK, NEW i \in Instances, NEW r \in Proc, NEW listed \in SUBSET Execs,
         NEW c \in Store, SweepsOn(i, r, listed, c)
  PROVE /\ proc' \in [Instances -> Proc]
        /\ \A j \in Instances \ {i} : proc'[j] = proc[j]
        /\ proc'[i].stranded \subseteq listed
        /\ proc'[i].sweep.exec \in listed \cup {None}
        /\ \A e \in listed : e \in proc'[i].stranded \/ proc'[i].sweep.exec = e
        /\ proc'[i].sweep.exec \notin proc'[i].stranded
        /\ proc'[i].sweep \in {NoSweep} \cup {SweepOf(c, e) : e \in listed}
        /\ proc'[i].removal = r.removal /\ proc'[i].mode = r.mode
<1>1. CASE listed = {}
  <2> DEFINE q == [r EXCEPT !.stranded = {}, !.sweep = NoSweep]
  <2>1. /\ q \in Proc /\ q.stranded = {} /\ q.sweep = NoSweep
        /\ q.removal = r.removal /\ q.mode = r.mode
    BY ConstantTypes DEF Proc
  <2>2. proc' = [proc EXCEPT ![i] = q]
    BY <1>1 DEF SweepsOn
  <2> HIDE DEF q
  <2>3. proc'[i] = q /\ \A j \in Instances \ {i} : proc'[j] = proc[j]
    BY <2>2 DEF TypeOK
  <2>4. NoSweep.exec = None
    BY DEF NoSweep
  <2> QED
    BY <1>1, <2>1, <2>2, <2>3, <2>4 DEF TypeOK
<1>2. CASE listed # {}
  <2>1. PICK e \in listed :
           proc' = [proc EXCEPT ![i] = [r EXCEPT !.stranded = listed \ {e},
                                                 !.sweep = SweepOf(c, e),
                                                 !.tail = Append(@, "sweep")]]
    BY <1>2 DEF SweepsOn
  <2> DEFINE q == [r EXCEPT !.stranded = listed \ {e}, !.sweep = SweepOf(c, e),
                            !.tail = Append(@, "sweep")]
  <2>2. r.tail \in Seq(Writer) /\ "sweep" \in Writer
    BY DEF Proc, Writer
  <2>3. Append(r.tail, "sweep") \in Seq(Writer)
    BY <2>2
  <2>4. SweepOf(c, e) \in Sweep /\ SweepOf(c, e).exec = e
    BY SweepOfType DEF SweepOf
  <2>5. /\ q \in Proc /\ q.stranded = listed \ {e} /\ q.sweep = SweepOf(c, e)
        /\ q.removal = r.removal /\ q.mode = r.mode
    BY <2>3, <2>4 DEF Proc
  <2>6. proc' = [proc EXCEPT ![i] = q]
    BY <2>1
  <2> HIDE DEF q
  <2>7. proc'[i] = q /\ \A j \in Instances \ {i} : proc'[j] = proc[j]
    BY <2>6 DEF TypeOK
  <2> QED
    BY <2>4, <2>5, <2>6, <2>7 DEF TypeOK
<1> QED
  BY <1>1, <1>2

\* Every step of a process keeps TypeOK.
LEMMA ProcTypes ==
  ASSUME TypeOK, NEW i \in Instances, ProcStep(i)
  PROVE TypeOK'
<1> USE DEF store, ghosts
<1>0. /\ {"edit", "removal", "sweep"} \subseteq Writer
      /\ proc[i] \in Proc /\ cache[i] \in Store
      /\ proc[i].edit \in Edit /\ proc[i].removal \in Removal /\ proc[i].sweep \in Sweep
      /\ proc[i].tail \in Seq(Writer)
      /\ {"down", "booting", "serving", "draining"} \subseteq Mode
      /\ \A e \in Execs : ProjectOf[e] \in Projects /\ KeyOf[e] \in Keys
  BY ConstantsOK DEF Writer, TypeOK, Proc, Mode
<1>a. ASSUME NEW w, Turn(i, w)
      PROVE /\ Tail(proc[i].tail) \in Seq(Writer)
            /\ Settled(i, task) \in [Execs -> Task]
  BY <1>a, SettledTail, SettledType DEF TypeOK
<1>b. ASSUME NEW w \in Writer
      PROVE Append(proc[i].tail, w) \in Seq(Writer)
  BY <1>0, <1>b
<1>1. CASE EditCommit(i)
  <2> DEFINE w == proc[i].edit
  <2>1. w.project \in Projects /\ w.rec \in ProjectRec
    BY <1>1, <1>0 DEF EditCommit, Edit
  <2>2. db' \in Store /\ cache' \in [Instances -> Store]
    BY <1>1, <2>1 DEF EditCommit, TypeOK, Store
  <2>3. proc' \in [Instances -> Proc] /\ task' \in [Execs -> Task]
    BY <1>1, <1>a, ConstantTypes DEF EditCommit, TypeOK, Proc
  <2> QED
    BY <1>1, <2>2, <2>3 DEF EditCommit, TypeOK
<1>2. CASE DeleteCommit(i)
  <2> DEFINE r == proc[i].removal
  <2>1. r.project \in Projects
    BY <1>2, <1>0 DEF DeleteCommit, Removal
  <2>2. RemovalRows(db, r) \in Store /\ RemovalRows(cache[i], r) \in Store
    BY <1>0, RemovalRowsType DEF TypeOK
  <2>3. proc' \in [Instances -> Proc] /\ task' \in [Execs -> Task]
    BY <1>2, <1>a, ConstantTypes DEF DeleteCommit, TypeOK, Proc
  <2> QED
    BY <1>2, <2>1, <2>2, <2>3 DEF DeleteCommit, TypeOK
<1>3. CASE RequestFault(i)
  <2> DEFINE r == proc[i].removal
             w == proc[i].edit
  <2>1. CASE Turn(i, "edit") /\ w.project # None
    <3>0. ~Turn(i, "removal")
      BY <2>1 DEF Turn
    <3>1. w.project \in Projects /\ w.rec \in ProjectRec
      BY <2>1, <1>0 DEF Edit
    <3>2. [db EXCEPT !.project[w.project] = w.rec] \in Store
      BY <3>1 DEF TypeOK, Store
    <3>3. proc' \in [Instances -> Proc] /\ task' \in [Execs -> Task]
      BY <1>3, <2>1, <3>0, <1>a, ConstantTypes DEF RequestFault, TypeOK, Proc
    <3> QED
      BY <1>3, <3>0, <3>2, <3>3 DEF RequestFault, TypeOK
  <2>2. CASE Turn(i, "removal") /\ r.project # None
    <3>0. ~Turn(i, "edit")
      BY <2>2 DEF Turn
    <3>1. r.project \in Projects
      BY <2>2, <1>0 DEF Removal
    <3>2. RemovalRows(db, r) \in Store
      BY <1>0, RemovalRowsType DEF TypeOK
    <3>3. proc' \in [Instances -> Proc] /\ task' \in [Execs -> Task]
      BY <1>3, <2>2, <3>0, <1>a, ConstantTypes DEF RequestFault, TypeOK, Proc
    <3> QED
      BY <1>3, <3>0, <3>1, <3>2, <3>3 DEF RequestFault, TypeOK
  <2> QED
    BY <1>3, <2>1, <2>2 DEF RequestFault
<1>4. CASE Boot(i)
  <2>1. StrandedIn(db) \in SUBSET Execs /\ db \in Store
    BY DEF StrandedIn, TypeOK
  <2>2. [proc[i] EXCEPT !.mode = "booting"] \in Proc
    BY <1>0 DEF Proc
  <2>3. proc' \in [Instances -> Proc]
    BY <1>4, <2>1, <2>2, SweepsOnType DEF Boot
  <2>4. cache' \in [Instances -> Store] /\ taken' \subseteq Execs
    BY <1>4, <2>1 DEF Boot, TypeOK
  <2> QED
    BY <1>4, <2>3, <2>4 DEF Boot, TypeOK
<1>5. CASE Drain(i)
  <2>1. StrandedIn(cache[i]) \in SUBSET Execs
    BY DEF StrandedIn
  <2>2. [proc[i] EXCEPT !.mode = "draining"] \in Proc
    BY <1>0 DEF Proc
  <2>3. proc' \in [Instances -> Proc]
    BY <1>5, <1>0, <2>1, <2>2, SweepsOnType DEF Drain
  <2> QED
    BY <1>5, <2>1, <2>3 DEF Drain, TypeOK
<1>c. ASSUME Turn(i, "sweep"), proc[i].sweep.exec # None
      PROVE /\ proc[i].sweep.exec \in Execs
            /\ SweepRows(db, proc[i].sweep) \in Store
            /\ SweepRows(cache[i], proc[i].sweep) \in Store
            /\ [proc[i] EXCEPT !.tail = Tail(@)] \in Proc
            /\ proc[i].stranded \in SUBSET Execs
  <2>1. proc[i].sweep.exec \in Execs
    BY <1>c, <1>0 DEF Sweep
  <2>2. /\ SweepRows(db, proc[i].sweep) \in Store
        /\ SweepRows(cache[i], proc[i].sweep) \in Store
    BY <1>0, <2>1, SweepRowsType DEF TypeOK
  <2>3. [proc[i] EXCEPT !.tail = Tail(@)] \in Proc /\ proc[i].stranded \in SUBSET Execs
    BY <1>c, <1>0, <1>a DEF Proc
  <2> QED
    BY <2>1, <2>2, <2>3
<1>6. CASE SweepCommit(i)
  <2> DEFINE w == proc[i].sweep
             r == [proc[i] EXCEPT !.tail = Tail(@)]
  <2>0. Turn(i, "sweep") /\ w.exec # None
    BY <1>6 DEF SweepCommit
  <2>1. r.stranded = proc[i].stranded
    BY <1>0 DEF Proc
  <2>2. \E c \in Store : SweepsOn(i, r, r.stranded, c)
    BY <1>6, <2>0, <1>c, <1>0 DEF SweepCommit
  <2>3. proc' \in [Instances -> Proc]
    BY <2>0, <2>1, <2>2, <1>c, SweepsOnType
  <2>4. task' \in [Execs -> Task]
    BY <1>6, <2>0, <1>a DEF SweepCommit
  <2>5. db' \in Store /\ cache' \in [Instances -> Store] /\ recovered' \subseteq Execs
    BY <1>6, <2>0, <1>c DEF SweepCommit, TypeOK
  <2> QED
    BY <1>6, <2>3, <2>4, <2>5 DEF SweepCommit, TypeOK
<1>10. CASE SweepFault(i)
  <2>0. Turn(i, "sweep") /\ proc[i].sweep.exec # None
    BY <1>10 DEF SweepFault
  <2>1. proc' \in [Instances -> Proc] /\ task' \in [Execs -> Task]
    BY <1>10, <1>0, <2>0, <1>a, ConstantTypes DEF SweepFault, TypeOK, Proc
  <2>2. db' \in Store /\ recovered' \subseteq Execs /\ stops' \in Nat
    BY <1>10, <2>0, <1>c DEF SweepFault, TypeOK
  <2> QED
    BY <1>10, <2>1, <2>2 DEF SweepFault, TypeOK
<1>7. CASE Serve(i)
  <2>1. proc' \in [Instances -> Proc]
    BY <1>7, <1>0 DEF Serve, TypeOK, Proc
  <2> QED
    BY <1>7, <2>1 DEF Serve, TypeOK
<1>8. CASE Stop(i)
  <2>1. cache' \in [Instances -> Store] /\ proc' \in [Instances -> Proc]
    BY <1>8, ConstantTypes DEF Stop, TypeOK
  <2>2. task' \in [Execs -> Task]
    BY <1>8, ConstantTypes DEF Stop, TypeOK
  <2>3. stops' \in Nat
    BY <1>8 DEF Stop, TypeOK
  <2> QED
    BY <1>8, <2>1, <2>2, <2>3 DEF Stop, TypeOK
<1>9. ASSUME NEW e \in Execs, StartRequest(i, e)
      PROVE TypeOK'
  <2>1. /\ Queued(i) \in Nat /\ cache[i].project[ProjectOf[e]] \in ProjectRec
        /\ "startSelect" \in Pc
    BY <1>0, PcTypes DEF Queued, Store, StartPc
  <2>2. CASE cache[i].project[ProjectOf[e]].status = "absent"
    <3>1. answer' \in [Execs -> Answer]
      BY <1>9, <2>2 DEF StartRequest, Tell, TypeOK, Answer
    <3> QED
      BY <1>9, <2>2, <3>1, FinishedType DEF StartRequest, TypeOK
  <2>3. CASE cache[i].project[ProjectOf[e]].status # "absent"
    <3>1. task' = [task EXCEPT ![e].pc = "startSelect", ![e].inst = i,
                               ![e].behind = Queued(i),
                               ![e].pend = cache[i].project[ProjectOf[e]]]
      BY <1>9, <2>3 DEF StartRequest
    <3>2. task' \in [Execs -> Task]
      BY <3>1, <2>1 DEF TypeOK, Task
    <3> QED
      BY <1>9, <2>3, <3>2 DEF StartRequest, TypeOK
  <2> QED
    BY <2>2, <2>3
<1>11. ASSUME NEW p \in Projects, EditRequest(i, p)
       PROVE TypeOK'
  <2>1. [project |-> p, rec |-> cache[i].project[p]] \in Edit
    BY <1>0 DEF Store, Edit
  <2>2. proc' \in [Instances -> Proc]
    BY <1>11, <1>0, <1>b, <2>1 DEF EditRequest, TypeOK, Proc
  <2> QED
    BY <1>11, <2>2 DEF EditRequest, TypeOK
<1>12. ASSUME NEW p \in Projects, DeleteRequest(i, p)
       PROVE TypeOK'
  <2>1. RemovalOf(i, p) \in Removal
    BY DEF RemovalOf, Removal
  <2>2. proc' \in [Instances -> Proc]
    BY <1>12, <1>0, <1>b, <2>1 DEF DeleteRequest, TypeOK, Proc
  <2> QED
    BY <1>12, <2>2 DEF DeleteRequest, TypeOK
<1> QED
  BY <1>1, <1>2, <1>3, <1>4, <1>5, <1>6, <1>7, <1>8, <1>9, <1>10, <1>11, <1>12
  DEF ProcStep

\* Every record, queue and program point of the lifecycle keeps its type, in
\* particular a refresh never waits for a negative number of writes.
THEOREM TypeCorrect == Spec => []TypeOK
<1>1. Init => TypeOK
  <2> SUFFICES ASSUME Init PROVE TypeOK
    OBVIOUS
  <2>1. [status |-> "draft", count |-> 0] \in ProjectRec
    BY DEF ProjectRec, ProjectStatus
  <2>2. db \in Store
    BY <2>1, ConstantTypes DEF Init, Store
  <2> QED
    BY <2>2, ConstantTypes DEF Init, TypeOK, Answer, NoAnswer
<1>2. TypeOK /\ [Next]_vars => TypeOK'
  <2> SUFFICES ASSUME TypeOK, [Next]_vars PROVE TypeOK'
    OBVIOUS
  <2>1. CASE Next
    BY <2>1, StartTypes, WorkerTypes, ProcTypes DEF Next
  <2>2. CASE UNCHANGED vars
    BY <2>2 DEF vars, store, ghosts, TypeOK
  <2> QED
    BY <2>1, <2>2
<1> QED
  BY <1>1, <1>2, PTL DEF Spec
=============================================================================
