---------------------- MODULE GenerationLifecycleClaims ----------------------
(***************************************************************************)
(* Theorems: a running execution holds the claim of its project, a worker  *)
(* has a running record, and a terminal record is final.                   *)
(*                                                                         *)
(* RunningHoldsClaim is not inductive: an outcome, a sweep and a deletion  *)
(* drop the claim they know of, and each knows it from an earlier read.    *)
(* ClaimInv says what those reads are still worth when the batch commits.  *)
(***************************************************************************)
EXTENDS GenerationLifecycleTypes

-----------------------------------------------------------------------------
(***************************************************************************)
(* The inductive invariant                                                 *)
(***************************************************************************)

Clean(e) == ~Disturbed(ProjectOf[e])
\* No sweep has listed e while its worker was alive, and its project stands.
Untaken(e) == e \notin taken /\ ProjectOf[e] \notin deleted
Listed(e) == \E i \in Instances : e \in proc[i].stranded \/ proc[i].sweep.exec = e
NotStarted == {"new"} \cup StartPc
Deciding == {"outPublish", "outWrite"}

\* Nothing is known yet of an attempt that has not committed its start.
UnstartedIsUnknown ==
    \A e \in Execs :
        task[e].pc \in NotStarted =>
            /\ db.exec[e] = "absent"
            /\ \A i \in Instances : cache[i].exec[e] = "absent"
            /\ e \notin recovered
            /\ ~Listed(e)

\* A sweep that may still commit closes a running execution without a worker.
SweptIsStranded ==
    \A e \in Execs :
        Listed(e) /\ e \notin recovered /\ Untaken(e)
            => db.exec[e] = "running" /\ ~Live(e)

\* A cache that shows a run is that of its worker's process, or tells the truth.
CachedRunIsHomeOrDead ==
    \A i \in Instances, e \in Execs :
        cache[i].exec[e] = "running" /\ e \notin recovered /\ Untaken(e)
            => \/ Home(e) = i /\ task[e].pc \in LivePc \cup {"fatal"}
               \/ db.exec[e] = "running" /\ ~Live(e)

\* The store holds the run of a worker until it has an outcome.
LiveIsRunning ==
    \A e \in Execs :
        Live(e) /\ Untaken(e) /\ e \notin unacked => db.exec[e] = "running"

\* The claim an outcome has read is still there when its batch commits.
ReadClaimStands ==
    \A e \in Execs :
        /\ task[e].pc \in Deciding
        /\ task[e].snap.claim[ProjectOf[e]] = e
        /\ Clean(e)
        => db.claim[ProjectOf[e]] = e

ClaimInv ==
    /\ RunningHoldsClaim
    /\ UnstartedIsUnknown
    /\ SweptIsStranded
    /\ CachedRunIsHomeOrDead
    /\ LiveIsRunning
    /\ ReadClaimStands

\* A deletion removes executions of its own project only.
RemovalIsOwn ==
    \A i \in Instances :
        \A e \in proc[i].removal.execs \cup proc[i].removal.hists :
            ProjectOf[e] = proc[i].removal.project

-----------------------------------------------------------------------------
(***************************************************************************)
(* Quiet steps: those that change no execution and no claim                *)
(***************************************************************************)

Kept(x) == /\ task'[x].pc = task[x].pc
           /\ task'[x].inst = task[x].inst
           /\ task'[x].snap = task[x].snap

\* What a quiet step may do to the task of an attempt: never start it, never
\* revive it, and end a worker only if its own cache does not show it running.
TaskQuiet(e) ==
    /\ task'[e].pc \in NotStarted => task[e].pc \in NotStarted
    /\ task'[e].pc \in LivePc => task[e].pc \in LivePc
    /\ task[e].pc \in LivePc \cup {"fatal"}
         => \/ task'[e].pc \in LivePc \cup {"fatal"} /\ task'[e].inst = task[e].inst
            \/ cache[Home(e)].exec[e] # "running"
    /\ task'[e].pc \in Deciding
         => \/ task[e].pc \in Deciding /\ task'[e].snap = task[e].snap
            \/ task'[e].snap.claim = db.claim

Quiet ==
    /\ db'.exec = db.exec /\ db'.claim = db.claim
    /\ \A i \in Instances : cache'[i].exec = cache[i].exec
    /\ recovered' = recovered /\ deleted \subseteq deleted'
    /\ taken \subseteq taken' /\ unacked \subseteq unacked'
    /\ \A e \in Execs : Listed(e)' => Listed(e)
    /\ \A e \in Execs : Kept(e) \/ TaskQuiet(e)

\* A disturbed project stays disturbed.
LEMMA CleanStays ==
  ASSUME deleted \subseteq deleted', taken \subseteq taken', NEW e
  PROVE (Clean(e)' => Clean(e)) /\ (Untaken(e)' => Untaken(e))
BY DEF Clean, Disturbed, Untaken

\* An execution of an undisturbed project is not taken itself.
LEMMA CleanIsUntaken ==
  ASSUME NEW e \in Execs, Clean(e)
  PROVE Untaken(e)
BY DEF Clean, Disturbed, Untaken

\* A quiet step keeps ClaimInv.
LEMMA QuietKeepsClaimInv ==
  ASSUME TypeOK, ClaimInv, Quiet
  PROVE ClaimInv'
<1>0. \A e \in Execs : TaskQuiet(e)
  BY DEF Quiet, Kept, TaskQuiet
<1>1. \A e \in Execs : /\ Clean(e)' => Clean(e)
                       /\ Untaken(e)' => Untaken(e)
                       /\ Live(e)' => Live(e)
  BY <1>0, CleanStays DEF Quiet, TaskQuiet, Live
<1>2. RunningHoldsClaim'
  BY <1>1 DEF ClaimInv, RunningHoldsClaim, Quiet, Clean
<1>3. UnstartedIsUnknown'
  BY <1>0 DEF ClaimInv, UnstartedIsUnknown, Quiet, TaskQuiet
<1>4. SweptIsStranded'
  BY <1>1 DEF ClaimInv, SweptIsStranded, Quiet
<1>5. CachedRunIsHomeOrDead'
  BY <1>0, <1>1 DEF ClaimInv, CachedRunIsHomeOrDead, Quiet, TaskQuiet, Home
<1>6. ReadClaimStands'
  BY <1>0, <1>1 DEF ClaimInv, ReadClaimStands, Quiet, TaskQuiet
<1>7. LiveIsRunning'
  BY <1>1 DEF ClaimInv, LiveIsRunning, Quiet
<1> QED
  BY <1>2, <1>3, <1>4, <1>5, <1>6, <1>7 DEF ClaimInv

\* What Settled leaves alone.
LEMMA SettledKeeps ==
  ASSUME NEW t \in [Execs -> Task], NEW i, NEW x \in Execs
  PROVE /\ Settled(i, t)[x].pc = t[x].pc
        /\ Settled(i, t)[x].inst = t[x].inst
        /\ Settled(i, t)[x].snap = t[x].snap
BY DEF Settled, Task

\* A write that changes the task of e and settles leaves the other tasks at their
\* program points.
LEMMA SettledStep ==
  ASSUME TypeOK, NEW e \in Execs, NEW i, NEW r \in Task,
         task' = Settled(i, [task EXCEPT ![e] = r])
  PROVE /\ \A x \in Execs \ {e} : Kept(x)
        /\ task'[e].pc = r.pc /\ task'[e].inst = r.inst /\ task'[e].snap = r.snap
<1> DEFINE t == [task EXCEPT ![e] = r]
<1>1. t \in [Execs -> Task] /\ t[e] = r /\ \A x \in Execs \ {e} : t[x] = task[x]
  BY DEF TypeOK
<1>2. task' = Settled(i, t)
  OBVIOUS
<1> HIDE DEF t
<1>3. \A x \in Execs : /\ Settled(i, t)[x].pc = t[x].pc
                       /\ Settled(i, t)[x].inst = t[x].inst
                       /\ Settled(i, t)[x].snap = t[x].snap
  BY <1>1, SettledKeeps
<1> QED
  BY <1>1, <1>2, <1>3 DEF Kept

\* A task that throws goes to the catch block or dies, on its own process.
LEMMA ThrownTask ==
  ASSUME TypeOK, NEW e \in Execs
  PROVE \E r \in Task : /\ Thrown(e) = [task EXCEPT ![e] = r]
                        /\ r.pc \in {"finish", "fatal"} /\ r.inst = task[e].inst
<1>1. /\ Thrown(e) \in [Execs -> Task]
      /\ Thrown(e) = [task EXCEPT ![e] = Thrown(e)[e]]
      /\ Thrown(e)[e].pc \in {"finish", "fatal"} /\ Thrown(e)[e].inst = task[e].inst
  BY FinishedType DEF Thrown, TypeOK, NewTask
<1> QED
  BY <1>1

\* Every step of a start that changes no row is quiet.
LEMMA QuietStart ==
  ASSUME TypeOK, TypeOK', NEW e \in Execs, StartStep(e), db' = db,
         ~StartCommit(e)
  PROVE Quiet
<1> USE DEF store, ghosts, NotStarted, StartPc, LivePc, WorkerPc, BridgePc,
            OutcomePc, Deciding
<1>1. CASE StartSelect(e)
  BY <1>1 DEF StartSelect, ReadAt, At, Quiet, Kept, TaskQuiet, TypeOK, Task, Listed
<1>2. CASE StartPrepare(e)
  BY <1>2
  DEF StartPrepare, Published, Enqueue, At, Quiet, Kept, TaskQuiet, TypeOK, Task,
      Listed, Proc, Store
<1>3. CASE StartRefused(e)
  BY <1>3
  DEF StartRefused, Published, At, Quiet, Kept, TaskQuiet, TypeOK, Task, Listed,
      Store, Finished, DoneTask, NewTask
<1>4. CASE StartReplay(e)
  BY <1>4
  DEF StartReplay, Published, At, Quiet, Kept, TaskQuiet, TypeOK, Task, Listed,
      Store, Finished, DoneTask, NewTask
<1>5. CASE StartConflict(e)
  <2>0. At(e, "startWrite") /\ task[e].pc = "startWrite"
    BY <1>5 DEF StartConflict, WriteAt, At
  <2>1. CASE ClaimTaken(e)
    <3>1. task' = [Settled(Home(e), task) EXCEPT ![e].pc = "claimSelect",
                                              ![e].behind = Queued(Home(e)) - 1,
                                              ![e].pend = NoProject]
      BY <1>5, <2>1 DEF StartConflict
    <3>2. \A x \in Execs : /\ Settled(Home(e), task)[x].pc = task[x].pc
                           /\ Settled(Home(e), task)[x].inst = task[x].inst
                           /\ Settled(Home(e), task)[x].snap = task[x].snap
      BY SettledKeeps DEF TypeOK
    <3>3. Settled(Home(e), task) \in [Execs -> Task]
      BY DEF TypeOK, Settled, Task
    <3>4. (\A x \in Execs \ {e} : Kept(x)) /\ task'[e].pc = "claimSelect"
      BY <3>1, <3>2, <3>3 DEF Kept, Task
    <3> QED
      BY <1>5, <2>0, <3>4
      DEF StartConflict, Dequeue, Quiet, TypeOK, Listed, Proc, TaskQuiet
  <2>2. CASE ~ClaimTaken(e)
    <3>1. task' = Settled(Home(e), [task EXCEPT ![e] = DoneTask])
      BY <1>5, <2>2 DEF StartConflict, Finished
    <3>2. (\A x \in Execs \ {e} : Kept(x)) /\ task'[e].pc = "done"
      BY <3>1, SettledStep, ConstantTypes DEF DoneTask, NewTask
    <3> QED
      BY <1>5, <2>0, <3>2
      DEF StartConflict, Dequeue, Quiet, TypeOK, Listed, Proc, TaskQuiet
  <2> QED
    BY <2>1, <2>2
<1>6. CASE ClaimSelect(e)
  BY <1>6 DEF ClaimSelect, ReadAt, At, Quiet, Kept, TaskQuiet, TypeOK, Task, Listed
<1>7. CASE ClaimPublish(e)
  BY <1>7
  DEF ClaimPublish, At, Quiet, Kept, TaskQuiet, TypeOK, Task, Listed, Store,
      Finished, DoneTask, NewTask
<1>8. CASE StartFault(e)
  <2>0. UNCHANGED <<recovered, cache, deleted, taken, unacked>>
    BY <1>8 DEF StartFault
  <2>1. CASE WriteAt(e, "startWrite")
    <3>1. /\ task[e].pc = "startWrite"
          /\ proc' = [proc EXCEPT ![Home(e)].tail = Tail(@)]
          /\ task' = Settled(Home(e), [task EXCEPT ![e] = DoneTask])
      BY <1>8, <2>1 DEF StartFault, ReadAt, WriteAt, At, Finished, Dequeue
    <3>2. (\A x \in Execs \ {e} : Kept(x)) /\ task'[e].pc = "done"
      BY <3>1, SettledStep, ConstantTypes DEF DoneTask, NewTask
    <3> QED
      BY <2>0, <3>1, <3>2 DEF Quiet, TypeOK, Listed, Proc, TaskQuiet
  <2>2. CASE ~WriteAt(e, "startWrite")
    <3>1. /\ task[e].pc \in StartPc
          /\ proc' = proc
          /\ task' = [task EXCEPT ![e] = DoneTask]
      BY <1>8, <2>2 DEF StartFault, ReadAt, At, Finished
    <3>2. (\A x \in Execs \ {e} : Kept(x)) /\ task'[e].pc = "done"
      BY <3>1 DEF TypeOK, Kept, DoneTask, NewTask
    <3> QED
      BY <2>0, <3>1, <3>2 DEF Quiet, TypeOK, Listed, Proc, TaskQuiet
  <2> QED
    BY <2>1, <2>2
<1> QED
  BY <1>1, <1>2, <1>3, <1>4, <1>5, <1>6, <1>7, <1>8 DEF StartStep

\* Every step of a worker but an applied outcome batch is quiet.
LEMMA QuietWorker ==
  ASSUME TypeOK, TypeOK', NEW e \in Execs, WorkerStep(e), ~OutcomeCommit(e),
         OutcomeFault(e) => db' = db
  PROVE Quiet
<1> USE DEF store, ghosts, NotStarted, StartPc, LivePc, WorkerPc, BridgePc,
            OutcomePc, Deciding
<1>1. CASE RunNext(e)
  BY <1>1 DEF RunNext, Goto, At, Quiet, Kept, TaskQuiet, TypeOK, Task, Listed
<1>2. CASE DagSucceeds(e)
  <2>1. PICK o : task' = [task EXCEPT ![e].pc = "finish", ![e].outcome = o]
    BY <1>2 DEF DagSucceeds
  <2> QED
    BY <1>2, <2>1 DEF DagSucceeds, At, Quiet, Kept, TaskQuiet, TypeOK, Task, Listed
<1>3. CASE DagFails(e)
  <2>0. HistoryNext(e) \in {"bridgeHist", "finish"}
    BY DEF HistoryNext
  <2>1. /\ \A x \in Execs \ {e} : Kept(x)
        /\ task'[e].pc \in {"bridgeProject", "bridgeHist", "finish"}
        /\ task'[e].inst = task[e].inst
    BY <1>3, <2>0 DEF DagFails, Kept, TypeOK, Task
  <2>2. \E q : proc' = [proc EXCEPT ![Home(e)].tail = q]
    BY <1>3 DEF DagFails, Enqueue
  <2>3. task[e].pc = "running" /\ UNCHANGED <<store, cache, ghosts>>
    BY <1>3 DEF DagFails, At
  <2> QED
    BY <2>1, <2>2, <2>3 DEF Quiet, TaskQuiet, TypeOK, Listed, Proc
<1>4. CASE BridgeProject(e)
  <2>1. HistoryNext(e) \in {"bridgeHist", "finish"}
    BY DEF HistoryNext
  <2> DEFINE r == [task[e] EXCEPT !.pc = HistoryNext(e), !.pend = NoProject]
  <2>2. r \in Task /\ task' = Settled(Home(e), [task EXCEPT ![e] = r])
    BY <1>4, <2>1, TaskOf, PcTypes, ConstantTypes DEF BridgeProject, TypeOK, Task
  <2>3. /\ \A x \in Execs \ {e} : Kept(x)
        /\ task'[e].pc = HistoryNext(e)
        /\ task'[e].inst = task[e].inst
    BY <2>2, SettledStep, TaskOf DEF Task
  <2>4. task[e].pc = "bridgeProject"
    BY <1>4 DEF BridgeProject, WriteAt, At
  <2>5. \E q : proc' = [proc EXCEPT ![Home(e)].tail = q]
    BY <1>4 DEF BridgeProject
  <2> QED
    BY <1>4, <2>1, <2>3, <2>4, <2>5
    DEF BridgeProject, Quiet, TaskQuiet, TypeOK, Listed, Proc, Store
<1>5. CASE BridgeHist(e)
  <2> DEFINE r == [task[e] EXCEPT !.pc = "finish"]
  <2>1. r \in Task /\ task' = Settled(Home(e), [task EXCEPT ![e] = r])
    BY <1>5, TaskOf, PcTypes DEF BridgeHist, Goto, TypeOK, Task
  <2>2. /\ \A x \in Execs \ {e} : Kept(x)
        /\ task'[e].pc = "finish"
        /\ task'[e].inst = task[e].inst
    BY <2>1, SettledStep, TaskOf DEF Task
  <2> QED
    BY <1>5, <2>2
    DEF BridgeHist, WriteAt, At, Dequeue, Quiet, TaskQuiet, TypeOK, Listed, Proc,
        Store
<1>6. CASE BridgeFault(e)
  <2> DEFINE r == [task[e] EXCEPT !.pc = "finish", !.pend = NoProject]
  <2>1. r \in Task /\ task' = Settled(Home(e), [task EXCEPT ![e] = r])
    BY <1>6, TaskOf, PcTypes, ConstantTypes DEF BridgeFault, TypeOK, Task
  <2>2. /\ \A x \in Execs \ {e} : Kept(x)
        /\ task'[e].pc = "finish"
        /\ task'[e].inst = task[e].inst
    BY <2>1, SettledStep, TaskOf DEF Task
  <2>3. task[e].pc \in BridgePc
    BY <1>6 DEF BridgeFault, WriteAt, At
  <2>4. db'.exec = db.exec /\ db'.claim = db.claim
    BY <1>6 DEF BridgeFault, TypeOK, Store
  <2> QED
    BY <1>6, <2>2, <2>3, <2>4
    DEF BridgeFault, Dequeue, Quiet, TaskQuiet, TypeOK, Listed, Proc
<1>a. /\ Finished(e) = [task EXCEPT ![e] = DoneTask] /\ DoneTask.pc = "done"
      /\ \E r \in Task : /\ Thrown(e) = [task EXCEPT ![e] = r]
                        /\ r.pc \in {"finish", "fatal"} /\ r.inst = task[e].inst
  BY ThrownTask DEF Finished, DoneTask, NewTask
<1>7. CASE OutcomeBegin(e)
  <2>0. task[e].pc = "finish" /\ UNCHANGED <<store, cache, proc, ghosts>>
    BY <1>7 DEF OutcomeBegin, At
  <2>1. CASE cache[Home(e)].exec[e] = "absent"
    <3>1. task' = Finished(e)
      BY <1>7, <2>1 DEF OutcomeBegin
    <3> QED
      BY <1>a, <2>0, <2>1, <3>1 DEF Quiet, Kept, TaskQuiet, TypeOK, Listed
  <2>2. CASE task' = Thrown(e)
    BY <1>a, <2>0, <2>2 DEF Quiet, Kept, TaskQuiet, TypeOK, Listed
  <2>3. CASE cache[Home(e)].exec[e] # "absent" /\ task' # Thrown(e)
    BY <1>7, <2>0, <2>3 DEF OutcomeBegin, Quiet, Kept, TaskQuiet, TypeOK, Task, Listed
  <2> QED
    BY <2>1, <2>2, <2>3
<1>8. CASE OutcomeSelect(e)
  BY <1>8
  DEF OutcomeSelect, ClaimsOnly, EmptyStore, StartCollections, ReadAt, At, Quiet,
      Kept, TaskQuiet, TypeOK, Task, Listed
<1>9. CASE OutcomePublish(e)
  BY <1>9
  DEF OutcomePublish, Goto, Enqueue, At, Quiet, Kept, TaskQuiet, TypeOK, Task,
      Listed, Proc, Store
<1>10. CASE OutcomeFault(e)
  <2>0. PICK r \in Task : /\ Thrown(e) = [task EXCEPT ![e] = r]
                         /\ r.pc \in {"finish", "fatal"} /\ r.inst = task[e].inst
    BY <1>a
  <2>1. CASE ReadAt(e, "outSelect")
    <3>1. task[e].pc = "outSelect" /\ task' = Thrown(e) /\ UNCHANGED proc
      BY <1>10, <2>1 DEF OutcomeFault, ReadAt, WriteAt, At
    <3> QED
      BY <1>10, <2>0, <3>1 DEF OutcomeFault, Quiet, Kept, TaskQuiet, TypeOK, Listed
  <2>2. CASE WriteAt(e, "outWrite")
    <3>1. /\ task[e].pc = "outWrite" /\ task' = Settled(Home(e), Thrown(e))
          /\ proc' = [proc EXCEPT ![Home(e)].tail = Tail(@)]
      BY <1>10, <2>2 DEF OutcomeFault, ReadAt, WriteAt, At, Dequeue
    <3>2. /\ \A x \in Execs \ {e} : Kept(x)
          /\ task'[e].pc = r.pc
          /\ task'[e].inst = r.inst
      BY <2>0, <3>1, SettledStep
    <3> QED
      BY <1>10, <2>0, <3>1, <3>2
      DEF OutcomeFault, Quiet, TaskQuiet, TypeOK, Listed, Proc
  <2> QED
    BY <1>10, <2>1, <2>2 DEF OutcomeFault
<1> QED
  BY <1>1, <1>2, <1>3, <1>4, <1>5, <1>6, <1>7, <1>8, <1>9, <1>10 DEF WorkerStep

\* A write that settles and belongs to no task leaves every program point alone.
LEMMA SettledAll ==
  ASSUME TypeOK, NEW i, task' = Settled(i, task)
  PROVE \A x \in Execs : Kept(x)
BY SettledKeeps DEF TypeOK, Kept

\* A sweep batch that settles is followed by one of the executions still listed.
LEMMA SweepStep ==
  ASSUME TypeOK, NEW i \in Instances, SweepCommit(i)
  PROVE /\ proc[i].sweep.exec \in Execs
        /\ \A j \in Instances \ {i} : proc'[j] = proc[j]
        /\ proc'[i].stranded \subseteq proc[i].stranded
        /\ proc'[i].sweep.exec \in proc[i].stranded \cup {None}
        /\ proc'[i].removal = proc[i].removal
<1> DEFINE w == proc[i].sweep
           r == [proc[i] EXCEPT !.tail = Tail(@)]
<1>1. Turn(i, "sweep") /\ w.exec \in Execs
  BY DEF SweepCommit, TypeOK, Proc, Sweep
<1>2. /\ r \in Proc /\ r.stranded = proc[i].stranded /\ r.removal = proc[i].removal
      /\ proc[i].stranded \in SUBSET Execs
  <2>1. Tail(proc[i].tail) \in Seq(Writer)
    BY <1>1, SettledTail
  <2> QED
    BY <2>1 DEF TypeOK, Proc
<1>3. SweepRows(cache[i], w) \in Store /\ cache[i] \in Store
  BY <1>1, SweepRowsType DEF TypeOK, Proc
<1>4. PICK c \in Store : SweepsOn(i, r, r.stranded, c)
  BY <1>3 DEF SweepCommit
<1> HIDE DEF r
<1>5. SweepsOn(i, r, proc[i].stranded, c)
  BY <1>2, <1>4
<1>6. /\ \A j \in Instances \ {i} : proc'[j] = proc[j]
      /\ proc'[i].stranded \subseteq proc[i].stranded
      /\ proc'[i].sweep.exec \in proc[i].stranded \cup {None}
      /\ proc'[i].removal = r.removal
  BY <1>2, <1>5, SweepsOnType
<1> QED
  BY <1>1, <1>2, <1>6

\* The steps of a process that list, close and erase nothing are quiet.
LEMMA QuietProc ==
  ASSUME TypeOK, TypeOK', NEW i \in Instances,
         \/ EditCommit(i) \/ Serve(i)
         \/ RequestFault(i) /\ db'.exec = db.exec /\ db'.claim = db.claim
         \/ SweepCommit(i) /\ proc[i].sweep.exec \in recovered
         \/ SweepFault(i) /\ recovered' = recovered
         \/ \E e \in Execs : StartRequest(i, e)
         \/ \E p \in Projects : EditRequest(i, p) \/ DeleteRequest(i, p)
  PROVE Quiet
<1> USE DEF store, ghosts, NotStarted, StartPc, LivePc, WorkerPc, BridgePc,
            OutcomePc, Deciding
<1>0. NoSweep.exec = None /\ None \notin Execs
  BY ConstantsOK DEF NoSweep
<1>1. CASE EditCommit(i)
  BY <1>1, SettledAll DEF EditCommit, Quiet, TypeOK, Listed, Proc, Store
<1>2. CASE Serve(i)
  BY <1>2 DEF Serve, Quiet, Kept, TypeOK, Listed, Proc
<1>3. CASE RequestFault(i) /\ db'.exec = db.exec /\ db'.claim = db.claim
  <2>1. \A x \in Execs : Kept(x)
    BY <1>3, SettledAll DEF RequestFault
  <2>2. \A j \in Instances : /\ proc'[j].stranded = proc[j].stranded
                             /\ proc'[j].sweep = proc[j].sweep
    <3>1. \/ proc' = [proc EXCEPT ![i].edit = NoEdit, ![i].tail = Tail(@)]
          \/ proc' = [proc EXCEPT ![i].removal = NoRemoval, ![i].tail = Tail(@)]
      BY <1>3 DEF RequestFault
    <3>2. CASE proc' = [proc EXCEPT ![i].edit = NoEdit, ![i].tail = Tail(@)]
      BY <3>2 DEF TypeOK, Proc
    <3>3. CASE proc' = [proc EXCEPT ![i].removal = NoRemoval, ![i].tail = Tail(@)]
      BY <3>3 DEF TypeOK, Proc
    <3> QED
      BY <3>1, <3>2, <3>3
  <2>3. UNCHANGED <<recovered, cache, taken, unacked>> /\ deleted \subseteq deleted'
    BY <1>3 DEF RequestFault
  <2> QED
    BY <1>3, <2>1, <2>2, <2>3 DEF Quiet, Listed
<1>4. CASE SweepCommit(i) /\ proc[i].sweep.exec \in recovered
  <2>1. /\ \A x \in Execs : Kept(x)
        /\ UNCHANGED <<db, recovered, cache, deleted, taken, unacked>>
    BY <1>4, SettledAll DEF SweepCommit
  <2>2. /\ \A j \in Instances \ {i} : proc'[j] = proc[j]
        /\ proc'[i].stranded \subseteq proc[i].stranded
        /\ proc'[i].sweep.exec \in proc[i].stranded \cup {None}
    BY <1>4, SweepStep DEF SweepCommit
  <2> QED
    BY <2>1, <2>2, <1>0 DEF Quiet, Listed
<1>6. CASE SweepFault(i) /\ recovered' = recovered
  <2>1. \A x \in Execs : Kept(x)
    BY <1>6, SettledAll DEF SweepFault
  <2>2. UNCHANGED <<db, recovered, cache, deleted, taken, unacked>>
    BY <1>6 DEF SweepFault
  <2>3. /\ \A j \in Instances \ {i} : proc'[j] = proc[j]
        /\ proc'[i].stranded = {} /\ proc'[i].sweep = NoSweep
    BY <1>6 DEF SweepFault, TypeOK, Proc
  <2> QED
    BY <2>1, <2>2, <2>3, <1>0 DEF Quiet, Listed
<1>5. ASSUME NEW e \in Execs, StartRequest(i, e)
      PROVE Quiet
  <2>1. task[e].pc = "new" /\ UNCHANGED <<store, cache, proc, ghosts>>
    BY <1>5 DEF StartRequest
  <2>2. task'[e].pc \in {"done", "startSelect"} /\ \A x \in Execs \ {e} : Kept(x)
    <3>1. CASE task' = [task EXCEPT ![e] = DoneTask]
      BY <3>1 DEF TypeOK, Kept, DoneTask, NewTask
    <3>2. CASE task' = [task EXCEPT ![e].pc = "startSelect", ![e].inst = i,
                                    ![e].behind = Queued(i),
                                    ![e].pend = cache[i].project[ProjectOf[e]]]
      BY <3>2 DEF TypeOK, Task, Kept
    <3> QED
      BY <1>5, <3>1, <3>2 DEF StartRequest, Finished
  <2> QED
    BY <2>1, <2>2 DEF Quiet, TaskQuiet, Listed
<1>7. ASSUME NEW p \in Projects, EditRequest(i, p) \/ DeleteRequest(i, p)
      PROVE Quiet
  <2>1. /\ \A j \in Instances : /\ proc'[j].stranded = proc[j].stranded
                                /\ proc'[j].sweep = proc[j].sweep
        /\ UNCHANGED <<store, cache, task, ghosts>>
    BY <1>7 DEF EditRequest, DeleteRequest, TypeOK, Proc
  <2> QED
    BY <2>1 DEF Quiet, Kept, Listed
<1> QED
  BY <1>1, <1>2, <1>3, <1>4, <1>5, <1>6, <1>7

-----------------------------------------------------------------------------
(***************************************************************************)
(* The steps that change, list or lose an execution or a claim             *)
(***************************************************************************)

\* An applied start batch keeps ClaimInv: it requires that there be no claim, so
\* no clean execution of the project is running.
LEMMA StartKeepsClaimInv ==
  ASSUME TypeOK, TypeOK', ClaimInv, NEW e \in Execs,
         StartCommit(e) \/ (StartFault(e) /\ db' # db)
  PROVE ClaimInv'
<1> DEFINE i == Home(e)
           p == ProjectOf[e]
<1> USE DEF store, ghosts, NotStarted, StartPc, LivePc, WorkerPc, BridgePc,
            OutcomePc, Deciding
<1>0. /\ p \in Projects /\ i \in Instances /\ task[e].pc = "startWrite"
      /\ \A x \in Execs : ProjectOf[x] \in Projects
      /\ db.claim[p] = None /\ None \notin Execs
      /\ db' = StartRows(db, e)
      /\ UNCHANGED <<recovered, deleted, taken>>
      /\ proc' = [proc EXCEPT ![i].tail = Tail(@)]
  BY ConstantsOK DEF StartCommit, StartFault, ReadAt, WriteAt, At, ClaimTaken, Dequeue
<1>1. /\ \A x \in Execs \ {e} : Kept(x)
      /\ \/ task'[e].pc = "queued" /\ task'[e].inst = i
         \/ task'[e].pc = "done" /\ cache' = cache
  <2>1. CASE StartCommit(e)
    <3> DEFINE r == [task[e] EXCEPT !.pc = "queued", !.pend = NoProject]
    <3>1. r \in Task /\ task' = Settled(i, [task EXCEPT ![e] = r])
      BY <2>1, TaskOf, PcTypes, ConstantTypes DEF StartCommit, TypeOK, Task
    <3>2. /\ \A x \in Execs \ {e} : Kept(x)
          /\ task'[e].pc = r.pc
          /\ task'[e].inst = r.inst
      BY <3>1, SettledStep
    <3> QED
      BY <3>2, TaskOf DEF Task, Home
  <2>2. CASE StartFault(e)
    <3>1. cache' = cache /\ task' = Settled(i, [task EXCEPT ![e] = DoneTask])
      BY <2>2, <1>0 DEF StartFault, ReadAt, At, Finished
    <3> QED
      BY <3>1, SettledStep, ConstantTypes DEF DoneTask, NewTask
  <2> QED
    BY <2>1, <2>2
<1>2. /\ \A j \in Instances, x \in Execs \ {e} : cache'[j].exec[x] = cache[j].exec[x]
      /\ \A j \in Instances \ {i} : cache'[j].exec[e] = cache[j].exec[e]
  <2>1. cache' = cache \/ cache' = [cache EXCEPT ![i] = StartRows(@, e)]
    BY DEF StartCommit, StartFault
  <2>2. CASE cache' = [cache EXCEPT ![i] = StartRows(@, e)]
    <3>1. cache'[i].exec = [cache[i].exec EXCEPT ![e] = "running"]
      BY <1>0, <2>2 DEF StartRows, TypeOK, Store
    <3>2. \A j \in Instances \ {i} : cache'[j] = cache[j]
      BY <2>2 DEF TypeOK
    <3>3. cache[i].exec \in [Execs -> RunStatus]
      BY <1>0 DEF TypeOK, Store
    <3> QED
      BY <1>0, <3>1, <3>2, <3>3
  <2> QED
    BY <2>1, <2>2
<1>3. /\ db'.exec = [db.exec EXCEPT ![e] = "running"]
      /\ db'.claim = [db.claim EXCEPT ![p] = e]
  BY <1>0 DEF StartRows, TypeOK, Store
<1>4. \A x \in Execs : /\ Listed(x)' <=> Listed(x)
                       /\ Clean(x)' <=> Clean(x)
                       /\ Untaken(x)' <=> Untaken(x)
  BY <1>0 DEF Listed, TypeOK, Proc, Clean, Disturbed, Untaken
<1>x. db.exec \in [Execs -> RunStatus] /\ db.claim \in [Projects -> Execs \cup {None}]
  BY DEF TypeOK, Store
<1>u. unacked' = unacked
  BY DEF StartCommit, StartFault
<1> HIDE DEF p, i
<1>5. RunningHoldsClaim'
  <2> SUFFICES ASSUME NEW x \in Execs, db'.exec[x] = "running", Clean(x)'
               PROVE db'.claim[ProjectOf[x]] = x
    BY DEF RunningHoldsClaim, Clean
  <2>1. CASE x = e
    BY <2>1, <1>0, <1>3, <1>x DEF p
  <2>2. CASE x # e
    <3>1. db.claim[ProjectOf[x]] = x
      BY <2>2, <1>3, <1>4, <1>x DEF ClaimInv, RunningHoldsClaim, Clean
    <3> QED
      BY <3>1, <1>0, <1>3, <1>x
  <2> QED
    BY <2>1, <2>2
<1>6. UnstartedIsUnknown'
  BY <1>0, <1>1, <1>2, <1>3, <1>4, <1>x DEF ClaimInv, UnstartedIsUnknown, Kept
<1>7. SweptIsStranded'
  <2>1. ~Listed(e)
    BY <1>0 DEF ClaimInv, UnstartedIsUnknown
  <2> QED
    BY <1>0, <1>1, <1>3, <1>4, <1>x, <2>1 DEF ClaimInv, SweptIsStranded, Kept, Live
<1>8. CachedRunIsHomeOrDead'
  <2> SUFFICES ASSUME NEW j \in Instances, NEW x \in Execs,
                      cache'[j].exec[x] = "running",
                      x \notin recovered, Untaken(x)
               PROVE \/ task'[x].inst = j /\ task'[x].pc \in LivePc \cup {"fatal"}
                     \/ db'.exec[x] = "running" /\ task'[x].pc \notin LivePc
    BY <1>0, <1>4 DEF CachedRunIsHomeOrDead, Live, Home
  <2>1. CASE x = e
    <3>1. \A k \in Instances : cache[k].exec[e] # "running"
      BY <1>0 DEF ClaimInv, UnstartedIsUnknown
    <3> QED
      BY <2>1, <3>1, <1>0, <1>1, <1>2
  <2>2. CASE x # e
    <3>1. cache[j].exec[x] = "running" /\ Kept(x) /\ db'.exec[x] = db.exec[x]
      BY <2>2, <1>1, <1>2, <1>3, <1>x
    <3> QED
      BY <3>1 DEF ClaimInv, CachedRunIsHomeOrDead, Kept, Home, Live
  <2> QED
    BY <2>1, <2>2
<1>9. ReadClaimStands'
  <2> SUFFICES ASSUME NEW x \in Execs, task'[x].pc \in Deciding,
                      task'[x].snap.claim[ProjectOf[x]] = x, Clean(x)
               PROVE db'.claim[ProjectOf[x]] = x
    BY <1>4 DEF ReadClaimStands
  <2>1. x # e /\ Kept(x)
    BY <1>1
  <2>2. db.claim[ProjectOf[x]] = x
    BY <2>1 DEF ClaimInv, ReadClaimStands, Kept
  <2> QED
    BY <2>2, <1>0, <1>3, <1>x
<1>10. LiveIsRunning'
  <2> SUFFICES ASSUME NEW x \in Execs, Live(x)', Untaken(x), x \notin unacked
               PROVE db'.exec[x] = "running"
    BY <1>4, <1>u DEF LiveIsRunning
  <2>1. x # e => db.exec[x] = "running"
    BY <1>1 DEF ClaimInv, LiveIsRunning, Kept, Live
  <2> QED
    BY <2>1, <1>3, <1>x
<1> QED
  BY <1>5, <1>6, <1>7, <1>8, <1>9, <1>10 DEF ClaimInv

\* An applied outcome batch keeps ClaimInv: a claim it drops is still its own.
LEMMA OutcomeKeepsClaimInv ==
  ASSUME TypeOK, TypeOK', ClaimInv, NEW e \in Execs,
         OutcomeCommit(e) \/ (OutcomeFault(e) /\ db' # db)
  PROVE ClaimInv'
<1> DEFINE i == Home(e)
           p == ProjectOf[e]
<1> USE DEF store, ghosts, NotStarted, StartPc, LivePc, WorkerPc, BridgePc,
            OutcomePc, Deciding
<1>0. /\ p \in Projects /\ i \in Instances /\ task[e].pc = "outWrite"
      /\ \A x \in Execs : ProjectOf[x] \in Projects
      /\ None \notin Execs
      /\ db' = OutcomeRows(db, e)
      /\ UNCHANGED <<recovered, deleted, taken>>
      /\ proc' = [proc EXCEPT ![i].tail = Tail(@)]
  BY ConstantsOK DEF OutcomeCommit, OutcomeFault, ReadAt, WriteAt, At, Dequeue
<1>1. /\ \A x \in Execs \ {e} : Kept(x)
      /\ \/ task'[e].pc = "done" /\ cache' = [cache EXCEPT ![i] = OutcomeRows(@, e)]
         \/ task'[e].pc \in {"finish", "fatal"} /\ task'[e].inst = i /\ cache' = cache
  <2>1. CASE OutcomeCommit(e)
    <3>1. /\ cache' = [cache EXCEPT ![i] = OutcomeRows(@, e)]
          /\ task' = Settled(i, [task EXCEPT ![e] = DoneTask])
      BY <2>1 DEF OutcomeCommit, Finished
    <3> QED
      BY <3>1, SettledStep, ConstantTypes DEF DoneTask, NewTask
  <2>2. CASE OutcomeFault(e)
    <3>1. cache' = cache /\ task' = Settled(i, Thrown(e))
      BY <2>2, <1>0 DEF OutcomeFault, ReadAt, At
    <3>2. PICK r \in Task : /\ Thrown(e) = [task EXCEPT ![e] = r]
                           /\ r.pc \in {"finish", "fatal"} /\ r.inst = task[e].inst
      BY ThrownTask
    <3> QED
      BY <3>1, <3>2, SettledStep DEF Home
  <2> QED
    BY <2>1, <2>2
<1>x. /\ db.exec \in [Execs -> RunStatus] /\ db.claim \in [Projects -> Execs \cup {None}]
      /\ \A j \in Instances : cache[j].exec \in [Execs -> RunStatus]
  BY DEF TypeOK, Store
<1>y. RunOutcome(e) # "running"
  BY DEF RunOutcome
<1>2. /\ \A j \in Instances, x \in Execs \ {e} : cache'[j].exec[x] = cache[j].exec[x]
      /\ \A j \in Instances \ {i} : cache'[j].exec[e] = cache[j].exec[e]
      /\ \/ cache'[i].exec[e] # "running"
         \/ task'[e].pc \in {"finish", "fatal"} /\ task'[e].inst = i
  <2>2. CASE cache' = [cache EXCEPT ![i] = OutcomeRows(@, e)]
    <3>1. cache'[i].exec = [cache[i].exec EXCEPT ![e] = RunOutcome(e)]
      BY <1>0, <2>2 DEF OutcomeRows, TypeOK, Store
    <3>2. \A j \in Instances \ {i} : cache'[j] = cache[j]
      BY <2>2 DEF TypeOK
    <3> QED
      BY <1>0, <1>x, <1>y, <3>1, <3>2
  <2> QED
    BY <1>1, <2>2
<1>3. /\ db'.exec = [db.exec EXCEPT ![e] = RunOutcome(e)]
      /\ db'.claim = [db.claim EXCEPT ![p] = IF HoldsClaim(e) THEN None ELSE @]
  BY <1>0 DEF OutcomeRows, TypeOK, Store
<1>4. \A x \in Execs : /\ Listed(x)' <=> Listed(x)
                       /\ Clean(x)' <=> Clean(x)
                       /\ Untaken(x)' <=> Untaken(x)
  BY <1>0 DEF Listed, TypeOK, Proc, Clean, Disturbed, Untaken
<1>z. \A x \in Execs \ {e} :
         Clean(x) /\ db.claim[ProjectOf[x]] = x => db'.claim[ProjectOf[x]] = x
  <2> SUFFICES ASSUME NEW x \in Execs \ {e}, Clean(x), db.claim[ProjectOf[x]] = x
               PROVE db'.claim[ProjectOf[x]] = x
    OBVIOUS
  <2>1. CASE ProjectOf[x] # p \/ ~HoldsClaim(e)
    BY <2>1, <1>0, <1>3, <1>x
  <2>2. CASE ProjectOf[x] = p /\ HoldsClaim(e)
    <3>1. Clean(e)
      BY <2>2 DEF Clean
    <3>2. db.claim[p] = e
      BY <2>2, <3>1, <1>0 DEF HoldsClaim, ClaimInv, ReadClaimStands
    <3> QED
      BY <2>2, <3>2
  <2> QED
    BY <2>1, <2>2
<1>u. /\ unacked \subseteq unacked'
      /\ task'[e].pc = "done" \/ e \in unacked'
  <2>1. CASE OutcomeCommit(e)
    <3>1. unacked' = unacked /\ task' = Settled(i, [task EXCEPT ![e] = DoneTask])
      BY <2>1 DEF OutcomeCommit, Finished
    <3> QED
      BY <3>1, SettledStep, ConstantTypes DEF DoneTask, NewTask
  <2>2. CASE OutcomeFault(e) /\ db' # db
    BY <2>2 DEF OutcomeFault
  <2> QED
    BY <2>1, <2>2
<1> HIDE DEF p, i
<1>5. RunningHoldsClaim'
  <2> SUFFICES ASSUME NEW x \in Execs, db'.exec[x] = "running", Clean(x)'
               PROVE db'.claim[ProjectOf[x]] = x
    BY DEF RunningHoldsClaim, Clean
  <2>1. x # e /\ db.exec[x] = "running" /\ Clean(x)
    BY <1>3, <1>4, <1>x, <1>y
  <2> QED
    BY <2>1, <1>z DEF ClaimInv, RunningHoldsClaim, Clean
<1>6. UnstartedIsUnknown'
  BY <1>0, <1>1, <1>2, <1>3, <1>4, <1>x DEF ClaimInv, UnstartedIsUnknown, Kept
<1>7. SweptIsStranded'
  <2>1. Listed(e) /\ e \notin recovered => ~Untaken(e)
    BY <1>0 DEF ClaimInv, SweptIsStranded, Live
  <2> QED
    BY <1>0, <1>1, <1>3, <1>4, <1>x, <2>1 DEF ClaimInv, SweptIsStranded, Kept, Live
<1>8. CachedRunIsHomeOrDead'
  <2> SUFFICES ASSUME NEW j \in Instances, NEW x \in Execs,
                      cache'[j].exec[x] = "running",
                      x \notin recovered, Untaken(x)
               PROVE \/ task'[x].inst = j /\ task'[x].pc \in LivePc \cup {"fatal"}
                     \/ db'.exec[x] = "running" /\ task'[x].pc \notin LivePc
    BY <1>0, <1>4 DEF CachedRunIsHomeOrDead, Live, Home
  <2>1. CASE x = e
    <3>1. \A k \in Instances : cache[k].exec[e] = "running" => k = i
      BY <2>1, <1>0 DEF ClaimInv, CachedRunIsHomeOrDead, Live, i
    <3> QED
      BY <2>1, <3>1, <1>0, <1>1, <1>2
  <2>2. CASE x # e
    <3>1. cache[j].exec[x] = "running" /\ Kept(x) /\ db'.exec[x] = db.exec[x]
      BY <2>2, <1>1, <1>2, <1>3, <1>x
    <3> QED
      BY <3>1 DEF ClaimInv, CachedRunIsHomeOrDead, Kept, Home, Live
  <2> QED
    BY <2>1, <2>2
<1>9. ReadClaimStands'
  <2> SUFFICES ASSUME NEW x \in Execs, task'[x].pc \in Deciding,
                      task'[x].snap.claim[ProjectOf[x]] = x, Clean(x)
               PROVE db'.claim[ProjectOf[x]] = x
    BY <1>4 DEF ReadClaimStands
  <2>1. x # e /\ Kept(x)
    BY <1>1
  <2>2. db.claim[ProjectOf[x]] = x
    BY <2>1 DEF ClaimInv, ReadClaimStands, Kept
  <2> QED
    BY <2>1, <2>2, <1>z
<1>10. LiveIsRunning'
  <2> SUFFICES ASSUME NEW x \in Execs, Live(x)', Untaken(x), x \notin unacked'
               PROVE db'.exec[x] = "running"
    BY <1>4 DEF LiveIsRunning
  <2>1. x # e
    BY <1>u DEF Live
  <2>2. db.exec[x] = "running"
    BY <2>1, <1>1, <1>u DEF ClaimInv, LiveIsRunning, Kept, Live
  <2> QED
    BY <2>1, <2>2, <1>3, <1>x
<1> QED
  BY <1>5, <1>6, <1>7, <1>8, <1>9, <1>10 DEF ClaimInv

\* An applied deletion keeps ClaimInv: its project is disturbed from then on.
LEMMA RemovalKeepsClaimInv ==
  ASSUME TypeOK, TypeOK', ClaimInv, RemovalIsOwn, NEW i \in Instances,
         \/ DeleteCommit(i)
         \/ RequestFault(i) /\ ~(db'.exec = db.exec /\ db'.claim = db.claim)
  PROVE ClaimInv'
<1> DEFINE r == proc[i].removal
<1> USE DEF store, ghosts
<1>0. /\ r.project \in Projects
      /\ db' = RemovalRows(db, r)
      /\ cache' \in {cache, [cache EXCEPT ![i] = RemovalRows(@, r)]}
      /\ deleted' = deleted \cup {r.project}
      /\ UNCHANGED <<recovered, taken>>
      /\ proc' = [proc EXCEPT ![i].removal = NoRemoval, ![i].tail = Tail(@)]
      /\ task' = Settled(i, task)
  <2>1. r.project \in Projects \cup {None}
    BY DEF TypeOK, Proc, Removal
  <2>2. CASE DeleteCommit(i)
    BY <2>1, <2>2 DEF DeleteCommit
  <2>3. CASE RequestFault(i) /\ ~(db'.exec = db.exec /\ db'.claim = db.claim)
    <3>1. ~(db' \in {db, [db EXCEPT !.project[proc[i].edit.project] = proc[i].edit.rec]})
      BY <2>3 DEF TypeOK, Store
    <3> QED
      BY <2>1, <2>3, <3>1 DEF RequestFault
  <2> QED
    BY <2>2, <2>3
<1> HIDE DEF r
<1>1. \A x \in Execs : Kept(x)
  BY <1>0, SettledAll
<1>2. \A x \in Execs : /\ Clean(x)' => Clean(x) /\ ProjectOf[x] # r.project
                       /\ Untaken(x)' => Untaken(x) /\ ProjectOf[x] # r.project
  BY <1>0 DEF Clean, Disturbed, Untaken
<1>3. \A x \in Execs : Listed(x)' <=> Listed(x)
  <2>1. \A j \in Instances : /\ proc'[j].stranded = proc[j].stranded
                             /\ proc'[j].sweep = proc[j].sweep
    BY <1>0 DEF TypeOK, Proc
  <2> QED
    BY <2>1 DEF Listed
<1>4. \A x \in Execs : ProjectOf[x] # r.project =>
         /\ db'.exec[x] = db.exec[x]
         /\ db'.claim[ProjectOf[x]] = db.claim[ProjectOf[x]]
  <2>1. \A x \in Execs : ProjectOf[x] # r.project => x \notin r.execs
    BY DEF RemovalIsOwn, r
  <2>2. db.claim \in [Projects -> Execs \cup {None}] /\ \A x \in Execs : ProjectOf[x] \in Projects
    BY ConstantsOK DEF TypeOK, Store
  <2> QED
    BY <1>0, <2>1, <2>2 DEF RemovalRows
<1>5. \A x \in Execs : db'.exec[x] \in {"absent", db.exec[x]}
  BY <1>0 DEF RemovalRows
<1>6. \A j \in Instances, x \in Execs : cache'[j].exec[x] \in {"absent", cache[j].exec[x]}
  <2>1. \A x \in Execs : RemovalRows(cache[i], r).exec[x] \in {"absent", cache[i].exec[x]}
    BY DEF RemovalRows
  <2> QED
    BY <1>0, <2>1 DEF TypeOK
<1>7. RunningHoldsClaim'
  BY <1>2, <1>4 DEF ClaimInv, RunningHoldsClaim, Clean
<1>8. UnstartedIsUnknown'
  BY <1>0, <1>1, <1>3, <1>5, <1>6 DEF ClaimInv, UnstartedIsUnknown, Kept
<1>9. SweptIsStranded'
  BY <1>0, <1>1, <1>2, <1>3, <1>4 DEF ClaimInv, SweptIsStranded, Kept, Live
<1>10. CachedRunIsHomeOrDead'
  BY <1>0, <1>1, <1>2, <1>4, <1>6 DEF ClaimInv, CachedRunIsHomeOrDead, Kept, Live, Home
<1>11. ReadClaimStands'
  BY <1>1, <1>2, <1>4 DEF ClaimInv, ReadClaimStands, Kept
<1>12. LiveIsRunning'
  <2>1. unacked' = unacked
    BY DEF DeleteCommit, RequestFault
  <2> QED
    BY <2>1, <1>1, <1>2, <1>4 DEF ClaimInv, LiveIsRunning, Kept, Live
<1> QED
  BY <1>7, <1>8, <1>9, <1>10, <1>11, <1>12 DEF ClaimInv

\* Listing stranded executions keeps ClaimInv: one whose worker is alive disturbs
\* its project.
LEMMA BootKeepsClaimInv ==
  ASSUME TypeOK, TypeOK', ClaimInv, NEW i \in Instances, Boot(i) \/ Drain(i)
  PROVE ClaimInv'
<1> USE DEF store, ghosts
<1> DEFINE listed == proc'[i].stranded \cup ({proc'[i].sweep.exec} \ {None})
<1>0. None \notin Execs
  BY ConstantsOK
<1>1. /\ UNCHANGED <<db, recovered, task, deleted>>
      /\ \A j \in Instances \ {i} : proc'[j] = proc[j] /\ cache'[j] = cache[j]
      /\ taken' = taken \cup {e \in listed : Live(e)}
      /\ \A e \in listed : \/ db.exec[e] = "running"
                           \/ cache[i].exec[e] = "running" /\ Alive(i)
      /\ cache'[i] = db \/ cache'[i] = cache[i]
      /\ \A e \in Execs : cache'[i].exec[e] = "running" /\ cache'[i] = db => e \in listed
  <2>0. /\ db \in Store /\ cache[i] \in Store /\ proc[i] \in Proc
        /\ StrandedIn(db) \in SUBSET Execs /\ StrandedIn(cache[i]) \in SUBSET Execs
        /\ \A m \in Mode : [proc[i] EXCEPT !.mode = m] \in Proc
    BY DEF StrandedIn, TypeOK, Proc
  <2>1. CASE Boot(i)
    <3>1. /\ UNCHANGED <<store, task, deleted>>
          /\ cache' = [cache EXCEPT ![i] = db]
          /\ SweepsOn(i, [proc[i] EXCEPT !.mode = "booting"], StrandedIn(db), db)
          /\ taken' = taken \cup {e \in StrandedIn(db) : Live(e)}
      BY <2>1 DEF Boot
    <3>2. /\ \A j \in Instances \ {i} : cache'[j] = cache[j]
          /\ cache'[i] = db
      BY <3>1 DEF TypeOK
    <3>3. [proc[i] EXCEPT !.mode = "booting"] \in Proc
      BY <2>0 DEF Mode
    <3>4. /\ \A j \in Instances \ {i} : proc'[j] = proc[j]
          /\ listed = StrandedIn(db)
      <4>1. /\ \A j \in Instances \ {i} : proc'[j] = proc[j]
            /\ proc'[i].stranded \subseteq StrandedIn(db)
            /\ proc'[i].sweep.exec \in StrandedIn(db) \cup {None}
            /\ \A e \in StrandedIn(db) : \/ e \in proc'[i].stranded
                                         \/ proc'[i].sweep.exec = e
        BY <2>0, <3>1, <3>3, SweepsOnType
      <4> QED
        BY <1>0, <2>0, <4>1
    <3> QED
      BY <3>1, <3>2, <3>4 DEF StrandedIn
  <2>2. CASE Drain(i)
    <3>1. /\ UNCHANGED <<store, cache, task, deleted>>
          /\ SweepsOn(i, [proc[i] EXCEPT !.mode = "draining"], StrandedIn(cache[i]), cache[i])
          /\ taken' = taken \cup {e \in StrandedIn(cache[i]) : Live(e)}
          /\ Alive(i)
      BY <2>2 DEF Drain, Serving
    <3>2. [proc[i] EXCEPT !.mode = "draining"] \in Proc
      BY <2>0 DEF Mode
    <3>3. /\ \A j \in Instances \ {i} : proc'[j] = proc[j]
          /\ listed = StrandedIn(cache[i])
      <4>1. /\ \A j \in Instances \ {i} : proc'[j] = proc[j]
            /\ proc'[i].stranded \subseteq StrandedIn(cache[i])
            /\ proc'[i].sweep.exec \in StrandedIn(cache[i]) \cup {None}
            /\ \A e \in StrandedIn(cache[i]) : \/ e \in proc'[i].stranded
                                         \/ proc'[i].sweep.exec = e
        BY <2>0, <3>1, <3>2, SweepsOnType
      <4> QED
        BY <1>0, <2>0, <4>1
    <3> QED
      BY <3>1, <3>3 DEF StrandedIn
  <2> QED
    BY <2>1, <2>2
<1> HIDE DEF listed
<1>2. \A e \in Execs : /\ Clean(e)' => Clean(e)
                       /\ Untaken(e)' => Untaken(e) /\ (e \in listed => ~Live(e))
                       /\ Listed(e)' => Listed(e) \/ e \in listed
  BY <1>0, <1>1 DEF Clean, Disturbed, Untaken, Listed, listed
<1>3. RunningHoldsClaim'
  BY <1>1, <1>2 DEF ClaimInv, RunningHoldsClaim, Clean
<1>4. UnstartedIsUnknown'
  BY <1>1, <1>2 DEF ClaimInv, UnstartedIsUnknown
<1>5. SweptIsStranded'
  <2> SUFFICES ASSUME NEW e \in Execs, Listed(e)', e \notin recovered, Untaken(e)'
               PROVE db.exec[e] = "running" /\ ~Live(e)
    BY <1>1 DEF SweptIsStranded, Live
  <2>1. CASE Listed(e)
    BY <2>1, <1>2 DEF ClaimInv, SweptIsStranded
  <2>2. CASE e \in listed
    <3>1. ~Live(e) /\ Untaken(e)
      BY <2>2, <1>2
    <3>2. CASE cache[i].exec[e] = "running" /\ Alive(i)
      <4>1. ~(Home(e) = i /\ task[e].pc = "fatal")
        BY <3>2 DEF Alive
      <4> QED
        BY <3>1, <3>2, <4>1 DEF ClaimInv, CachedRunIsHomeOrDead, Live
    <3> QED
      BY <2>2, <3>1, <3>2, <1>1
  <2> QED
    BY <2>1, <2>2, <1>2
<1>6. CachedRunIsHomeOrDead'
  <2> SUFFICES ASSUME NEW j \in Instances, NEW e \in Execs,
                      cache'[j].exec[e] = "running",
                      e \notin recovered, Untaken(e)'
               PROVE \/ Home(e) = j /\ task[e].pc \in LivePc \cup {"fatal"}
                     \/ db.exec[e] = "running" /\ ~Live(e)
    BY <1>1 DEF CachedRunIsHomeOrDead, Live, Home
  <2>1. CASE cache'[j] = cache[j]
    BY <2>1, <1>2 DEF ClaimInv, CachedRunIsHomeOrDead
  <2>2. CASE j = i /\ cache'[i] = db
    BY <2>2, <1>1, <1>2
  <2> QED
    BY <2>1, <2>2, <1>1
<1>7. ReadClaimStands'
  BY <1>1, <1>2 DEF ClaimInv, ReadClaimStands
<1>8. LiveIsRunning'
  <2>1. unacked' = unacked
    BY DEF Boot, Drain
  <2> QED
    BY <2>1, <1>1, <1>2 DEF ClaimInv, LiveIsRunning, Live
<1> QED
  BY <1>3, <1>4, <1>5, <1>6, <1>7, <1>8 DEF ClaimInv

\* The batch of a sweep keeps ClaimInv: the claim it drops names the execution it
\* closes.
LEMMA SweepKeepsClaimInv ==
  ASSUME TypeOK, TypeOK', ClaimInv, NEW i \in Instances,
         \/ SweepCommit(i) /\ proc[i].sweep.exec \notin recovered
         \/ SweepFault(i) /\ recovered' # recovered
  PROVE ClaimInv'
<1> DEFINE w == proc[i].sweep
           o == w.exec
<1> USE DEF store, ghosts
<1>0. /\ o \in Execs /\ ProjectOf[o] \in Projects /\ None \notin Execs
      /\ recovered' = recovered \cup {o}
      /\ db' = SweepRows(db, w)
      /\ cache' \in {cache, [cache EXCEPT ![i] = SweepRows(@, w)]}
      /\ UNCHANGED <<deleted, taken>>
      /\ \A x \in Execs : Kept(x)
      /\ Listed(o)
      /\ \A x \in Execs : ProjectOf[x] \in Projects
  <2>1. w.exec \in Execs \cup {None}
    BY DEF TypeOK, Proc, Sweep
  <2>2. \A x \in Execs : Kept(x)
    BY SettledAll DEF SweepCommit, SweepFault
  <2> QED
    BY <2>1, <2>2, ConstantsOK DEF SweepCommit, SweepFault, Listed
<1>1. \A x \in Execs : /\ Listed(x)' => Listed(x)
                       /\ Clean(x)' <=> Clean(x)
                       /\ Untaken(x)' <=> Untaken(x)
  <2>1. /\ \A j \in Instances \ {i} : proc'[j] = proc[j]
        /\ proc'[i].stranded \subseteq proc[i].stranded
        /\ proc'[i].sweep.exec \in proc[i].stranded \cup {None}
    <3>1. CASE SweepCommit(i)
      BY <3>1, SweepStep
    <3>2. CASE SweepFault(i)
      BY <3>2 DEF SweepFault, TypeOK, Proc, NoSweep
    <3> QED
      BY <3>1, <3>2
  <2>2. \A x \in Execs : Listed(x)' => Listed(x)
    BY <1>0, <2>1 DEF Listed
  <2> QED
    BY <1>0, <2>2 DEF Clean, Disturbed, Untaken
<1>2. /\ db'.exec = [db.exec EXCEPT ![o] = "failed"]
      /\ db'.claim = [db.claim EXCEPT ![ProjectOf[o]] = IF w.holds THEN None ELSE @]
  BY <1>0 DEF SweepRows, TypeOK, Store
<1>3. /\ db.exec \in [Execs -> RunStatus] /\ db.claim \in [Projects -> Execs \cup {None}]
      /\ \A j \in Instances : cache[j].exec \in [Execs -> RunStatus]
  BY DEF TypeOK, Store
<1>4. \A j \in Instances, x \in Execs \ {o} : cache'[j].exec[x] = cache[j].exec[x]
  <2>1. CASE cache' = [cache EXCEPT ![i] = SweepRows(@, w)]
    <3>1. cache'[i] = SweepRows(cache[i], w) /\ cache[i] \in Store
      BY <2>1 DEF TypeOK
    <3>2. cache'[i].exec = [cache[i].exec EXCEPT ![o] = "failed"]
      BY <3>1 DEF SweepRows, Store
    <3>3. \A j \in Instances \ {i} : cache'[j] = cache[j]
      BY <2>1 DEF TypeOK
    <3> QED
      BY <1>0, <1>3, <3>2, <3>3
  <2> QED
    BY <1>0, <2>1
<1>5. /\ Clean(o) => db.claim[ProjectOf[o]] = o /\ ~Live(o)
      /\ Untaken(o) => ~Live(o)
  BY <1>0, CleanIsUntaken DEF ClaimInv, SweptIsStranded, RunningHoldsClaim, Clean
<1> HIDE DEF w, o
<1>6. \A x \in Execs \ {o} :
         Clean(x) /\ db.claim[ProjectOf[x]] = x => db'.claim[ProjectOf[x]] = x
  <2> SUFFICES ASSUME NEW x \in Execs \ {o}, Clean(x), db.claim[ProjectOf[x]] = x
               PROVE db'.claim[ProjectOf[x]] = x
    OBVIOUS
  <2>1. CASE ProjectOf[x] # ProjectOf[o]
    BY <2>1, <1>0, <1>2, <1>3
  <2>2. CASE ProjectOf[x] = ProjectOf[o]
    <3>1. Clean(o)
      BY <2>2 DEF Clean
    <3> QED
      BY <2>2, <3>1, <1>5
  <2> QED
    BY <2>1, <2>2
<1>7. RunningHoldsClaim'
  <2> SUFFICES ASSUME NEW x \in Execs, db'.exec[x] = "running", Clean(x)'
               PROVE db'.claim[ProjectOf[x]] = x
    BY DEF RunningHoldsClaim, Clean
  <2>1. x # o /\ db.exec[x] = "running" /\ Clean(x)
    BY <1>0, <1>1, <1>2, <1>3
  <2> QED
    BY <2>1, <1>6 DEF ClaimInv, RunningHoldsClaim, Clean
<1>8. UnstartedIsUnknown'
  <2> SUFFICES ASSUME NEW x \in Execs, task[x].pc \in NotStarted
               PROVE /\ db'.exec[x] = "absent" /\ x \notin recovered' /\ ~Listed(x)'
                     /\ \A j \in Instances : cache'[j].exec[x] = "absent"
    BY <1>0 DEF UnstartedIsUnknown, Kept
  <2>1. /\ db.exec[x] = "absent" /\ x \notin recovered /\ ~Listed(x)
        /\ \A j \in Instances : cache[j].exec[x] = "absent"
    BY DEF ClaimInv, UnstartedIsUnknown
  <2> QED
    BY <2>1, <1>0, <1>1, <1>2, <1>3, <1>4
<1>9. SweptIsStranded'
  BY <1>0, <1>1, <1>2, <1>3 DEF ClaimInv, SweptIsStranded, Kept, Live
<1>10. CachedRunIsHomeOrDead'
  BY <1>0, <1>1, <1>2, <1>3, <1>4 DEF ClaimInv, CachedRunIsHomeOrDead, Kept, Live, Home
<1>11. ReadClaimStands'
  <2> SUFFICES ASSUME NEW x \in Execs, task[x].pc \in Deciding,
                      task[x].snap.claim[ProjectOf[x]] = x, Clean(x)
               PROVE db'.claim[ProjectOf[x]] = x
    BY <1>0, <1>1 DEF ReadClaimStands, Kept
  <2>1. db.claim[ProjectOf[x]] = x /\ Live(x)
    BY DEF ClaimInv, ReadClaimStands, Live, Deciding, LivePc, WorkerPc, OutcomePc
  <2> QED
    BY <2>1, <1>5, <1>6
<1>12. LiveIsRunning'
  <2> SUFFICES ASSUME NEW x \in Execs, Live(x), Untaken(x), x \notin unacked
               PROVE db'.exec[x] = "running"
    <3>1. unacked' = unacked
      BY DEF SweepCommit, SweepFault
    <3> QED
      BY <3>1, <1>0, <1>1 DEF LiveIsRunning, Live, Kept
  <2>1. db.exec[x] = "running" /\ x # o
    BY <1>5 DEF ClaimInv, LiveIsRunning
  <2> QED
    BY <2>1, <1>0, <1>2, <1>3
<1> QED
  BY <1>7, <1>8, <1>9, <1>10, <1>11, <1>12 DEF ClaimInv

\* The end of a process keeps ClaimInv: only its own workers are lost.
LEMMA StopKeepsClaimInv ==
  ASSUME TypeOK, TypeOK', ClaimInv, NEW i \in Instances, Stop(i)
  PROVE ClaimInv'
<1> USE DEF store, ghosts
<1>1. /\ UNCHANGED <<db, recovered, deleted, taken>>
      /\ cache' = [cache EXCEPT ![i] = EmptyStore]
      /\ proc' = [proc EXCEPT ![i] = DownProc]
      /\ task' = [e \in Execs |-> IF Home(e) = i THEN DoneTask ELSE task[e]]
  BY DEF Stop
<1>2. \A e \in Execs : /\ Clean(e)' <=> Clean(e)
                       /\ Untaken(e)' <=> Untaken(e)
                       /\ Listed(e)' => Listed(e)
  <2>1. \A j \in Instances : proc'[j] \in {DownProc, proc[j]}
    BY <1>1 DEF TypeOK
  <2>2. DownProc.stranded = {} /\ DownProc.sweep.exec \notin Execs
    BY ConstantsOK DEF DownProc, NoSweep
  <2> QED
    BY <1>1, <2>1, <2>2 DEF Clean, Disturbed, Untaken, Listed
<1>3. \A e \in Execs : IF Home(e) = i THEN task'[e].pc = "done" ELSE task'[e] = task[e]
  BY <1>1 DEF DoneTask, NewTask
<1>4. \A j \in Instances, e \in Execs :
         IF j = i THEN cache'[j].exec[e] = "absent" ELSE cache'[j] = cache[j]
  BY <1>1 DEF TypeOK, EmptyStore
<1>5. RunningHoldsClaim'
  BY <1>1, <1>2 DEF ClaimInv, RunningHoldsClaim, Clean
<1> USE DEF NotStarted, StartPc, LivePc, WorkerPc, BridgePc, OutcomePc, Deciding
<1>6. UnstartedIsUnknown'
  BY <1>1, <1>2, <1>3, <1>4 DEF ClaimInv, UnstartedIsUnknown
<1>7. SweptIsStranded'
  BY <1>1, <1>2, <1>3 DEF ClaimInv, SweptIsStranded, Live
<1>8. CachedRunIsHomeOrDead'
  <2> SUFFICES ASSUME NEW j \in Instances, NEW e \in Execs,
                      cache'[j].exec[e] = "running",
                      e \notin recovered, Untaken(e)
               PROVE \/ task'[e].inst = j /\ task'[e].pc \in LivePc \cup {"fatal"}
                     \/ db.exec[e] = "running" /\ task'[e].pc \notin LivePc
    BY <1>1, <1>2 DEF CachedRunIsHomeOrDead, Live, Home
  <2>1. j # i /\ cache[j].exec[e] = "running"
    BY <1>4
  <2> QED
    BY <2>1, <1>3 DEF ClaimInv, CachedRunIsHomeOrDead, Live, Home
<1>9. ReadClaimStands'
  BY <1>1, <1>2, <1>3 DEF ClaimInv, ReadClaimStands
<1>10. LiveIsRunning'
  <2>1. unacked' = unacked
    BY DEF Stop
  <2> QED
    BY <2>1, <1>1, <1>2, <1>3 DEF ClaimInv, LiveIsRunning, Live
<1> QED
  BY <1>5, <1>6, <1>7, <1>8, <1>9, <1>10 DEF ClaimInv

\* A step leaves the deletion of a process alone, ends it, or gathers one.
LEMMA RemovalChanges ==
  ASSUME TypeOK, [Next]_vars, NEW j \in Instances
  PROVE \/ proc'[j].removal \in {proc[j].removal, NoRemoval}
        \/ \E p \in Projects : proc'[j].removal = RemovalOf(j, p)
<1> DEFINE Same == proc'[j].removal \in {proc[j].removal, NoRemoval}
<1>1. ASSUME NEW e \in Execs, StartStep(e) \/ WorkerStep(e)
      PROVE Same
  <2>1. proc' = proc \/ \E i, q : proc' = [proc EXCEPT ![i].tail = q]
    <3>1. CASE StartStep(e)
      BY <3>1 DEF StartStep, StartSelect, StartReplay, StartPrepare, StartRefused,
                  StartCommit, StartConflict, ClaimSelect, ClaimPublish, StartFault, Enqueue, Dequeue
    <3>2. CASE WorkerStep(e)
      BY <3>2 DEF WorkerStep, RunNext, DagSucceeds, DagFails, BridgeProject, BridgeHist,
                  BridgeFault, OutcomeBegin, OutcomeSelect, OutcomePublish, OutcomeCommit,
                  OutcomeFault, Enqueue, Dequeue
    <3> QED
      BY <1>1, <3>1, <3>2
  <2> QED
    BY <2>1 DEF TypeOK, Proc
<1>2. ASSUME NEW i \in Instances, ProcStep(i)
      PROVE Same \/ \E p \in Projects : proc'[j].removal = RemovalOf(j, p)
  <2>1. CASE EditCommit(i) \/ DeleteCommit(i) \/ RequestFault(i) \/ SweepFault(i) \/ Serve(i)
    <3>1. \/ proc' = [proc EXCEPT ![i].edit = NoEdit, ![i].tail = Tail(@)]
          \/ proc' = [proc EXCEPT ![i].removal = NoRemoval, ![i].tail = Tail(@)]
          \/ proc' = [proc EXCEPT ![i].mode = "draining", ![i].stranded = {},
                                  ![i].sweep = NoSweep, ![i].tail = Tail(@)]
          \/ proc' = [proc EXCEPT ![i].mode = "serving"]
      BY <2>1 DEF EditCommit, DeleteCommit, RequestFault, SweepFault, Serve
    <3>2. CASE proc' = [proc EXCEPT ![i].edit = NoEdit, ![i].tail = Tail(@)]
      BY <3>2 DEF TypeOK, Proc
    <3>3. CASE proc' = [proc EXCEPT ![i].removal = NoRemoval, ![i].tail = Tail(@)]
      BY <3>3 DEF TypeOK, Proc
    <3>4. CASE proc' = [proc EXCEPT ![i].mode = "draining", ![i].stranded = {},
                                    ![i].sweep = NoSweep, ![i].tail = Tail(@)]
      BY <3>4 DEF TypeOK, Proc
    <3>5. CASE proc' = [proc EXCEPT ![i].mode = "serving"]
      BY <3>5 DEF TypeOK, Proc
    <3> QED
      BY <3>1, <3>2, <3>3, <3>4, <3>5
  <2>2. CASE Boot(i) \/ Drain(i)
    <3>1. PICK m \in Mode, c \in Store :
             SweepsOn(i, [proc[i] EXCEPT !.mode = m], StrandedIn(c), c)
      BY <2>2 DEF Boot, Drain, TypeOK, Mode
    <3> DEFINE q == [proc[i] EXCEPT !.mode = m]
               listed == StrandedIn(c)
    <3>2. q \in Proc /\ q.removal = proc[i].removal /\ listed \in SUBSET Execs
      BY DEF TypeOK, Proc, StrandedIn
    <3>3. SweepsOn(i, q, listed, c)
      BY <3>1
    <3> HIDE DEF q, listed
    <3>4. proc'[i].removal = q.removal /\ \A k \in Instances \ {i} : proc'[k] = proc[k]
      BY <3>2, <3>3, SweepsOnType
    <3> QED
      BY <3>2, <3>4
  <2>3. CASE SweepCommit(i)
    BY <2>3, SweepStep
  <2>4. CASE Stop(i)
    <3>1. proc' = [proc EXCEPT ![i] = DownProc] /\ DownProc.removal = NoRemoval
      BY <2>4 DEF Stop, DownProc
    <3> QED
      BY <3>1 DEF TypeOK
  <2>5. CASE \E e \in Execs : StartRequest(i, e)
    BY <2>5 DEF StartRequest
  <2>6. ASSUME NEW p \in Projects, EditRequest(i, p) \/ DeleteRequest(i, p)
        PROVE Same \/ proc'[j].removal = RemovalOf(j, p)
    <3>1. CASE EditRequest(i, p)
      BY <3>1 DEF EditRequest, TypeOK, Proc
    <3>2. CASE DeleteRequest(i, p)
      <4>1. /\ proc'[i].removal = RemovalOf(i, p)
            /\ \A k \in Instances \ {i} : proc'[k] = proc[k]
        BY <3>2 DEF DeleteRequest, TypeOK, Proc
      <4> QED
        BY <4>1
    <3> QED
      BY <2>6, <3>1, <3>2
  <2> QED
    BY <1>2, <2>1, <2>2, <2>3, <2>4, <2>5, <2>6 DEF ProcStep
<1>3. CASE UNCHANGED vars
  BY <1>3 DEF vars
<1> QED
  BY <1>1, <1>2, <1>3 DEF Next

\* Every step keeps RemovalIsOwn.
LEMMA RemovalStep ==
  ASSUME TypeOK, RemovalIsOwn, [Next]_vars
  PROVE RemovalIsOwn'
<1> SUFFICES ASSUME NEW j \in Instances,
                    NEW e \in proc'[j].removal.execs \cup proc'[j].removal.hists
             PROVE ProjectOf[e] = proc'[j].removal.project
  BY DEF RemovalIsOwn
<1>1. CASE proc'[j].removal \in {proc[j].removal, NoRemoval}
  BY <1>1 DEF RemovalIsOwn, NoRemoval
<1>2. CASE \E p \in Projects : proc'[j].removal = RemovalOf(j, p)
  <2>1. PICK p \in Projects : proc'[j].removal = RemovalOf(j, p)
    BY <1>2
  <2>2. /\ RemovalOf(j, p).project = p
        /\ \A x \in RemovalOf(j, p).execs \cup RemovalOf(j, p).hists : ProjectOf[x] = p
    BY DEF RemovalOf
  <2> QED
    BY <2>1, <2>2
<1> QED
  BY <1>1, <1>2, RemovalChanges

\* Every step keeps ClaimInv.
LEMMA ClaimInvStep ==
  ASSUME TypeOK, TypeOK', ClaimInv, RemovalIsOwn, [Next]_vars
  PROVE ClaimInv'
<1>1. ASSUME NEW e \in Execs, StartStep(e)
      PROVE ClaimInv'
  <2>1. CASE StartCommit(e) \/ (StartFault(e) /\ db' # db)
    BY <2>1, StartKeepsClaimInv
  <2>2. CASE ~StartCommit(e) /\ db' = db
    BY <1>1, <2>2, QuietStart, QuietKeepsClaimInv
  <2>3. ~StartCommit(e) /\ ~StartFault(e) => db' = db
    BY <1>1 DEF StartStep, StartSelect, StartReplay, StartPrepare, StartRefused,
                StartConflict, ClaimSelect, ClaimPublish, store
  <2> QED
    BY <2>1, <2>2, <2>3
<1>2. ASSUME NEW e \in Execs, WorkerStep(e)
      PROVE ClaimInv'
  <2>1. CASE OutcomeCommit(e) \/ (OutcomeFault(e) /\ db' # db)
    BY <2>1, OutcomeKeepsClaimInv
  <2>2. CASE ~OutcomeCommit(e) /\ ~(OutcomeFault(e) /\ db' # db)
    BY <1>2, <2>2, QuietWorker, QuietKeepsClaimInv
  <2> QED
    BY <2>1, <2>2
<1>3. ASSUME NEW i \in Instances, ProcStep(i)
      PROVE ClaimInv'
  <2>1. CASE \/ DeleteCommit(i)
             \/ RequestFault(i) /\ ~(db'.exec = db.exec /\ db'.claim = db.claim)
    BY <2>1, RemovalKeepsClaimInv
  <2>2. CASE Boot(i) \/ Drain(i)
    BY <2>2, BootKeepsClaimInv
  <2>3. CASE \/ SweepCommit(i) /\ proc[i].sweep.exec \notin recovered
             \/ SweepFault(i) /\ recovered' # recovered
    BY <2>3, SweepKeepsClaimInv
  <2>4. CASE Stop(i)
    BY <2>4, StopKeepsClaimInv
  <2>5. CASE \/ EditCommit(i) \/ Serve(i)
             \/ RequestFault(i) /\ db'.exec = db.exec /\ db'.claim = db.claim
             \/ SweepCommit(i) /\ proc[i].sweep.exec \in recovered
             \/ SweepFault(i) /\ recovered' = recovered
             \/ \E e \in Execs : StartRequest(i, e)
             \/ \E p \in Projects : EditRequest(i, p) \/ DeleteRequest(i, p)
    BY <2>5, QuietProc, QuietKeepsClaimInv
  <2> QED
    BY <1>3, <2>1, <2>2, <2>3, <2>4, <2>5 DEF ProcStep
<1>4. CASE UNCHANGED vars
  <2>1. Quiet
    BY <1>4 DEF vars, Quiet, Kept, Listed
  <2> QED
    BY <2>1, QuietKeepsClaimInv
<1> QED
  BY <1>1, <1>2, <1>3, <1>4 DEF Next

\* The inductive invariant holds initially.
LEMMA ClaimInvInit == Init => ClaimInv /\ RemovalIsOwn
<1> SUFFICES ASSUME Init
             PROVE ClaimInv /\ RemovalIsOwn
  OBVIOUS
<1>1. /\ db.exec = [e \in Execs |-> "absent"]
      /\ \A i \in Instances : /\ cache[i].exec = [e \in Execs |-> "absent"]
                              /\ proc[i] = DownProc
      /\ \A e \in Execs : task[e].pc = "new"
      /\ recovered = {}
  BY DEF Init, EmptyStore, NewTask
<1>2. DownProc.stranded = {} /\ DownProc.sweep.exec \notin Execs /\ DownProc.removal = NoRemoval
  BY ConstantsOK DEF DownProc, NoSweep
<1>3. \A e \in Execs : ~Listed(e)
  BY <1>1, <1>2 DEF Listed
<1>4. ClaimInv
  BY <1>1, <1>3 DEF ClaimInv, RunningHoldsClaim, UnstartedIsUnknown, SweptIsStranded,
                    CachedRunIsHomeOrDead, LiveIsRunning, Live, LivePc, WorkerPc,
                    BridgePc, OutcomePc, ReadClaimStands, Deciding
<1>5. RemovalIsOwn
  BY <1>1, <1>2 DEF RemovalIsOwn, NoRemoval
<1> QED
  BY <1>4, <1>5

-----------------------------------------------------------------------------
(***************************************************************************)
(* What a step does to the execution records, the history and the claims   *)
(***************************************************************************)

ExecsKept ==
    /\ db'.exec = db.exec /\ db'.claim = db.claim
    /\ \A e \in Execs : \/ db'.hist[e] = db.hist[e]
                        \/ task[e].pc = "bridgeHist" /\ db'.hist[e] = "failed"
ExecStarted(e) ==
    /\ task[e].pc = "startWrite"
    /\ db'.exec = [db.exec EXCEPT ![e] = "running"]
    /\ db'.hist = [db.hist EXCEPT ![e] = "running"]
    /\ db.claim[ProjectOf[e]] = None
    /\ db'.claim = [db.claim EXCEPT ![ProjectOf[e]] = e]
ExecEnded(e) ==
    /\ task[e].pc = "outWrite"
    /\ db'.exec = [db.exec EXCEPT ![e] = RunOutcome(e)]
    /\ db'.hist = [db.hist EXCEPT ![e] = RunOutcome(e)]
    /\ db'.claim = [db.claim EXCEPT ![ProjectOf[e]] = IF HoldsClaim(e) THEN None ELSE @]
ExecClosed(e) ==
    /\ e \notin recovered
    /\ db'.exec = [db.exec EXCEPT ![e] = "failed"]
    /\ \E i \in Instances :
          LET w == proc[i].sweep IN
          /\ w.exec = e
          /\ db'.hist = [db.hist EXCEPT ![e] = IF w.hist THEN "failed" ELSE @]
          /\ db'.claim = [db.claim EXCEPT ![ProjectOf[e]] = IF w.holds THEN None ELSE @]
ExecsRemoved(p) ==
    /\ deleted' = deleted \cup {p}
    /\ \A e \in Execs : ProjectOf[e] # p =>
          db'.exec[e] = db.exec[e] /\ db'.hist[e] = db.hist[e]
    /\ \A q \in Projects : db'.claim[q] = db.claim[q] \/ (q = p /\ db'.claim[q] = None)

\* Records change by the batches of a start, an outcome, a sweep or a deletion.
ExecChange ==
    \/ ExecsKept
    \/ \E e \in Execs : ExecStarted(e) \/ ExecEnded(e) \/ ExecClosed(e)
    \/ \E p \in Projects : ExecsRemoved(p)

\* No step changes records or histories in another way.
LEMMA ExecChanges ==
  ASSUME TypeOK, RemovalIsOwn, [Next]_vars
  PROVE ExecChange
<1> USE DEF store, ghosts
<1>0. db \in Store
  BY DEF TypeOK
<1>1. ASSUME NEW e \in Execs, StartStep(e)
      PROVE ExecsKept \/ ExecStarted(e)
  <2>1. \/ db' = db
        \/ task[e].pc = "startWrite" /\ ~ClaimTaken(e) /\ db' = StartRows(db, e)
    BY <1>1 DEF StartStep, StartSelect, StartReplay, StartPrepare, StartRefused,
                StartCommit, StartConflict, ClaimSelect, ClaimPublish, StartFault,
                WriteAt, At
  <2> QED
    BY <1>0, <2>1 DEF ExecsKept, ExecStarted, StartRows, ClaimTaken, Store
<1>2. ASSUME NEW e \in Execs, WorkerStep(e)
      PROVE ExecsKept \/ ExecEnded(e)
  <2>1. CASE BridgeProject(e) \/ BridgeHist(e) \/ BridgeFault(e)
    <3>1. \/ db' = db \/ db' = [db EXCEPT !.project[ProjectOf[e]] = Pend(e)]
          \/ task[e].pc = "bridgeHist" /\ db' = [db EXCEPT !.hist[e] = "failed"]
      BY <2>1 DEF BridgeProject, BridgeHist, BridgeFault, WriteAt, At
    <3> QED
      BY <1>0, <3>1 DEF ExecsKept, Store
  <2>2. CASE ~(BridgeProject(e) \/ BridgeHist(e) \/ BridgeFault(e))
    <3>1. \/ db' = db
          \/ task[e].pc = "outWrite" /\ db' = OutcomeRows(db, e)
      BY <1>2, <2>2 DEF WorkerStep, RunNext, DagSucceeds, DagFails, OutcomeBegin,
                        OutcomeSelect, OutcomePublish, OutcomeCommit, OutcomeFault,
                        WriteAt, At
    <3> QED
      BY <1>0, <3>1 DEF ExecsKept, ExecEnded, OutcomeRows, Store
  <2> QED
    BY <2>1, <2>2
<1>3. ASSUME NEW i \in Instances, ProcStep(i)
      PROVE ExecChange
  <2>0. /\ proc[i].sweep.exec \in Execs \cup {None}
        /\ proc[i].removal.project \in Projects \cup {None}
    BY DEF TypeOK, Proc, Sweep, Removal
  <2>1. CASE SweepCommit(i) \/ SweepFault(i)
    <3> DEFINE o == proc[i].sweep.exec
    <3>1. \/ db' = db
          \/ o \in Execs /\ o \notin recovered /\ db' = SweepRows(db, proc[i].sweep)
      BY <2>0, <2>1 DEF SweepCommit, SweepFault
    <3>2. /\ SweepRows(db, proc[i].sweep).exec = [db.exec EXCEPT ![o] = "failed"]
          /\ SweepRows(db, proc[i].sweep).hist =
                 [db.hist EXCEPT ![o] = IF proc[i].sweep.hist THEN "failed" ELSE @]
          /\ SweepRows(db, proc[i].sweep).claim =
                 [db.claim EXCEPT ![ProjectOf[o]] = IF proc[i].sweep.holds THEN None ELSE @]
      BY <1>0 DEF SweepRows, Store
    <3>3. CASE db' = db
      BY <3>3 DEF ExecChange, ExecsKept
    <3>4. CASE o \in Execs /\ o \notin recovered /\ db' = SweepRows(db, proc[i].sweep)
      <4>1. ExecClosed(o)
        BY <3>2, <3>4 DEF ExecClosed
      <4> QED
        BY <3>4, <4>1 DEF ExecChange
    <3> QED
      BY <3>1, <3>3, <3>4
  <2>2. CASE DeleteCommit(i) \/ RequestFault(i)
    <3> DEFINE r == proc[i].removal
    <3>1. \/ ExecsKept
          \/ /\ r.project \in Projects /\ db' = RemovalRows(db, r)
             /\ deleted' = deleted \cup {r.project}
      <4>1. CASE Turn(i, "edit") /\ RequestFault(i)
                 /\ db' \in {db, [db EXCEPT !.project[proc[i].edit.project] = proc[i].edit.rec]}
        BY <1>0, <4>1 DEF ExecsKept, Store
      <4> QED
        BY <2>0, <2>2, <4>1 DEF DeleteCommit, RequestFault, ExecsKept
    <3>2. \A e \in Execs : ProjectOf[e] # r.project => e \notin r.execs \cup r.hists
      BY DEF RemovalIsOwn
    <3>3. \A e \in Execs :
              /\ e \notin r.execs => RemovalRows(db, r).exec[e] = db.exec[e]
              /\ e \notin r.hists => RemovalRows(db, r).hist[e] = db.hist[e]
      BY DEF RemovalRows
    <3>4. \A q \in Projects : \/ RemovalRows(db, r).claim[q] = db.claim[q]
                              \/ q = r.project /\ RemovalRows(db, r).claim[q] = None
      BY <1>0 DEF RemovalRows, Store
    <3> QED
      BY <3>1, <3>2, <3>3, <3>4 DEF ExecChange, ExecsRemoved
  <2>3. CASE EditCommit(i)
    BY <1>0, <2>3 DEF EditCommit, ExecChange, ExecsKept, Store
  <2> QED
    BY <1>3, <2>1, <2>2, <2>3
    DEF ProcStep, Boot, Drain, Serve, Stop, StartRequest, EditRequest, DeleteRequest,
        ExecChange, ExecsKept
<1>4. CASE UNCHANGED vars
  BY <1>4 DEF vars, ExecChange, ExecsKept
<1> QED
  BY <1>1, <1>2, <1>3, <1>4 DEF Next, ExecChange

\* What has been erased, taken or recovered stays so.
LEMMA GhostsGrow ==
  ASSUME [Next]_vars
  PROVE deleted \subseteq deleted' /\ taken \subseteq taken' /\ recovered \subseteq recovered'
<1> USE DEF store, ghosts
<1>1. ASSUME NEW e \in Execs, StartStep(e) \/ WorkerStep(e)
      PROVE UNCHANGED <<deleted, taken, recovered>>
  <2>1. StartStep(e) => UNCHANGED <<deleted, taken, recovered>>
    BY DEF StartStep, StartSelect, StartReplay, StartPrepare, StartRefused, StartCommit,
           StartConflict, ClaimSelect, ClaimPublish, StartFault
  <2>2. WorkerStep(e) => UNCHANGED <<deleted, taken, recovered>>
    BY DEF WorkerStep, RunNext, DagSucceeds, DagFails, BridgeProject, BridgeHist,
           BridgeFault, OutcomeBegin, OutcomeSelect, OutcomePublish, OutcomeCommit,
           OutcomeFault
  <2> QED
    BY <1>1, <2>1, <2>2
<1>2. ASSUME NEW i \in Instances, ProcStep(i)
      PROVE deleted \subseteq deleted' /\ taken \subseteq taken' /\ recovered \subseteq recovered'
  BY <1>2 DEF ProcStep, EditCommit, DeleteCommit, RequestFault, Boot, Drain, SweepCommit,
              SweepFault, Serve, Stop, StartRequest, EditRequest, DeleteRequest
<1> QED
  BY <1>1, <1>2 DEF Next, vars

\* A record that is terminal stays: the worker of an execution that no sweep took,
\* and a sweep, only end one that is running.
LEMMA TerminalStays ==
  ASSUME TypeOK, ClaimInv, ExecChange, deleted \subseteq deleted', NEW e \in Execs,
         db.exec[e] \in Terminal, e \notin taken \cup unacked, ProjectOf[e] \notin deleted'
  PROVE db'.exec[e] = db.exec[e]
<1>0. db.exec \in [Execs -> RunStatus] /\ db.exec[e] \notin {"absent", "running"}
  BY DEF TypeOK, Store, Terminal
<1>1. CASE ExecsKept
  BY <1>1 DEF ExecsKept
<1>2. ASSUME NEW p \in Projects, ExecsRemoved(p)
      PROVE db'.exec[e] = db.exec[e]
  BY <1>2 DEF ExecsRemoved
<1>3. ASSUME NEW x \in Execs, ExecStarted(x) \/ ExecEnded(x) \/ ExecClosed(x)
      PROVE db'.exec[e] = db.exec[e]
  <2>1. CASE x # e
    BY <1>0, <1>3, <2>1 DEF ExecStarted, ExecEnded, ExecClosed
  <2>2. CASE x = e /\ ExecStarted(e)
    BY <1>0, <2>2 DEF ExecStarted, ClaimInv, UnstartedIsUnknown, NotStarted, StartPc
  <2>3. CASE x = e /\ (ExecEnded(e) \/ ExecClosed(e))
    <3>1. Untaken(e) /\ (ExecEnded(e) => Live(e))
      BY DEF Untaken, ExecEnded, Live, LivePc, WorkerPc, OutcomePc
    <3> QED
      BY <1>0, <2>3, <3>1 DEF ExecClosed, Listed, ClaimInv, LiveIsRunning, SweptIsStranded
  <2> QED
    BY <1>3, <2>1, <2>2, <2>3
<1> QED
  BY <1>1, <1>2, <1>3 DEF ExecChange

-----------------------------------------------------------------------------
(***************************************************************************)
(* Theorems                                                                *)
(***************************************************************************)

\* ClaimInv is an invariant of the specification.
LEMMA ClaimInvAlways == Spec => [](ClaimInv /\ RemovalIsOwn)
<1> DEFINE Inv == ClaimInv /\ RemovalIsOwn
<1>1. Init => Inv
  BY ClaimInvInit
<1>2. TypeOK /\ TypeOK' /\ Inv /\ [Next]_vars => Inv'
  BY ClaimInvStep, RemovalStep
<1> QED
  BY <1>1, <1>2, TypeCorrect, PTL DEF Spec

\* A running execution of an undisturbed project is the one its claim names, on
\* any number of processes, under crashes, restarts and storage faults: the
\* requireAbsent claim of the start batch admits one run of a project at a time.
THEOREM RunningHoldsClaimAlways == Spec => []RunningHoldsClaim
<1>1. ClaimInv => RunningHoldsClaim
  BY DEF ClaimInv
<1> QED
  BY <1>1, ClaimInvAlways, PTL

\* A worker works for an execution the store holds as running, until its outcome
\* has committed: no other process's sweep closes a run under its worker unless it
\* listed it, and only its own batch ends it otherwise.
THEOREM WorkersAreRecordedAlways == Spec => []WorkersAreRecorded
<1>1. ClaimInv => WorkersAreRecorded
  <2> SUFFICES ASSUME ClaimInv, NEW e \in Execs, Live(e), ~Disturbed(ProjectOf[e]),
                      e \notin unacked
               PROVE db.exec[e] = "running"
    BY DEF WorkersAreRecorded
  <2>1. Untaken(e)
    BY CleanIsUntaken DEF Clean
  <2> QED
    BY <2>1 DEF ClaimInv, LiveIsRunning
<1> QED
  BY <1>1, ClaimInvAlways, PTL

\* The terminal status of an execution is final, on any number of processes,
\* unless a sweep listed it while its worker was alive or its worker never heard
\* that its outcome had committed.
THEOREM TerminalStandsAlways == Spec => TerminalStands
<1> DEFINE Stands == \A e \in Execs :
                         db.exec[e] \in Terminal /\ e \notin taken \cup unacked
                         /\ ProjectOf[e] \notin deleted'
                            => db'.exec[e] = db.exec[e]
<1>1. TypeOK /\ ClaimInv /\ RemovalIsOwn /\ [Next]_vars => Stands
  BY ExecChanges, GhostsGrow, TerminalStays
<1>2. TypeOK /\ ClaimInv /\ RemovalIsOwn /\ [Next]_vars => [Stands]_vars
  BY <1>1
<1> HIDE DEF Stands
<1>3. Spec => [][Stands]_vars
  BY <1>2, ClaimInvAlways, TypeCorrect, PTL DEF Spec
<1> QED
  BY <1>3 DEF TerminalStands, Stands
=============================================================================
