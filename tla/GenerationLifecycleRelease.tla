---------------------- MODULE GenerationLifecycleRelease ----------------------
(***************************************************************************)
(* Theorem: the claim of a project is released with the run it names.      *)
(*                                                                         *)
(* Who ends an execution drops its claim only if it knows of it: an outcome*)
(* from the claims it read, a sweep from those its cache showed when its   *)
(* batch was prepared.  ReleaseInv follows a process from boot to exit: it *)
(* boots without tasks and sweeps all it shows running with the claims     *)
(* they hold; once it serves it shows none but its own runs, so that what  *)
(* a drain lists has a worker alive, which marks the project disturbed.    *)
(***************************************************************************)
EXTENDS GenerationLifecycleRows

-----------------------------------------------------------------------------
(***************************************************************************)
(* The inductive invariant                                                 *)
(***************************************************************************)

ListedAt(i, e) == e \in proc[i].stranded \/ proc[i].sweep.exec = e

\* The task of e is at work on process i, or has just brought it down.
Homed(i, e) == Home(e) = i /\ task[e].pc \in LivePc \cup {"fatal"}

\* A claim names a run of its own project.
ClaimsAreOwn == \A p \in Projects : db.claim[p] # None => ProjectOf[db.claim[p]] = p

\* A claim that an outcome did not find will not be its own later.
LostClaimStaysLost ==
    \A e \in Execs :
        task[e].pc \in Deciding /\ task[e].snap.claim[ProjectOf[e]] # e
            => db.claim[ProjectOf[e]] # e

\* A process admits nobody before it serves, and serves when its sweep is over.
NoTasksBefore ==
    \A i \in Instances : proc[i].mode \in {"down", "booting"} => \A e \in Execs : Home(e) # i
SweptBeforeServing ==
    \A i \in Instances : proc[i].mode \in {"down", "serving"} => \A e \in Execs : ~ListedAt(i, e)

\* While it boots, all it shows running is still to close or has been closed.
BootListsAll ==
    \A i \in Instances, e \in Execs :
        proc[i].mode = "booting" /\ cache[i].exec[e] = "running" /\ e \notin recovered
            => ListedAt(i, e)

\* Hence what it shows running once it serves are its own runs, and what it lists
\* when it drains is taken from their workers.
ServingShowsOwn ==
    \A i \in Instances, e \in Execs :
        /\ proc[i].mode = "serving" /\ cache[i].exec[e] = "running"
        /\ e \notin recovered /\ Untaken(e)
        => Homed(i, e)
DrainTakes ==
    \A i \in Instances, e \in Execs :
        proc[i].mode = "draining" /\ ListedAt(i, e) => e \in recovered \/ ~Untaken(e)

\* A sweep at boot knows of the claim that what it closes holds.
BootReleases ==
    \A i \in Instances, e \in Execs :
        proc[i].mode = "booting" /\ db.claim[ProjectOf[e]] = e =>
            /\ proc[i].sweep.exec = e => proc[i].sweep.holds
            /\ e \in proc[i].stranded => cache[i].claim[ProjectOf[e]] = e

ReleaseInv ==
    /\ ClaimsAreOwn
    /\ LostClaimStaysLost
    /\ NoTasksBefore
    /\ SweptBeforeServing
    /\ BootListsAll
    /\ ServingShowsOwn
    /\ DrainTakes
    /\ BootReleases
    /\ ClaimReleasedWithRun

-----------------------------------------------------------------------------
(***************************************************************************)
(* How a process goes from boot to exit                                    *)
(***************************************************************************)

\* Process i, in mode m, prepares the next batch of its sweep, or ends it, with the
\* executions in listed still to close; the claim is looked up in the cache it has.
Anew(i, m, listed) ==
    /\ proc'[i].mode = m
    /\ \A e \in Execs : e \in listed <=> e \in proc'[i].stranded \/ proc'[i].sweep.exec = e
    /\ \A e \in Execs : proc'[i].sweep.exec = e =>
          proc'[i].sweep.holds = (cache'[i].claim[ProjectOf[e]] = e)

\* All that is listed is closed in some order, from what the cache shows.
LEMMA SweepsAnew ==
  ASSUME TypeOK, NEW i \in Instances, NEW r \in Proc, NEW listed \in SUBSET Execs,
         cache'[i] \in Store, SweepsOn(i, r, listed, cache'[i])
  PROVE Anew(i, r.mode, listed) /\ \A j \in Instances \ {i} : proc'[j] = proc[j]
<1>1. /\ proc'[i].stranded \subseteq listed
      /\ proc'[i].sweep.exec \in listed \cup {None}
      /\ \A e \in listed : e \in proc'[i].stranded \/ proc'[i].sweep.exec = e
      /\ proc'[i].sweep \in {NoSweep} \cup {SweepOf(cache'[i], e) : e \in listed}
      /\ proc'[i].mode = r.mode
      /\ \A j \in Instances \ {i} : proc'[j] = proc[j]
  BY SweepsOnType
<1>2. \A e : /\ SweepOf(cache'[i], e).exec = e
             /\ SweepOf(cache'[i], e).holds = (cache'[i].claim[ProjectOf[e]] = e)
  BY DEF SweepOf
<1>3. NoSweep.exec \notin Execs /\ None \notin Execs
  BY ConstantsOK DEF NoSweep
<1> QED
  BY <1>1, <1>2, <1>3 DEF Anew

\* A process boots, serves, drains and ends; meanwhile it sweeps, or leaves its
\* sweep alone.
Steady(i) ==
    /\ proc'[i].mode = proc[i].mode
    /\ proc'[i].stranded = proc[i].stranded /\ proc'[i].sweep = proc[i].sweep
Boots(i) ==
    /\ proc[i].mode = "down"
    /\ db' = db /\ cache'[i] = db /\ Anew(i, "booting", StrandedIn(db))
Drains(i) ==
    /\ proc[i].mode = "serving" /\ Alive(i)
    /\ cache'[i] = cache[i] /\ Anew(i, "draining", StrandedIn(cache[i]))
    /\ \A e \in StrandedIn(cache[i]) : Live(e) => e \in taken'
Sweeps(i) ==
    /\ proc[i].sweep.exec \in recovered'
    /\ Anew(i, proc[i].mode, proc[i].stranded)
GivesUp(i) ==
    /\ proc'[i].mode = "draining"
    /\ proc'[i].stranded = {} /\ proc'[i].sweep = NoSweep
Serves(i) ==
    /\ proc[i].mode = "booting" /\ Swept(i) /\ cache'[i] = cache[i]
    /\ proc'[i].mode = "serving"
    /\ proc'[i].stranded = {} /\ proc'[i].sweep = NoSweep
Ends(i) ==
    /\ proc'[i] = DownProc /\ cache'[i] = EmptyStore
    /\ \A e \in Execs : task'[e].inst # i
Phase(i) == \/ Steady(i) \/ Boots(i) \/ Drains(i) \/ Sweeps(i)
            \/ GivesUp(i) \/ Serves(i) \/ Ends(i)

\* The steps of a start and of a worker leave modes and sweeps alone.
LEMMA TaskSteady ==
  ASSUME TypeOK, NEW e \in Execs, StartStep(e) \/ WorkerStep(e)
  PROVE \A i \in Instances : Steady(i)
<1> USE DEF store, ghosts
<1>1. \/ proc' = proc
      \/ \E q : proc' = [proc EXCEPT ![Home(e)].tail = q]
  <2>1. CASE StartStep(e)
    BY <2>1 DEF StartStep, StartSelect, StartReplay, StartPrepare, StartRefused,
                StartCommit, StartConflict, ClaimSelect, ClaimPublish, StartFault,
                Enqueue, Dequeue
  <2>2. CASE WorkerStep(e)
    BY <2>2 DEF WorkerStep, RunNext, DagSucceeds, DagFails, BridgeProject, BridgeHist,
                BridgeFault, OutcomeBegin, OutcomeSelect, OutcomePublish,
                OutcomeCommit, OutcomeFault, Enqueue, Dequeue
  <2> QED
    BY <2>1, <2>2
<1>2. CASE \E q : proc' = [proc EXCEPT ![Home(e)].tail = q]
  <2>1. PICK q : proc' = [proc EXCEPT ![Home(e)].tail = q]
    BY <1>2
  <2>2. proc \in [Instances -> Proc]
    BY DEF TypeOK
  <2> QED
    BY <2>1, <2>2 DEF Proc, Steady
<1> QED
  BY <1>1, <1>2 DEF Steady

\* Nor do edits, deletions and requests.
LEMMA RequestSteady ==
  ASSUME TypeOK, NEW i \in Instances,
         \/ EditCommit(i) \/ DeleteCommit(i) \/ RequestFault(i)
         \/ \E e \in Execs : StartRequest(i, e)
         \/ \E p \in Projects : EditRequest(i, p) \/ DeleteRequest(i, p)
  PROVE \A j \in Instances : Steady(j)
<1>1. proc \in [Instances -> Proc]
  BY DEF TypeOK
<1>2. \/ proc' = proc
      \/ \E a, b : \/ proc' = [proc EXCEPT ![i].edit = a, ![i].tail = b]
                   \/ proc' = [proc EXCEPT ![i].removal = a, ![i].tail = b]
  BY DEF EditCommit, DeleteCommit, RequestFault, StartRequest, EditRequest, DeleteRequest
<1>3. ASSUME NEW a, NEW b, proc' = [proc EXCEPT ![i].edit = a, ![i].tail = b]
      PROVE \A j \in Instances : Steady(j)
  BY <1>1, <1>3 DEF Proc, Steady
<1>4. ASSUME NEW a, NEW b, proc' = [proc EXCEPT ![i].removal = a, ![i].tail = b]
      PROVE \A j \in Instances : Steady(j)
  BY <1>1, <1>4 DEF Proc, Steady
<1> QED
  BY <1>2, <1>3, <1>4 DEF Steady

\* A boot and a drain list what is running, a batch goes on with the rest.
LEMMA ListsAnew ==
  ASSUME TypeOK, TypeOK', NEW i \in Instances, Boot(i) \/ Drain(i) \/ SweepCommit(i)
  PROVE /\ \A j \in Instances \ {i} : proc'[j] = proc[j]
        /\ Boot(i) => Anew(i, "booting", StrandedIn(db)) /\ cache'[i] = db
        /\ Drain(i) => Anew(i, "draining", StrandedIn(cache[i])) /\ cache'[i] = cache[i]
        /\ SweepCommit(i) => Anew(i, proc[i].mode, proc[i].stranded)
<1> DEFINE Others == \A j \in Instances \ {i} : proc'[j] = proc[j]
<1>0. /\ cache'[i] \in Store /\ proc[i].stranded \in SUBSET Execs
      /\ \A s : StrandedIn(s) \in SUBSET Execs
  BY DEF TypeOK, StrandedIn, Proc
<1>1. \A m \in {"booting", "draining"} : /\ [proc[i] EXCEPT !.mode = m] \in Proc
                                         /\ [proc[i] EXCEPT !.mode = m].mode = m
  BY DEF TypeOK, Proc, Mode
<1>2. ASSUME Boot(i)
      PROVE Anew(i, "booting", StrandedIn(db)) /\ cache'[i] = db /\ Others
  <2>1. cache'[i] = db
    BY <1>2 DEF Boot, TypeOK
  <2>2. SweepsOn(i, [proc[i] EXCEPT !.mode = "booting"], StrandedIn(db), cache'[i])
    BY <1>2, <2>1 DEF Boot
  <2> DEFINE r == [proc[i] EXCEPT !.mode = "booting"]
  <2>3. r \in Proc /\ r.mode = "booting" /\ SweepsOn(i, r, StrandedIn(db), cache'[i])
    BY <1>1, <2>2
  <2> HIDE DEF r
  <2>4. Anew(i, r.mode, StrandedIn(db)) /\ Others
    BY <1>0, <2>3, SweepsAnew
  <2> QED
    BY <2>1, <2>3, <2>4
<1>3. ASSUME Drain(i)
      PROVE Anew(i, "draining", StrandedIn(cache[i])) /\ cache'[i] = cache[i] /\ Others
  <2>1. cache'[i] = cache[i]
    BY <1>3 DEF Drain
  <2>2. SweepsOn(i, [proc[i] EXCEPT !.mode = "draining"], StrandedIn(cache[i]), cache'[i])
    BY <1>3, <2>1 DEF Drain
  <2> DEFINE r == [proc[i] EXCEPT !.mode = "draining"]
  <2>3. r \in Proc /\ r.mode = "draining" /\ SweepsOn(i, r, StrandedIn(cache[i]), cache'[i])
    BY <1>1, <2>2
  <2> HIDE DEF r
  <2>4. Anew(i, r.mode, StrandedIn(cache[i])) /\ Others
    BY <1>0, <2>3, SweepsAnew
  <2> QED
    BY <2>1, <2>3, <2>4
<1>4. ASSUME SweepCommit(i)
      PROVE Anew(i, proc[i].mode, proc[i].stranded) /\ Others
  <2> DEFINE r == [proc[i] EXCEPT !.tail = Tail(@)]
  <2>1. r \in Proc /\ r.mode = proc[i].mode /\ r.stranded = proc[i].stranded
    <3>1. Turn(i, "sweep")
      BY <1>4 DEF SweepCommit
    <3>2. Tail(proc[i].tail) \in Seq(Writer)
      BY <3>1, SettledTail
    <3> QED
      BY <3>2 DEF TypeOK, Proc
  <2>2. SweepsOn(i, r, proc[i].stranded, cache'[i])
    <3>1. CASE proc[i].sweep.exec \in recovered
      BY <1>4, <2>1, <3>1 DEF SweepCommit
    <3>2. CASE proc[i].sweep.exec \notin recovered
      <4>1. /\ SweepsOn(i, r, r.stranded, SweepRows(cache[i], proc[i].sweep))
            /\ cache' = [cache EXCEPT ![i] = SweepRows(cache[i], proc[i].sweep)]
        BY <1>4, <3>2 DEF SweepCommit
      <4>2. cache'[i] = SweepRows(cache[i], proc[i].sweep)
        BY <4>1 DEF TypeOK
      <4> QED
        BY <2>1, <4>1, <4>2
    <3> QED
      BY <3>1, <3>2
  <2> HIDE DEF r
  <2>3. Anew(i, r.mode, proc[i].stranded) /\ Others
    BY <1>0, <2>1, <2>2, SweepsAnew
  <2> QED
    BY <2>1, <2>3
<1> QED
  BY <1>2, <1>3, <1>4

\* Every step takes every process through these phases.
LEMMA Phases ==
  ASSUME TypeOK, TypeOK', [Next]_vars
  PROVE \A i \in Instances : Phase(i)
<1> USE DEF store, ghosts
<1>1. CASE UNCHANGED vars
  BY <1>1 DEF vars, Phase, Steady
<1>2. ASSUME NEW e \in Execs, StartStep(e) \/ WorkerStep(e)
      PROVE \A i \in Instances : Phase(i)
  BY <1>2, TaskSteady DEF Phase
<1>3. ASSUME NEW i \in Instances, ProcStep(i)
      PROVE \A j \in Instances : Phase(j)
  <2>0. /\ proc \in [Instances -> Proc] /\ StrandedIn(db) \in SUBSET Execs
        /\ StrandedIn(cache[i]) \in SUBSET Execs /\ proc[i].stranded \in SUBSET Execs
    BY DEF TypeOK, StrandedIn, Proc
  <2>1. ASSUME \A j \in Instances \ {i} : proc'[j] = proc[j], Phase(i)
        PROVE \A j \in Instances : Phase(j)
    BY <2>1 DEF Phase, Steady
  <2>2. CASE Boot(i)
    <3>1. Boots(i)
      BY <2>2, ListsAnew DEF Boot, Boots
    <3> QED
      BY <2>1, <2>2, <3>1, ListsAnew DEF Phase
  <2>3. CASE Drain(i)
    <3>1. Drains(i)
      BY <2>3, ListsAnew DEF Drain, Drains, Serving
    <3> QED
      BY <2>1, <2>3, <3>1, ListsAnew DEF Phase
  <2>4. CASE SweepCommit(i)
    <3>1. Sweeps(i)
      BY <2>4, ListsAnew DEF SweepCommit, Sweeps
    <3> QED
      BY <2>1, <2>4, <3>1, ListsAnew DEF Phase
  <2>5. CASE SweepFault(i)
    <3>1. GivesUp(i) /\ \A j \in Instances \ {i} : proc'[j] = proc[j]
      BY <2>0, <2>5 DEF SweepFault, GivesUp, Proc
    <3> QED
      BY <2>1, <3>1 DEF Phase
  <2>6. CASE Serve(i)
    <3>1. Serves(i) /\ \A j \in Instances \ {i} : proc'[j] = proc[j]
      BY <2>0, <2>6 DEF Serve, Serves, Swept, Proc
    <3> QED
      BY <2>1, <3>1 DEF Phase
  <2>7. CASE Stop(i)
    <3>1. /\ proc'[i] = DownProc /\ cache'[i] = EmptyStore
          /\ \A j \in Instances \ {i} : proc'[j] = proc[j]
      BY <2>0, <2>7 DEF Stop, TypeOK
    <3>2. \A e \in Execs : task'[e].inst # i
      <4>1. None \notin Instances
        BY ConstantsOK
      <4> QED
        BY <2>7, <4>1 DEF Stop, DoneTask, NewTask, Home
    <3> QED
      BY <2>1, <3>1, <3>2 DEF Ends, Phase
  <2> QED
    BY <1>3, <2>2, <2>3, <2>4, <2>5, <2>6, <2>7, RequestSteady DEF ProcStep, Phase
<1> QED
  BY <1>1, <1>2, <1>3 DEF Next
-----------------------------------------------------------------------------
(***************************************************************************)
(* What a cache shows running, and the claims it shows                     *)
(***************************************************************************)

\* A process that is up shows a run of its own, or one it showed before that was
\* not its own.
RunShown(i) ==
    \A e \in Execs :
        cache'[i].exec[e] = "running" =>
            \/ Homed(i, e)'
            \/ cache[i].exec[e] = "running" /\ ~Homed(i, e)
            \/ proc[i].mode = "down"

\* A step that leaves caches alone and ends no task it shows running.
LEMMA QuietShown ==
  ASSUME Quiet, NEW i \in Instances
  PROVE RunShown(i)
BY DEF Quiet, Kept, TaskQuiet, RunShown, Homed, Home

\* A start shows its own run once it has committed.
LEMMA StartShown ==
  ASSUME TypeOK, NEW e \in Execs, StartCommit(e) \/ (StartFault(e) /\ db' # db),
         NEW i \in Instances
  PROVE RunShown(i)
<1> USE DEF LivePc, WorkerPc, BridgePc, OutcomePc
<1>0. task[e].pc = "startWrite" /\ \A j \in Instances : cache[j].exec \in [Execs -> RunStatus]
  BY DEF StartCommit, StartFault, WriteAt, At, TypeOK, Store
<1>1. CASE StartCommit(e)
  <2> DEFINE r == [task[e] EXCEPT !.pc = "queued", !.pend = NoProject]
  <2>1. /\ r \in Task /\ r.inst = task[e].inst /\ r.pc = "queued"
        /\ task' = Settled(Home(e), [task EXCEPT ![e] = r])
    BY <1>1, TaskOf, PcTypes, ConstantTypes DEF StartCommit, TypeOK, Task
  <2> HIDE DEF r
  <2>2. /\ \A x \in Execs \ {e} : Kept(x)
        /\ task'[e].pc = "queued" /\ task'[e].inst = task[e].inst
    BY <2>1, SettledStep
  <2>3. cache' = [cache EXCEPT ![Home(e)] = StartRows(cache[Home(e)], e)]
    BY <1>1 DEF StartCommit
  <2>4. /\ i # Home(e) => cache'[i] = cache[i]
        /\ i = Home(e) => cache'[i].exec = [cache[i].exec EXCEPT ![e] = "running"]
    BY <2>3 DEF TypeOK, Store, StartRows
  <2> QED
    BY <1>0, <2>2, <2>4 DEF RunShown, Homed, Kept, Home
<1>2. CASE StartFault(e) /\ db' # db
  <2>1. cache' = cache /\ task' = Settled(Home(e), [task EXCEPT ![e] = DoneTask])
    BY <1>2 DEF StartFault, Finished
  <2>2. \A x \in Execs \ {e} : Kept(x)
    BY <2>1, SettledStep, ConstantTypes
  <2> QED
    BY <1>0, <2>1, <2>2 DEF RunShown, Homed, Kept, Home
<1> QED
  BY <1>1, <1>2

\* An outcome no longer shows its run once it has committed.
LEMMA OutcomeShown ==
  ASSUME TypeOK, NEW e \in Execs, OutcomeCommit(e) \/ (OutcomeFault(e) /\ db' # db),
         NEW i \in Instances
  PROVE RunShown(i)
<1> USE DEF LivePc, WorkerPc, BridgePc, OutcomePc
<1>0. /\ \A j \in Instances : cache[j].exec \in [Execs -> RunStatus]
      /\ RunOutcome(e) # "running"
  BY DEF TypeOK, Store, RunOutcome
<1>1. CASE OutcomeCommit(e)
  <2>1. /\ task' = Settled(Home(e), [task EXCEPT ![e] = DoneTask])
        /\ cache' = [cache EXCEPT ![Home(e)] = OutcomeRows(cache[Home(e)], e)]
    BY <1>1 DEF OutcomeCommit, Finished
  <2>2. \A x \in Execs \ {e} : Kept(x)
    BY <2>1, SettledStep, ConstantTypes
  <2>3. /\ i # Home(e) => cache'[i] = cache[i]
        /\ i = Home(e) => cache'[i].exec = [cache[i].exec EXCEPT ![e] = RunOutcome(e)]
    BY <2>1 DEF TypeOK, Store, OutcomeRows
  <2> QED
    BY <1>0, <2>2, <2>3 DEF RunShown, Homed, Kept, Home
<1>2. CASE OutcomeFault(e) /\ db' # db
  <2>1. cache' = cache /\ task' = Settled(Home(e), Thrown(e))
    BY <1>2 DEF OutcomeFault
  <2>2. PICK r \in Task : /\ Thrown(e) = [task EXCEPT ![e] = r]
                         /\ r.pc \in {"finish", "fatal"} /\ r.inst = task[e].inst
    BY ThrownTask
  <2>3. /\ \A x \in Execs \ {e} : Kept(x)
        /\ task'[e].pc \in {"finish", "fatal"} /\ task'[e].inst = task[e].inst
    BY <2>1, <2>2, SettledStep
  <2> QED
    BY <2>1, <2>3 DEF RunShown, Homed, Kept, Home
<1> QED
  BY <1>1, <1>2

\* A process that boots shows what it has loaded; sweeps and deletions show less.
LEMMA ProcShown ==
  ASSUME TypeOK, NEW j \in Instances, NEW i \in Instances,
         \/ DeleteCommit(j) \/ RequestFault(j) \/ Boot(j) \/ Drain(j)
         \/ SweepCommit(j) \/ SweepFault(j) \/ Stop(j)
  PROVE RunShown(i)
<1>0. /\ \A k \in Instances : cache[k].exec \in [Execs -> RunStatus]
      /\ proc[j].sweep.exec \in Execs \cup {None}
  BY DEF TypeOK, Store, Proc, Sweep
<1>1. CASE Stop(j)
  <2>1. \A e \in Execs : cache'[j].exec[e] # "running"
    BY <1>1 DEF Stop, TypeOK, EmptyStore
  <2>2. i # j => cache'[i] = cache[i] /\ \A e \in Execs : Home(e) = i => Kept(e)
    BY <1>1 DEF Stop, TypeOK, Kept
  <2> QED
    BY <2>1, <2>2 DEF RunShown, Homed, Kept, Home
<1>2. CASE Boot(j)
  <2>1. /\ proc[j].mode = "down" /\ task' = task
        /\ i # j => cache'[i] = cache[i]
    BY <1>2 DEF Boot, TypeOK
  <2> QED
    BY <2>1 DEF RunShown, Homed, Home
<1>3. ASSUME \A e \in Execs : Kept(e),
             \A e \in Execs : cache'[i].exec[e] = "running" => cache[i].exec[e] = "running"
      PROVE RunShown(i)
  <2>1. \A e \in Execs : Homed(i, e)' <=> Homed(i, e)
    BY <1>3 DEF Homed, Kept, Home
  <2> QED
    BY <1>3, <2>1 DEF RunShown
<1>4. CASE Drain(j) \/ RequestFault(j) \/ SweepFault(j)
  <2>1. cache' = cache /\ task' \in {task, Settled(j, task)}
    BY <1>4 DEF Drain, RequestFault, SweepFault
  <2>2. \A e \in Execs : Kept(e)
    BY <2>1, SettledAll DEF Kept
  <2> QED
    BY <1>3, <2>1, <2>2
<1>5. CASE DeleteCommit(j) \/ SweepCommit(j)
  <2>1. \A e \in Execs : Kept(e)
    BY <1>5, SettledAll DEF DeleteCommit, SweepCommit
  <2>2. \/ cache' = cache
        \/ cache' = [cache EXCEPT ![j] = RemovalRows(cache[j], proc[j].removal)]
        \/ cache' = [cache EXCEPT ![j] = SweepRows(cache[j], proc[j].sweep)]
    BY <1>5 DEF DeleteCommit, SweepCommit
  <2>3. \/ cache'[i] = cache[i]
        \/ cache'[i] = RemovalRows(cache[j], proc[j].removal) /\ i = j
        \/ cache'[i] = SweepRows(cache[j], proc[j].sweep) /\ i = j
    BY <2>2 DEF TypeOK
  <2>4. \A e \in Execs :
          RemovalRows(cache[j], proc[j].removal).exec[e] \in {"absent", cache[j].exec[e]}
    BY DEF RemovalRows
  <2>5. SweepRows(cache[j], proc[j].sweep).exec =
            [cache[j].exec EXCEPT ![proc[j].sweep.exec] = "failed"]
    BY DEF SweepRows, TypeOK, Store
  <2>6. \A e \in Execs :
          SweepRows(cache[j], proc[j].sweep).exec[e] \in {"failed", cache[j].exec[e]}
    BY <1>0, <2>5
  <2> QED
    BY <1>3, <2>1, <2>3, <2>4, <2>6
<1> QED
  BY <1>1, <1>2, <1>4, <1>5

\* Caches show runs in these ways whatever is done.
LEMMA RunsShown ==
  ASSUME TypeOK, TypeOK', [Next]_vars
  PROVE \A i \in Instances : RunShown(i)
<1>1. ASSUME NEW e \in Execs, StartStep(e)
      PROVE \A i \in Instances : RunShown(i)
  <2>1. ~StartCommit(e) /\ ~StartFault(e) => db' = db
    BY <1>1 DEF StartStep, StartSelect, StartReplay, StartPrepare, StartRefused,
                StartConflict, ClaimSelect, ClaimPublish, store
  <2> QED
    BY <1>1, <2>1, StartShown, QuietStart, QuietShown
<1>2. ASSUME NEW e \in Execs, WorkerStep(e)
      PROVE \A i \in Instances : RunShown(i)
  <2>1. CASE OutcomeCommit(e) \/ (OutcomeFault(e) /\ db' # db)
    BY <2>1, OutcomeShown
  <2>2. CASE ~OutcomeCommit(e) /\ ~(OutcomeFault(e) /\ db' # db)
    BY <1>2, <2>2, QuietWorker, QuietShown
  <2> QED
    BY <2>1, <2>2
<1>3. ASSUME NEW j \in Instances, ProcStep(j)
      PROVE \A i \in Instances : RunShown(i)
  <2>1. CASE \/ DeleteCommit(j) \/ RequestFault(j) \/ Boot(j) \/ Drain(j)
             \/ SweepCommit(j) \/ SweepFault(j) \/ Stop(j)
    BY <2>1, ProcShown
  <2>2. CASE \/ EditCommit(j) \/ Serve(j)
             \/ \E e \in Execs : StartRequest(j, e)
             \/ \E p \in Projects : EditRequest(j, p) \/ DeleteRequest(j, p)
    BY <2>2, QuietProc, QuietShown
  <2> QED
    BY <1>3, <2>1, <2>2 DEF ProcStep
<1>4. CASE UNCHANGED vars
  <2>1. Quiet
    BY <1>4 DEF vars, Quiet, Kept, Listed
  <2> QED
    BY <2>1, QuietShown
<1> QED
  BY <1>1, <1>2, <1>3, <1>4 DEF Next

\* While a process boots, it learns of a claim that is dropped.
ClaimShown(i) ==
    proc[i].mode = "booting" /\ proc'[i].mode = "booting" =>
        \A p \in Projects : cache'[i].claim[p] = cache[i].claim[p] \/ db'.claim[p] = None

\* Nobody but the process itself writes its cache while it boots, and what it
\* writes there it writes to the store.
LEMMA ClaimsShown ==
  ASSUME TypeOK, NoTasksBefore, [Next]_vars
  PROVE \A i \in Instances : ClaimShown(i)
<1> SUFFICES ASSUME NEW i \in Instances, proc[i].mode = "booting", proc'[i].mode = "booting"
             PROVE \A p \in Projects : \/ cache'[i].claim[p] = cache[i].claim[p]
                                       \/ db'.claim[p] = None
  BY DEF ClaimShown
<1>0. \A e \in Execs : Home(e) # i
  BY DEF NoTasksBefore
<1>1. ASSUME NEW e \in Execs, StartStep(e) \/ WorkerStep(e)
      PROVE cache'[i] = cache[i]
  <2>1. \/ cache' = cache
        \/ \E s : cache' = [cache EXCEPT ![Home(e)] = s]
    <3>1. CASE StartStep(e)
      BY <3>1 DEF StartStep, StartSelect, StartReplay, StartPrepare, StartRefused,
                  StartCommit, StartConflict, ClaimSelect, ClaimPublish, StartFault,
                  Published
    <3>2. CASE WorkerStep(e)
      BY <3>2 DEF WorkerStep, RunNext, DagSucceeds, DagFails, BridgeProject, BridgeHist,
                  BridgeFault, OutcomeBegin, OutcomeSelect, OutcomePublish,
                  OutcomeCommit, OutcomeFault
    <3> QED
      BY <1>1, <3>1, <3>2
  <2> QED
    BY <1>0, <2>1 DEF TypeOK
<1>2. ASSUME NEW j \in Instances, ProcStep(j)
      PROVE \A p \in Projects : \/ cache'[i].claim[p] = cache[i].claim[p]
                                \/ db'.claim[p] = None
  <2>0. /\ db \in Store /\ cache[i] \in Store
    BY DEF TypeOK
  <2>1. CASE EditCommit(j)
    <3>1. cache' = [cache EXCEPT ![j].project[proc[j].edit.project] = proc[j].edit.rec]
      BY <2>1 DEF EditCommit
    <3> QED
      BY <3>1 DEF TypeOK, Store
  <2>2. CASE DeleteCommit(j)
    <3>1. /\ db' = RemovalRows(db, proc[j].removal)
          /\ cache' = [cache EXCEPT ![j] = RemovalRows(cache[j], proc[j].removal)]
      BY <2>2 DEF DeleteCommit
    <3>2. \A s \in Store, p \in Projects :
            RemovalRows(s, proc[j].removal).claim[p] =
                IF p = proc[j].removal.project /\ proc[j].removal.claim THEN None ELSE s.claim[p]
      BY DEF RemovalRows, Store
    <3> QED
      BY <2>0, <3>1, <3>2 DEF TypeOK
  <2>3. CASE SweepCommit(j)
    <3>1. \/ cache' = cache
          \/ /\ db' = SweepRows(db, proc[j].sweep)
             /\ cache' = [cache EXCEPT ![j] = SweepRows(cache[j], proc[j].sweep)]
      BY <2>3 DEF SweepCommit
    <3>2. \A s \in Store, p \in Projects :
            SweepRows(s, proc[j].sweep).claim[p] =
                IF p = ProjectOf[proc[j].sweep.exec] /\ proc[j].sweep.holds
                THEN None ELSE s.claim[p]
      BY DEF SweepRows, Store
    <3> QED
      BY <2>0, <3>1, <3>2 DEF TypeOK
  <2>4. CASE Boot(j) \/ Stop(j)
    <3>1. i # j
      BY <2>4 DEF Boot, Stop, TypeOK, DownProc
    <3> QED
      BY <2>4, <3>1 DEF Boot, Stop, TypeOK
  <2> QED
    BY <1>2, <2>1, <2>2, <2>3, <2>4
    DEF ProcStep, RequestFault, Drain, SweepFault, Serve, StartRequest, EditRequest,
        DeleteRequest
<1> QED
  BY <1>1, <1>2 DEF Next, vars

-----------------------------------------------------------------------------
(***************************************************************************)
(* Every step keeps ReleaseInv                                             *)
(***************************************************************************)

\* A claim that the store gains is that of a run whose start commits.
LEMMA ClaimGained ==
  ASSUME TypeOK, ExecChange, NEW p \in Projects, db'.claim[p] # None,
         db'.claim[p] # db.claim[p]
  PROVE \E e \in Execs : /\ task[e].pc = "startWrite" /\ ProjectOf[e] = p
                         /\ db'.claim[p] = e /\ db'.exec[e] = "running"
<1>0. db.claim \in [Projects -> Execs \cup {None}] /\ db.exec \in [Execs -> RunStatus]
  BY DEF TypeOK, Store
<1>1. \A e \in Execs : ~ExecEnded(e) /\ ~ExecClosed(e)
  BY <1>0, ConstantsOK DEF ExecEnded, ExecClosed
<1>2. ~ExecsKept /\ \A q \in Projects : ~ExecsRemoved(q)
  BY DEF ExecsKept, ExecsRemoved
<1>3. PICK e \in Execs : ExecStarted(e)
  BY <1>1, <1>2 DEF ExecChange
<1>4. ProjectOf[e] = p /\ db'.claim[p] = e /\ db'.exec[e] = "running"
  BY <1>0, <1>3, ConstantsOK DEF ExecStarted
<1> QED
  BY <1>3, <1>4 DEF ExecStarted

LEMMA ClaimsStep ==
  ASSUME TypeOK, ExecChange, \A e \in Execs : Moves(e), ClaimsAreOwn, LostClaimStaysLost
  PROVE ClaimsAreOwn' /\ LostClaimStaysLost'
<1>1. ClaimsAreOwn'
  BY ClaimGained DEF ClaimsAreOwn
<1>2. ASSUME NEW e \in Execs, task'[e].pc \in Deciding,
             task'[e].snap.claim[ProjectOf[e]] # e
      PROVE db'.claim[ProjectOf[e]] # e
  <2>0. ProjectOf[e] \in Projects /\ e # None
    BY ConstantsOK
  <2>1. CASE task[e].pc \in Deciding /\ task'[e].snap = task[e].snap
    <3>1. db.claim[ProjectOf[e]] # e /\ task[e].pc # "startWrite"
      BY <1>2, <2>1 DEF LostClaimStaysLost, Deciding
    <3> QED
      BY <2>0, <3>1, ClaimGained
  <2>2. CASE task'[e].snap.claim = db.claim /\ db'.claim = db.claim
    BY <1>2, <2>2
  <2> QED
    BY <1>2, <2>1, <2>2 DEF Moves
<1> QED
  BY <1>1, <1>2 DEF LostClaimStaysLost

LEMMA BootStep ==
  ASSUME TypeOK, TypeOK', \A e \in Execs : Moves(e), \A i \in Instances : Phase(i),
         recovered \subseteq recovered', NoTasksBefore, SweptBeforeServing
  PROVE NoTasksBefore' /\ SweptBeforeServing'
<1>0. /\ DownProc.mode = "down" /\ DownProc.stranded = {} /\ DownProc.sweep = NoSweep
      /\ NoSweep.exec \notin Execs /\ None \notin Instances /\ recovered' \subseteq Execs
  BY ConstantsOK DEF DownProc, NoSweep, TypeOK
<1>1. ASSUME NEW i \in Instances, proc'[i].mode \in {"down", "booting"}, NEW e \in Execs
      PROVE task'[e].inst # i
  <2>1. CASE proc[i].mode \in {"down", "booting"}
    <3>1. task[e].inst # i
      BY <2>1 DEF NoTasksBefore, Home
    <3>2. task'[e].inst \in {task[e].inst, None} \/ proc[task'[e].inst].mode = "serving"
      BY DEF Moves
    <3> QED
      BY <1>0, <2>1, <3>1, <3>2
  <2>2. CASE proc[i].mode \notin {"down", "booting"}
    <3>1. Ends(i)
      BY <1>1, <2>2 DEF Phase, Steady, Boots, Drains, Sweeps, GivesUp, Serves, Anew
    <3> QED
      BY <3>1 DEF Ends
  <2> QED
    BY <2>1, <2>2
<1>2. ASSUME NEW i \in Instances, proc'[i].mode \in {"down", "serving"}, NEW e \in Execs
      PROVE ~ListedAt(i, e)'
  <2>1. CASE Steady(i)
    BY <1>2, <2>1 DEF Steady, SweptBeforeServing, ListedAt
  <2>2. CASE Boots(i) \/ Drains(i)
    BY <1>2, <2>2 DEF Boots, Drains, Anew
  <2>3. CASE Sweeps(i)
    <3>1. proc[i].sweep.exec \in Execs /\ proc'[i].mode = proc[i].mode
      BY <1>0, <2>3 DEF Sweeps, Anew
    <3> QED
      BY <1>2, <3>1 DEF SweptBeforeServing, ListedAt
  <2>4. CASE GivesUp(i) \/ Serves(i) \/ Ends(i)
    BY <1>0, <2>4 DEF GivesUp, Serves, Ends, ListedAt
  <2> QED
    BY <2>1, <2>2, <2>3, <2>4 DEF Phase
<1> QED
  BY <1>1, <1>2 DEF NoTasksBefore, SweptBeforeServing, Home

\* A process that boots does not lose sight of what it shows running.
LEMMA BootListStep ==
  ASSUME TypeOK, TypeOK', \A i \in Instances : Phase(i) /\ RunShown(i),
         recovered \subseteq recovered', NoTasksBefore', BootListsAll
  PROVE BootListsAll'
<1> SUFFICES ASSUME NEW i \in Instances, NEW e \in Execs, proc'[i].mode = "booting",
                    cache'[i].exec[e] = "running", e \notin recovered'
             PROVE ListedAt(i, e)'
  BY DEF BootListsAll
<1>1. CASE Boots(i)
  BY <1>1 DEF Boots, Anew, StrandedIn, ListedAt
<1>2. CASE Steady(i) \/ Sweeps(i)
  <2>1. proc[i].mode = "booting"
    BY <1>2 DEF Steady, Sweeps, Anew
  <2>2. cache[i].exec[e] = "running"
    BY <2>1 DEF RunShown, Homed, NoTasksBefore
  <2>3. ListedAt(i, e)
    BY <2>1, <2>2 DEF BootListsAll
  <2> QED
    BY <1>2, <2>3 DEF Steady, Sweeps, Anew, ListedAt
<1>3. CASE Drains(i) \/ GivesUp(i) \/ Serves(i) \/ Ends(i)
  BY <1>3 DEF Drains, Anew, GivesUp, Serves, Ends, DownProc
<1> QED
  BY <1>1, <1>2, <1>3 DEF Phase

LEMMA ServingStep ==
  ASSUME TypeOK, TypeOK', \A i \in Instances : Phase(i) /\ RunShown(i),
         deleted \subseteq deleted', taken \subseteq taken', recovered \subseteq recovered',
         SweptBeforeServing, BootListsAll, ServingShowsOwn
  PROVE ServingShowsOwn'
<1> SUFFICES ASSUME NEW i \in Instances, NEW e \in Execs, proc'[i].mode = "serving",
                    cache'[i].exec[e] = "running", e \notin recovered', Untaken(e)'
             PROVE Homed(i, e)'
  BY DEF ServingShowsOwn
<1>0. Untaken(e) /\ e \notin recovered
  BY CleanStays
<1>1. CASE Steady(i)
  <2>1. ~(cache[i].exec[e] = "running" /\ ~Homed(i, e))
    BY <1>0, <1>1 DEF Steady, ServingShowsOwn
  <2> QED
    BY <1>1, <2>1 DEF Steady, RunShown
<1>2. CASE Serves(i)
  <2>1. ~ListedAt(i, e)
    BY <1>2, ConstantsOK DEF Serves, Swept, ListedAt, NoSweep
  <2> QED
    BY <1>0, <1>2, <2>1 DEF Serves, BootListsAll
<1>3. CASE Sweeps(i)
  <2>1. proc[i].sweep.exec \in Execs /\ proc[i].mode = "serving"
    BY <1>3 DEF Sweeps, Anew, TypeOK
  <2> QED
    BY <2>1 DEF SweptBeforeServing, ListedAt
<1>4. CASE Boots(i) \/ Drains(i) \/ GivesUp(i) \/ Ends(i)
  BY <1>4 DEF Boots, Drains, Anew, GivesUp, Ends, DownProc
<1> QED
  BY <1>1, <1>2, <1>3, <1>4 DEF Phase

LEMMA DrainStep ==
  ASSUME TypeOK, TypeOK', \A i \in Instances : Phase(i),
         deleted \subseteq deleted', taken \subseteq taken', recovered \subseteq recovered',
         ServingShowsOwn, DrainTakes
  PROVE DrainTakes'
<1> SUFFICES ASSUME NEW i \in Instances, NEW e \in Execs, proc'[i].mode = "draining",
                    ListedAt(i, e)', Untaken(e)'
             PROVE e \in recovered'
  BY DEF DrainTakes
<1>0. Untaken(e)
  BY CleanStays
<1>1. CASE Steady(i) \/ Sweeps(i)
  <2>1. proc[i].mode = "draining" /\ ListedAt(i, e)
    BY <1>1 DEF Steady, Sweeps, Anew, ListedAt
  <2> QED
    BY <1>0, <2>1 DEF DrainTakes
<1>2. CASE Drains(i)
  <2>1. cache[i].exec[e] = "running" /\ proc[i].mode = "serving" /\ Alive(i)
    BY <1>2 DEF Drains, Anew, ListedAt, StrandedIn
  <2>2. e \notin recovered => Live(e)
    BY <1>0, <2>1 DEF ServingShowsOwn, Homed, Alive, Live
  <2>3. Live(e) => e \in taken'
    BY <1>2, <2>1 DEF Drains, StrandedIn
  <2> QED
    BY <2>2, <2>3 DEF Untaken
<1>3. CASE GivesUp(i)
  BY <1>3, ConstantsOK DEF GivesUp, ListedAt, NoSweep
<1>4. CASE Boots(i) \/ Serves(i) \/ Ends(i)
  BY <1>4 DEF Boots, Anew, Serves, Ends, DownProc
<1> QED
  BY <1>1, <1>2, <1>3, <1>4 DEF Phase

LEMMA BootReleaseStep ==
  ASSUME TypeOK, TypeOK', ExecChange, UnstartedIsUnknown,
         \A i \in Instances : Phase(i) /\ ClaimShown(i), BootReleases
  PROVE BootReleases'
<1> SUFFICES ASSUME NEW i \in Instances, NEW e \in Execs, proc'[i].mode = "booting",
                    db'.claim[ProjectOf[e]] = e
             PROVE /\ proc'[i].sweep.exec = e => proc'[i].sweep.holds
                   /\ e \in proc'[i].stranded => cache'[i].claim[ProjectOf[e]] = e
  BY DEF BootReleases
<1>0. ProjectOf[e] \in Projects /\ e # None
  BY ConstantsOK
<1>1. CASE Boots(i)
  BY <1>1 DEF Boots, Anew
<1>2. CASE Steady(i) \/ Sweeps(i)
  <2>1. proc[i].mode = "booting"
    BY <1>2 DEF Steady, Sweeps, Anew
  <2>2. SUFFICES ASSUME ListedAt(i, e)'
                 PROVE /\ proc'[i].sweep.exec = e => proc'[i].sweep.holds
                       /\ e \in proc'[i].stranded => cache'[i].claim[ProjectOf[e]] = e
    BY DEF ListedAt
  <2>3. ListedAt(i, e)
    BY <1>2, <2>2 DEF Steady, Sweeps, Anew, ListedAt
  <2>4. db.claim[ProjectOf[e]] = e
    <3>1. task[e].pc # "startWrite"
      BY <2>3 DEF UnstartedIsUnknown, Listed, ListedAt, NotStarted, StartPc
    <3> QED
      BY <1>0, <3>1, ClaimGained
  <2>5. /\ proc[i].sweep.exec = e => proc[i].sweep.holds
        /\ e \in proc[i].stranded => cache'[i].claim[ProjectOf[e]] = e
    <3>1. \/ cache'[i].claim[ProjectOf[e]] = cache[i].claim[ProjectOf[e]]
          \/ db'.claim[ProjectOf[e]] = None
      BY <1>0, <2>1 DEF ClaimShown
    <3> QED
      BY <1>0, <2>1, <2>4, <3>1 DEF BootReleases
  <2>6. CASE Steady(i)
    BY <2>5, <2>6 DEF Steady
  <2>7. CASE Sweeps(i)
    BY <2>5, <2>7 DEF Sweeps, Anew
  <2> QED
    BY <1>2, <2>6, <2>7
<1>3. CASE Drains(i) \/ GivesUp(i) \/ Serves(i) \/ Ends(i)
  BY <1>3 DEF Drains, Anew, GivesUp, Serves, Ends, DownProc
<1> QED
  BY <1>1, <1>2, <1>3 DEF Phase

\* Whoever ends the run a claim names, drops the claim with it.
LEMMA ReleaseStep ==
  ASSUME TypeOK, TypeOK', ReleaseInv, ExecChange,
         deleted \subseteq deleted', taken \subseteq taken'
  PROVE ClaimReleasedWithRun'
<1> SUFFICES ASSUME NEW p \in Projects, db'.claim[p] # None, ~Disturbed(p)'
             PROVE db'.exec[db'.claim[p]] = "running"
  BY DEF ClaimReleasedWithRun
<1> DEFINE e == db.claim[p]
<1>1. CASE db'.claim[p] # db.claim[p]
  BY <1>1, ClaimGained
<1>2. CASE db'.claim[p] = db.claim[p]
  <2>0. /\ db.claim \in [Projects -> Execs \cup {None}]
        /\ db.exec \in [Execs -> RunStatus]
        /\ \A x \in Execs : ProjectOf[x] \in Projects /\ x # None
    BY ConstantsOK DEF TypeOK, Store
  <2>1. e \in Execs /\ ProjectOf[e] = p
    BY <1>2, <2>0 DEF ReleaseInv, ClaimsAreOwn
  <2>2. Untaken(e) /\ p \notin deleted' /\ db.exec[e] = "running"
    BY <2>1, <2>0 DEF Disturbed, Untaken, ReleaseInv, ClaimReleasedWithRun
  <2>3. CASE ExecsKept
    BY <1>2, <2>2, <2>3 DEF ExecsKept
  <2>4. ASSUME NEW x \in Execs, ExecStarted(x)
        PROVE db'.exec[e] = "running"
    BY <2>0, <2>1, <2>2, <2>4 DEF ExecStarted
  <2>5. ASSUME NEW x \in Execs, ExecEnded(x)
        PROVE db'.exec[e] = "running"
    <3>1. CASE x # e
      BY <2>0, <2>1, <2>2, <2>5, <3>1 DEF ExecEnded
    <3>2. CASE x = e
      <4>1. HoldsClaim(e)
        BY <2>1, <2>5, <3>2 DEF ExecEnded, HoldsClaim, Deciding, ReleaseInv, LostClaimStaysLost
      <4>2. db'.claim[p] = None
        BY <2>0, <2>1, <2>5, <3>2, <4>1 DEF ExecEnded
      <4> QED
        BY <4>2
    <3> QED
      BY <3>1, <3>2
  <2>6. ASSUME NEW x \in Execs, ExecClosed(x)
        PROVE db'.exec[e] = "running"
    <3>1. CASE x # e
      BY <2>0, <2>1, <2>2, <2>6, <3>1 DEF ExecClosed
    <3>2. CASE x = e
      <4>1. PICK i \in Instances :
              /\ proc[i].sweep.exec = e
              /\ db'.claim = [db.claim EXCEPT ![ProjectOf[e]] =
                                  IF proc[i].sweep.holds THEN None ELSE @]
        BY <2>6, <3>2 DEF ExecClosed
      <4>2. e \notin recovered /\ ListedAt(i, e)
        BY <2>6, <3>2, <4>1 DEF ExecClosed, ListedAt
      <4>3. proc[i].mode = "booting"
        BY <2>1, <2>2, <4>2
        DEF ReleaseInv, SweptBeforeServing, DrainTakes, TypeOK, Proc, Mode
      <4>4. proc[i].sweep.holds
        BY <2>1, <4>1, <4>3 DEF ReleaseInv, BootReleases
      <4> QED
        BY <2>0, <2>1, <4>1, <4>4
    <3> QED
      BY <3>1, <3>2
  <2>7. ASSUME NEW q \in Projects, ExecsRemoved(q)
        PROVE db'.exec[e] = "running"
    BY <2>1, <2>2, <2>7 DEF ExecsRemoved
  <2> QED
    BY <1>2, <2>3, <2>4, <2>5, <2>6, <2>7 DEF ExecChange
<1> QED
  BY <1>1, <1>2

LEMMA ReleaseInvStep ==
  ASSUME TypeOK, TypeOK', ClaimInv, RemovalIsOwn, ReleaseInv, [Next]_vars
  PROVE ReleaseInv'
<1>1. /\ ExecChange /\ \A e \in Execs : Moves(e)
      /\ deleted \subseteq deleted' /\ taken \subseteq taken' /\ recovered \subseteq recovered'
  BY ExecChanges, StepMoves, GhostsGrow
<1>2. \A i \in Instances : Phase(i) /\ RunShown(i) /\ ClaimShown(i)
  BY Phases, RunsShown, ClaimsShown DEF ReleaseInv
<1>3. ClaimsAreOwn' /\ LostClaimStaysLost'
  BY <1>1, ClaimsStep DEF ReleaseInv
<1>4. NoTasksBefore' /\ SweptBeforeServing'
  BY <1>1, <1>2, BootStep DEF ReleaseInv
<1>5. BootListsAll'
  BY <1>1, <1>2, <1>4, BootListStep DEF ReleaseInv
<1>6. ServingShowsOwn'
  BY <1>1, <1>2, ServingStep DEF ReleaseInv
<1>7. DrainTakes'
  BY <1>1, <1>2, DrainStep DEF ReleaseInv
<1>8. BootReleases'
  BY <1>1, <1>2, BootReleaseStep DEF ReleaseInv, ClaimInv
<1>9. ClaimReleasedWithRun'
  BY <1>1, ReleaseStep
<1> QED
  BY <1>3, <1>4, <1>5, <1>6, <1>7, <1>8, <1>9 DEF ReleaseInv

\* ReleaseInv holds initially: no process is up, and nobody holds a claim.
LEMMA ReleaseInvInit == Init => ReleaseInv
<1> SUFFICES ASSUME Init
             PROVE ReleaseInv
  OBVIOUS
<1>1. /\ \A p \in Projects : db.claim[p] = None
      /\ \A i \in Instances : proc[i] = DownProc
      /\ \A e \in Execs : task[e].pc = "new" /\ task[e].inst = None
  BY DEF Init, EmptyStore, NewTask
<1>2. /\ DownProc.mode = "down" /\ DownProc.stranded = {}
      /\ DownProc.sweep.exec \notin Execs /\ None \notin Instances
  BY ConstantsOK DEF DownProc, NoSweep
<1> QED
  BY <1>1, <1>2
  DEF ReleaseInv, ClaimsAreOwn, LostClaimStaysLost, Deciding, NoTasksBefore, Home,
      SweptBeforeServing, ListedAt, BootListsAll, ServingShowsOwn, DrainTakes,
      BootReleases, ClaimReleasedWithRun

-----------------------------------------------------------------------------
(***************************************************************************)
(* Theorem                                                                 *)
(***************************************************************************)

\* Once the run that the claim of an undisturbed project names has ended, its
\* claim is gone with it, on any number of processes, under crashes, restarts and
\* storage faults: no project is refused for the claim of a run that is over.
THEOREM ClaimReleasedWithRunAlways == Spec => []ClaimReleasedWithRun
<1>1. TypeOK /\ TypeOK' /\ ClaimInv /\ RemovalIsOwn /\ ReleaseInv /\ [Next]_vars
        => ReleaseInv'
  BY ReleaseInvStep
<1>2. Spec => []ReleaseInv
  BY <1>1, ReleaseInvInit, ClaimInvAlways, TypeCorrect, PTL DEF Spec
<1>3. ReleaseInv => ClaimReleasedWithRun
  BY DEF ReleaseInv
<1> QED
  BY <1>2, <1>3, PTL
=============================================================================
