------------------------- MODULE GenerationLifecycle -------------------------
(***************************************************************************)
(* The durable life of a generation run: admission, outcome, recovery and  *)
(* erasure, carried out by several server processes over one kv_store.     *)
(*                                                                         *)
(* Every process answers reads from its own cache.  A durable batch is one *)
(* transaction on the store followed by its publication in the cache of    *)
(* the process that wrote it; the other processes see it only when they    *)
(* refresh the collection.  The writes of a process run one after another  *)
(* in the order they were queued.  A refresh waits for the writes queued   *)
(* before it, reads its rows with a SELECT and, in a later turn of the     *)
(* event loop, replaces whole cached collections by them; writes queued    *)
(* meanwhile may commit before the SELECT or between it and that turn.     *)
(*                                                                         *)
(* An element of Execs is one POST /:projectId/generate and the execution  *)
(* id that request mints, so that an attempt and its run share a name.     *)
(***************************************************************************)
EXTENDS Naturals, Sequences, FiniteSets

CONSTANTS
    Instances,      \* server processes
    Projects,       \* rows of the projects collection
    Execs,          \* start attempts, each naming the execution it would create
    Keys,           \* Idempotency-Key header values
    Tags,           \* caller and payload of a request (principal, fingerprint)
    ProjectOf,      \* the project an attempt is addressed to
    KeyOf,          \* the Idempotency-Key an attempt carries
    TagOf,          \* the principal and fingerprint an attempt carries
    Deletable,      \* projects some user may delete
    Editable,       \* projects some user may edit
    StorageFaults,  \* whether the database may reject or lose a call
    MaxStops,       \* bound on the kills and failed sweeps of processes
    None            \* no record

ASSUME ConstantsOK ==
    /\ ProjectOf \in [Execs -> Projects]
    /\ KeyOf \in [Execs -> Keys]
    /\ TagOf \in [Execs -> Tags]
    /\ Deletable \subseteq Projects
    /\ Editable \subseteq Projects
    /\ StorageFaults \in BOOLEAN
    /\ MaxStops \in Nat
    /\ None \notin Instances
    /\ None \notin Execs
    /\ None \notin Projects

VARIABLES
    db,         \* the kv_store rows
    recovered,  \* the generation_recovery_claims rows, one per swept execution
    cache,      \* cache[i]: the read cache of process i
    proc,       \* proc[i]: mode of process i, its sweep,
                \* deletion and edit in flight and its queue of writes
    task,       \* task[e]: the request and, once admitted, the run of attempt e
    answer,     \* answer[e]: what the client of attempt e was told
    stops,      \* how many times a process was killed or its sweep failed
    \* History variables: read by the properties, never by an action's guard.
    started,    \* executions whose start batch committed
    deleted,    \* projects whose deletion batch committed
    taken,      \* executions listed as stranded while their worker was alive
    unacked     \* executions with an outcome batch applied but reported failed

store == <<db, recovered>>
ghosts == <<started, deleted, taken, unacked>>
vars == <<db, recovered, cache, proc, task, answer, stops, started, deleted,
          taken, unacked>>

-----------------------------------------------------------------------------
(***************************************************************************)
(* Records                                                                 *)
(***************************************************************************)

RunStatus == {"absent", "running", "completed", "failed"}
Terminal == {"completed", "failed"}
ProjectStatus == {"absent", "draft", "generating", "ready"}

\* generationCount is the only counter of a project the lifecycle changes.
ProjectRec == [status: ProjectStatus, count: Nat]
NoProject == [status |-> "absent", count |-> 0]

\* The collections of kv_store the lifecycle reads through the cache.  A start
\* request row names an execution; its project, principal and fingerprint are
\* those of that attempt.
Store == [project: [Projects -> ProjectRec],
          blueprint: SUBSET Projects,
          claim: [Projects -> Execs \cup {None}],
          exec: [Execs -> RunStatus],
          hist: [Execs -> RunStatus],
          request: [Keys -> Execs \cup {None}]]

EmptyStore == [project |-> [p \in Projects |-> NoProject],
               blueprint |-> {},
               claim |-> [p \in Projects |-> None],
               exec |-> [e \in Execs |-> "absent"],
               hist |-> [e \in Execs |-> "absent"],
               request |-> [k \in Keys |-> None]]

\* What a refresh in flight has read: all three collections for a start, the
\* claims alone for an outcome or a refused start.
Snap == [project: [Projects -> ProjectRec],
         claim: [Projects -> Execs \cup {None}],
         request: [Keys -> Execs \cup {None}]]
StartCollections(s) == [project |-> s.project, claim |-> s.claim,
                        request |-> s.request]
ClaimsOnly(s) == [StartCollections(EmptyStore) EXCEPT !.claim = s.claim]
NoSnap == StartCollections(EmptyStore)

Mode == {"down", "booting", "serving", "draining"}
Sweep == [exec: Execs \cup {None}, hist: BOOLEAN, holds: BOOLEAN,
          project: ProjectRec]
NoSweep == [exec |-> None, hist |-> FALSE, holds |-> FALSE,
            project |-> NoProject]
Removal == [project: Projects \cup {None}, execs: SUBSET Execs,
            hists: SUBSET Execs, keys: SUBSET Keys, claim: BOOLEAN]
NoRemoval == [project |-> None, execs |-> {}, hists |-> {}, keys |-> {},
              claim |-> FALSE]
Edit == [project: Projects \cup {None}, rec: ProjectRec]
NoEdit == [project |-> None, rec |-> NoProject]
\* Who has a write queued: the task of an attempt, an edit, a deletion, a sweep.
Writer == Execs \cup {"edit", "removal", "sweep"}
Proc == [mode: Mode, stranded: SUBSET Execs, sweep: Sweep, removal: Removal,
         edit: Edit, tail: Seq(Writer)]
DownProc == [mode |-> "down", stranded |-> {}, sweep |-> NoSweep,
             removal |-> NoRemoval, edit |-> NoEdit, tail |-> <<>>]

\* Program points of an attempt, one for each await of the code.
StartPc == {"startSelect", "startPublish", "startWrite", "claimSelect",
            "claimPublish"}
BridgePc == {"bridgeProject", "bridgeHist"}
OutcomePc == {"outSelect", "outPublish", "outWrite"}
WorkerPc == {"running", "finish"} \cup BridgePc \cup OutcomePc
LivePc == {"queued"} \cup WorkerPc
\* "fatal": the rejected queue task the process is about to die of.
Pc == {"new", "done", "fatal"} \cup StartPc \cup LivePc

\* outcome "error" is the failed outcome committed by the catch block.
Outcome == {"none", "completed", "failed", "error"}
\* behind: how many queued writes a refresh still waits for.
Task == [pc: Pc, inst: Instances \cup {None}, behind: Nat, snap: Snap,
         pend: ProjectRec, outcome: Outcome]
NewTask == [pc |-> "new", inst |-> None, behind |-> 0, snap |-> NoSnap,
            pend |-> NoProject, outcome |-> "none"]
DoneTask == [NewTask EXCEPT !.pc = "done"]

Answer == [kind: {"none", "started", "replayed", "replayError", "active",
                  "idempotency", "error"},
           exec: Execs \cup {None}]
NoAnswer == [kind |-> "none", exec |-> None]

TypeOK ==
    /\ db \in Store
    /\ recovered \subseteq Execs
    /\ cache \in [Instances -> Store]
    /\ proc \in [Instances -> Proc]
    /\ task \in [Execs -> Task]
    /\ answer \in [Execs -> Answer]
    /\ stops \in Nat
    /\ started \subseteq Execs
    /\ deleted \subseteq Projects
    /\ taken \subseteq Execs
    /\ unacked \subseteq Execs

\* Every project has been created, and its blueprint with it; no process runs.
Init ==
    /\ db = [EmptyStore EXCEPT
                !.project = [p \in Projects |-> [status |-> "draft", count |-> 0]],
                !.blueprint = Projects]
    /\ recovered = {}
    /\ cache = [i \in Instances |-> EmptyStore]
    /\ proc = [i \in Instances |-> DownProc]
    /\ task = [e \in Execs |-> NewTask]
    /\ answer = [e \in Execs |-> NoAnswer]
    /\ stops = 0
    /\ started = {} /\ deleted = {} /\ taken = {} /\ unacked = {}

-----------------------------------------------------------------------------
(***************************************************************************)
(* State functions                                                         *)
(***************************************************************************)

Pend(e) == task[e].pend
Home(e) == task[e].inst
Live(e) == task[e].pc \in LivePc

\* A process executes its event loop until it ends or a rejection kills it.
Alive(i) ==
    /\ proc[i].mode # "down"
    /\ \A e \in Execs : ~(Home(e) = i /\ task[e].pc = "fatal")

\* Attempt e is at program point pc and its process may take the next step.
At(e, pc) == task[e].pc = pc /\ Home(e) \in Instances /\ Alive(Home(e))

\* The write at the head of the queue of process i is that of w.
Turn(i, w) == Alive(i) /\ proc[i].tail # <<>> /\ Head(proc[i].tail) = w
WriteAt(e, pc) == At(e, pc) /\ Turn(Home(e), e)

\* Attempt e has called refresh, and the writes queued before that have settled.
ReadAt(e, pc) == At(e, pc) /\ task[e].behind = 0
Queued(i) == Len(proc[i].tail)

Enqueue(i, w) == proc' = [proc EXCEPT ![i].tail = Append(@, w)]
Dequeue(i) == proc' = [proc EXCEPT ![i].tail = Tail(@)]

\* Mutant of Settled: a refresh that waits for nothing is counted down too.
SettledBelowZero(i, t) ==
    [x \in Execs |-> IF t[x].inst = i THEN [t[x] EXCEPT !.behind = @ - 1] ELSE t[x]]

\* Mutant of Settled: a refresh never hears that an earlier write has settled.
NeverSettled(i, t) == t

\* The tasks t once the first write in the queue of process i has settled.
Settled(i, t) ==
    [x \in Execs |-> IF t[x].inst = i /\ t[x].behind > 0
                     THEN [t[x] EXCEPT !.behind = @ - 1] ELSE t[x]]

\* withProjectLock: one start or outcome per project and process at a time.
LockFree(i, p) ==
    \A e \in Execs : ProjectOf[e] = p /\ Home(e) = i
                        => task[e].pc \notin StartPc \cup OutcomePc

\* The execution queue of a process runs one generation at a time.
WorkerFree(i) == \A e \in Execs : Home(e) = i => task[e].pc \notin WorkerPc

Tell(e, kind, x) == answer' = [answer EXCEPT ![e] = [kind |-> kind, exec |-> x]]

\* The task of e moves to pc, ends, or throws.
Goto(e, pc) == [task EXCEPT ![e].pc = pc]
Finished(e) == [task EXCEPT ![e] = DoneTask]

\* An exception thrown while an outcome is committed: the first one reaches the
\* catch block, which commits a failed outcome; the second one rejects the
\* queue task, and nothing handles that rejection.
Thrown(e) ==
    [task EXCEPT ![e] =
        [NewTask EXCEPT !.pc = IF task[e].outcome = "error" THEN "fatal" ELSE "finish",
                        !.inst = task[e].inst,
                        !.outcome = "error"]]

-----------------------------------------------------------------------------
(***************************************************************************)
(* Batches: the rows after a transaction, from the rows s before it.       *)
(* They are applied to the store and to the writing process's cache.       *)
(***************************************************************************)

\* Mutant of StartRows: the request row is not part of the start transaction.
UnrecordedStartRows(s, e) ==
    [s EXCEPT !.exec[e] = "running", !.hist[e] = "running",
              !.project[ProjectOf[e]] = Pend(e),
              !.claim[ProjectOf[e]] = e]

\* Start evidence, the generating project, the claim and the request record.
StartRows(s, e) ==
    [s EXCEPT !.exec[e] = "running", !.hist[e] = "running",
              !.project[ProjectOf[e]] = Pend(e),
              !.claim[ProjectOf[e]] = e,
              !.request[KeyOf[e]] = e]

RunOutcome(e) == IF task[e].outcome = "completed" THEN "completed" ELSE "failed"

\* No claim at all counts as ownership; only the holder's batch drops a claim.
OwnsProject(e) == task[e].snap.claim[ProjectOf[e]] \in {e, None}
\* Mutant of HoldsClaim: an outcome leaves its own claim in place.
KeepsClaim(e) == FALSE

HoldsClaim(e) == task[e].snap.claim[ProjectOf[e]] = e

\* Mutant of OutcomeRows: the history row is not part of the outcome.
OutcomeRowsNoHistory(s, e) ==
    [s EXCEPT !.exec[e] = RunOutcome(e),
              !.project[ProjectOf[e]] = IF OwnsProject(e) THEN Pend(e) ELSE @,
              !.claim[ProjectOf[e]] = IF HoldsClaim(e) THEN None ELSE @]

OutcomeRows(s, e) ==
    [s EXCEPT !.exec[e] = RunOutcome(e), !.hist[e] = RunOutcome(e),
              !.project[ProjectOf[e]] = IF OwnsProject(e) THEN Pend(e) ELSE @,
              !.claim[ProjectOf[e]] = IF HoldsClaim(e) THEN None ELSE @]

SweepRows(s, w) ==
    [s EXCEPT !.exec[w.exec] = "failed",
              !.hist[w.exec] = IF w.hist THEN "failed" ELSE @,
              !.project[ProjectOf[w.exec]] =
                  IF w.project # NoProject THEN w.project ELSE @,
              !.claim[ProjectOf[w.exec]] = IF w.holds THEN None ELSE @]

RemovalRows(s, r) ==
    [project   |-> [s.project EXCEPT ![r.project] = NoProject],
     blueprint |-> s.blueprint \ {r.project},
     claim     |-> [s.claim EXCEPT ![r.project] = IF r.claim THEN None ELSE @],
     exec      |-> [e \in Execs |-> IF e \in r.execs THEN "absent" ELSE s.exec[e]],
     hist      |-> [e \in Execs |-> IF e \in r.hists THEN "absent" ELSE s.hist[e]],
     request   |-> [k \in Keys |-> IF k \in r.keys THEN None ELSE s.request[k]]]

\* Mutants: one of the requireAbsent mutations is a plain set.
ClaimUnchecked(e) == FALSE
KeyUnchecked(e) == FALSE

\* The requireAbsent mutations of a start batch: the first one decides which
\* conflict the caller is told about.
ClaimTaken(e) == db.claim[ProjectOf[e]] # None
KeyTaken(e) == db.request[KeyOf[e]] # None

-----------------------------------------------------------------------------
(***************************************************************************)
(* Starting a generation (ProjectGenerationStartCoordinator.start)         *)
(***************************************************************************)

\* The lock is taken, the project read from the cache and the refresh called.
StartRequest(i, e) ==
    /\ task[e].pc = "new"
    /\ proc[i].mode = "serving" /\ Alive(i)
    /\ LockFree(i, ProjectOf[e])
    /\ IF cache[i].project[ProjectOf[e]].status = "absent"
       THEN /\ task' = Finished(e)
            /\ Tell(e, "error", None)
       ELSE /\ task' = [task EXCEPT ![e].pc = "startSelect", ![e].inst = i,
                                    ![e].behind = Queued(i),
                                    ![e].pend = cache[i].project[ProjectOf[e]]]
            /\ UNCHANGED answer
    /\ UNCHANGED <<store, cache, proc, stops, ghosts>>

\* refresh([START_REQUESTS, ACTIVE_CLAIMS, PROJECTS]) reads its rows ...
StartSelect(e) ==
    /\ ReadAt(e, "startSelect")
    /\ task' = [task EXCEPT ![e].pc = "startPublish",
                            ![e].snap = StartCollections(db)]
    /\ UNCHANGED <<store, cache, proc, answer, stops, ghosts>>

\* Mutant of SameRequest: a recorded key is replayed whoever sends it.
AnyRequest(e, x) == TRUE

\* The recorded request is the same request: same project, caller and payload.
SameRequest(e, x) == ProjectOf[x] = ProjectOf[e] /\ TagOf[x] = TagOf[e]

\* ... and replaces the cached collections by them.  All that follows up to the
\* next await runs in the same turn of the event loop.
Published(e) ==
    /\ At(e, "startPublish")
    /\ cache' = [cache EXCEPT ![Home(e)].project = task[e].snap.project,
                              ![Home(e)].claim = task[e].snap.claim,
                              ![Home(e)].request = task[e].snap.request]
Recorded(e) == task[e].snap.request[KeyOf[e]]
HasBlueprint(e) == ProjectOf[e] \in cache[Home(e)].blueprint

\* A recorded request is answered; its execution is looked up in the cache.
StartReplay(e) ==
    LET x == Recorded(e) IN
    /\ Published(e)
    /\ x # None
    /\ task' = Finished(e)
    /\ IF ~SameRequest(e, x)
       THEN Tell(e, "idempotency", None)
       ELSE IF cache[Home(e)].exec[x] # "absent" /\ HasBlueprint(e)
            THEN Tell(e, "replayed", x)
            ELSE Tell(e, "replayError", None)
    /\ UNCHANGED <<store, proc, stops, ghosts>>

\* The project as the start batch writes it: the cached one or, if the refresh
\* found none, the one read before it.
Stored(e) == IF task[e].snap.project[ProjectOf[e]].status # "absent"
             THEN task[e].snap.project[ProjectOf[e]] ELSE Pend(e)
Generating(e) == [status |-> "generating", count |-> Stored(e).count + 1]

\* prepare resolves the blueprint from the cache and writes nothing; the batch is
\* queued.
StartPrepare(e) ==
    /\ Published(e)
    /\ Recorded(e) = None /\ HasBlueprint(e)
    /\ task' = [task EXCEPT ![e].pc = "startWrite", ![e].snap = NoSnap,
                            ![e].pend = Generating(e)]
    /\ Enqueue(Home(e), e)
    /\ UNCHANGED <<store, answer, stops, ghosts>>

StartRefused(e) ==
    /\ Published(e)
    /\ Recorded(e) = None /\ ~HasBlueprint(e)
    /\ task' = Finished(e)
    /\ Tell(e, "error", None)
    /\ UNCHANGED <<store, proc, stops, ghosts>>

\* The batch commits, its rows are published and the run is queued.
StartCommit(e) ==
    LET i == Home(e) IN
    /\ WriteAt(e, "startWrite")
    /\ ~ClaimTaken(e) /\ ~KeyTaken(e)
    /\ db' = StartRows(db, e)
    /\ cache' = [cache EXCEPT ![i] = StartRows(@, e)]
    /\ task' = Settled(i, [task EXCEPT ![e].pc = "queued", ![e].pend = NoProject])
    /\ Dequeue(i)
    /\ started' = started \cup {e}
    /\ Tell(e, "started", e)
    /\ UNCHANGED <<recovered, stops, deleted, taken, unacked>>

\* The whole batch is refused by one of its requireAbsent mutations; a caller
\* refused for the claim is told the claim read by another refresh.
StartConflict(e) ==
    LET i == Home(e) IN
    /\ WriteAt(e, "startWrite")
    /\ \/ /\ ClaimTaken(e)
          /\ task' = [Settled(i, task) EXCEPT ![e].pc = "claimSelect",
                                              ![e].behind = Queued(i) - 1,
                                              ![e].pend = NoProject]
          /\ UNCHANGED answer
       \/ /\ ~ClaimTaken(e) /\ KeyTaken(e)
          /\ task' = Settled(i, Finished(e))
          /\ Tell(e, "idempotency", None)
    /\ Dequeue(i)
    /\ UNCHANGED <<store, cache, stops, ghosts>>

ClaimSelect(e) ==
    /\ ReadAt(e, "claimSelect")
    /\ task' = [task EXCEPT ![e].pc = "claimPublish", ![e].snap = ClaimsOnly(db)]
    /\ UNCHANGED <<store, cache, proc, answer, stops, ghosts>>

ClaimPublish(e) ==
    /\ At(e, "claimPublish")
    /\ cache' = [cache EXCEPT ![Home(e)].claim = task[e].snap.claim]
    /\ task' = Finished(e)
    /\ Tell(e, "active", task[e].snap.claim[ProjectOf[e]])
    /\ UNCHANGED <<store, proc, stops, ghosts>>

\* The database rejects the call, or commits it and the acknowledgement is lost:
\* the process reads both as a failed start, and publishes nothing.
StartFault(e) ==
    LET i == Home(e) IN
    /\ StorageFaults
    /\ \/ /\ ReadAt(e, "startSelect") \/ ReadAt(e, "claimSelect")
          /\ task' = Finished(e)
          /\ UNCHANGED <<db, proc, started>>
       \/ /\ WriteAt(e, "startWrite")
          /\ task' = Settled(i, Finished(e))
          /\ Dequeue(i)
          /\ \/ UNCHANGED <<db, started>>
             \/ /\ ~ClaimTaken(e) /\ ~KeyTaken(e)
                /\ db' = StartRows(db, e)
                /\ started' = started \cup {e}
    /\ Tell(e, "error", None)
    /\ UNCHANGED <<recovered, cache, stops, deleted, taken, unacked>>

-----------------------------------------------------------------------------
(***************************************************************************)
(* Running a generation (GameGenerationService.enqueueGeneration) and the  *)
(* pipeline event bridge                                                   *)
(***************************************************************************)

RunNext(e) ==
    /\ At(e, "queued")
    /\ WorkerFree(Home(e))
    /\ task' = Goto(e, "running")
    /\ UNCHANGED <<store, cache, proc, answer, stops, ghosts>>

\* The agents produced a plan result: its outcome is committed, unless recording
\* the artifacts throws, which goes to the catch block at once.
DagSucceeds(e) ==
    /\ At(e, "running")
    /\ \E o \in {"completed", "error"} :
          task' = [task EXCEPT ![e].pc = "finish", ![e].outcome = o]
    /\ UNCHANGED <<store, cache, proc, answer, stops, ghosts>>

\* The history row is marked failed next, if the cache has one.
HistoryNext(e) == IF cache[Home(e)].hist[e] # "absent" THEN "bridgeHist" ELSE "finish"
QueueHistory(e, tail) ==
    IF HistoryNext(e) = "bridgeHist" THEN Append(tail, e) ELSE tail

\* A failed plan emits pipeline.failed first, and the bridge's handler is
\* awaited: updateDurable spreads the cached project, if there is one, under
\* status draft.
DagFails(e) ==
    LET i == Home(e)
        p == cache[i].project[ProjectOf[e]]
    IN
    /\ At(e, "running")
    /\ \/ /\ p.status # "absent"
          /\ task' = [task EXCEPT ![e].pc = "bridgeProject",
                                  ![e].outcome = "failed",
                                  ![e].pend = [p EXCEPT !.status = "draft"]]
          /\ Enqueue(i, e)
       \/ /\ p.status = "absent"
          /\ task' = [task EXCEPT ![e].pc = HistoryNext(e), ![e].outcome = "failed"]
          /\ proc' = [proc EXCEPT ![i].tail = QueueHistory(e, @)]
    /\ UNCHANGED <<store, cache, answer, stops, ghosts>>

BridgeProject(e) ==
    LET i == Home(e) IN
    /\ WriteAt(e, "bridgeProject")
    /\ db' = [db EXCEPT !.project[ProjectOf[e]] = Pend(e)]
    /\ cache' = [cache EXCEPT ![i].project[ProjectOf[e]] = Pend(e)]
    /\ task' = Settled(i, [task EXCEPT ![e].pc = HistoryNext(e),
                                       ![e].pend = NoProject])
    /\ proc' = [proc EXCEPT ![i].tail = QueueHistory(e, Tail(@))]
    /\ UNCHANGED <<recovered, answer, stops, ghosts>>

BridgeHist(e) ==
    LET i == Home(e) IN
    /\ WriteAt(e, "bridgeHist")
    /\ db' = [db EXCEPT !.hist[e] = "failed"]
    /\ cache' = [cache EXCEPT ![i].hist[e] = "failed"]
    /\ task' = Settled(i, Goto(e, "finish"))
    /\ Dequeue(i)
    /\ UNCHANGED <<recovered, answer, stops, ghosts>>

\* The emitter catches what its handlers throw: the run goes on to its outcome.
BridgeFault(e) ==
    LET i == Home(e) IN
    /\ StorageFaults
    /\ \/ /\ WriteAt(e, "bridgeProject")
          /\ db' \in {db, [db EXCEPT !.project[ProjectOf[e]] = Pend(e)]}
       \/ /\ WriteAt(e, "bridgeHist")
          /\ db' \in {db, [db EXCEPT !.hist[e] = "failed"]}
    /\ task' = Settled(i, [task EXCEPT ![e].pc = "finish", ![e].pend = NoProject])
    /\ Dequeue(i)
    /\ UNCHANGED <<recovered, cache, answer, stops, ghosts>>

-----------------------------------------------------------------------------
(***************************************************************************)
(* Committing an outcome (GenerationOutcomeCoordinator.commit)             *)
(***************************************************************************)

\* The cached execution already has the other terminal status.
Refused(e) ==
    /\ cache[Home(e)].exec[e] \in Terminal
    /\ cache[Home(e)].exec[e] # RunOutcome(e)

\* The project as the outcome batch writes it.
Released(e) ==
    [cache[Home(e)].project[ProjectOf[e]] EXCEPT
        !.status = IF task[e].outcome = "completed" THEN "ready" ELSE "draft"]

\* An unknown execution is left alone.  Otherwise, under the lock, the execution
\* and the project are read and the claims refreshed.  An execution that already
\* has the same status is written again: its timestamps differ.
OutcomeBegin(e) ==
    LET i == Home(e)
        known == cache[i].exec[e] # "absent"
        erased == cache[i].project[ProjectOf[e]].status = "absent"
    IN
    /\ At(e, "finish")
    /\ known => LockFree(i, ProjectOf[e])
    /\ \/ /\ ~known
          /\ task' = Finished(e)
       \/ /\ known /\ (erased \/ Refused(e))
          /\ task' = Thrown(e)
       \/ /\ known /\ ~erased /\ ~Refused(e)
          /\ task' = [task EXCEPT ![e].pc = "outSelect", ![e].behind = Queued(i),
                                  ![e].pend = Released(e)]
    /\ UNCHANGED <<store, cache, proc, answer, stops, ghosts>>

OutcomeSelect(e) ==
    /\ ReadAt(e, "outSelect")
    /\ task' = [task EXCEPT ![e].pc = "outPublish", ![e].snap = ClaimsOnly(db)]
    /\ UNCHANGED <<store, cache, proc, answer, stops, ghosts>>

\* The claim decides what the batch will hold, and the batch is queued.
OutcomePublish(e) ==
    LET i == Home(e) IN
    /\ At(e, "outPublish")
    /\ cache' = [cache EXCEPT ![i].claim = task[e].snap.claim]
    /\ task' = Goto(e, "outWrite")
    /\ Enqueue(i, e)
    /\ UNCHANGED <<store, answer, stops, ghosts>>

OutcomeCommit(e) ==
    LET i == Home(e) IN
    /\ WriteAt(e, "outWrite")
    /\ db' = OutcomeRows(db, e)
    /\ cache' = [cache EXCEPT ![i] = OutcomeRows(@, e)]
    /\ task' = Settled(i, Finished(e))
    /\ Dequeue(i)
    /\ UNCHANGED <<recovered, answer, stops, ghosts>>

\* The claims cannot be read, or the batch is rejected, or it commits and its
\* acknowledgement is lost.
OutcomeFault(e) ==
    LET i == Home(e) IN
    /\ StorageFaults
    /\ \/ /\ ReadAt(e, "outSelect")
          /\ task' = Thrown(e)
          /\ UNCHANGED <<db, proc, unacked>>
       \/ /\ WriteAt(e, "outWrite")
          /\ task' = Settled(i, Thrown(e))
          /\ Dequeue(i)
          /\ \/ UNCHANGED <<db, unacked>>
             \/ /\ db' = OutcomeRows(db, e)
                /\ unacked' = unacked \cup {e}
    /\ UNCHANGED <<recovered, cache, answer, stops, started, deleted, taken>>

-----------------------------------------------------------------------------
(***************************************************************************)
(* Editing and erasing a project (PUT and DELETE /projects/:id,            *)
(* ProjectDeletionCoordinator); one of each in flight per process          *)
(***************************************************************************)

Serving(i) == proc[i].mode = "serving" /\ Alive(i)
Known(i, p) == cache[i].project[p].status # "absent"

\* updateDurable spreads the cached project under the user's own fields.
EditRequest(i, p) ==
    /\ Serving(i) /\ Known(i, p) /\ p \in Editable
    /\ proc[i].edit = NoEdit
    /\ proc' = [proc EXCEPT ![i].edit = [project |-> p, rec |-> cache[i].project[p]],
                            ![i].tail = Append(@, "edit")]
    /\ UNCHANGED <<store, cache, task, answer, stops, ghosts>>

EditCommit(i) ==
    LET w == proc[i].edit IN
    /\ Turn(i, "edit") /\ w.project # None
    /\ db' = [db EXCEPT !.project[w.project] = w.rec]
    /\ cache' = [cache EXCEPT ![i].project[w.project] = w.rec]
    /\ proc' = [proc EXCEPT ![i].edit = NoEdit, ![i].tail = Tail(@)]
    /\ task' = Settled(i, task)
    /\ UNCHANGED <<recovered, answer, stops, ghosts>>

\* Mutant of RemovalOf: the executions of every project are removed.
RemovalOfAll(i, p) ==
    [NoRemoval EXCEPT !.project = p,
                      !.execs = {e \in Execs : cache[i].exec[e] # "absent"}]

\* Every child this process's cache knows is gathered, then one batch is queued.
\* Executions are found through the project's blueprint.
RemovalOf(i, p) ==
    LET c == cache[i]
        mine == {e \in Execs : ProjectOf[e] = p}
    IN [project |-> p,
        execs |-> {e \in mine : p \in c.blueprint /\ c.exec[e] # "absent"},
        hists |-> {e \in mine : c.hist[e] # "absent"},
        keys |-> {k \in Keys : c.request[k] \in mine},
        claim |-> c.claim[p] # None]

DeleteRequest(i, p) ==
    /\ Serving(i) /\ Known(i, p) /\ p \in Deletable
    /\ proc[i].removal = NoRemoval
    /\ proc' = [proc EXCEPT ![i].removal = RemovalOf(i, p),
                            ![i].tail = Append(@, "removal")]
    /\ UNCHANGED <<store, cache, task, answer, stops, ghosts>>

DeleteCommit(i) ==
    LET r == proc[i].removal IN
    /\ Turn(i, "removal") /\ r.project # None
    /\ db' = RemovalRows(db, r)
    /\ cache' = [cache EXCEPT ![i] = RemovalRows(@, r)]
    /\ proc' = [proc EXCEPT ![i].removal = NoRemoval, ![i].tail = Tail(@)]
    /\ task' = Settled(i, task)
    /\ deleted' = deleted \cup {r.project}
    /\ UNCHANGED <<recovered, answer, stops, started, taken, unacked>>

\* A rejected edit or deletion is answered with an error and leaves no state,
\* unless the write took effect and only its acknowledgement was lost.
RequestFault(i) ==
    LET r == proc[i].removal
        w == proc[i].edit
    IN
    /\ StorageFaults
    /\ \/ /\ Turn(i, "edit") /\ w.project # None
          /\ proc' = [proc EXCEPT ![i].edit = NoEdit, ![i].tail = Tail(@)]
          /\ db' \in {db, [db EXCEPT !.project[w.project] = w.rec]}
          /\ UNCHANGED deleted
       \/ /\ Turn(i, "removal") /\ r.project # None
          /\ proc' = [proc EXCEPT ![i].removal = NoRemoval, ![i].tail = Tail(@)]
          /\ \/ UNCHANGED <<db, deleted>>
             \/ /\ db' = RemovalRows(db, r)
                /\ deleted' = deleted \cup {r.project}
    /\ task' = Settled(i, task)
    /\ UNCHANGED <<recovered, cache, answer, stops, started, taken, unacked>>

-----------------------------------------------------------------------------
(***************************************************************************)
(* Boot, shutdown and crash (index.ts, reconcileInterruptedGenerations)    *)
(***************************************************************************)

\* Mutants of StrandedIn: the sweep closes every execution, or none.
EveryIn(s) == {e \in Execs : s.exec[e] # "absent"}
NoneIn(s) == {}

\* What a sweep that sees the rows s will close.
StrandedIn(s) == {e \in Execs : s.exec[e] = "running"}

\* The batch that closes e, from the rows c of the cache.  The claim is consulted
\* there, and the project released only with it.
SweepOf(c, e) ==
    LET holds == c.claim[ProjectOf[e]] = e
        p == c.project[ProjectOf[e]]
    IN [exec |-> e, hist |-> c.hist[e] # "absent", holds |-> holds,
        project |-> IF holds /\ p.status = "generating"
                    THEN [p EXCEPT !.status = "draft"] ELSE NoProject]

\* Process i, as r, goes on with its sweep: of the executions still to close, the
\* batch of one is prepared and queued, in the turn that listed them or in the
\* one that closed the last.
SweepsOn(i, r, listed, c) ==
    \/ /\ listed = {}
       /\ proc' = [proc EXCEPT ![i] = [r EXCEPT !.stranded = {}, !.sweep = NoSweep]]
    \/ \E e \in listed :
          proc' = [proc EXCEPT ![i] = [r EXCEPT !.stranded = listed \ {e},
                                                !.sweep = SweepOf(c, e),
                                                !.tail = Append(@, "sweep")]]

\* Storage initialization loads every row; the sweep lists what is running.
Boot(i) ==
    LET listed == StrandedIn(db) IN
    /\ proc[i].mode = "down"
    /\ cache' = [cache EXCEPT ![i] = db]
    /\ SweepsOn(i, [proc[i] EXCEPT !.mode = "booting"], listed, db)
    /\ taken' = taken \cup {e \in listed : Live(e)}
    /\ UNCHANGED <<store, task, answer, stops, started, deleted, unacked>>

\* The HTTP server has closed, its last requests answered; runs still go on.
Drain(i) ==
    LET listed == StrandedIn(cache[i]) IN
    /\ Serving(i)
    /\ proc[i].removal = NoRemoval /\ proc[i].edit = NoEdit
    /\ \A e \in Execs : Home(e) = i => task[e].pc \notin StartPc
    /\ SweepsOn(i, [proc[i] EXCEPT !.mode = "draining"], listed, cache[i])
    /\ taken' = taken \cup {e \in listed : Live(e)}
    /\ UNCHANGED <<store, cache, task, answer, stops, started, deleted, unacked>>

\* The recovery claim is required absent: one sweep of an execution ever commits.
SweepCommit(i) ==
    LET w == proc[i].sweep
        r == [proc[i] EXCEPT !.tail = Tail(@)]
    IN
    /\ Turn(i, "sweep") /\ w.exec # None
    /\ task' = Settled(i, task)
    /\ \/ /\ w.exec \in recovered
          /\ SweepsOn(i, r, r.stranded, cache[i])
          /\ UNCHANGED <<db, recovered, cache>>
       \/ /\ w.exec \notin recovered
          /\ SweepsOn(i, r, r.stranded, SweepRows(cache[i], w))
          /\ recovered' = recovered \cup {w.exec}
          /\ db' = SweepRows(db, w)
          /\ cache' = [cache EXCEPT ![i] = SweepRows(@, w)]
    /\ UNCHANGED <<answer, stops, ghosts>>

\* A batch that is rejected, or whose acknowledgement is lost, ends the sweep: a
\* booting process exits, a draining one was about to.  Bounded as ends are.
SweepFault(i) ==
    LET w == proc[i].sweep IN
    /\ StorageFaults /\ stops < MaxStops
    /\ Turn(i, "sweep") /\ w.exec # None
    /\ proc' = [proc EXCEPT ![i].mode = "draining", ![i].stranded = {},
                            ![i].sweep = NoSweep, ![i].tail = Tail(@)]
    /\ task' = Settled(i, task)
    /\ \/ UNCHANGED <<db, recovered>>
       \/ /\ w.exec \notin recovered
          /\ recovered' = recovered \cup {w.exec}
          /\ db' = SweepRows(db, w)
    /\ stops' = stops + 1
    /\ UNCHANGED <<cache, answer, ghosts>>

Swept(i) == proc[i].stranded = {} /\ proc[i].sweep = NoSweep

\* The sweep is over: the process listens.
Serve(i) ==
    /\ proc[i].mode = "booting" /\ Swept(i)
    /\ proc' = [proc EXCEPT ![i].mode = "serving"]
    /\ UNCHANGED <<store, cache, task, answer, stops, ghosts>>

\* The process is about to exit: it has drained, or a rejection nothing handles
\* brings it down.
Exiting(i) == (proc[i].mode = "draining" /\ Swept(i)) \/ ~Alive(i)

\* The process ends: it exits, or it is killed, at most MaxStops times.  All it
\* held is lost.
Stop(i) ==
    /\ proc[i].mode # "down"
    /\ \/ Exiting(i) /\ UNCHANGED stops
       \/ stops < MaxStops /\ stops' = stops + 1
    /\ cache' = [cache EXCEPT ![i] = EmptyStore]
    /\ proc' = [proc EXCEPT ![i] = DownProc]
    /\ task' = [e \in Execs |-> IF Home(e) = i THEN DoneTask ELSE task[e]]
    /\ UNCHANGED <<store, answer, ghosts>>

-----------------------------------------------------------------------------
StartStep(e) ==
    \/ StartSelect(e) \/ StartReplay(e) \/ StartPrepare(e) \/ StartRefused(e)
    \/ StartCommit(e) \/ StartConflict(e) \/ ClaimSelect(e) \/ ClaimPublish(e)
    \/ StartFault(e)
WorkerStep(e) ==
    \/ RunNext(e) \/ DagSucceeds(e) \/ DagFails(e)
    \/ BridgeProject(e) \/ BridgeHist(e) \/ BridgeFault(e)
    \/ OutcomeBegin(e) \/ OutcomeSelect(e) \/ OutcomePublish(e)
    \/ OutcomeCommit(e) \/ OutcomeFault(e)
ProcStep(i) ==
    \/ EditCommit(i) \/ DeleteCommit(i) \/ RequestFault(i)
    \/ Boot(i) \/ Drain(i) \/ SweepCommit(i) \/ SweepFault(i) \/ Serve(i) \/ Stop(i)
    \/ \E e \in Execs : StartRequest(i, e)
    \/ \E p \in Projects : EditRequest(i, p) \/ DeleteRequest(i, p)

Next ==
    \/ \E e \in Execs : StartStep(e) \/ WorkerStep(e)
    \/ \E i \in Instances : ProcStep(i)

Spec == Init /\ [][Next]_vars

\* Every await is answered, the worker's agents and its event loop go on, a
\* process that has to exit exits, and one that is down is started again.
\* Nothing is assumed of clients, of users, of faults or of kills.
FairSpec ==
    /\ Spec
    /\ \A e \in Execs : WF_vars(StartStep(e)) /\ WF_vars(WorkerStep(e))
    /\ \A i \in Instances :
          /\ WF_vars(Boot(i)) /\ WF_vars(Serve(i))
          /\ WF_vars(EditCommit(i)) /\ WF_vars(DeleteCommit(i))
          /\ WF_vars(SweepCommit(i))
          /\ WF_vars(Exiting(i) /\ Stop(i))

-----------------------------------------------------------------------------
(***************************************************************************)
(* Properties                                                              *)
(***************************************************************************)

\* A project is disturbed once it has been erased, or once some process has
\* listed one of its runs as stranded while that run's worker was alive.
Disturbed(p) == p \in deleted \/ \E e \in taken : ProjectOf[e] = p

\* A running execution of an undisturbed project is the one its claim names:
\* no sweep, outcome, refused start or fault of another attempt releases it.
\* Hence at most one execution of a project is running, on all processes.
RunningHoldsClaim ==
    \A e \in Execs :
        db.exec[e] = "running" /\ ~Disturbed(ProjectOf[e])
            => db.claim[ProjectOf[e]] = e

\* One Idempotency-Key starts one execution, however often and wherever the
\* request is repeated, as long as no project it was used on is erased.
KeyUndeleted(k) == \A e \in Execs : KeyOf[e] = k => ProjectOf[e] \notin deleted
OneExecutionPerKey ==
    \A x, y \in started :
        KeyOf[x] = KeyOf[y] /\ KeyUndeleted(KeyOf[x]) => x = y

\* Clients that repeated one request and were told an execution were told the
\* same one.
SameRequestSameExecution ==
    \A x, y \in Execs :
        /\ KeyOf[x] = KeyOf[y] /\ SameRequest(x, y) /\ KeyUndeleted(KeyOf[x])
        /\ answer[x].kind \in {"started", "replayed"}
        /\ answer[y].kind \in {"started", "replayed"}
        => answer[x].exec = answer[y].exec

\* A replay answers a request with its own run, never with another caller's, and
\* only with one that started: the same key on another project, by another caller
\* or with another payload is refused.
ReplayAnswersOwnRequest ==
    \A e \in Execs :
        answer[e].kind = "replayed" =>
            /\ answer[e].exec \in started
            /\ ProjectOf[answer[e].exec] = ProjectOf[e]
            /\ TagOf[answer[e].exec] = TagOf[e]

\* The run history tells the same outcome as the execution record; it may only
\* be ahead of it, between the pipeline.failed event and the outcome.
HistoryAgrees ==
    \A e \in Execs :
        ProjectOf[e] \notin deleted =>
            \/ db.hist[e] = db.exec[e]
            \/ db.hist[e] = "failed" /\ db.exec[e] = "running"

\* A worker only ever works for an execution the store holds as running, until
\* its outcome has committed, acknowledged or not.
WorkersAreRecorded ==
    \A e \in Execs :
        Live(e) /\ ~Disturbed(ProjectOf[e]) /\ e \notin unacked
            => db.exec[e] = "running"

\* The terminal status of an execution is final, unless its worker was alive
\* when its sweep was decided or never heard that its outcome had committed.
TerminalStands ==
    [][\A e \in Execs :
          db.exec[e] \in Terminal /\ e \notin taken \cup unacked
          /\ ProjectOf[e] \notin deleted'
             => db'.exec[e] = db.exec[e]]_vars

\* The claim of an undisturbed project names a run that is still to release it.
ClaimReleasedWithRun ==
    \A p \in Projects :
        db.claim[p] # None /\ ~Disturbed(p)
            => db.exec[db.claim[p]] = "running"

\* No execution a client was told of stays running forever: its worker closes it,
\* or brings its process down trying, or a sweep of the next boot does.  (One
\* whose start committed unacknowledged has no worker and waits for a restart.)
RunsEnd ==
    []<>(\A e \in Execs : db.exec[e] = "running" => answer[e].kind # "started")

\* No admitted attempt hangs: not on the project lock, on the writes a refresh
\* waits for, on the single worker, nor on a process about to die.  (Attempts are
\* bounded: when no more come, all of them have been answered.)
AttemptsEnd == []<>(\A e \in Execs : task[e].pc \in {"new", "done"})

-----------------------------------------------------------------------------
(***************************************************************************)
(* Claims of the code that it does not keep                                *)
(***************************************************************************)

\* "a second start for the same project is refused by durable storage rather
\* than by a process-local lock - which is what makes the invariant hold across
\* instances" (GENERATION_ACTIVE_CLAIMS): two executions of a project never run
\* at once.  A sweep decides from its cache which claim it drops.
OneRunPerProject ==
    \A x, y \in Execs :
        /\ db.exec[x] = "running" /\ db.exec[y] = "running"
        /\ ProjectOf[x] = ProjectOf[y]
        => x = y

\* "the project itself is gone and its id is never reused"
\* (generationClaimProjectDeletion): an erased project does not come back.  A
\* start or an outcome that read it before its erasure writes it again.
ErasureIsFinal == \A p \in deleted : db.project[p].status = "absent"
=============================================================================
