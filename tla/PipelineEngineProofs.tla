-------------------------- MODULE PipelineEngineProofs --------------------------
(***************************************************************************)
(* Proofs about PipelineEngine, for any number of pipelines, executions,   *)
(* stages, requests, rejected writes and kills: its types, the order of    *)
(* the stages in every record there is, completedStages as long as the     *)
(* storage rejects nothing, and that no pipeline is said to run when       *)
(* nothing runs it.                                                        *)
(*                                                                         *)
(* That an execution which marks a stage keeps the order needs more than   *)
(* the order itself: of an execution that is at a stage, no later stage    *)
(* was begun in the record it holds (AtFront), also when the checkpoint    *)
(* after the stage is rejected and the stage is marked failed again.       *)
(*                                                                         *)
(* What is said of a pipeline is the last write of it that waits, or the   *)
(* row when none waits.  The inductive invariant of the third part speaks  *)
(* of that last record (Settles): if it says the pipeline is under way,    *)
(* some execution of it is before its end and will write once more (Led).  *)
(***************************************************************************)
EXTENDS PipelineEngine, FiniteSetTheorems, TLAPS

\* The execution x is at its first incomplete stage, or has just completed it.
AtFront(x) ==
    \A j \in Stages : /\ j < x.stage => x.state.stages[j] = "completed"
                      /\ x.stage < j => x.state.stages[j] = "pending"

Sound(x) ==
    /\ Staircase(x.state)
    /\ IF x.at = "idle" THEN x.started = "no" ELSE x.pipeline \in Pipelines
    /\ x.at \in {"begin", "stage", "done"} => AtFront(x)

SoundRow(r) == r # NoPipeline => Staircase(r)

RowsSound ==
    \A p \in Pipelines :
        /\ SoundRow(pipelineRow[p]) /\ SoundRow(recovered[p])
        /\ recovered[p] # NoPipeline => recovered[p].status = "failed"
SavesSound(q) == \A i \in DOMAIN q : Staircase(q[i].state)
ExecutorsSound == \A e \in Executors : Sound(executor[e])

PipelineInv == PipelineTypeOK /\ RowsSound /\ SavesSound(saves) /\ ExecutorsSound

-----------------------------------------------------------------------------
(***************************************************************************)
(* Records                                                                 *)
(***************************************************************************)

LEMMA CreatedSound ==
    /\ Created \in State /\ Staircase(Created)
    /\ [Created EXCEPT !.status = "failed"] \in State
    /\ Staircase([Created EXCEPT !.status = "failed"])
    /\ [Created EXCEPT !.status = "running"] \in State
    /\ Staircase([Created EXCEPT !.status = "running"])
<1>1. Created \in State
  BY DEF Created, State, PipelineStatus, StageStatus
<1>2. Staircase(Created)
  BY DEF Created, Staircase
<1>3. \A to \in {"failed", "running"} :
        [Created EXCEPT !.status = to] = [status |-> to, stages |-> Created.stages,
                                          done |-> <<>>, failed |-> {}]
  BY DEF Created
<1> QED BY <1>1, <1>2, <1>3 DEF Created, State, Staircase, PipelineStatus

LEMMA StoppedSound ==
    ASSUME NEW s \in State, Staircase(s), NEW to \in PipelineStatus \ {"completed"}
    PROVE  /\ [s EXCEPT !.status = to] \in State
           /\ Staircase([s EXCEPT !.status = to])
BY DEF State, Staircase

LEMMA RecoveringSound ==
    ASSUME NEW s \in State, Staircase(s)
    PROVE  Recovering(s) \in State /\ Staircase(Recovering(s))
BY PipelineConstantsOK DEF Recovering, State, Staircase, Stages, PipelineStatus, StageStatus

LEMMA InterruptedSound ==
    ASSUME NEW s \in State, Staircase(s)
    PROVE  /\ InterruptedSnapshot(s) \in State
           /\ Staircase(InterruptedSnapshot(s))
           /\ InterruptedSnapshot(s).status = "failed"
BY PipelineConstantsOK
   DEF InterruptedSnapshot, State, Staircase, Stages, PipelineStatus, StageStatus

LEMMA AnewSound ==
    ASSUME NEW s \in State, Staircase(s), NEW k \in Stages, s.stages[k] = "failed"
    PROVE  LET r == [s EXCEPT !.status = "running", !.stages[k] = "pending",
                              !.failed = @ \ {k}]
           IN  r \in State /\ Staircase(r)
BY PipelineConstantsOK DEF State, Staircase, Stages, PipelineStatus, StageStatus

-----------------------------------------------------------------------------
(***************************************************************************)
(* Executions                                                              *)
(***************************************************************************)

\* What marking a stage leaves of a record.
LEMMA MarkedSound ==
    ASSUME NEW s \in State, NEW k \in Stages, NEW status \in StageStatus
    PROVE  /\ Marked(s, k, status) \in State
           /\ Marked(s, k, status).stages = [s.stages EXCEPT ![k] = status]
           /\ Marked(s, k, status).status = s.status
BY DEF Marked, State

LEMMA MarksSound ==
    ASSUME NEW s \in State, NEW k \in Stages
    PROVE  /\ Marked(s, k, "running") \in State
           /\ Marked(s, k, "running").stages = [s.stages EXCEPT ![k] = "running"]
           /\ Marked(s, k, "running").status = s.status
           /\ WithDone(s, k) \in State
           /\ WithDone(s, k).stages = [s.stages EXCEPT ![k] = "completed"]
           /\ WithDone(s, k).status = s.status
           /\ WithFailed(s, k) \in State
           /\ WithFailed(s, k).stages = [s.stages EXCEPT ![k] = "failed"]
           /\ WithFailed(s, k).status = "failed"
<1>1. /\ Marked(s, k, "running") \in State
      /\ Marked(s, k, "running").stages = [s.stages EXCEPT ![k] = "running"]
      /\ Marked(s, k, "running").status = s.status
  BY MarkedSound DEF StageStatus
<1>2. /\ WithDone(s, k) \in State
      /\ WithDone(s, k).stages = [s.stages EXCEPT ![k] = "completed"]
      /\ WithDone(s, k).status = s.status
  <2> DEFINE m == Marked(s, k, "completed")
  <2>1. /\ m \in State /\ m.stages = [s.stages EXCEPT ![k] = "completed"]
        /\ m.status = s.status
    BY MarkedSound DEF StageStatus
  <2>2. Append(s.done, k) \in Seq(Stages)
    BY DEF State
  <2>3. WithDone(s, k) = [m EXCEPT !.done = Append(s.done, k)]
    BY DEF WithDone
  <2> HIDE DEF m
  <2> QED BY <2>1, <2>2, <2>3 DEF State
<1>3. /\ WithFailed(s, k) \in State
      /\ WithFailed(s, k).stages = [s.stages EXCEPT ![k] = "failed"]
      /\ WithFailed(s, k).status = "failed"
  <2> DEFINE m == Marked(s, k, "failed")
  <2>1. m \in State /\ m.stages = [s.stages EXCEPT ![k] = "failed"]
    BY MarkedSound DEF StageStatus
  <2>2. s.failed \cup {k} \in SUBSET Stages
    BY DEF State
  <2>3. WithFailed(s, k) = [m EXCEPT !.status = "failed", !.failed = s.failed \cup {k}]
    BY DEF WithFailed
  <2> HIDE DEF m
  <2> QED BY <2>1, <2>2, <2>3 DEF State, PipelineStatus
<1> QED BY <1>1, <1>2, <1>3

LEMMA IdleSound == Idle \in ExecutorState /\ Sound(Idle)
BY CreatedSound, PipelineConstantsOK
   DEF Idle, ExecutorState, Sound, Waiting, Stages

LEMMA MovedSound ==
    ASSUME NEW x \in ExecutorState, Sound(x), x.at # "idle",
           NEW at \in {"artifacts", "stage"}, at = "stage" => x.at = "begin"
    PROVE  [x EXCEPT !.at = at] \in ExecutorState /\ Sound([x EXCEPT !.at = at])
BY DEF ExecutorState, Sound, AtFront

LEMMA RunningSound ==
    ASSUME NEW x \in ExecutorState, Sound(x), x.at # "idle"
    PROVE  /\ Running(x) \in ExecutorState /\ Sound(Running(x))
           /\ Running([x EXCEPT !.started = "yes"]) \in ExecutorState
           /\ Sound(Running([x EXCEPT !.started = "yes"]))
BY StoppedSound DEF Running, ExecutorState, Sound, PipelineStatus, Waiting, State

LEMMA FinishedSound ==
    ASSUME NEW x \in ExecutorState, Sound(x), x.at # "idle", Remaining(x.state) = {}
    PROVE  Finished(x) \in ExecutorState /\ Sound(Finished(x))
BY DEF Finished, ExecutorState, Sound, PipelineStatus, Waiting, State, Staircase, Remaining

LEMMA StageBegunSound ==
    ASSUME NEW x \in ExecutorState, Sound(x), x.at # "idle",
           NEW k \in Remaining(x.state), \A j \in Remaining(x.state) : k <= j
    PROVE  StageBegun(x, k) \in ExecutorState /\ Sound(StageBegun(x, k))
<1> DEFINE s == x.state
           y == StageBegun(x, k)
           marked == [s.stages EXCEPT ![k] = "running"]
<1>1. x.stage \in Stages /\ s \in State /\ s.stages \in [Stages -> StageStatus]
  BY DEF ExecutorState, State
<1>2. k \in Stages
  BY <1>1 DEF Remaining
<1>3. /\ Marked(s, k, "running") \in State
      /\ Marked(s, k, "running").stages = marked /\ Marked(s, k, "running").status = s.status
  BY <1>1, <1>2, MarksSound
<1>4. /\ y \in ExecutorState
      /\ y.at = "begin" /\ y.stage = k /\ y.pipeline = x.pipeline
      /\ y.state.stages = marked /\ y.state.status = s.status
  <2> DEFINE r == Marked(s, k, "running")
  <2>1. r \in State /\ r.stages = marked /\ r.status = s.status
    BY <1>1, <1>2, <1>3 DEF State, PipelineStatus
  <2>2. y.at = "begin" /\ y.stage = k /\ y.pipeline = x.pipeline /\ y.state = r
    BY DEF StageBegun, ExecutorState
  <2> HIDE DEF r
  <2>3. y \in ExecutorState
    BY <1>1, <1>2, <2>1, <2>2 DEF StageBegun, ExecutorState, Waiting
  <2> QED BY <2>1, <2>2, <2>3
<1>5. \A j \in Stages : marked[j] = IF j = k THEN "running" ELSE s.stages[j]
  BY <1>1, <1>2
<1>6. \A j \in Stages : /\ j < k => s.stages[j] = "completed"
                        /\ k < j => s.stages[j] = "pending"
  BY <1>1, <1>2, PipelineConstantsOK
     DEF Sound, Staircase, AtFront, Remaining, Stages, StageStatus
<1>7. Staircase(y.state) /\ AtFront(y)
  BY <1>2, <1>4, <1>5, <1>6, PipelineConstantsOK DEF Staircase, AtFront, Remaining, Sound, Stages
<1> QED BY <1>1, <1>4, <1>7 DEF Sound, Waiting

LEMMA StageDoneSound ==
    ASSUME NEW x \in ExecutorState, Sound(x), x.at = "stage"
    PROVE  StageDone(x) \in ExecutorState /\ Sound(StageDone(x))
<1> DEFINE s == x.state
           y == StageDone(x)
           marked == [s.stages EXCEPT ![x.stage] = "completed"]
<1>1. x.stage \in Stages /\ s \in State /\ s.stages \in [Stages -> StageStatus]
  BY DEF ExecutorState, State
<1>2. x.stage \in Stages
  BY <1>1 DEF Remaining
<1>3. /\ WithDone(s, x.stage) \in State
      /\ WithDone(s, x.stage).stages = marked /\ WithDone(s, x.stage).status = s.status
  BY <1>1, <1>2, MarksSound
<1>4. /\ y \in ExecutorState
      /\ y.at = "done" /\ y.stage = x.stage /\ y.pipeline = x.pipeline
      /\ y.state.stages = marked /\ y.state.status = s.status
  <2> DEFINE r == WithDone(s, x.stage)
  <2>1. r \in State /\ r.stages = marked /\ r.status = s.status
    BY <1>1, <1>2, <1>3 DEF State, PipelineStatus
  <2>2. y.at = "done" /\ y.stage = x.stage /\ y.pipeline = x.pipeline /\ y.state = r
    BY DEF StageDone, ExecutorState
  <2> HIDE DEF r
  <2>3. y \in ExecutorState
    BY <1>1, <1>2, <2>1, <2>2 DEF StageDone, ExecutorState, Waiting
  <2> QED BY <2>1, <2>2, <2>3
<1>5. \A j \in Stages : marked[j] = IF j = x.stage THEN "completed" ELSE s.stages[j]
  BY <1>1, <1>2
<1>6. \A j \in Stages : /\ j < x.stage => s.stages[j] = "completed"
                        /\ x.stage < j => s.stages[j] = "pending"
  BY <1>1, <1>2, PipelineConstantsOK
     DEF Sound, Staircase, AtFront, Remaining, Stages, StageStatus
<1>7. Staircase(y.state) /\ AtFront(y)
  BY <1>2, <1>4, <1>5, <1>6, PipelineConstantsOK DEF Staircase, AtFront, Remaining, Sound, Stages
<1> QED BY <1>1, <1>4, <1>7 DEF Sound, Waiting

LEMMA StageFailedSound ==
    ASSUME NEW x \in ExecutorState, Sound(x), x.at \in {"stage", "done"}
    PROVE  StageFailed(x) \in ExecutorState /\ Sound(StageFailed(x))
<1> DEFINE s == x.state
           y == StageFailed(x)
           marked == [s.stages EXCEPT ![x.stage] = "failed"]
<1>1. x.stage \in Stages /\ s \in State /\ s.stages \in [Stages -> StageStatus]
  BY DEF ExecutorState, State
<1>2. x.stage \in Stages
  BY <1>1 DEF Remaining
<1>3. /\ WithFailed(s, x.stage) \in State
      /\ WithFailed(s, x.stage).stages = marked /\ WithFailed(s, x.stage).status = "failed"
  BY <1>1, <1>2, MarksSound
<1>4. /\ y \in ExecutorState
      /\ y.at = "failed" /\ y.stage = x.stage /\ y.pipeline = x.pipeline
      /\ y.state.stages = marked /\ y.state.status = "failed"
  <2> DEFINE r == WithFailed(s, x.stage)
  <2>1. r \in State /\ r.stages = marked /\ r.status = "failed"
    BY <1>1, <1>2, <1>3 DEF State, PipelineStatus
  <2>2. y.at = "failed" /\ y.stage = x.stage /\ y.pipeline = x.pipeline /\ y.state = r
    BY DEF StageFailed, ExecutorState
  <2> HIDE DEF r
  <2>3. y \in ExecutorState
    BY <1>1, <1>2, <2>1, <2>2 DEF StageFailed, ExecutorState, Waiting
  <2> QED BY <2>1, <2>2, <2>3
<1>5. \A j \in Stages : marked[j] = IF j = x.stage THEN "failed" ELSE s.stages[j]
  BY <1>1, <1>2
<1>6. \A j \in Stages : /\ j < x.stage => s.stages[j] = "completed"
                        /\ x.stage < j => s.stages[j] = "pending"
  BY <1>1, <1>2, PipelineConstantsOK
     DEF Sound, Staircase, AtFront, Remaining, Stages, StageStatus
<1>7. Staircase(y.state)
  BY <1>2, <1>4, <1>5, <1>6, PipelineConstantsOK DEF Staircase, Remaining, Sound, Stages
<1> QED BY <1>1, <1>4, <1>7 DEF Sound, Waiting

LEMMA ThrownSound ==
    ASSUME NEW x \in ExecutorState, Sound(x)
    PROVE  Thrown(x) \in ExecutorState /\ Sound(Thrown(x))
BY CreatedSound, IdleSound DEF Thrown, ExecutorState, Sound, Waiting

LEMMA RejectedSound ==
    ASSUME NEW x \in ExecutorState, Sound(x)
    PROVE  Rejected(x) \in ExecutorState /\ Sound(Rejected(x))
BY StageFailedSound, ThrownSound, IdleSound DEF Rejected

\* What Turns leaves is sound when what it is given is.
LEMMA TurnsSound ==
    ASSUME PipelineInv, NEW e \in Executors, NEW x \in ExecutorState, Sound(x),
           NEW q \in Seq(Save), SavesSound(q), Turns(e, x, q)
    PROVE  /\ executor' \in [Executors -> ExecutorState] /\ ExecutorsSound'
           /\ saves' \in Seq(Save) /\ SavesSound(saves)'
           /\ active' \in BOOLEAN /\ starting' \in BOOLEAN
<1>1. executor' \in [Executors -> ExecutorState] /\ ExecutorsSound'
  BY DEF PipelineInv, PipelineTypeOK, ExecutorsSound, Turns
<1>2. saves' \in Seq(Save) /\ SavesSound(saves)'
  <2>1. CASE x.at \in Waiting
    <3> DEFINE w == [pipeline |-> x.pipeline, state |-> x.state, by |-> e]
    <3>1. w \in Save /\ Staircase(w.state)
      BY <2>1 DEF Save, Sound, ExecutorState, Waiting
    <3>2. saves' = Append(q, w) BY <2>1 DEF Turns
    <3> QED BY <3>1, <3>2 DEF SavesSound
  <2>2. CASE x.at \notin Waiting
    BY <2>2 DEF Turns, SavesSound
  <2> QED BY <2>1, <2>2
<1>3. active' \in BOOLEAN
  BY DEF Turns, PipelineInv, PipelineTypeOK
<1>4. starting' \in BOOLEAN
  BY DEF Turns, PipelineInv, PipelineTypeOK
<1> QED BY <1>1, <1>2, <1>3, <1>4

LEMMA RestOfQueueSound ==
    ASSUME PipelineInv, saves # <<>>
    PROVE  /\ Tail(saves) \in Seq(Save) /\ SavesSound(Tail(saves))
           /\ Head(saves) \in Save /\ Staircase(Head(saves).state)
BY DEF PipelineInv, PipelineTypeOK, SavesSound

LEMMA ViewSound ==
    ASSUME PipelineInv, NEW p \in Pipelines, View(p) # NoPipeline
    PROVE  View(p) \in State /\ Staircase(View(p))
BY DEF PipelineInv, PipelineTypeOK, RowsSound, SoundRow, View, Record
-----------------------------------------------------------------------------
(***************************************************************************)
(* Steps                                                                   *)
(***************************************************************************)

LEMMA PipelineInitSound == PipelineInit => PipelineInv
<1> SUFFICES ASSUME PipelineInit PROVE PipelineInv
  OBVIOUS
<1>1. PipelineTypeOK
  <2>1. active \in BOOLEAN /\ starting \in BOOLEAN
    BY Zenon DEF PipelineInit
  <2> QED BY <2>1, IdleSound, PipelineConstantsOK DEF PipelineInit, PipelineTypeOK, Record
<1>2. RowsSound /\ SavesSound(saves)
  BY DEF PipelineInit, RowsSound, SoundRow, SavesSound
<1>3. ExecutorsSound
  BY IdleSound DEF PipelineInit, ExecutorsSound
<1> QED BY <1>1, <1>2, <1>3 DEF PipelineInv

LEMMA ContinuesSound ==
    ASSUME PipelineInv, NEW e \in Executors, NEW q \in Seq(Save), SavesSound(q),
           Continues(e, q)
    PROVE  \E x \in ExecutorState : Sound(x) /\ Turns(e, x, q)
<1> DEFINE x == executor[e]
<1>1. x \in ExecutorState /\ Sound(x)
  BY DEF PipelineInv, PipelineTypeOK, ExecutorsSound
<1> HIDE DEF x
<1>2. CASE x.at = "reserve" /\ Turns(e, Running([x EXCEPT !.started = "yes"]), q)
  BY <1>1, <1>2, RunningSound
<1>3. CASE x.at = "recovering" /\ Turns(e, Running(x), q)
  BY <1>1, <1>3, RunningSound
<1>4. CASE /\ x.at \in {"running", "done"} /\ Remaining(x.state) = {}
           /\ Turns(e, Finished(x), q)
  BY <1>1, <1>4, FinishedSound
<1>5. CASE /\ x.at \in {"running", "done"}
           /\ \E k \in Remaining(x.state) :
                 /\ \A j \in Remaining(x.state) : k <= j
                 /\ Turns(e, StageBegun(x, k), q)
  BY <1>1, <1>5, StageBegunSound
<1>6. CASE x.at = "begin" /\ Turns(e, [x EXCEPT !.at = "stage"], q)
  BY <1>1, <1>6, MovedSound
<1>7. CASE x.at \in {"failed", "finish"} /\ Turns(e, [x EXCEPT !.at = "artifacts"], q)
  BY <1>1, <1>7, MovedSound
<1>8. CASE x.at = "settle" /\ Turns(e, Idle, q)
  BY <1>8, IdleSound
<1> QED BY <1>2, <1>3, <1>4, <1>5, <1>6, <1>7, <1>8 DEF Continues, x

\* A step that leaves rows and counters and turns e.
LEMMA TurnedSound ==
    ASSUME PipelineInv, NEW e \in Executors, NEW x \in ExecutorState, Sound(x),
           NEW q \in Seq(Save), SavesSound(q), Turns(e, x, q),
           RowsSound', pipelineRow' \in [Pipelines -> Record],
           recovered' \in [Pipelines -> Record],
           UNCHANGED <<claims, readiness>>,
           requests' \in 0..MaxRequests, faults' \in Nat, kills' \in Nat,
           faults' + kills' <= MaxMishaps
    PROVE  PipelineInv'
BY TurnsSound DEF PipelineInv, PipelineTypeOK

LEMMA RowsStay ==
    ASSUME PipelineInv, UNCHANGED <<pipelineRow, recovered>>
    PROVE  RowsSound' /\ pipelineRow' \in [Pipelines -> Record]
           /\ recovered' \in [Pipelines -> Record]
BY DEF PipelineInv, PipelineTypeOK, RowsSound, SoundRow

LEMMA SaveMadeSound == PipelineInv /\ SaveMade => PipelineInv'
<1> SUFFICES ASSUME PipelineInv, SaveMade PROVE PipelineInv'
  OBVIOUS
<1> DEFINE s == Head(saves)
<1>1. /\ s \in Save /\ Staircase(s.state)
      /\ Tail(saves) \in Seq(Save) /\ SavesSound(Tail(saves))
  BY RestOfQueueSound DEF SaveMade
<1>2. /\ pipelineRow' = [pipelineRow EXCEPT ![s.pipeline] = s.state]
      /\ recovered' = [recovered EXCEPT ![s.pipeline] = NoPipeline]
      /\ UNCHANGED <<claims, readiness, requests, faults, kills>>
  BY DEF SaveMade
<1>3. /\ pipelineRow' \in [Pipelines -> Record] /\ recovered' \in [Pipelines -> Record]
      /\ RowsSound'
  BY <1>1, <1>2 DEF PipelineInv, PipelineTypeOK, RowsSound, SoundRow, Save, Record
<1>4. CASE s.by \in Executors
  <2>1. PICK x \in ExecutorState : Sound(x) /\ Turns(s.by, x, Tail(saves))
    BY <1>1, <1>4, ContinuesSound DEF SaveMade
  <2> HIDE DEF s
  <2> QED BY <1>1, <1>2, <1>3, <1>4, <2>1, TurnedSound DEF PipelineInv, PipelineTypeOK
<1>5. CASE s.by \notin Executors
  <2>1. saves' = Tail(saves) /\ UNCHANGED <<executor, active, starting>>
    BY <1>5 DEF SaveMade
  <2> QED BY <1>1, <1>2, <1>3, <2>1
          DEF PipelineInv, PipelineTypeOK, SavesSound, ExecutorsSound
<1> QED BY <1>4, <1>5

LEMMA SaveRejectedSound == PipelineInv /\ SaveRejected => PipelineInv'
<1> SUFFICES ASSUME PipelineInv, SaveRejected PROVE PipelineInv'
  OBVIOUS
<1> DEFINE s == Head(saves)
<1>1. Tail(saves) \in Seq(Save) /\ SavesSound(Tail(saves)) /\ s \in Save
  BY RestOfQueueSound DEF SaveRejected
<1>2. /\ faults' \in Nat /\ kills' \in Nat /\ faults' + kills' <= MaxMishaps
      /\ UNCHANGED <<pipelineRow, claims, recovered, readiness, requests, kills>>
  BY PipelineConstantsOK DEF SaveRejected, PipelineInv, PipelineTypeOK
<1>3. CASE s.by \in Executors
  <2>1. Turns(s.by, Rejected(executor[s.by]), Tail(saves))
    BY <1>3 DEF SaveRejected
  <2>2. Rejected(executor[s.by]) \in ExecutorState /\ Sound(Rejected(executor[s.by]))
    BY <1>3, RejectedSound DEF PipelineInv, PipelineTypeOK, ExecutorsSound
  <2> QED BY <1>1, <1>2, <1>3, <2>1, <2>2, TurnedSound, RowsStay
          DEF PipelineInv, PipelineTypeOK
<1>4. CASE s.by \notin Executors
  <2>1. saves' = Tail(saves) /\ UNCHANGED <<executor, active, starting>>
    BY <1>4 DEF SaveRejected
  <2> QED BY <1>1, <1>2, <2>1, RowsStay
          DEF PipelineInv, PipelineTypeOK, SavesSound, ExecutorsSound
<1> QED BY <1>3, <1>4

LEMMA ExecutionSound ==
    ASSUME PipelineInv, NEW e \in Executors, NEW ok \in BOOLEAN,
           StageEnds(e, ok) \/ ArtifactsStored(e) \/ ArtifactsRejected(e)
    PROVE  PipelineInv'
<1> DEFINE x == executor[e]
<1>1. x \in ExecutorState /\ Sound(x) /\ saves \in Seq(Save) /\ SavesSound(saves)
  BY DEF PipelineInv, PipelineTypeOK, ExecutorsSound
<1>2. CASE StageEnds(e, ok)
  <2>1. PICK y \in ExecutorState : Sound(y) /\ Turns(e, y, saves)
    BY <1>1, <1>2, StageDoneSound, StageFailedSound DEF StageEnds
  <2> QED BY <1>1, <1>2, <2>1, TurnedSound, RowsStay
          DEF StageEnds, PipelineInv, PipelineTypeOK
<1>3. CASE ArtifactsStored(e)
  BY <1>1, <1>3, TurnedSound, RowsStay, IdleSound
     DEF ArtifactsStored, PipelineInv, PipelineTypeOK
<1>4. CASE ArtifactsRejected(e)
  <2>1. PICK y \in ExecutorState : Sound(y) /\ Turns(e, y, saves)
    BY <1>1, <1>4, ThrownSound DEF ArtifactsRejected
  <2>2. faults' \in Nat /\ kills' \in Nat /\ faults' + kills' <= MaxMishaps
    BY <1>4, PipelineConstantsOK DEF ArtifactsRejected, PipelineInv, PipelineTypeOK
  <2> QED BY <1>1, <1>4, <2>1, <2>2, TurnedSound, RowsStay
          DEF ArtifactsRejected, PipelineInv, PipelineTypeOK
<1> QED BY <1>2, <1>3, <1>4

LEMMA BeginsSound ==
    ASSUME PipelineInv, NEW e \in Executors, NEW p \in Pipelines,
           NEW at \in {"reserve", "running", "recovering"},
           NEW s \in State, Staircase(s), Begins(e, at, p, s)
    PROVE  PipelineInv'
<1> DEFINE x == [Idle EXCEPT !.at = at, !.pipeline = p, !.state = s]
<1>1. x \in ExecutorState /\ Sound(x)
  BY IdleSound DEF ExecutorState, Sound, Waiting
<1>2. Turns(e, x, saves) /\ Request
  BY DEF Begins
<1>3. requests' \in 0..MaxRequests
  BY <1>2, PipelineConstantsOK DEF Request, PipelineInv, PipelineTypeOK
<1> HIDE DEF x
<1> QED BY <1>1, <1>2, <1>3, TurnedSound, RowsStay DEF Request, PipelineInv, PipelineTypeOK

LEMMA RequestsSound ==
    ASSUME PipelineInv, NEW e \in Executors, NEW p \in Pipelines,
           \/ Start(e, p) \/ RunOnce(e, p) \/ Retry(e, p) \/ ResumePaused(e, p)
           \/ \E k \in Stages : RetryStage(e, p, k)
    PROVE  PipelineInv'
<1>1. CASE Start(e, p)
  BY <1>1, CreatedSound, BeginsSound DEF Start
<1>2. CASE RunOnce(e, p)
  BY <1>2, CreatedSound, BeginsSound DEF RunOnce
<1>3. CASE Retry(e, p) \/ ResumePaused(e, p)
  <2>1. View(p) # NoPipeline /\ Begins(e, "recovering", p, Recovering(View(p)))
    BY <1>3 DEF Retry, ResumePaused, Is
  <2> QED BY <2>1, ViewSound, RecoveringSound, BeginsSound
<1>4. CASE \E k \in Stages : RetryStage(e, p, k)
  <2>1. PICK k \in Stages : RetryStage(e, p, k)
    BY <1>4
  <2> QED BY <2>1, ViewSound, AnewSound, BeginsSound DEF RetryStage
<1> QED BY <1>1, <1>2, <1>3, <1>4

LEMMA StopSound ==
    ASSUME PipelineInv, NEW p \in Pipelines, NEW from,
           NEW to \in {"paused", "cancelled"}, StopPipeline(p, from, to)
    PROVE  PipelineInv'
<1> DEFINE w == [pipeline |-> p, by |-> "request", state |-> [View(p) EXCEPT !.status = to]]
<1>1. [View(p) EXCEPT !.status = to] \in State /\ Staircase([View(p) EXCEPT !.status = to])
  BY ViewSound, StoppedSound DEF StopPipeline, Is, PipelineStatus
<1>2. w \in Save /\ Staircase(w.state)
  BY <1>1 DEF Save
<1>3. saves' = Append(saves, w) /\ UNCHANGED <<executor, active, starting>> /\ Request
  BY DEF StopPipeline
<1> HIDE DEF w
<1>4. saves' \in Seq(Save) /\ SavesSound(saves)'
  BY <1>2, <1>3 DEF PipelineInv, PipelineTypeOK, SavesSound
<1>5. requests' \in 0..MaxRequests
  BY <1>3, PipelineConstantsOK DEF Request, PipelineInv, PipelineTypeOK
<1> QED BY <1>3, <1>4, <1>5, RowsStay
        DEF Request, PipelineInv, PipelineTypeOK, ExecutorsSound

LEMMA RecoverSound ==
    ASSUME PipelineInv, NEW p \in Pipelines, RecoverPipeline(p)
    PROVE  PipelineInv'
<1> DEFINE r == InterruptedSnapshot(pipelineRow[p])
<1>1. recovered[p] = NoPipeline /\ pipelineRow[p] \in State /\ Staircase(pipelineRow[p])
  BY ViewSound
     DEF RecoverPipeline, Is, View, PipelineInv, RowsSound
<1>2. r \in State /\ Staircase(r) /\ r.status = "failed"
  BY <1>1, InterruptedSound
<1>3. /\ claims' \subseteq Pipelines
      /\ \/ /\ pipelineRow' = [pipelineRow EXCEPT ![p] = r]
            /\ UNCHANGED recovered
         \/ /\ recovered' = [recovered EXCEPT ![p] = r]
            /\ UNCHANGED pipelineRow
  BY DEF RecoverPipeline, PipelineInv, PipelineTypeOK
<1> HIDE DEF r
<1>4. /\ pipelineRow' \in [Pipelines -> Record] /\ recovered' \in [Pipelines -> Record]
      /\ RowsSound'
  BY <1>2, <1>3 DEF PipelineInv, PipelineTypeOK, RowsSound, SoundRow, Record
<1> QED BY <1>3, <1>4
        DEF RecoverPipeline, PipelineInv, PipelineTypeOK, SavesSound, ExecutorsSound

LEMMA ProcessSound == PipelineInv /\ (Kill \/ Restart \/ Ready) => PipelineInv'
<1> SUFFICES ASSUME PipelineInv, Kill \/ Restart \/ Ready PROVE PipelineInv'
  OBVIOUS
<1>1. CASE Kill
  <2>1. PipelineTypeOK'
    <3>1. active' \in BOOLEAN /\ starting' \in BOOLEAN
      BY <1>1, Zenon DEF Kill
    <3> QED BY <1>1, <3>1, IdleSound, PipelineConstantsOK
            DEF Kill, PipelineInv, PipelineTypeOK, Record
  <2>2. RowsSound' /\ SavesSound(saves)' /\ ExecutorsSound'
    BY <1>1, IdleSound
       DEF Kill, PipelineInv, RowsSound, SoundRow, SavesSound, ExecutorsSound
  <2> QED BY <2>1, <2>2 DEF PipelineInv
<1>2. CASE Restart \/ Ready
  BY <1>2 DEF Restart, Ready, PipelineInv, PipelineTypeOK, RowsSound, SoundRow,
              SavesSound, ExecutorsSound
<1> QED BY <1>1, <1>2

LEMMA PipelineInvKept == PipelineInv /\ [PipelineNext]_pipelineVars => PipelineInv'
<1> SUFFICES ASSUME PipelineInv, [PipelineNext]_pipelineVars PROVE PipelineInv'
  OBVIOUS
<1>1. CASE SaveMade \/ SaveRejected
  BY <1>1, SaveMadeSound, SaveRejectedSound
<1>2. CASE \E e \in Executors : \/ \E ok \in BOOLEAN : StageEnds(e, ok)
                               \/ ArtifactsStored(e) \/ ArtifactsRejected(e)
  BY <1>2, ExecutionSound
<1>3. CASE \E e \in Executors, p \in Pipelines :
              \/ Start(e, p) \/ RunOnce(e, p) \/ Retry(e, p) \/ ResumePaused(e, p)
              \/ \E k \in Stages : RetryStage(e, p, k)
  BY <1>3, RequestsSound
<1>4. CASE \E p \in Pipelines : Pause(p) \/ Cancel(p) \/ RecoverPipeline(p)
  BY <1>4, StopSound, RecoverSound DEF Pause, Cancel
<1>5. CASE Kill \/ Restart \/ Ready
  BY <1>5, ProcessSound
<1>6. CASE UNCHANGED pipelineVars
  BY <1>6 DEF pipelineVars, PipelineInv, PipelineTypeOK, RowsSound, SoundRow, SavesSound,
              ExecutorsSound
<1> QED BY <1>1, <1>2, <1>3, <1>4, <1>5, <1>6 DEF PipelineNext

-----------------------------------------------------------------------------
(***************************************************************************)
(* Theorems                                                                *)
(***************************************************************************)

\* PipelineInv is an invariant of the specification.
THEOREM PipelineInvHolds == PipelineSpec => []PipelineInv
<1> QED BY PipelineInitSound, PipelineInvKept, PTL DEF PipelineSpec

\* The records of pipelines, in the store, in the write queue and in the hands of
\* executions, are well formed, and the counters within their bounds.
THEOREM PipelineTypeCorrect == PipelineSpec => []PipelineTypeOK
<1>1. PipelineInv => PipelineTypeOK
  BY DEF PipelineInv
<1> QED BY <1>1, PipelineInvHolds, PTL

\* PipelineExecutor: whoever pauses, cancels, retries, resumes or restarts, and
\* whatever the storage rejects, no record has a stage begun before an earlier
\* one was completed, and none is completed with a stage to do.
THEOREM StagesKeepOrder == PipelineSpec => []StagesInOrder
<1>1. PipelineInv => StagesInOrder
  <2> SUFFICES ASSUME PipelineInv, NEW s \in Records PROVE Staircase(s)
    BY DEF StagesInOrder
  <2>1. CASE s \in Rows \ {NoPipeline}
    BY <2>1 DEF PipelineInv, RowsSound, SoundRow, Rows
  <2>2. CASE s \in QueuedStates
    BY <2>2 DEF PipelineInv, SavesSound, QueuedStates
  <2>3. CASE s \in Held
    BY <2>3 DEF PipelineInv, ExecutorsSound, Sound, Held
  <2> QED BY <2>1, <2>2, <2>3 DEF Records
<1> QED BY <1>1, PipelineInvHolds, PTL

-----------------------------------------------------------------------------
(***************************************************************************)
(* completedStages                                                         *)
(***************************************************************************)

\* The stages completed in s are the first n, and completedStages says so.
Upto(n) == [i \in 1..n |-> i]
CountedTo(s, n) == /\ s.done = Upto(n)
                   /\ \A k \in Stages : (s.stages[k] = "completed") <=> (k <= n)
Counted(s) == \E n \in 0..MaxStage : CountedTo(s, n)

CountedRow(r) == r # NoPipeline => Counted(r)
AllCounted ==
    /\ \A p \in Pipelines : CountedRow(pipelineRow[p]) /\ CountedRow(recovered[p])
    /\ \A i \in DOMAIN saves : Counted(saves[i].state)
    /\ \A e \in Executors : Counted(executor[e].state)

\* The stage the execution x is at is marked running in the record it holds.
StageRuns(x) == x.at \in {"begin", "stage"} => x.state.stages[x.stage] = "running"

ExactInv == /\ \A e \in Executors : StageRuns(executor[e])
            /\ faults = 0 => AllCounted

LEMMA SameCount ==
    ASSUME NEW s, NEW r, Counted(s), r.done = s.done,
           \A k \in Stages : (r.stages[k] = "completed") <=> (s.stages[k] = "completed")
    PROVE  Counted(r)
<1>1. PICK n \in 0..MaxStage : CountedTo(s, n)
  BY DEF Counted
<1>2. CountedTo(r, n)
  BY <1>1, Zenon DEF CountedTo
<1> QED BY <1>1, <1>2 DEF Counted

LEMMA CreatedCounted ==
    /\ Counted(Created)
    /\ Counted([Created EXCEPT !.status = "failed"])
    /\ Counted([Created EXCEPT !.status = "running"])
<1>1. CountedTo(Created, 0)
  <2>1. Created.done = Upto(0)
    BY DEF Created, Upto
  <2>2. \A k \in Stages : (Created.stages[k] = "completed") <=> (k <= 0)
    BY PipelineConstantsOK DEF Created, Stages
  <2> QED BY <2>1, <2>2 DEF CountedTo
<1>2. Counted(Created)
  BY <1>1, PipelineConstantsOK DEF Counted
<1>3. \A to \in {"failed", "running"} :
        /\ [Created EXCEPT !.status = to].done = Created.done
        /\ [Created EXCEPT !.status = to].stages = Created.stages
  BY DEF Created
<1>4. \A to \in {"failed", "running"} : Counted([Created EXCEPT !.status = to])
  BY <1>2, <1>3, SameCount
<1> QED BY <1>2, <1>4

LEMMA StoppedCounted ==
    ASSUME NEW s \in State, Counted(s), NEW to
    PROVE  Counted([s EXCEPT !.status = to])
<1>1. /\ [s EXCEPT !.status = to].done = s.done
      /\ [s EXCEPT !.status = to].stages = s.stages
  BY DEF State
<1> QED BY <1>1, SameCount

LEMMA RecoveringCounted ==
    ASSUME NEW s \in State, Counted(s)
    PROVE  Counted(Recovering(s))
<1>1. /\ Recovering(s).done = s.done
      /\ Recovering(s).stages =
            [k \in Stages |-> IF s.stages[k] = "failed" THEN "pending" ELSE s.stages[k]]
  BY DEF Recovering, State
<1> QED BY <1>1, SameCount

LEMMA InterruptedCounted ==
    ASSUME NEW s \in State, Counted(s)
    PROVE  Counted(InterruptedSnapshot(s))
<1>1. /\ InterruptedSnapshot(s).done = s.done
      /\ InterruptedSnapshot(s).stages =
            [k \in Stages |-> IF s.stages[k] = "running" THEN "failed" ELSE s.stages[k]]
  BY DEF InterruptedSnapshot, State
<1> QED BY <1>1, SameCount

LEMMA AnewCounted ==
    ASSUME NEW s \in State, Counted(s), NEW k \in Stages, s.stages[k] = "failed"
    PROVE  Counted([s EXCEPT !.status = "running", !.stages[k] = "pending",
                             !.failed = @ \ {k}])
<1> DEFINE r == [s EXCEPT !.status = "running", !.stages[k] = "pending",
                          !.failed = @ \ {k}]
<1>1. r.done = s.done /\ r.stages = [s.stages EXCEPT ![k] = "pending"]
  BY DEF State
<1>2. \A j \in Stages : (r.stages[j] = "completed") <=> (s.stages[j] = "completed")
  BY <1>1 DEF State
<1> HIDE DEF r
<1>3. Counted(r)
  BY <1>1, <1>2, SameCount
<1> QED BY <1>3 DEF r

\* What marking a stage leaves of completedStages.
LEMMA MarksDone ==
    ASSUME NEW s \in State, NEW k \in Stages
    PROVE  /\ Marked(s, k, "running").done = s.done
           /\ WithDone(s, k).done = Append(s.done, k)
           /\ WithFailed(s, k).done = s.done
<1>1. \A status : Marked(s, k, status).done = s.done
  BY DEF Marked, State
<1>2. WithDone(s, k).done = Append(s.done, k)
  BY MarkedSound DEF WithDone, State, StageStatus
<1>3. WithFailed(s, k).done = Marked(s, k, "failed").done
  BY MarkedSound DEF WithFailed, State, StageStatus
<1> QED BY <1>1, <1>2, <1>3

LEMMA BegunCounted ==
    ASSUME NEW s \in State, Counted(s), NEW k \in Remaining(s)
    PROVE  Counted(Marked(s, k, "running"))
<1>1. k \in Stages /\ s.stages[k] # "completed"
  BY DEF Remaining
<1>2. /\ Marked(s, k, "running").done = s.done
      /\ Marked(s, k, "running").stages = [s.stages EXCEPT ![k] = "running"]
  BY <1>1, MarksDone, MarksSound
<1>3. \A j \in Stages : (Marked(s, k, "running").stages[j] = "completed")
                          <=> (s.stages[j] = "completed")
  BY <1>1, <1>2 DEF State
<1> QED BY <1>2, <1>3, SameCount

LEMMA FailedCounted ==
    ASSUME NEW s \in State, Counted(s), NEW k \in Stages, s.stages[k] = "running"
    PROVE  Counted(WithFailed(s, k))
<1>1. /\ WithFailed(s, k).done = s.done
      /\ WithFailed(s, k).stages = [s.stages EXCEPT ![k] = "failed"]
  BY MarksDone, MarksSound
<1>2. \A j \in Stages : (WithFailed(s, k).stages[j] = "completed")
                          <=> (s.stages[j] = "completed")
  BY <1>1 DEF State
<1> QED BY <1>1, <1>2, SameCount

LEMMA DoneCounted ==
    ASSUME NEW s \in State, Counted(s), NEW k \in Stages, s.stages[k] = "running",
           \A j \in Stages : /\ j < k => s.stages[j] = "completed"
                             /\ k < j => s.stages[j] = "pending"
    PROVE  Counted(WithDone(s, k))
<1>1. PICK n \in 0..MaxStage : CountedTo(s, n)
  BY DEF Counted
<1>2. k = n + 1
  <2>1. ~(k <= n)
    BY <1>1 DEF CountedTo
  <2>2. k > 1 => k - 1 <= n
    <3>1. k > 1 => k - 1 \in Stages /\ k - 1 < k
      BY PipelineConstantsOK DEF Stages
    <3> QED BY <1>1, <3>1 DEF CountedTo
  <2> QED BY <2>1, <2>2, PipelineConstantsOK DEF Stages
<1>3. Append(Upto(n), k) = Upto(k)
  <2>1. Upto(n) \in Seq(Nat) /\ Len(Upto(n)) = n
    BY <1>1, PipelineConstantsOK DEF Upto
  <2> QED BY <1>2, <2>1 DEF Upto
<1>4. /\ WithDone(s, k).done = Append(s.done, k)
      /\ WithDone(s, k).stages = [s.stages EXCEPT ![k] = "completed"]
  BY MarksDone, MarksSound
<1>5. \A j \in Stages : (WithDone(s, k).stages[j] = "completed") <=> (j <= k)
  BY <1>4, PipelineConstantsOK DEF State, Stages
<1>6. CountedTo(WithDone(s, k), k)
  BY <1>1, <1>3, <1>4, <1>5 DEF CountedTo
<1> QED BY <1>6, PipelineConstantsOK DEF Counted, Stages

\* What an execution holds is counted, if the storage rejected nothing.
CountedExecution(x) == StageRuns(x) /\ (faults = 0 => Counted(x.state))

LEMMA ContinuesCounted ==
    ASSUME PipelineInv, NEW e \in Executors, NEW q, CountedExecution(executor[e]),
           Continues(e, q)
    PROVE  \E x \in ExecutorState : CountedExecution(x) /\ Turns(e, x, q)
<1> DEFINE x == executor[e]
<1>1. x \in ExecutorState /\ Sound(x) /\ x.state \in State
  BY DEF PipelineInv, PipelineTypeOK, ExecutorsSound, ExecutorState
<1>2. CASE x.at = "reserve" /\ Turns(e, Running([x EXCEPT !.started = "yes"]), q)
  <2> DEFINE y == Running([x EXCEPT !.started = "yes"])
  <2>1. y \in ExecutorState
    BY <1>1, <1>2, RunningSound
  <2>2. y.at = "running" /\ y.state = [x.state EXCEPT !.status = "running"]
    BY <1>1 DEF Running, ExecutorState
  <2> HIDE DEF y
  <2>3. CountedExecution(y)
    BY <1>1, <2>2, StoppedCounted DEF CountedExecution, StageRuns
  <2> QED BY <1>2, <2>1, <2>3 DEF y
<1>3. CASE x.at = "recovering" /\ Turns(e, Running(x), q)
  <2> DEFINE y == Running(x)
  <2>1. y \in ExecutorState
    BY <1>1, <1>3, RunningSound
  <2>2. y.at = "running" /\ y.state = [x.state EXCEPT !.status = "running"]
    BY <1>1 DEF Running, ExecutorState
  <2> HIDE DEF y
  <2>3. CountedExecution(y)
    BY <1>1, <2>2, StoppedCounted DEF CountedExecution, StageRuns
  <2> QED BY <1>3, <2>1, <2>3 DEF y
<1>4. CASE /\ x.at \in {"running", "done"} /\ Remaining(x.state) = {}
           /\ Turns(e, Finished(x), q)
  <2> DEFINE y == Finished(x)
  <2>1. y \in ExecutorState
    BY <1>1, <1>4, FinishedSound
  <2>2. y.at = "finish" /\ y.state = [x.state EXCEPT !.status = "completed"]
    BY <1>1 DEF Finished, ExecutorState
  <2> HIDE DEF y
  <2>3. CountedExecution(y)
    BY <1>1, <2>2, StoppedCounted DEF CountedExecution, StageRuns
  <2> QED BY <1>4, <2>1, <2>3 DEF y
<1>5. CASE /\ x.at \in {"running", "done"}
           /\ \E k \in Remaining(x.state) :
                 /\ \A j \in Remaining(x.state) : k <= j
                 /\ Turns(e, StageBegun(x, k), q)
  <2>1. PICK k \in Remaining(x.state) :
             /\ \A j \in Remaining(x.state) : k <= j
             /\ Turns(e, StageBegun(x, k), q)
    BY <1>5
  <2> DEFINE y == StageBegun(x, k)
             m == Marked(x.state, k, "running")
  <2>2. y \in ExecutorState /\ k \in Stages
    BY <1>1, <1>5, <2>1, StageBegunSound DEF Remaining
  <2>3. y.at = "begin" /\ y.stage = k /\ y.state = m
    BY <1>1 DEF StageBegun, ExecutorState
  <2>4. m.stages = [x.state.stages EXCEPT ![k] = "running"]
    BY <1>1, <2>2, MarksSound
  <2>5. faults = 0 => Counted(m)
    BY <1>1, <2>1, BegunCounted DEF CountedExecution
  <2> HIDE DEF y, m
  <2>6. CountedExecution(y)
    BY <1>1, <2>2, <2>3, <2>4, <2>5 DEF CountedExecution, StageRuns, State
  <2> QED BY <2>1, <2>2, <2>6 DEF y
<1>6. CASE x.at = "begin" /\ Turns(e, [x EXCEPT !.at = "stage"], q)
  BY <1>1, <1>6, MovedSound DEF CountedExecution, StageRuns, ExecutorState
<1>7. CASE x.at \in {"failed", "finish"} /\ Turns(e, [x EXCEPT !.at = "artifacts"], q)
  BY <1>1, <1>7, MovedSound DEF CountedExecution, StageRuns, ExecutorState
<1>8. CASE x.at = "settle" /\ Turns(e, Idle, q)
  <2>1. CountedExecution(Idle)
    BY CreatedCounted DEF CountedExecution, StageRuns, Idle
  <2> QED BY <1>8, <2>1, IdleSound
<1> QED BY <1>2, <1>3, <1>4, <1>5, <1>6, <1>7, <1>8 DEF Continues, x

LEMMA StageEndsCounted ==
    ASSUME NEW x \in ExecutorState, Sound(x), x.at = "stage", CountedExecution(x)
    PROVE  CountedExecution(StageDone(x)) /\ CountedExecution(StageFailed(x))
<1>1. /\ x.state \in State /\ x.stage \in Stages /\ AtFront(x)
      /\ x.state.stages[x.stage] = "running"
  BY DEF ExecutorState, Sound, CountedExecution, StageRuns
<1>2. faults = 0 => Counted(WithDone(x.state, x.stage))
  BY <1>1, DoneCounted DEF AtFront, CountedExecution
<1>3. faults = 0 => Counted(WithFailed(x.state, x.stage))
  BY <1>1, FailedCounted DEF CountedExecution
<1>4. /\ StageDone(x).at = "done" /\ StageDone(x).state = WithDone(x.state, x.stage)
      /\ StageFailed(x).at = "failed" /\ StageFailed(x).state = WithFailed(x.state, x.stage)
  BY DEF StageDone, StageFailed, ExecutorState
<1> QED BY <1>2, <1>3, <1>4 DEF CountedExecution, StageRuns

\* What a rejected save leaves is at no stage.
LEMMA RejectedRuns ==
    ASSUME NEW x \in ExecutorState
    PROVE  StageRuns(Rejected(x)) /\ StageRuns(Thrown(x))
<1>1. StageRuns(Idle) /\ StageRuns([x EXCEPT !.at = "settle",
                                            !.state = [Created EXCEPT !.status = "failed"]])
  BY DEF StageRuns, Idle, ExecutorState
<1>2. StageRuns(StageFailed(x))
  BY DEF StageRuns, StageFailed, ExecutorState
<1> QED BY <1>1, <1>2 DEF Rejected, Thrown

\* Turns keeps the queue and the executions counted.
LEMMA TurnsCounted ==
    ASSUME PipelineInv, ExactInv, NEW e \in Executors, NEW x \in ExecutorState,
           StageRuns(x), faults' = 0 => faults = 0 /\ Counted(x.state),
           NEW q \in Seq(Save), faults = 0 => \A i \in DOMAIN q : Counted(q[i].state),
           faults' = 0 => \A p \in Pipelines : CountedRow(pipelineRow'[p])
                                             /\ CountedRow(recovered'[p]),
           Turns(e, x, q)
    PROVE  ExactInv'
<1>1. \A d \in Executors : executor'[d] = IF d = e THEN x ELSE executor[d]
  BY DEF Turns, PipelineInv, PipelineTypeOK
<1>2. \A d \in Executors : StageRuns(executor'[d])
  BY <1>1 DEF ExactInv
<1>3. ASSUME faults' = 0 PROVE \A d \in Executors : Counted(executor'[d].state)
  BY <1>1, <1>3 DEF ExactInv, AllCounted
<1>4. ASSUME faults' = 0 PROVE \A i \in DOMAIN saves' : Counted(saves'[i].state)
  <2>1. CASE x.at \in Waiting
    <3> DEFINE w == [pipeline |-> x.pipeline, state |-> x.state, by |-> e]
    <3>1. w.state = x.state /\ saves' = Append(q, w)
      BY <2>1 DEF Turns
    <3> HIDE DEF w
    <3> QED BY <1>4, <3>1
  <2>2. CASE x.at \notin Waiting
    BY <1>4, <2>2 DEF Turns
  <2> QED BY <2>1, <2>2
<1> QED BY <1>2, <1>3, <1>4 DEF ExactInv, AllCounted

LEMMA ExactInitially == PipelineInit => ExactInv
<1> SUFFICES ASSUME PipelineInit PROVE ExactInv
  OBVIOUS
<1>1. \A e \in Executors : executor[e] = Idle
  BY DEF PipelineInit
<1>2. StageRuns(Idle) /\ Idle.state = Created
  BY DEF StageRuns, Idle
<1> QED BY <1>1, <1>2, CreatedCounted DEF PipelineInit, ExactInv, AllCounted, CountedRow

LEMMA RestCounted ==
    ASSUME PipelineInv, ExactInv, saves # <<>>
    PROVE  /\ Tail(saves) \in Seq(Save) /\ Head(saves) \in Save
           /\ faults = 0 => /\ Counted(Head(saves).state)
                           /\ \A i \in DOMAIN Tail(saves) : Counted(Tail(saves)[i].state)
<1>1. Tail(saves) \in Seq(Save) /\ Head(saves) \in Save /\ saves \in Seq(Save)
  BY RestOfQueueSound DEF PipelineInv, PipelineTypeOK
<1>2. \A i \in DOMAIN Tail(saves) : i + 1 \in DOMAIN saves /\ Tail(saves)[i] = saves[i + 1]
  BY <1>1
<1>3. 1 \in DOMAIN saves /\ Head(saves) = saves[1]
  BY <1>1
<1> QED BY <1>1, <1>2, <1>3 DEF ExactInv, AllCounted

LEMMA SaveMadeExact == PipelineInv /\ ExactInv /\ SaveMade => ExactInv'
<1> SUFFICES ASSUME PipelineInv, ExactInv, SaveMade PROVE ExactInv'
  OBVIOUS
<1> DEFINE s == Head(saves)
<1>1. /\ s \in Save /\ Tail(saves) \in Seq(Save)
      /\ faults = 0 => /\ Counted(s.state)
                      /\ \A i \in DOMAIN Tail(saves) : Counted(Tail(saves)[i].state)
  BY RestCounted DEF SaveMade
<1>2. /\ pipelineRow' = [pipelineRow EXCEPT ![s.pipeline] = s.state]
      /\ recovered' = [recovered EXCEPT ![s.pipeline] = NoPipeline]
      /\ faults' = faults
  BY DEF SaveMade
<1>3. s.by \in Executors => Continues(s.by, Tail(saves))
  BY DEF SaveMade
<1>4. s.by \notin Executors => saves' = Tail(saves) /\ executor' = executor
  BY DEF SaveMade
<1> HIDE DEF s
<1>5. ASSUME faults' = 0
      PROVE \A p \in Pipelines : CountedRow(pipelineRow'[p]) /\ CountedRow(recovered'[p])
  BY <1>1, <1>2, <1>5 DEF ExactInv, AllCounted, CountedRow, PipelineInv, PipelineTypeOK
<1>6. CASE s.by \in Executors
  <2>1. PICK x \in ExecutorState : CountedExecution(x) /\ Turns(s.by, x, Tail(saves))
    BY <1>3, <1>6, ContinuesCounted DEF ExactInv, AllCounted, CountedExecution
  <2> QED BY <1>1, <1>2, <1>5, <1>6, <2>1, TurnsCounted DEF CountedExecution
<1>7. CASE s.by \notin Executors
  BY <1>1, <1>2, <1>4, <1>5, <1>7 DEF ExactInv, AllCounted
<1> QED BY <1>6, <1>7

LEMMA SaveRejectedExact == PipelineInv /\ ExactInv /\ SaveRejected => ExactInv'
<1> SUFFICES ASSUME PipelineInv, ExactInv, SaveRejected PROVE ExactInv'
  OBVIOUS
<1> DEFINE s == Head(saves)
<1>1. Tail(saves) \in Seq(Save) /\ faults' # 0
  BY RestOfQueueSound DEF SaveRejected, PipelineInv, PipelineTypeOK
<1>2. CASE s.by \in Executors
  <2>1. /\ Turns(s.by, Rejected(executor[s.by]), Tail(saves))
        /\ executor[s.by] \in ExecutorState
    BY <1>2 DEF SaveRejected, PipelineInv, PipelineTypeOK
  <2>2. StageRuns(Rejected(executor[s.by]))
    BY <2>1, RejectedRuns
  <2>3. \A d \in Executors : executor'[d] = IF d = s.by THEN Rejected(executor[s.by])
                                           ELSE executor[d]
    BY <1>2, <2>1 DEF Turns, PipelineInv, PipelineTypeOK
  <2> QED BY <1>1, <2>2, <2>3 DEF ExactInv
<1>3. CASE s.by \notin Executors
  <2>1. executor' = executor
    BY <1>3 DEF SaveRejected
  <2> QED BY <1>1, <2>1 DEF ExactInv
<1> QED BY <1>2, <1>3

LEMMA ExecutionExact ==
    ASSUME PipelineInv, ExactInv, NEW e \in Executors, NEW ok \in BOOLEAN,
           StageEnds(e, ok) \/ ArtifactsStored(e) \/ ArtifactsRejected(e)
    PROVE  ExactInv'
<1> DEFINE x == executor[e]
<1>1. /\ x \in ExecutorState /\ Sound(x) /\ CountedExecution(x)
      /\ saves \in Seq(Save) /\ faults \in Nat
      /\ faults = 0 => \A i \in DOMAIN saves : Counted(saves[i].state)
  BY DEF PipelineInv, PipelineTypeOK, ExecutorsSound, ExactInv, AllCounted, CountedExecution
<1>2. UNCHANGED <<pipelineRow, recovered>>
  BY DEF StageEnds, ArtifactsStored, ArtifactsRejected
<1>3. faults' = 0 => faults = 0
  BY <1>1 DEF StageEnds, ArtifactsStored, ArtifactsRejected
<1>4. faults' = 0 => \A p \in Pipelines : CountedRow(pipelineRow'[p])
                                        /\ CountedRow(recovered'[p])
  BY <1>2, <1>3 DEF ExactInv, AllCounted
<1>5. CASE StageEnds(e, ok)
  <2>1. PICK y \in ExecutorState : CountedExecution(y) /\ Turns(e, y, saves)
    BY <1>1, <1>5, StageEndsCounted, StageDoneSound, StageFailedSound DEF StageEnds
  <2> QED BY <1>1, <1>3, <1>4, <2>1, TurnsCounted DEF CountedExecution
<1>6. CASE ArtifactsStored(e)
  <2>1. CountedExecution(Idle)
    BY CreatedCounted DEF CountedExecution, StageRuns, Idle
  <2>2. Turns(e, Idle, saves) /\ Idle \in ExecutorState
    BY <1>6, IdleSound DEF ArtifactsStored
  <2> QED BY <1>1, <1>3, <1>4, <2>1, <2>2, TurnsCounted DEF CountedExecution
<1>7. CASE ArtifactsRejected(e)
  <2>1. faults' # 0
    BY <1>1, <1>7 DEF ArtifactsRejected
  <2>2. Turns(e, Thrown(x), saves) /\ Thrown(x) \in ExecutorState /\ StageRuns(Thrown(x))
    BY <1>1, <1>7, ThrownSound, RejectedRuns DEF ArtifactsRejected
  <2> QED BY <1>1, <1>3, <1>4, <2>1, <2>2, TurnsCounted
<1> QED BY <1>5, <1>6, <1>7

LEMMA BeginsExact ==
    ASSUME PipelineInv, ExactInv, NEW e \in Executors, NEW p \in Pipelines,
           NEW at \in {"reserve", "running", "recovering"},
           NEW s \in State, faults = 0 => Counted(s), Begins(e, at, p, s)
    PROVE  ExactInv'
<1> DEFINE x == [Idle EXCEPT !.at = at, !.pipeline = p, !.state = s]
<1>1. x \in ExecutorState /\ StageRuns(x) /\ x.state = s
  BY IdleSound DEF ExecutorState, Waiting, StageRuns
<1>2. Turns(e, x, saves) /\ Request
  BY DEF Begins
<1> HIDE DEF x
<1>3. UNCHANGED <<pipelineRow, recovered, faults>> /\ saves \in Seq(Save)
  BY <1>2 DEF Request, PipelineInv, PipelineTypeOK
<1>4. /\ faults = 0 => \A i \in DOMAIN saves : Counted(saves[i].state)
      /\ faults' = 0 => \A r \in Pipelines : CountedRow(pipelineRow'[r])
                                        /\ CountedRow(recovered'[r])
  BY <1>3 DEF ExactInv, AllCounted
<1> QED BY <1>1, <1>2, <1>3, <1>4, TurnsCounted

LEMMA ViewCounted ==
    ASSUME ExactInv, NEW p \in Pipelines, View(p) # NoPipeline
    PROVE  faults = 0 => Counted(View(p))
BY DEF ExactInv, AllCounted, CountedRow, View

LEMMA RequestsExact ==
    ASSUME PipelineInv, ExactInv, NEW e \in Executors, NEW p \in Pipelines,
           \/ Start(e, p) \/ RunOnce(e, p) \/ Retry(e, p) \/ ResumePaused(e, p)
           \/ \E k \in Stages : RetryStage(e, p, k)
    PROVE  ExactInv'
<1>1. CASE Start(e, p)
  BY <1>1, CreatedSound, CreatedCounted, BeginsExact DEF Start
<1>2. CASE RunOnce(e, p)
  BY <1>2, CreatedSound, CreatedCounted, BeginsExact DEF RunOnce
<1>3. CASE Retry(e, p) \/ ResumePaused(e, p)
  <2>1. View(p) # NoPipeline /\ Begins(e, "recovering", p, Recovering(View(p)))
    BY <1>3 DEF Retry, ResumePaused, Is
  <2> QED BY <2>1, ViewSound, ViewCounted, RecoveringSound, RecoveringCounted, BeginsExact
<1>4. CASE \E k \in Stages : RetryStage(e, p, k)
  <2>1. PICK k \in Stages : RetryStage(e, p, k)
    BY <1>4
  <2> QED BY <2>1, ViewSound, ViewCounted, AnewSound, AnewCounted, BeginsExact
          DEF RetryStage
<1> QED BY <1>1, <1>2, <1>3, <1>4

LEMMA StopExact ==
    ASSUME PipelineInv, ExactInv, NEW p \in Pipelines, NEW from,
           NEW to \in {"paused", "cancelled"}, StopPipeline(p, from, to)
    PROVE  ExactInv'
<1> DEFINE w == [pipeline |-> p, by |-> "request", state |-> [View(p) EXCEPT !.status = to]]
<1>1. faults = 0 => Counted([View(p) EXCEPT !.status = to])
  BY ViewSound, ViewCounted, StoppedCounted DEF StopPipeline, Is
<1>2. /\ saves' = Append(saves, w) /\ w.state = [View(p) EXCEPT !.status = to]
      /\ UNCHANGED <<executor, pipelineRow, recovered, faults>> /\ saves \in Seq(Save)
  BY DEF StopPipeline, Request, PipelineInv, PipelineTypeOK
<1> HIDE DEF w
<1>3. faults' = 0 => \A i \in DOMAIN saves' : Counted(saves'[i].state)
  BY <1>1, <1>2 DEF ExactInv, AllCounted
<1> QED BY <1>2, <1>3 DEF ExactInv, AllCounted

LEMMA RecoverExact ==
    ASSUME PipelineInv, ExactInv, NEW p \in Pipelines, RecoverPipeline(p)
    PROVE  ExactInv'
<1> DEFINE r == InterruptedSnapshot(pipelineRow[p])
<1>1. pipelineRow[p] \in State /\ pipelineRow[p] # NoPipeline /\ View(p) = pipelineRow[p]
  BY ViewSound DEF RecoverPipeline, Is, View, PipelineInv, RowsSound
<1>2. faults = 0 => Counted(r)
  BY <1>1, ViewCounted, InterruptedCounted
<1>3. /\ \/ /\ pipelineRow' = [pipelineRow EXCEPT ![p] = r]
            /\ UNCHANGED recovered
         \/ /\ recovered' = [recovered EXCEPT ![p] = r]
            /\ UNCHANGED pipelineRow
      /\ UNCHANGED <<saves, executor, faults>>
  BY DEF RecoverPipeline
<1> HIDE DEF r
<1>4. faults' = 0 => \A d \in Pipelines : CountedRow(pipelineRow'[d])
                                        /\ CountedRow(recovered'[d])
  BY <1>2, <1>3 DEF ExactInv, AllCounted, CountedRow, PipelineInv, PipelineTypeOK
<1> QED BY <1>3, <1>4 DEF ExactInv, AllCounted

LEMMA ProcessExact == ExactInv /\ (Kill \/ Restart \/ Ready) => ExactInv'
<1> SUFFICES ASSUME ExactInv, Kill \/ Restart \/ Ready PROVE ExactInv'
  OBVIOUS
<1>1. CASE Kill
  <2>1. StageRuns(Idle) /\ Idle.state = Created
    BY DEF StageRuns, Idle
  <2>2. /\ \A e \in Executors : executor'[e] = Idle
        /\ saves' = <<>> /\ UNCHANGED <<pipelineRow, faults>>
        /\ \A p \in Pipelines : recovered'[p] = NoPipeline
    BY <1>1 DEF Kill
  <2> QED BY <2>1, <2>2, CreatedCounted DEF ExactInv, AllCounted, CountedRow
<1>2. CASE Restart \/ Ready
  BY <1>2 DEF Restart, Ready, ExactInv, AllCounted
<1> QED BY <1>1, <1>2

LEMMA ExactKept == PipelineInv /\ ExactInv /\ [PipelineNext]_pipelineVars => ExactInv'
<1> SUFFICES ASSUME PipelineInv, ExactInv, [PipelineNext]_pipelineVars PROVE ExactInv'
  OBVIOUS
<1>1. CASE SaveMade \/ SaveRejected
  BY <1>1, SaveMadeExact, SaveRejectedExact
<1>2. CASE \E e \in Executors : \/ \E ok \in BOOLEAN : StageEnds(e, ok)
                               \/ ArtifactsStored(e) \/ ArtifactsRejected(e)
  BY <1>2, ExecutionExact
<1>3. CASE \E e \in Executors, p \in Pipelines :
              \/ Start(e, p) \/ RunOnce(e, p) \/ Retry(e, p) \/ ResumePaused(e, p)
              \/ \E k \in Stages : RetryStage(e, p, k)
  BY <1>3, RequestsExact
<1>4. CASE \E p \in Pipelines : Pause(p) \/ Cancel(p) \/ RecoverPipeline(p)
  BY <1>4, StopExact, RecoverExact DEF Pause, Cancel
<1>5. CASE Kill \/ Restart \/ Ready
  BY <1>5, ProcessExact
<1>6. CASE UNCHANGED pipelineVars
  BY <1>6 DEF pipelineVars, ExactInv, AllCounted
<1> QED BY <1>1, <1>2, <1>3, <1>4, <1>5, <1>6 DEF PipelineNext

LEMMA CountedIsExact == ASSUME NEW s, Counted(s) PROVE Exact(s)
<1>1. PICK n \in 0..MaxStage : CountedTo(s, n)
  BY DEF Counted
<1>2. Stages \ Remaining(s) = 1..n
  BY <1>1, PipelineConstantsOK DEF CountedTo, Remaining, Stages
<1>3. Cardinality(1..n) = n
  BY <1>1, FS_Interval, PipelineConstantsOK
<1> QED BY <1>1, <1>2, <1>3 DEF Exact, CountedTo, Upto

\* PipelineExecutor: as long as the storage rejects nothing, completedStages of
\* every record there is, stored, queued or held by an execution, is the stages
\* marked completed, each once and in order, whoever retries, resumes or pauses.
THEOREM CompletedStagesAreExact == PipelineSpec => []CompletedStagesExact
<1>1. PipelineSpec => []ExactInv
  BY ExactInitially, ExactKept, PipelineInvHolds, PTL DEF PipelineSpec
<1>2. ExactInv => CompletedStagesExact
  <2> SUFFICES ASSUME ExactInv, faults = 0, NEW s \in Records PROVE Exact(s)
    BY DEF CompletedStagesExact
  <2>1. CASE s \in Rows \ {NoPipeline}
    BY <2>1, CountedIsExact DEF ExactInv, AllCounted, CountedRow, Rows
  <2>2. CASE s \in QueuedStates
    BY <2>2, CountedIsExact DEF ExactInv, AllCounted, QueuedStates
  <2>3. CASE s \in Held
    BY <2>3, CountedIsExact DEF ExactInv, AllCounted, Held
  <2> QED BY <2>1, <2>2, <2>3 DEF Records
<1> QED BY <1>1, <1>2, PTL

-----------------------------------------------------------------------------
(***************************************************************************)
(* Nothing is said to run when nothing runs it                             *)
(***************************************************************************)

\* s says that its pipeline is under way; k kills may have left it so.
Going(s, k) == s.status = "running" \/ (k = 0 /\ s.status \in {"recovering", "pending"})

\* When the writes q are made over the row r of p, p is not said to be under way.
Settles(q, r, p, k) ==
    /\ \A i \in DOMAIN q :
          /\ q[i].pipeline = p
          /\ \A j \in DOMAIN q : i < j => q[j].pipeline # p
          => ~Going(q[i].state, k)
    /\ (\A i \in DOMAIN q : q[i].pipeline # p) /\ r # NoPipeline => ~Going(r, k)

AtStages == {"reserve", "recovering", "running", "begin", "stage", "done"}
LeadsNow(x, p) == x.pipeline = p /\ x.at \in AtStages
Led(p) == \E e \in Executors : LeadsNow(executor[e], p)

LedInv ==
    /\ readiness # "serving" => /\ saves = <<>> /\ kills # 0
                               /\ \A e \in Executors : executor[e] = Idle
    /\ readiness = "serving" /\ faults = 0 =>
          \A p \in Pipelines : Led(p) \/ Settles(saves, View(p), p, kills)

LEMMA WriteSettles ==
    ASSUME NEW q \in Seq(Save), NEW w \in Save, NEW r, NEW p, NEW k,
           IF w.pipeline = p THEN ~Going(w.state, k) ELSE Settles(q, r, p, k)
    PROVE  Settles(Append(q, w), r, p, k)
<1> DEFINE b == Append(q, w)
<1>1. /\ DOMAIN b = 1..(Len(q) + 1) /\ b[Len(q) + 1] = w
      /\ DOMAIN q = 1..Len(q) /\ Len(q) \in Nat
      /\ \A i \in 1..Len(q) : b[i] = q[i]
  OBVIOUS
<1> HIDE DEF b
<1>2. CASE w.pipeline = p
  <2>1. ~Going(w.state, k)
    BY <1>2
  <2>2. ASSUME NEW i \in DOMAIN b, \A j \in DOMAIN b : i < j => b[j].pipeline # p
        PROVE  i = Len(q) + 1
    BY <1>1, <1>2, <2>2
  <2>3. ~ \A i \in DOMAIN b : b[i].pipeline # p
    BY <1>1, <1>2
  <2> QED BY <1>1, <2>1, <2>2, <2>3 DEF Settles, b
<1>3. CASE w.pipeline # p
  <2>1. Settles(q, r, p, k)
    BY <1>3
  <2>2. ASSUME NEW i \in DOMAIN b, b[i].pipeline = p,
               \A j \in DOMAIN b : i < j => b[j].pipeline # p
        PROVE  ~Going(b[i].state, k)
    <3>1. i \in DOMAIN q /\ b[i] = q[i]
      BY <1>1, <1>3, <2>2
    <3>2. \A j \in DOMAIN q : i < j => q[j].pipeline # p
      BY <1>1, <2>2
    <3> QED BY <2>1, <2>2, <3>1, <3>2 DEF Settles
  <2>3. ASSUME \A i \in DOMAIN b : b[i].pipeline # p, r # NoPipeline
        PROVE  ~Going(r, k)
    <3>1. \A i \in DOMAIN q : q[i].pipeline # p
      BY <1>1, <2>3
    <3> QED BY <2>1, <2>3, <3>1 DEF Settles
  <2>4. Settles(b, r, p, k)
    BY <2>2, <2>3 DEF Settles
  <2> QED BY <2>4 DEF b
<1> QED BY <1>2, <1>3

LEMMA MadeSettles ==
    ASSUME NEW q \in Seq(Save), q # <<>>, NEW r, NEW p, NEW k, Settles(q, r, p, k)
    PROVE  Settles(Tail(q), IF Head(q).pipeline = p THEN Head(q).state ELSE r, p, k)
<1> DEFINE t == Tail(q)
           v == IF Head(q).pipeline = p THEN Head(q).state ELSE r
<1>1. /\ DOMAIN q = 1..Len(q) /\ Len(q) \in Nat /\ Len(q) > 0
      /\ DOMAIN t = 1..(Len(q) - 1)
      /\ \A i \in 1..(Len(q) - 1) : t[i] = q[i + 1]
      /\ Head(q) = q[1]
  OBVIOUS
<1>2. v = IF q[1].pipeline = p THEN q[1].state ELSE r
  BY <1>1
<1> HIDE DEF t, v
<1>3. ASSUME NEW i \in DOMAIN t, t[i].pipeline = p,
             \A j \in DOMAIN t : i < j => t[j].pipeline # p
      PROVE  ~Going(t[i].state, k)
  <2>1. i + 1 \in DOMAIN q /\ t[i] = q[i + 1]
    BY <1>1
  <2>2. ASSUME NEW j \in DOMAIN q, i + 1 < j PROVE q[j].pipeline # p
    <3>1. j - 1 \in DOMAIN t /\ i < j - 1 /\ t[j - 1] = q[j]
      BY <1>1, <2>2
    <3> QED BY <1>3, <3>1
  <2> QED BY <1>3, <2>1, <2>2 DEF Settles
<1>4. ASSUME \A i \in DOMAIN t : t[i].pipeline # p, v # NoPipeline
      PROVE  ~Going(v, k)
  <2>1. ASSUME NEW j \in DOMAIN q, 1 < j PROVE q[j].pipeline # p
    <3>1. j - 1 \in DOMAIN t /\ t[j - 1] = q[j]
      BY <1>1, <2>1
    <3> QED BY <1>4, <3>1
  <2>2. CASE q[1].pipeline = p
    BY <1>1, <1>2, <2>1, <2>2 DEF Settles
  <2>3. CASE q[1].pipeline # p
    <3>1. \A j \in DOMAIN q : q[j].pipeline # p
      BY <1>1, <2>1, <2>3
    <3> QED BY <1>2, <1>4, <2>3, <3>1 DEF Settles
  <2> QED BY <2>2, <2>3
<1>5. Settles(t, v, p, k)
  BY <1>3, <1>4 DEF Settles
<1> QED BY <1>5 DEF t, v

\* An execution that was x may become y: it leaves the stages only to say so.
Hands(x, y) ==
    /\ x.at \in AtStages => /\ y.pipeline = x.pipeline
                            /\ y.at \in AtStages \cup {"failed", "finish"}
    /\ y.at \in {"failed", "finish", "settle"} => y.state.status \in {"failed", "completed"}

LEMMA TurnsLed ==
    ASSUME PipelineInv, NEW e \in Executors, NEW x \in ExecutorState, Sound(x),
           NEW q \in Seq(Save), Turns(e, x, q), Hands(executor[e], x),
           NEW p \in Pipelines, NEW r, Led(p) \/ Settles(q, r, p, kills)
    PROVE  Led(p)' \/ Settles(saves', r, p, kills)
<1>1. \A d \in Executors : executor'[d] = IF d = e THEN x ELSE executor[d]
  BY DEF Turns, PipelineInv, PipelineTypeOK
<1>2. CASE LeadsNow(x, p)
  BY <1>1, <1>2 DEF Led, LeadsNow
<1>3. CASE \E d \in Executors : d # e /\ LeadsNow(executor[d], p)
  BY <1>1, <1>3 DEF Led, LeadsNow
<1>4. CASE /\ ~LeadsNow(x, p)
           /\ LeadsNow(executor[e], p) \/ Settles(q, r, p, kills)
  <2>1. CASE x.at \in Waiting
    <3> DEFINE w == [pipeline |-> x.pipeline, state |-> x.state, by |-> e]
    <3>1. w \in Save /\ saves' = Append(q, w)
      BY <2>1 DEF Turns, Save, Sound, ExecutorState, Waiting
    <3>2. w.pipeline = x.pipeline /\ w.state = x.state
      OBVIOUS
    <3> HIDE DEF w
    <3>3. w.pipeline = p => ~Going(w.state, kills)
      BY <1>4, <2>1, <3>2 DEF LeadsNow, Hands, Going, Waiting, AtStages
    <3>4. w.pipeline # p => Settles(q, r, p, kills)
      BY <1>4, <3>2 DEF LeadsNow, Hands
    <3> QED BY <3>1, <3>3, <3>4, WriteSettles
  <2>2. CASE x.at \notin Waiting
    <3>1. saves' = q
      BY <2>2 DEF Turns
    <3>2. ~LeadsNow(executor[e], p)
      BY <1>4, <2>2 DEF LeadsNow, Hands, Waiting
    <3> QED BY <1>4, <3>1, <3>2
  <2> QED BY <2>1, <2>2
<1> QED BY <1>2, <1>3, <1>4 DEF Led

LEMMA ContinuesHands ==
    ASSUME PipelineInv, NEW e \in Executors, NEW q, Continues(e, q)
    PROVE  \E x \in ExecutorState : /\ Sound(x) /\ Hands(executor[e], x)
                                    /\ Turns(e, x, q)
<1> DEFINE x == executor[e]
<1>1. x \in ExecutorState /\ Sound(x)
  BY DEF PipelineInv, PipelineTypeOK, ExecutorsSound
<1>2. CASE x.at = "reserve" /\ Turns(e, Running([x EXCEPT !.started = "yes"]), q)
  <2>1. Hands(x, Running([x EXCEPT !.started = "yes"]))
    BY <1>1 DEF Hands, AtStages, Running, ExecutorState
  <2> QED BY <1>1, <1>2, <2>1, RunningSound
<1>3. CASE x.at = "recovering" /\ Turns(e, Running(x), q)
  <2>1. Hands(x, Running(x))
    BY <1>1 DEF Hands, AtStages, Running, ExecutorState
  <2> QED BY <1>1, <1>3, <2>1, RunningSound
<1>4. CASE /\ x.at \in {"running", "done"} /\ Remaining(x.state) = {}
           /\ Turns(e, Finished(x), q)
  <2>1. Hands(x, Finished(x))
    BY <1>1 DEF Hands, AtStages, Finished, ExecutorState, State
  <2> QED BY <1>1, <1>4, <2>1, FinishedSound
<1>5. CASE /\ x.at \in {"running", "done"}
           /\ \E k \in Remaining(x.state) :
                 /\ \A j \in Remaining(x.state) : k <= j
                 /\ Turns(e, StageBegun(x, k), q)
  <2>1. PICK k \in Remaining(x.state) :
             /\ \A j \in Remaining(x.state) : k <= j
             /\ Turns(e, StageBegun(x, k), q)
    BY <1>5
  <2>2. Hands(x, StageBegun(x, k))
    BY <1>1 DEF Hands, AtStages, StageBegun, ExecutorState
  <2> QED BY <1>1, <1>5, <2>1, <2>2, StageBegunSound
<1>6. CASE x.at = "begin" /\ Turns(e, [x EXCEPT !.at = "stage"], q)
  <2>1. Hands(x, [x EXCEPT !.at = "stage"])
    BY <1>1 DEF Hands, AtStages, ExecutorState
  <2> QED BY <1>1, <1>6, <2>1, MovedSound
<1>7. CASE x.at \in {"failed", "finish"} /\ Turns(e, [x EXCEPT !.at = "artifacts"], q)
  <2>1. Hands(x, [x EXCEPT !.at = "artifacts"])
    BY <1>1, <1>7 DEF Hands, AtStages, ExecutorState
  <2> QED BY <1>1, <1>7, <2>1, MovedSound
<1>8. CASE x.at = "settle" /\ Turns(e, Idle, q)
  <2>1. Hands(x, Idle)
    BY <1>8 DEF Hands, AtStages, Idle
  <2> QED BY <1>8, <2>1, IdleSound
<1> QED BY <1>2, <1>3, <1>4, <1>5, <1>6, <1>7, <1>8 DEF Continues, x

LEMMA LedInitially == PipelineInit => LedInv
<1> SUFFICES ASSUME PipelineInit, NEW p \in Pipelines
             PROVE  Settles(saves, View(p), p, kills)
  BY DEF LedInv, PipelineInit
<1>1. saves = <<>> /\ View(p) = NoPipeline
  BY DEF PipelineInit, View
<1> QED BY <1>1 DEF Settles

\* A step that turns an execution, with the rows as they are or one save made.
LEMMA TurnedLed ==
    ASSUME PipelineInv, LedInv, NEW e \in Executors, NEW x \in ExecutorState, Sound(x),
           NEW q \in Seq(Save), Turns(e, x, q), Hands(executor[e], x),
           readiness = "serving", UNCHANGED <<readiness, kills, faults>>,
           faults = 0 => \A p \in Pipelines : Led(p) \/ Settles(q, View(p)', p, kills)
    PROVE  LedInv'
<1>1. ASSUME faults' = 0, NEW p \in Pipelines
      PROVE  Led(p)' \/ Settles(saves', View(p)', p, kills')
  BY <1>1, TurnsLed
<1> QED BY <1>1 DEF LedInv

\* Nothing that an execution does can be done by a process that does not serve.
LEMMA OnlyServing ==
    ASSUME LedInv, readiness # "serving"
    PROVE  saves = <<>> /\ \A e \in Executors : executor[e].at = "idle"
BY DEF LedInv, Idle

LEMMA SaveMadeLed == PipelineInv /\ LedInv /\ SaveMade => LedInv'
<1> SUFFICES ASSUME PipelineInv, LedInv, SaveMade PROVE LedInv'
  OBVIOUS
<1> DEFINE s == Head(saves)
           q == Tail(saves)
<1>1. /\ s \in Save /\ q \in Seq(Save) /\ saves \in Seq(Save) /\ saves # <<>>
  BY RestOfQueueSound DEF SaveMade, PipelineInv, PipelineTypeOK
<1>2. /\ pipelineRow' = [pipelineRow EXCEPT ![s.pipeline] = s.state]
      /\ recovered' = [recovered EXCEPT ![s.pipeline] = NoPipeline]
      /\ UNCHANGED <<readiness, faults, kills>>
  BY DEF SaveMade
<1>3. readiness = "serving"
  BY OnlyServing DEF SaveMade
<1>4. /\ s.by \in Executors => Continues(s.by, q)
      /\ s.by \notin Executors => saves' = q /\ executor' = executor
  BY DEF SaveMade
<1>5. \A p \in Pipelines : View(p)' = IF s.pipeline = p THEN s.state ELSE View(p)
  BY <1>1, <1>2 DEF View, Save, PipelineInv, PipelineTypeOK
<1>6. ASSUME faults = 0, NEW p \in Pipelines
      PROVE  Led(p) \/ Settles(q, View(p)', p, kills)
  <2>1. CASE Led(p)
    BY <2>1
  <2>2. CASE ~Led(p)
    <3>1. Settles(saves, View(p), p, kills)
      BY <1>3, <1>6, <2>2 DEF LedInv
    <3>2. Settles(q, IF s.pipeline = p THEN s.state ELSE View(p), p, kills)
      BY <1>1, <3>1, MadeSettles
    <3> HIDE DEF s, q
    <3> QED BY <1>5, <3>2
  <2> QED BY <2>1, <2>2
<1> HIDE DEF s, q
<1>7. CASE s.by \in Executors
  <2>1. PICK x \in ExecutorState :
             Sound(x) /\ Hands(executor[s.by], x) /\ Turns(s.by, x, q)
    BY <1>4, <1>7, ContinuesHands
  <2> QED BY <1>1, <1>2, <1>3, <1>6, <1>7, <2>1, TurnedLed
<1>8. CASE s.by \notin Executors
  <2>1. \A p \in Pipelines : Led(p)' <=> Led(p)
    BY <1>4, <1>8 DEF Led
  <2> QED BY <1>2, <1>3, <1>4, <1>6, <1>8, <2>1 DEF LedInv
<1> QED BY <1>7, <1>8

LEMMA ExecutionLed ==
    ASSUME PipelineInv, LedInv, NEW e \in Executors, NEW ok \in BOOLEAN,
           StageEnds(e, ok) \/ ArtifactsStored(e)
    PROVE  LedInv'
<1> DEFINE x == executor[e]
<1>1. x \in ExecutorState /\ Sound(x) /\ x.state \in State /\ saves \in Seq(Save)
  BY DEF PipelineInv, PipelineTypeOK, ExecutorsSound, ExecutorState
<1>2. UNCHANGED <<pipelineRow, recovered, readiness, faults, kills>> /\ readiness = "serving"
  BY OnlyServing DEF StageEnds, ArtifactsStored
<1>3. \A p \in Pipelines : View(p)' = View(p)
  BY <1>2 DEF View
<1>4. faults = 0 => \A p \in Pipelines : Led(p) \/ Settles(saves, View(p)', p, kills)
  BY <1>2, <1>3 DEF LedInv
<1>5. CASE StageEnds(e, ok)
  <2>1. Hands(x, StageDone(x))
    BY <1>1, <1>5 DEF StageEnds, Hands, AtStages, StageDone, ExecutorState
  <2>2. Hands(x, StageFailed(x))
    <3>1. WithFailed(x.state, x.stage).status = "failed"
      BY <1>1, MarksSound DEF ExecutorState
    <3>2. /\ StageFailed(x).at = "failed" /\ StageFailed(x).pipeline = x.pipeline
          /\ StageFailed(x).state = WithFailed(x.state, x.stage)
      BY <1>1 DEF StageFailed, ExecutorState
    <3> QED BY <3>1, <3>2 DEF Hands, AtStages
  <2>3. PICK y \in ExecutorState : Sound(y) /\ Hands(x, y) /\ Turns(e, y, saves)
    BY <1>1, <1>5, <2>1, <2>2, StageDoneSound, StageFailedSound DEF StageEnds
  <2> QED BY <1>1, <1>2, <1>4, <2>3, TurnedLed
<1>6. CASE ArtifactsStored(e)
  <2>1. Hands(x, Idle)
    BY <1>6 DEF ArtifactsStored, Hands, AtStages, Idle
  <2>2. Turns(e, Idle, saves)
    BY <1>6 DEF ArtifactsStored
  <2> QED BY <1>1, <1>2, <1>4, <2>1, <2>2, IdleSound, TurnedLed
<1> QED BY <1>5, <1>6

\* After a rejection nothing is promised, but that the process serves.
LEMMA RejectionsLed ==
    ASSUME PipelineInv, LedInv,
           SaveRejected \/ \E e \in Executors : ArtifactsRejected(e)
    PROVE  LedInv'
<1>1. UNCHANGED readiness /\ readiness = "serving"
  BY OnlyServing DEF SaveRejected, ArtifactsRejected
<1>2. faults' # 0
  BY DEF SaveRejected, ArtifactsRejected, PipelineInv, PipelineTypeOK
<1> QED BY <1>1, <1>2 DEF LedInv

LEMMA BeginsLed ==
    ASSUME PipelineInv, LedInv, NEW e \in Executors, NEW p \in Pipelines,
           NEW at \in {"reserve", "running", "recovering"},
           NEW s \in State, Staircase(s), Begins(e, at, p, s)
    PROVE  LedInv'
<1> DEFINE x == [Idle EXCEPT !.at = at, !.pipeline = p, !.state = s]
<1>1. x \in ExecutorState /\ Sound(x)
  BY IdleSound DEF ExecutorState, Sound, Waiting
<1>2. Hands(executor[e], x)
  BY DEF Begins, Hands, AtStages, Idle
<1>3. Turns(e, x, saves) /\ Request
  BY DEF Begins
<1> HIDE DEF x
<1>4. /\ UNCHANGED <<pipelineRow, recovered, readiness, faults, kills>>
      /\ readiness = "serving" /\ saves \in Seq(Save)
  BY <1>3 DEF Request, PipelineInv, PipelineTypeOK
<1>5. \A d \in Pipelines : View(d)' = View(d)
  BY <1>4 DEF View
<1>6. faults = 0 => \A d \in Pipelines : Led(d) \/ Settles(saves, View(d)', d, kills)
  BY <1>4, <1>5 DEF LedInv
<1> QED BY <1>1, <1>2, <1>3, <1>4, <1>6, TurnedLed

LEMMA RequestsLed ==
    ASSUME PipelineInv, LedInv, NEW e \in Executors, NEW p \in Pipelines,
           \/ Start(e, p) \/ RunOnce(e, p) \/ Retry(e, p) \/ ResumePaused(e, p)
           \/ \E k \in Stages : RetryStage(e, p, k)
    PROVE  LedInv'
<1>1. CASE Start(e, p)
  BY <1>1, CreatedSound, BeginsLed DEF Start
<1>2. CASE RunOnce(e, p)
  BY <1>2, CreatedSound, BeginsLed DEF RunOnce
<1>3. CASE Retry(e, p) \/ ResumePaused(e, p)
  <2>1. View(p) # NoPipeline /\ Begins(e, "recovering", p, Recovering(View(p)))
    BY <1>3 DEF Retry, ResumePaused, Is
  <2> QED BY <2>1, ViewSound, RecoveringSound, BeginsLed
<1>4. CASE \E k \in Stages : RetryStage(e, p, k)
  <2>1. PICK k \in Stages : RetryStage(e, p, k)
    BY <1>4
  <2> QED BY <2>1, ViewSound, AnewSound, BeginsLed DEF RetryStage
<1> QED BY <1>1, <1>2, <1>3, <1>4

LEMMA StopLed ==
    ASSUME PipelineInv, LedInv, NEW p \in Pipelines, NEW from,
           NEW to \in {"paused", "cancelled"}, StopPipeline(p, from, to)
    PROVE  LedInv'
<1> DEFINE w == [pipeline |-> p, by |-> "request", state |-> [View(p) EXCEPT !.status = to]]
<1>1. [View(p) EXCEPT !.status = to] \in State /\ [View(p) EXCEPT !.status = to].status = to
  BY ViewSound, StoppedSound DEF StopPipeline, Is, PipelineStatus, State
<1>2. w \in Save /\ w.pipeline = p /\ ~Going(w.state, kills)
  BY <1>1 DEF Save, Going
<1>3. /\ saves' = Append(saves, w) /\ saves \in Seq(Save) /\ readiness = "serving"
      /\ UNCHANGED <<executor, pipelineRow, recovered, readiness, faults, kills>>
  BY DEF StopPipeline, Request, PipelineInv, PipelineTypeOK
<1> HIDE DEF w
<1>4. ASSUME faults = 0, NEW d \in Pipelines
      PROVE  Led(d)' \/ Settles(saves', View(d)', d, kills')
  <2>1. Led(d) \/ Settles(saves, View(d), d, kills)
    BY <1>3, <1>4 DEF LedInv
  <2>2. View(d)' = View(d) /\ (Led(d)' <=> Led(d))
    BY <1>3 DEF View, Led
  <2>3. ~Led(d) => Settles(Append(saves, w), View(d), d, kills)
    BY <1>2, <1>3, <2>1, WriteSettles
  <2> QED BY <1>3, <2>2, <2>3
<1> QED BY <1>3, <1>4 DEF LedInv

LEMMA ProcessLed ==
    ASSUME PipelineInv, LedInv,
           Kill \/ Restart \/ Ready \/ \E p \in Pipelines : RecoverPipeline(p)
    PROVE  LedInv'
<1>1. CASE Kill
  BY <1>1 DEF Kill, LedInv, PipelineInv, PipelineTypeOK
<1>2. CASE Restart
  BY <1>2 DEF Restart, LedInv
<1>3. CASE \E p \in Pipelines : RecoverPipeline(p)
  BY <1>3 DEF RecoverPipeline, LedInv
<1>4. CASE Ready
  <2>1. /\ saves = <<>> /\ kills # 0 /\ readiness' = "serving"
        /\ UNCHANGED <<pipelineRow, recovered, saves, executor, faults, kills>>
        /\ \A p \in Pipelines : ~Is(p, {"running"})
    BY <1>4 DEF Ready, LedInv
  <2>2. ASSUME NEW p \in Pipelines PROVE Settles(saves', View(p)', p, kills')
    <3>1. View(p)' = View(p)
      BY <2>1 DEF View
    <3>2. View(p) # NoPipeline => ~Going(View(p), kills)
      BY <2>1 DEF Is, Going
    <3> QED BY <2>1, <3>1, <3>2 DEF Settles
  <2> QED BY <2>1, <2>2 DEF LedInv
<1> QED BY <1>1, <1>2, <1>3, <1>4

LEMMA LedKept == PipelineInv /\ LedInv /\ [PipelineNext]_pipelineVars => LedInv'
<1> SUFFICES ASSUME PipelineInv, LedInv, [PipelineNext]_pipelineVars PROVE LedInv'
  OBVIOUS
<1>1. CASE SaveMade
  BY <1>1, SaveMadeLed
<1>2. CASE SaveRejected \/ \E e \in Executors : ArtifactsRejected(e)
  BY <1>2, RejectionsLed
<1>3. CASE \E e \in Executors : \/ \E ok \in BOOLEAN : StageEnds(e, ok)
                               \/ ArtifactsStored(e)
  BY <1>3, ExecutionLed
<1>4. CASE \E e \in Executors, p \in Pipelines :
              \/ Start(e, p) \/ RunOnce(e, p) \/ Retry(e, p) \/ ResumePaused(e, p)
              \/ \E k \in Stages : RetryStage(e, p, k)
  BY <1>4, RequestsLed
<1>5. CASE \E p \in Pipelines : Pause(p) \/ Cancel(p)
  BY <1>5, StopLed DEF Pause, Cancel
<1>6. CASE Kill \/ Restart \/ Ready \/ \E p \in Pipelines : RecoverPipeline(p)
  BY <1>6, ProcessLed
<1>7. CASE UNCHANGED pipelineVars
  <2>1. \A p \in Pipelines : View(p)' = View(p) /\ (Led(p)' <=> Led(p))
    BY <1>7 DEF pipelineVars, View, Led
  <2> QED BY <1>7, <2>1 DEF pipelineVars, LedInv
<1> QED BY <1>1, <1>2, <1>3, <1>4, <1>5, <1>6, <1>7 DEF PipelineNext

\* PipelineExecutor and StoragePipelineStore.markInterrupted: as long as the storage
\* rejects nothing, no pipeline at rest is said to run, after any number of restarts
\* and whatever pauses, cancels and two executions write over each other; and none
\* is recovering or pending if no process was killed.
THEOREM NoneRunsAlone == PipelineSpec => []NothingRunsAlone
<1>1. PipelineSpec => []LedInv
  BY LedInitially, LedKept, PipelineInvHolds, PTL DEF PipelineSpec
<1>2. LedInv => NothingRunsAlone
  <2> SUFFICES ASSUME LedInv, NEW p \in Pipelines, AtRest(p), faults = 0
               PROVE  /\ ~Is(p, {"running"})
                      /\ kills = 0 => ~Is(p, {"recovering", "pending"})
    BY DEF NothingRunsAlone
  <2>1. Settles(saves, View(p), p, kills)
    BY DEF LedInv, AtRest, Led, LeadsNow
  <2>2. View(p) # NoPipeline => ~Going(View(p), kills)
    BY <2>1 DEF Settles, AtRest
  <2> QED BY <2>2 DEF Is, Going
<1> QED BY <1>1, <1>2, PTL
=============================================================================
