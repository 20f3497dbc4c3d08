---------------------------- MODULE PipelineEngine ----------------------------
(***************************************************************************)
(* PipelineEngine and PipelineExecutor over StoragePipelineStore: the      *)
(* pipelines of one project on one server process.                         *)
(*                                                                         *)
(* An executor works on a copy of the record and writes a checkpoint of it *)
(* before and after every stage.  It never reads the record again, so a    *)
(* pause or a cancel is one more write of the whole record, in the order   *)
(* in which the storage queue takes them.                                  *)
(*                                                                         *)
(* The write queue of the storage and its cache are one: DurableStore      *)
(* says what separates them.                                               *)
(***************************************************************************)
EXTENDS Naturals, Sequences, FiniteSets

CONSTANTS
    Pipelines,    \* pipeline ids, each of one run of the project
    Executors,    \* executions that may be under way at a time
    MaxStage,     \* the stages are 1..MaxStage, in the order of STAGE_ORDER
    MaxRequests,  \* bound on the requests
    MaxMishaps,   \* bound on the rejected writes and the kills together
    NoPipeline

Stages == 1..MaxStage

ASSUME PipelineConstantsOK ==
    /\ MaxStage \in Nat \ {0} /\ MaxRequests \in Nat
    /\ MaxMishaps \in Nat
    /\ "request" \notin Executors

VARIABLES
    pipelineRow,  \* PIPELINE_STATES, as the storage answers
    claims,       \* PIPELINE_RECOVERY_CLAIMS
    recovered,    \* recoveredSnapshots
    saves,        \* the writes the storage has not made yet, in order
    executor,     \* executor[e]: the execution e
    active,       \* activeExecutions has the project
    starting,     \* pendingStarts has the project
    readiness,    \* down, booting (readiness is not settled) or serving
    requests, faults, kills

pipelineVars == <<pipelineRow, claims, recovered, saves, executor, active, starting,
                  readiness, requests, faults, kills>>

-----------------------------------------------------------------------------
(***************************************************************************)
(* Records                                                                 *)
(***************************************************************************)

StageStatus == {"pending", "running", "completed", "failed"}
PipelineStatus == {"pending", "running", "completed", "failed", "recovering",
                   "paused", "cancelled"}

\* done: completedStages.  failed: failedStages.
State == [status: PipelineStatus, stages: [Stages -> StageStatus],
          done: Seq(Stages), failed: SUBSET Stages]
Record == State \cup {NoPipeline}

\* createPipelineState
Created == [status |-> "pending", stages |-> [k \in Stages |-> "pending"],
            done |-> <<>>, failed |-> {}]

\* The writes an execution waits for, by where it is when they are called.
Waiting == {"reserve", "recovering", "running", "begin", "done", "failed",
            "finish", "settle"}

\* started: startAsync began it, and it holds activeExecutions.
ExecutorState == [at: Waiting \cup {"idle", "stage", "artifacts"}, started: {"yes", "no"},
              pipeline: Pipelines \cup {NoPipeline}, state: State, stage: Stages]
Idle == [at |-> "idle", started |-> "no", pipeline |-> NoPipeline,
         state |-> Created, stage |-> 1]

Save == [pipeline: Pipelines, state: State, by: Executors \cup {"request"}]

PipelineInit ==
    /\ pipelineRow = [p \in Pipelines |-> NoPipeline] /\ claims = {}
    /\ recovered = [p \in Pipelines |-> NoPipeline]
    /\ saves = <<>>
    /\ executor = [e \in Executors |-> Idle]
    /\ active = FALSE /\ starting = FALSE
    /\ readiness = "serving"
    /\ requests = 0 /\ faults = 0 /\ kills = 0

\* StoragePipelineStore.get
View(p) == IF recovered[p] # NoPipeline THEN recovered[p] ELSE pipelineRow[p]
Is(p, statuses) == IF View(p) = NoPipeline THEN FALSE ELSE View(p).status \in statuses

\* Nobody has used the id of a new pipeline.
New(p) == /\ pipelineRow[p] = NoPipeline
          /\ \A e \in Executors : executor[e].pipeline # p

-----------------------------------------------------------------------------
(***************************************************************************)
(* The course of an execution: PipelineExecutor.execute                    *)
(***************************************************************************)

\* Mutant: a stage left running is passed over.
RemainingPending(s) == {k \in Stages : s.stages[k] = "pending"}
Remaining(s) == {k \in Stages : s.stages[k] # "completed"}

\* s with its stage k in another status.
Marked(s, k, status) == [s EXCEPT !.stages = [@ EXCEPT ![k] = status]]
WithDone(s, k) == [Marked(s, k, "completed") EXCEPT !.done = Append(s.done, k)]
WithFailed(s, k) ==
    [Marked(s, k, "failed") EXCEPT !.status = "failed", !.failed = s.failed \cup {k}]

Running(x) == [x EXCEPT !.at = "running", !.state.status = "running"]
Finished(x) == [x EXCEPT !.at = "finish", !.state.status = "completed"]
StageBegun(x, k) ==
    [x EXCEPT !.at = "begin", !.stage = k, !.state = Marked(@, k, "running")]
StageDone(x) ==
    [x EXCEPT !.at = "done", !.state = WithDone(@, x.stage)]
StageFailed(x) ==
    [x EXCEPT !.at = "failed", !.state = WithFailed(@, x.stage)]

\* The execution throws: one startAsync began saves the state it was started
\* with as failed, any other answers its request with the error.
Thrown(x) ==
    IF x.started = "yes"
    THEN [x EXCEPT !.at = "settle", !.state = [Created EXCEPT !.status = "failed"]]
    ELSE Idle

\* Mutant: activeExecutions is released only when the failure was saved.
RejectedUnreleased(x) ==
    CASE x.at = "done" -> StageFailed(x)
      [] x.at = "settle" -> [x EXCEPT !.at = "idle"]
      [] OTHER -> Thrown(x)
\* A checkpoint was rejected: after a stage the catch of the stage takes it.
Rejected(x) ==
    CASE x.at = "done" -> StageFailed(x)
      [] x.at = "settle" -> Idle
      [] OTHER -> Thrown(x)

\* Execution e becomes x, with q the writes that wait.  activeExecutions gets
\* the project when the first save of a start is made and loses it when an
\* execution that startAsync began ends, whatever else holds it.
Turns(e, x, q) ==
    /\ executor' = [executor EXCEPT ![e] = x]
    /\ saves' = IF x.at \in Waiting
                THEN Append(q, [pipeline |-> x.pipeline, state |-> x.state, by |-> e])
                ELSE q
    /\ active' = IF executor[e].started = "yes" /\ x = Idle THEN FALSE
                 ELSE active \/ (executor[e].started = "no" /\ x.started = "yes")
    /\ starting' = IF x.at = "reserve" THEN TRUE
                   ELSE starting /\ executor[e].at # "reserve"

\* A checkpoint of e was written: it goes on to its next wait.
Continues(e, q) ==
    LET x == executor[e] IN
    \/ x.at = "reserve" /\ Turns(e, Running([x EXCEPT !.started = "yes"]), q)
    \/ x.at = "recovering" /\ Turns(e, Running(x), q)
    \/ /\ x.at \in {"running", "done"} /\ Remaining(x.state) = {}
       /\ Turns(e, Finished(x), q)
    \/ /\ x.at \in {"running", "done"}
       /\ \E k \in Remaining(x.state) :
             /\ \A j \in Remaining(x.state) : k <= j
             /\ Turns(e, StageBegun(x, k), q)
    \/ x.at = "begin" /\ Turns(e, [x EXCEPT !.at = "stage"], q)
    \/ x.at \in {"failed", "finish"} /\ Turns(e, [x EXCEPT !.at = "artifacts"], q)
    \/ x.at = "settle" /\ Turns(e, Idle, q)

\* The storage makes the first write that waits.
SaveMade ==
    /\ saves # <<>>
    /\ LET s == Head(saves) IN
        /\ pipelineRow' = [pipelineRow EXCEPT ![s.pipeline] = s.state]
        /\ recovered' = [recovered EXCEPT ![s.pipeline] = NoPipeline]
        /\ IF s.by \in Executors
           THEN Continues(s.by, Tail(saves))
           ELSE saves' = Tail(saves) /\ UNCHANGED <<executor, active, starting>>
    /\ UNCHANGED <<claims, readiness, requests, faults, kills>>

\* The storage rejects it.
SaveRejected ==
    /\ saves # <<>> /\ faults + kills < MaxMishaps
    /\ faults' = faults + 1
    /\ LET s == Head(saves) IN
        IF s.by \in Executors
        THEN Turns(s.by, Rejected(executor[s.by]), Tail(saves))
        ELSE saves' = Tail(saves) /\ UNCHANGED <<executor, active, starting>>
    /\ UNCHANGED <<pipelineRow, claims, recovered, readiness, requests, kills>>

\* The agent of the stage answers or fails.
StageEnds(e, ok) ==
    /\ executor[e].at = "stage"
    /\ Turns(e, IF ok THEN StageDone(executor[e]) ELSE StageFailed(executor[e]), saves)
    /\ UNCHANGED <<pipelineRow, claims, recovered, readiness, requests, faults, kills>>

\* storeArtifactsFromState: all that completed is stored, or the store rejects.
ArtifactsStored(e) ==
    /\ executor[e].at = "artifacts"
    /\ Turns(e, Idle, saves)
    /\ UNCHANGED <<pipelineRow, claims, recovered, readiness, requests, faults, kills>>

ArtifactsRejected(e) ==
    /\ executor[e].at = "artifacts" /\ faults + kills < MaxMishaps
    /\ faults' = faults + 1
    /\ Turns(e, Thrown(executor[e]), saves)
    /\ UNCHANGED <<pipelineRow, claims, recovered, readiness, requests, kills>>

-----------------------------------------------------------------------------
(***************************************************************************)
(* Requests: all wait for readiness, then read and call without a pause    *)
(***************************************************************************)

Request ==
    /\ readiness = "serving" /\ requests < MaxRequests
    /\ requests' = requests + 1
    /\ UNCHANGED <<pipelineRow, claims, recovered, readiness, faults, kills>>

Begins(e, at, p, s) ==
    /\ executor[e].at = "idle"
    /\ Turns(e, [Idle EXCEPT !.at = at, !.pipeline = p, !.state = s], saves)
    /\ Request

\* What makes startAsync answer with a pipeline it has: a start under way, or a
\* pipeline not ended while activeExecutions holds the project.
Duplicate == \/ starting
             \/ active /\ \E q \in Pipelines : Is(q, {"pending", "running"})

Start(e, p) == New(p) /\ ~Duplicate /\ Begins(e, "reserve", p, Created)

\* run: execute without a record to begin with.
RunOnce(e, p) == New(p) /\ Begins(e, "running", p, [Created EXCEPT !.status = "running"])

\* Mutant: a retry does every stage again and keeps completedStages.
RecoveringAnew(s) ==
    [s EXCEPT !.status = "recovering", !.failed = {},
              !.stages = [k \in Stages |-> "pending"]]
\* executor.resume
Recovering(s) ==
    [s EXCEPT !.status = "recovering", !.failed = {},
              !.stages = [k \in Stages |-> IF @[k] = "failed" THEN "pending" ELSE @[k]]]

\* retry and resume of a failed pipeline, resumePaused of a paused one.
Retry(e, p) == Is(p, {"failed"}) /\ Begins(e, "recovering", p, Recovering(View(p)))
ResumePaused(e, p) ==
    Is(p, {"paused"}) /\ Begins(e, "recovering", p, Recovering(View(p)))

RetryStage(e, p, k) ==
    /\ View(p) # NoPipeline
    /\ View(p).stages[k] = "failed"
    /\ Begins(e, "running", p,
              [View(p) EXCEPT !.status = "running", !.stages[k] = "pending",
                              !.failed = @ \ {k}])

\* pause and cancel save the record they read, stopped.
StopPipeline(p, from, to) ==
    /\ Is(p, from)
    /\ saves' = Append(saves, [pipeline |-> p, by |-> "request",
                               state |-> [View(p) EXCEPT !.status = to]])
    /\ UNCHANGED <<executor, active, starting>>
    /\ Request
Pause(p) == StopPipeline(p, {"running"}, "paused")
Cancel(p) == StopPipeline(p, {"running", "paused"}, "cancelled")

-----------------------------------------------------------------------------
(***************************************************************************)
(* Kills and restarts                                                      *)
(***************************************************************************)

Kill ==
    /\ readiness # "down" /\ faults + kills < MaxMishaps
    /\ kills' = kills + 1
    /\ readiness' = "down"
    /\ recovered' = [p \in Pipelines |-> NoPipeline]
    /\ saves' = <<>>
    /\ executor' = [e \in Executors |-> Idle]
    /\ active' = FALSE /\ starting' = FALSE
    /\ UNCHANGED <<pipelineRow, claims, requests, faults>>

Restart ==
    /\ readiness = "down"
    /\ readiness' = "booting"
    /\ UNCHANGED <<pipelineRow, claims, recovered, saves, executor, active, starting,
                   requests, faults, kills>>

\* createInterruptedSnapshot
InterruptedSnapshot(s) ==
    [s EXCEPT !.status = "failed",
              !.stages = [k \in Stages |-> IF @[k] = "running" THEN "failed" ELSE @[k]],
              !.failed = @ \cup {k \in Stages : s.stages[k] = "running"}]

\* markInterrupted, one pipeline: claim and record are written together; when
\* an earlier restart has the claim, only this process knows.
RecoverPipeline(p) ==
    /\ readiness = "booting" /\ Is(p, {"running"})
    /\ IF p \notin claims
       THEN /\ claims' = claims \cup {p}
            /\ pipelineRow' = [pipelineRow EXCEPT ![p] = InterruptedSnapshot(pipelineRow[p])]
            /\ UNCHANGED recovered
       ELSE /\ recovered' = [recovered EXCEPT ![p] = InterruptedSnapshot(pipelineRow[p])]
            /\ UNCHANGED <<claims, pipelineRow>>
    /\ UNCHANGED <<saves, executor, active, starting, readiness, requests, faults, kills>>

\* Mutant: requests do not wait for the recovery.
ReadyAtOnce ==
    /\ readiness = "booting"
    /\ readiness' = "serving"
    /\ UNCHANGED <<pipelineRow, claims, recovered, saves, executor, active, starting,
                   requests, faults, kills>>
Ready ==
    /\ readiness = "booting" /\ \A p \in Pipelines : ~Is(p, {"running"})
    /\ readiness' = "serving"
    /\ UNCHANGED <<pipelineRow, claims, recovered, saves, executor, active, starting,
                   requests, faults, kills>>

-----------------------------------------------------------------------------
PipelineNext ==
    \/ SaveMade \/ SaveRejected
    \/ \E e \in Executors :
        \/ \E ok \in BOOLEAN : StageEnds(e, ok)
        \/ ArtifactsStored(e) \/ ArtifactsRejected(e)
        \/ \E p \in Pipelines :
            \/ Start(e, p) \/ RunOnce(e, p) \/ Retry(e, p) \/ ResumePaused(e, p)
            \/ \E k \in Stages : RetryStage(e, p, k)
    \/ \E p \in Pipelines : Pause(p) \/ Cancel(p) \/ RecoverPipeline(p)
    \/ Kill \/ Restart \/ Ready

PipelineSpec == PipelineInit /\ [][PipelineNext]_pipelineVars

\* Agents answer, the storage makes or rejects what it is given, and a process
\* that died is started again.
PipelineFairness ==
    /\ WF_pipelineVars(SaveMade \/ SaveRejected)
    /\ \A e \in Executors :
        /\ WF_pipelineVars(\E ok \in BOOLEAN : StageEnds(e, ok))
        /\ WF_pipelineVars(ArtifactsStored(e) \/ ArtifactsRejected(e))
    /\ WF_pipelineVars(Restart) /\ WF_pipelineVars(\E p \in Pipelines : RecoverPipeline(p))
    /\ WF_pipelineVars(Ready)

-----------------------------------------------------------------------------
(***************************************************************************)
(* Properties                                                              *)
(***************************************************************************)

PipelineTypeOK ==
    /\ pipelineRow \in [Pipelines -> Record] /\ recovered \in [Pipelines -> Record]
    /\ claims \subseteq Pipelines
    /\ saves \in Seq(Save)
    /\ executor \in [Executors -> ExecutorState]
    /\ active \in BOOLEAN /\ starting \in BOOLEAN
    /\ readiness \in {"down", "booting", "serving"}
    /\ requests \in 0..MaxRequests /\ faults \in Nat /\ kills \in Nat
    /\ faults + kills <= MaxMishaps

Rows == {pipelineRow[p] : p \in Pipelines} \cup {recovered[p] : p \in Pipelines}
QueuedStates == {saves[i].state : i \in DOMAIN saves}
Held == {executor[e].state : e \in Executors}
Records == (Rows \ {NoPipeline}) \cup QueuedStates \cup Held

\* However pauses, retries, restarts and two executions of one pipeline write
\* over each other, no record has a stage that was begun before the one it
\* builds on was completed, and none is completed with a stage to do.
Staircase(s) ==
    /\ \A j, k \in Stages : j < k /\ s.stages[k] # "pending" => s.stages[j] = "completed"
    /\ s.status = "completed" => Remaining(s) = {}
StagesInOrder == \A s \in Records : Staircase(s)

\* As long as the storage rejects nothing, completedStages is what the stages
\* say: each completed stage once, in order, also after a stage was run again.
Exact(s) == s.done = [i \in 1..Cardinality(Stages \ Remaining(s)) |-> i]
CompletedStagesExact == faults = 0 => \A s \in Records : Exact(s)

\* Nothing works on p, and no write of it waits.
AtRest(p) == /\ readiness = "serving"
             /\ \A e \in Executors : executor[e].pipeline # p
             /\ \A i \in DOMAIN saves : saves[i].pipeline # p

\* As long as the storage rejects nothing, no pipeline is said to run when
\* nothing runs it, after a first, a second, any restart; and without a kill in
\* a retry or a start none is left recovering or pending, which no request and
\* no restart takes up.
NothingRunsAlone ==
    \A p \in Pipelines : AtRest(p) /\ faults = 0 =>
        /\ ~Is(p, {"running"})
        /\ kills = 0 => ~Is(p, {"recovering", "pending"})

\* The project is not held for ever, also when a checkpoint is rejected, and
\* when the record that says so is; and when no more requests come every
\* execution has ended.
ProjectReleased == []<>(~active /\ \A e \in Executors : executor[e].at = "idle")
=============================================================================
