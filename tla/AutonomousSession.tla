-------------------------- MODULE AutonomousSession --------------------------
(***************************************************************************)
(* AutonomousOrchestrator over StorageAutonomousSessionStore: one session, *)
(* from its run to its end, on server processes that share its row.        *)
(*                                                                         *)
(* The execution of a session walks its phases on the record it read when  *)
(* it began.  Pause, resume, cancel and recover are requests that come at  *)
(* any time, each with a record of its own.  Records are written whole: a  *)
(* write selects the row, compares the two statuses when the selected row  *)
(* arrives, and stores or gives up.  The writes of a process go through a  *)
(* queue (mutationTails); the claim of a generation, which resume and      *)
(* recover make, does not.                                                 *)
(*                                                                         *)
(* An answer to a select is looked at later than it was made, so the step  *)
(* that selects and the step that goes on are apart everywhere.            *)
(***************************************************************************)
EXTENDS Naturals, Sequences

CONSTANTS
    Procs,       \* server processes
    Handlers,    \* requests that may be in flight at a time
    HomeOf,      \* the process that serves a request
    MaxPhase,    \* the phases are 1..MaxPhase, in the order of PHASE_ORDER
    Registered,  \* the phases with an adapter in the phase registry
    MaxCalls,    \* bound on the requests
    MaxCrashes,  \* bound on the processes killed
    NoSession

Phases == 1..MaxPhase

ASSUME SessionConstantsOK ==
    /\ HomeOf \in [Handlers -> Procs]
    /\ MaxPhase \in Nat \ {0} /\ MaxCalls \in Nat /\ MaxCrashes \in Nat
    /\ Registered \subseteq Phases
    /\ "exec" \notin Handlers

VARIABLES
    row,      \* autonomous_sessions: the record stored
    claimed,  \* autonomous_execution_claims: the generations claimed
    taken,    \* autonomous_recovery_claims: the recovery counts claimed
    mode,     \* mode[p]: whether p is down, booting or serving
    cache,    \* cache[p]: what the store of p answers
    control,  \* control[p]: the abort controller p keeps for the session
    tail,     \* tail[p]: mutationTails, the writes of p waiting in order
    seen,     \* seen[p]: the row selected for the write at the head of tail[p]
    exec,     \* exec[p]: the execution of p
    call,     \* call[h]: the request h
    calls,    \* requests so far
    crashes   \* kills so far

vars == <<row, claimed, taken, mode, cache, control, tail, seen, exec, call,
          calls, crashes>>

-----------------------------------------------------------------------------
(***************************************************************************)
(* Records                                                                 *)
(***************************************************************************)

Halted == {"paused", "cancelled"}
Terminal == {"preview_completed", "cancelled", "failed"}
Status == {"running"} \cup Halted \cup Terminal

Nodes == [Phases -> {"pending", "running", "completed", "skipped", "failed"}]

\* restart: recoveryReason is server_restart.  checkpoints: the nodes each one
\* restores; checkpointSequence is their number.
Session == [status: Status, nodes: Nodes, generation: Nat, recoveries: Nat,
            restart: BOOLEAN, checkpoints: Seq(Nodes)]
Row == Session \cup {NoSession}

\* A session that is not there is none.
ASSUME NoSessionOK == NoSession \notin Session

Fresh == [status |-> "running", nodes |-> [k \in Phases |-> "pending"],
          generation |-> 0, recoveries |-> 0, restart |-> FALSE,
          checkpoints |-> <<>>]

\* The points of an execution that wait for a write of its record.
Writing == {"start", "checkpoint", "fail", "finish", "settled"}

\* signal: the controller the phase got, the current one or one replaced since,
\* aborted or not.  rows: what settle selected.
Execution == [at: Writing \cup {"idle", "phase", "settle"}, record: Row,
              node: Phases \cup {0}, signal: {"current", "live", "aborted"},
              selected: BOOLEAN, rows: Row]
NoExecution == [at |-> "idle", record |-> NoSession, node |-> 0,
                signal |-> "current", selected |-> FALSE, rows |-> NoSession]

Kind == {"pause", "resume", "cancel", "recover"}

\* checkpoint: the one recover was given, 0 for none.  record: the row it
\* selected, then the record it writes.
Call == [kind: Kind, at: {"idle", "selected", "write"}, record: Row,
         checkpoint: Nat]
NoCall == [kind |-> "pause", at |-> "idle", record |-> NoSession,
           checkpoint |-> 0]

Init ==
    /\ row = NoSession
    /\ claimed = {} /\ taken = {}
    /\ mode = [p \in Procs |-> "serving"]
    /\ cache = [p \in Procs |-> NoSession]
    /\ control = [p \in Procs |-> "none"]
    /\ tail = [p \in Procs |-> <<>>]
    /\ seen = [p \in Procs |-> [selected |-> FALSE, row |-> NoSession]]
    /\ exec = [p \in Procs |-> NoExecution]
    /\ call = [h \in Handlers |-> NoCall]
    /\ calls = 0 /\ crashes = 0

-----------------------------------------------------------------------------
(***************************************************************************)
(* The course of an execution                                              *)
(***************************************************************************)

\* nextPendingNode is the first of these.
Pending(r) == {k \in Phases : r.nodes[k] \in {"pending", "running"}}
\* What the loop over the phases does not pass over.
Todo(r) == {k \in Phases : r.nodes[k] \notin {"completed", "skipped"}}
First(K) == CHOOSE k \in K : \A j \in K : k <= j

With(r, k, status) == [r EXCEPT !.nodes[k] = status]
Ended(r, status) == [r EXCEPT !.status = status]

Checkpointed(r) == [r EXCEPT !.checkpoints = Append(@, r.nodes)]

At(point, r, k) == [NoExecution EXCEPT !.at = point, !.record = r, !.node = k]

Finish(r) == At("finish", Ended(r, "preview_completed"), 0)

\* The loop on r up to its next wait: over says that the budget or the time
\* limit is exceeded when it looks at the next phase.
Advance(r, over) ==
    LET k == First(Todo(r)) IN
    IF Todo(r) = {} THEN IF r.status = "running" THEN Finish(r) ELSE NoExecution
    ELSE IF r.status # "running" THEN NoExecution
    ELSE IF over THEN At("fail", Ended(With(r, k, "failed"), "failed"), k)
    ELSE IF k \in Registered THEN At("start", With(r, k, "running"), k)
    ELSE At("checkpoint", Checkpointed(With(r, k, "skipped")), k)

\* After the loop: a running record with nothing pending is finished, and one
\* with a pending phase starts again from the cached record (restartRequests
\* asks for it too, and decides nothing: without a pending phase the record is
\* no longer running).
Leave(r, cached, over) ==
    IF r.status # "running" THEN NoExecution
    ELSE IF Pending(r) = {} THEN Finish(r)
    ELSE Advance(cached, over)

\* Mutant: a write does not wait behind another one.
BecomesWhenFree(p, e, t) ==
    /\ exec' = [exec EXCEPT ![p] = e]
    /\ tail' = [tail EXCEPT ![p] = IF e.at \in Writing /\ t = <<>> THEN <<"exec">> ELSE t]
\* The execution of p becomes e, with t the writes that wait in its process.
Becomes(p, e, t) ==
    /\ exec' = [exec EXCEPT ![p] = e]
    /\ tail' = [tail EXCEPT ![p] = IF e.at \in Writing THEN Append(t, "exec") ELSE t]

\* startExecution, reading r from the store: a running execution goes on.
Started(p, r, over) == IF exec[p].at = "idle" THEN Advance(r, over) ELSE exec[p]

-----------------------------------------------------------------------------
(***************************************************************************)
(* Writing a record: persistAndPublish                                     *)
(***************************************************************************)

\* Whether the write of r over the acknowledged row a is stored, and how r
\* stands after it.
Gives(saved, stored, record) == [saved |-> saved, row |-> stored, record |-> record]

\* Mutant: a pause is stored with the record it was asked on.
OutcomeOwnPause(r, a, allow) ==
    IF ~allow /\ a.status \in Halted /\ r.status # a.status
    THEN Gives(FALSE, a, Ended(r, a.status))
    ELSE Gives(TRUE, r, r)
\* Mutant: a write of the execution does not look at the acknowledged status.
OutcomeUnfenced(r, a, allow) ==
    IF allow /\ a.status = "running" THEN Gives(TRUE, Ended(a, r.status), r)
    ELSE Gives(TRUE, r, r)
Outcome(r, a, allow) ==
    CASE a = NoSession -> Gives(TRUE, r, r)
      [] allow /\ r.status \in Halted /\ a.status = "running" ->
            Gives(TRUE, Ended(a, r.status), r)
      [] ~allow /\ r.status \in Halted /\ a.status = "running" ->
            Gives(FALSE, a, Ended(r, a.status))
      [] ~allow /\ a.status \in Halted /\ r.status # a.status ->
            Gives(FALSE, a, Ended(r, a.status))
      [] ~allow /\ a.status \in Terminal \ Halted /\ r.status # a.status ->
            Gives(FALSE, a, a)
      [] OTHER -> Gives(TRUE, r, r)

Unselected == [selected |-> FALSE, row |-> NoSession]

\* The write at the head of the queue selects the row.
SelectForWrite(p) ==
    /\ tail[p] # <<>> /\ ~seen[p].selected
    /\ seen' = [seen EXCEPT ![p] = [selected |-> TRUE, row |-> row]]
    /\ UNCHANGED <<row, claimed, taken, mode, cache, control, tail, exec, call,
                   calls, crashes>>

Store(p, o) ==
    /\ row' = IF o.saved THEN o.row ELSE row
    /\ cache' = [cache EXCEPT ![p] = o.row]
    /\ seen' = [seen EXCEPT ![p] = Unselected]

\* Where the execution goes from a write that left its record as r and the
\* cache of its process as c.
After(p, r, c, over) ==
    CASE exec[p].at = "start" -> [exec[p] EXCEPT !.at = "phase", !.record = r]
      [] exec[p].at = "checkpoint" -> Advance(r, over)
      [] exec[p].at = "finish" -> NoExecution
      [] exec[p].at \in {"fail", "settled"} -> Leave(r, c, over)

\* The write of the execution's record is stored, or gives way.
WriteExecution(p, over) ==
    LET o == Outcome(exec[p].record, seen[p].row, FALSE) IN
    /\ seen[p].selected /\ Head(tail[p]) = "exec"
    /\ Store(p, o)
    /\ Becomes(p, After(p, o.record, o.row, over), Tail(tail[p]))
    /\ UNCHANGED <<claimed, taken, mode, control, call, calls, crashes>>

\* The write of a request's record: pause and cancel then abort the controller,
\* a resumed or recovered session without a pending phase is finished.
WriteCall(p, h) ==
    LET allow == call[h].kind \in {"pause", "cancel"}
        o == Outcome(call[h].record, seen[p].row, allow)
    IN
    /\ seen[p].selected /\ Head(tail[p]) = h
    /\ Store(p, o)
    /\ tail' = [tail EXCEPT ![p] = Tail(@)]
    /\ call' = [call EXCEPT ![h] = NoCall]
    /\ control' = IF allow /\ control[p] # "none"
                  THEN [control EXCEPT ![p] = "aborted"] ELSE control
    /\ UNCHANGED <<claimed, taken, mode, exec, calls, crashes>>

-----------------------------------------------------------------------------
(***************************************************************************)
(* run and executePhases                                                   *)
(***************************************************************************)

\* A new session is stored, published and started: nobody else knows its id.
Run(p, over) ==
    /\ mode[p] = "serving" /\ row = NoSession
    /\ row' = Fresh
    /\ cache' = [cache EXCEPT ![p] = Fresh]
    /\ control' = [control EXCEPT ![p] = "live"]
    /\ Becomes(p, Started(p, Fresh, over), tail[p])
    /\ UNCHANGED <<claimed, taken, mode, seen, call, calls, crashes>>

Aborted(p) == \/ exec[p].signal = "aborted"
              \/ exec[p].signal = "current" /\ control[p] = "aborted"

\* A phase ends: it is done (completed or skipped by its adapter), it fails, or
\* it gives up because its signal was aborted.
PhaseEnds(p, outcome) ==
    LET r == exec[p].record
        k == exec[p].node
        interrupted == \/ r.status # "running"
                       \/ outcome = "abort"
                       \/ outcome = "done" /\ Aborted(p)
    IN
    /\ exec[p].at = "phase"
    /\ outcome \in {"done", "error", "abort"}
    /\ outcome = "abort" => Aborted(p)
    /\ \/ /\ interrupted
          /\ exec' = [exec EXCEPT ![p].at = "settle", ![p].signal = "current"]
          /\ UNCHANGED tail
       \/ /\ ~interrupted /\ outcome = "done"
          /\ Becomes(p, At("checkpoint", Checkpointed(With(r, k, "completed")), k), tail[p])
       \/ /\ ~interrupted /\ outcome = "error"
          /\ Becomes(p, At("fail", Ended(With(r, k, "failed"), "failed"), k), tail[p])
    /\ UNCHANGED <<row, claimed, taken, mode, cache, control, seen, call, calls,
                   crashes>>

\* settleInterruptedExecution selects the row.
SettleSelect(p) ==
    /\ exec[p].at = "settle" /\ ~exec[p].selected
    /\ exec' = [exec EXCEPT ![p].selected = TRUE, ![p].rows = row]
    /\ UNCHANGED <<row, claimed, taken, mode, cache, control, tail, seen, call,
                   calls, crashes>>

\* Mutant: the phase takes the status of its session.
InterruptedAsSession(r, k) ==
    IF r.status \in Halted THEN With(r, k, r.status) ELSE r
\* handleInterruptedNode
Interrupted(r, k) ==
    CASE r.status = "paused" -> With(r, k, "pending")
      [] r.status = "cancelled" -> With(r, k, "skipped")
      [] OTHER -> r

\* Of the generation it ran, the execution writes the acknowledged record with
\* its phase given back; of a later one, it only takes the record.
SettleApply(p, over) ==
    LET a == exec[p].rows IN
    /\ exec[p].at = "settle" /\ exec[p].selected
    /\ cache' = [cache EXCEPT ![p] = a]
    /\ Becomes(p, IF a.generation = exec[p].record.generation
                  THEN At("settled", Interrupted(a, exec[p].node), exec[p].node)
                  ELSE Leave(a, a, over), tail[p])
    /\ UNCHANGED <<row, claimed, taken, mode, control, seen, call, calls, crashes>>

-----------------------------------------------------------------------------
(***************************************************************************)
(* pause, resume, cancel, recover                                          *)
(***************************************************************************)

\* Every request refreshes first.
Ask(h, kind, c) ==
    /\ mode[HomeOf[h]] = "serving" /\ call[h].at = "idle"
    /\ calls < MaxCalls
    /\ calls' = calls + 1
    /\ row # NoSession
    /\ kind # "recover" => c = 0
    /\ call' = [call EXCEPT ![h] = [kind |-> kind, at |-> "selected",
                                    record |-> row, checkpoint |-> c]]
    /\ UNCHANGED <<row, claimed, taken, mode, cache, control, tail, seen, exec,
                   crashes>>

Selected(h) == call[h].at = "selected" /\ call[h].record # NoSession

Refuse(h) ==
    /\ call' = [call EXCEPT ![h] = NoCall]
    /\ cache' = [cache EXCEPT ![HomeOf[h]] = call[h].record]
    /\ UNCHANGED <<row, claimed, taken, mode, control, tail, seen, exec, calls,
                   crashes>>

\* Pause and cancel queue a write of the record they selected, stopped.
Stoppable(h) ==
    \/ call[h].record.status = "running"
    \/ call[h].kind = "cancel" /\ call[h].record.status = "paused"

Stop(h) ==
    LET p == HomeOf[h]
        status == IF call[h].kind = "pause" THEN "paused" ELSE "cancelled"
    IN
    /\ Selected(h) /\ call[h].kind \in {"pause", "cancel"}
    /\ \/ /\ Stoppable(h)
          /\ call' = [call EXCEPT ![h].at = "write", ![h].record.status = status]
          /\ tail' = [tail EXCEPT ![p] = Append(@, h)]
          /\ cache' = [cache EXCEPT ![p] = call[h].record]
          /\ UNCHANGED <<row, claimed, taken, mode, control, seen, exec, calls,
                         crashes>>
       \/ ~Stoppable(h) /\ Refuse(h)

\* Mutant: a recovery keeps the recovery count.
RestoredUncounted(r, nodes) ==
    [r EXCEPT !.status = "running", !.nodes = nodes,
              !.generation = @ + 1, !.restart = FALSE]
Restored(r, nodes) ==
    [r EXCEPT !.status = "running", !.nodes = nodes,
              !.recoveries = @ + 1, !.generation = @ + 1, !.restart = FALSE]

\* What recover restores: a checkpoint, the last one unless it was given one,
\* or the interrupted session's own phases when it has none.
Restorable(h) ==
    LET r == call[h].record
        c == IF call[h].checkpoint # 0 THEN call[h].checkpoint ELSE Len(r.checkpoints)
    IN IF c \in DOMAIN r.checkpoints THEN {r.checkpoints[c]}
       ELSE IF call[h].checkpoint = 0 /\ r.restart THEN {r.nodes}
       ELSE {}

\* The record a resume or a recovery wants to claim: none when it is refused.
Wanted(h) ==
    LET r == call[h].record IN
    IF call[h].kind = "resume"
    THEN IF r.status = "paused" /\ ~r.restart
         THEN {[r EXCEPT !.status = "running", !.generation = @ + 1]} ELSE {}
    ELSE IF r.status # "running" THEN {Restored(r, nodes) : nodes \in Restorable(h)}
    ELSE {}

\* A new controller: a phase that is running keeps the old one.
Replaced(p) ==
    [exec[p] EXCEPT !.signal = IF @ = "current" /\ exec[p].at = "phase"
                               THEN control[p] ELSE @]

\* claimExecution: the claim on the generation and the record are written
\* together, or not at all.  Then the session is started, or finished.
Claim(h, over) ==
    LET p == HomeOf[h] IN
    /\ Selected(h) /\ call[h].kind \in {"resume", "recover"}
    /\ \E r \in Wanted(h) :
        /\ r.generation \notin claimed
        /\ claimed' = claimed \cup {r.generation}
        /\ row' = r
        /\ cache' = [cache EXCEPT ![p] = r]
        /\ \/ /\ Pending(r) # {}
              /\ control' = [control EXCEPT ![p] = "live"]
              /\ call' = [call EXCEPT ![h] = NoCall]
              /\ IF exec[p].at = "idle"
                 THEN Becomes(p, Advance(r, over), tail[p])
                 ELSE exec' = [exec EXCEPT ![p] = Replaced(p)] /\ UNCHANGED tail
           \/ /\ Pending(r) = {}
              /\ call' = [call EXCEPT ![h].at = "write",
                            ![h].record = Ended(r, "preview_completed")]
              /\ tail' = [tail EXCEPT ![p] = Append(@, h)]
              /\ UNCHANGED <<control, exec>>
    /\ UNCHANGED <<taken, mode, seen, calls, crashes>>

\* Refused, or another request has claimed the generation: the store refreshes.
NoClaim(h) ==
    /\ Selected(h) /\ call[h].kind \in {"resume", "recover"}
    /\ \A r \in Wanted(h) : r.generation \in claimed
    /\ cache' = [cache EXCEPT ![HomeOf[h]] =
                    IF Wanted(h) = {} THEN call[h].record ELSE row]
    /\ call' = [call EXCEPT ![h] = NoCall]
    /\ UNCHANGED <<row, claimed, taken, mode, control, tail, seen, exec, calls,
                   crashes>>

-----------------------------------------------------------------------------
(***************************************************************************)
(* Kills and restarts                                                      *)
(***************************************************************************)

Crash(p) ==
    /\ mode[p] # "down" /\ crashes < MaxCrashes
    /\ crashes' = crashes + 1
    /\ mode' = [mode EXCEPT ![p] = "down"]
    /\ cache' = [cache EXCEPT ![p] = NoSession]
    /\ control' = [control EXCEPT ![p] = "none"]
    /\ tail' = [tail EXCEPT ![p] = <<>>]
    /\ seen' = [seen EXCEPT ![p] = Unselected]
    /\ exec' = [exec EXCEPT ![p] = NoExecution]
    /\ call' = [h \in Handlers |-> IF HomeOf[h] = p THEN NoCall ELSE call[h]]
    /\ UNCHANGED <<row, claimed, taken, calls>>

\* recoverPersistedSessions: refresh, markInterrupted, refresh.
Boot(p) ==
    /\ mode[p] = "down"
    /\ mode' = [mode EXCEPT ![p] = "booting"]
    /\ cache' = [cache EXCEPT ![p] = row]
    /\ UNCHANGED <<row, claimed, taken, control, tail, seen, exec, call, calls,
                   crashes>>

\* createInterruptedRecord
GivenBack(nodes) ==
    [k \in Phases |-> IF nodes[k] = "running" THEN "pending" ELSE nodes[k]]
InterruptedRecord(r) ==
    [r EXCEPT !.status = "paused", !.restart = TRUE, !.nodes = GivenBack(@)]

Interruptible(r) == IF r = NoSession THEN FALSE
                    ELSE r.status = "running" /\ r.recoveries \notin taken

\* The claim on the recovery count and the interrupted record are written
\* together, or not at all.
MarkInterrupted(p) ==
    LET r == cache[p] IN
    /\ mode[p] = "booting"
    /\ mode' = [mode EXCEPT ![p] = "serving"]
    /\ \/ /\ Interruptible(r)
          /\ taken' = taken \cup {r.recoveries}
          /\ row' = InterruptedRecord(r)
          /\ cache' = [cache EXCEPT ![p] = InterruptedRecord(r)]
       \/ /\ ~Interruptible(r)
          /\ cache' = [cache EXCEPT ![p] = row]
          /\ UNCHANGED <<row, taken>>
    /\ UNCHANGED <<claimed, control, tail, seen, exec, call, calls, crashes>>

-----------------------------------------------------------------------------
ExecutionStep(p) ==
    \/ \E outcome \in {"done", "error", "abort"} : PhaseEnds(p, outcome)
    \/ SettleSelect(p)
    \/ \E over \in BOOLEAN : SettleApply(p, over) \/ WriteExecution(p, over)

CallStep(h) ==
    \/ Stop(h) \/ NoClaim(h)
    \/ \E over \in BOOLEAN : Claim(h, over)
    \/ WriteCall(HomeOf[h], h)

Next ==
    \/ \E p \in Procs :
        \/ \E over \in BOOLEAN : Run(p, over)
        \/ ExecutionStep(p) \/ SelectForWrite(p)
        \/ Crash(p) \/ Boot(p) \/ MarkInterrupted(p)
    \/ \E h \in Handlers :
        \/ \E kind \in Kind, c \in 0..MaxPhase : Ask(h, kind, c)
        \/ CallStep(h)

Spec == Init /\ [][Next]_vars

\* Phases are bounded services, database calls are answered, and a process that
\* died is started again.  Nobody has to ask for anything.
SessionFairness ==
    /\ \A p \in Procs :
        /\ WF_vars(ExecutionStep(p)) /\ WF_vars(SelectForWrite(p))
        /\ WF_vars(Boot(p)) /\ WF_vars(MarkInterrupted(p))
    /\ \A h \in Handlers : WF_vars(CallStep(h))

-----------------------------------------------------------------------------
(***************************************************************************)
(* Properties                                                              *)
(***************************************************************************)

SessionTypeOK ==
    /\ row \in Row
    /\ claimed \subseteq Nat /\ taken \subseteq Nat
    /\ mode \in [Procs -> {"down", "booting", "serving"}]
    /\ cache \in [Procs -> Row]
    /\ control \in [Procs -> {"none", "live", "aborted"}]
    /\ tail \in [Procs -> Seq(Handlers \cup {"exec"})]
    /\ seen \in [Procs -> [selected: BOOLEAN, row: Row]]
    /\ exec \in [Procs -> Execution]
    /\ call \in [Handlers -> Call]
    /\ calls \in 0..MaxCalls /\ crashes \in 0..MaxCrashes

\* A session that was paused, cancelled or has ended is moved by a request only,
\* one that claims a new generation or one that had found it running: never by
\* the execution that is still unwinding, whose phase may end, fail or be
\* checkpointed at any time around the stop.
Moves(h) == \/ call[h].at = "write"
            \/ call[h].at = "selected" /\ call[h].kind \in {"resume", "recover"}
StoppedStaysStopped ==
    [][row # NoSession /\ row.status # "running" /\ row'.status # row.status
          => \E h \in Handlers : Moves(h) /\ call'[h] # call[h]]_vars

\* While a session runs, no write of its generation loses one of its
\* checkpoints: neither a pause or a cancel that raced the end of a phase, with
\* the record of before, nor the execution, nor a restart.
Extends(s, t) == Len(s) <= Len(t) /\ SubSeq(t, 1, Len(s)) = s
CheckpointsKept ==
    [][row # NoSession /\ row.status = "running" /\ row'.generation = row.generation
          => Extends(row.checkpoints, row'.checkpoints)]_vars

\* A process that ends its restart leaves no running session in the row.
BootFindsNone ==
    \A p \in Procs : mode[p] = "booting" /\ mode'[p] = "serving"
        => row' = NoSession \/ row'.status # "running"

\* Once the only process has restarted, nothing is left running without an
\* execution: its recovery claim is never one an earlier restart has taken.
RestartLeavesNoneRunning == [][BootFindsNone]_vars

\* A session that is stopped gets rid of its execution.
StopUnwinds ==
    []<>(\A p \in Procs : exec[p].at = "idle" \/ row.status = "running")

\* "does not let an old paused executor overwrite a resumed generation"
\* (orchestrator/AutonomousOrchestrator.test.ts:319): the generation stored
\* only grows.
GenerationKept ==
    [][row # NoSession => row'.generation >= row.generation]_vars
=============================================================================
