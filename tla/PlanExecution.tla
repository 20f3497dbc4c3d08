---------------------------- MODULE PlanExecution ----------------------------
(***************************************************************************)
(* PlanExecutor over the TaskGraph of one plan, as POST /plan/execute uses *)
(* it: the graph stays with the router, and every request for the plan     *)
(* starts an execution over that same graph, whatever others are doing.    *)
(*                                                                         *)
(* An execution runs its tasks one after the other.  It can be overtaken   *)
(* wherever it awaits: before its first round, while an agent works (with  *)
(* the evaluation and the memory that belong to the attempt), and after a  *)
(* task has ended.  Which agent the decision engine gives a task to is     *)
(* left out.                                                               *)
(***************************************************************************)
EXTENDS Integers, FiniteSets

CONSTANTS
    Plans,          \* the plans: a task |-> its dependencies.  Tasks are
                    \* numbered by priority.  PlannerEngine validates them: a
                    \* plan has all that its tasks depend on.
    Executions,
    RetryRequests,  \* what requests say about maxRetries
    NoNumber,       \* nothing, or no number
    NoTask

NodeMaxAttempts == 3  \* PLAN_NODE_MAX_ATTEMPTS

ASSUME PlanConstantsOK ==
    /\ \A f \in Plans : /\ DOMAIN f \subseteq Nat /\ IsFiniteSet(DOMAIN f)
                        /\ \A t \in DOMAIN f : f[t] \subseteq DOMAIN f
    /\ RetryRequests \subseteq Int \cup {NoNumber}
    /\ NoNumber \notin Int /\ NoTask \notin Nat

VARIABLES
    dependencies,  \* the plan
    status,        \* status[t]: where task t is
    execution,     \* execution[x]: the execution x
    \* History variables: read by the properties, never by an action's guard.
    reached,       \* the tasks that were ever started
    made,          \* the tasks that were ever done
    overtaken,     \* whether two executions were ever under way at once
    cut            \* whether an execution ever stopped at a failure

planVars == <<dependencies, status, execution, reached, made, overtaken, cut>>

Tasks == DOMAIN dependencies

-----------------------------------------------------------------------------
TaskStatus == {"pending", "running", "done", "failed", "skipped"}

\* at: "idle" (not asked for yet), "between" two tasks, "agent", "over".
\* list: what is left of its round.  task: its current or latest task.
PlanRun == [at: {"idle", "between", "agent", "over"}, stopOnFailure: {"yes", "no"},
              limit: 1..NodeMaxAttempts, attempts: 0..(NodeMaxAttempts - 1),
              list: SUBSET Tasks, task: Tasks \cup {NoTask}]
Unasked == [at |-> "idle", stopOnFailure |-> "no", limit |-> 1, attempts |-> 0,
            list |-> {}, task |-> NoTask]

PlanInit ==
    /\ dependencies \in Plans
    /\ status = [t \in Tasks |-> "pending"]
    /\ execution = [x \in Executions |-> Unasked]
    /\ reached = {} /\ made = {} /\ overtaken = FALSE /\ cut = FALSE

UnderWay(x) == execution[x].at \in {"between", "agent"}

\* boundPlanNodeAttempts
BoundAttempts(requested) ==
    IF requested = NoNumber \/ requested < 1 THEN 1
    ELSE IF requested > NodeMaxAttempts THEN NodeMaxAttempts
    ELSE requested

Execute(x, stopOnFailure, requested) ==
    /\ execution[x].at = "idle"
    /\ execution' = [execution EXCEPT ![x] =
            [at |-> "between", stopOnFailure |-> stopOnFailure,
             limit |-> BoundAttempts(requested), attempts |-> 0, list |-> {},
             task |-> NoTask]]
    /\ overtaken' = (overtaken \/ \E y \in Executions : UnderWay(y))
    /\ UNCHANGED <<dependencies, status, reached, made, cut>>

-----------------------------------------------------------------------------
(***************************************************************************)
(* Rounds                                                                  *)
(***************************************************************************)

\* getReadyNodes
Satisfied(t) == \A d \in dependencies[t] :
                    d \in Tasks /\ status[d] \in {"done", "skipped"}
ReadyTasks == {t \in Tasks : status[t] = "pending" /\ Satisfied(t)}

\* The latest task of x is failed, when the plan is to stop at a failure.
Failed(x) == /\ execution[x].stopOnFailure = "yes" /\ execution[x].task \in Tasks
             /\ status[execution[x].task] = "failed"

\* executeNode begins for the first task of a list: the task runs, whatever it
\* was since the round began.
StartFirst(x, list) ==
    /\ \E t \in list :
        /\ \A u \in list : t <= u
        /\ status' = [status EXCEPT ![t] = "running"]
        /\ execution' = [execution EXCEPT ![x] =
                [@ EXCEPT !.at = "agent", !.attempts = 0, !.task = t, !.list = list \ {t}]]
        /\ reached' = reached \cup {t}
    /\ UNCHANGED <<dependencies, made, overtaken, cut>>

NextTask(x) ==
    /\ execution[x].at = "between" /\ ~Failed(x) /\ execution[x].list # {}
    /\ StartFirst(x, execution[x].list)

NextRound(x) ==
    /\ execution[x].at = "between" /\ ~Failed(x) /\ execution[x].list = {}
    /\ StartFirst(x, ReadyTasks)

\* Mutant: what is blocked is found task by task, when its turn comes.
BlockedByFailure ==
    {t \in Tasks : /\ status[t] = "pending"
                   /\ \E d \in dependencies[t] : d \in Tasks => status[d] = "failed"}
\* recordBlockedNodes: all that is pending, at once.
Blocked == {t \in Tasks : status[t] = "pending"}

Ends(x) ==
    /\ status' = [t \in Tasks |-> IF t \in Blocked THEN "skipped" ELSE status[t]]
    /\ execution' = [execution EXCEPT ![x].at = "over", ![x].list = {}]
    /\ UNCHANGED <<dependencies, reached, made, overtaken>>

\* Mutant: an execution goes on until its graph is complete.
FinishComplete(x) ==
    /\ execution[x].at = "between" /\ ~Failed(x) /\ execution[x].list = {}
    /\ ReadyTasks = {} /\ Blocked = {}
    /\ Ends(x)
    /\ UNCHANGED cut
\* The graph is complete, or nothing in it is ready.
FinishPlan(x) ==
    /\ execution[x].at = "between" /\ ~Failed(x) /\ execution[x].list = {}
    /\ ReadyTasks = {}
    /\ Ends(x)
    /\ UNCHANGED cut

\* Mutant: what the failure leaves unreached stays pending.
StopUnrecorded(x) ==
    /\ execution[x].at = "between" /\ Failed(x)
    /\ execution' = [execution EXCEPT ![x].at = "over"]
    /\ cut' = TRUE
    /\ UNCHANGED <<dependencies, status, reached, made, overtaken>>
StopAtFailure(x) ==
    /\ execution[x].at = "between" /\ Failed(x)
    /\ Ends(x)
    /\ cut' = TRUE

-----------------------------------------------------------------------------
(***************************************************************************)
(* The attempts of a task                                                  *)
(***************************************************************************)

\* The agent answers, and its answer is evaluated and remembered.
AgentAnswers(x) ==
    /\ execution[x].at = "agent"
    /\ status' = [status EXCEPT ![execution[x].task] = "done"]
    /\ execution' = [execution EXCEPT ![x].at = "between"]
    /\ made' = made \cup {execution[x].task}
    /\ UNCHANGED <<dependencies, reached, overtaken, cut>>

\* The agent fails, answers _failed or _skipped, or the evaluation or the
\* memory of its answer fails.
AttemptFails(x) ==
    /\ execution[x].at = "agent"
    /\ IF execution[x].attempts + 1 < execution[x].limit
       THEN /\ execution' = [execution EXCEPT ![x].attempts = @ + 1]
            /\ UNCHANGED status
       ELSE /\ execution' = [execution EXCEPT ![x].at = "between"]
            /\ status' = [status EXCEPT ![execution[x].task] = "failed"]
    /\ UNCHANGED <<dependencies, reached, made, overtaken, cut>>

PlanStep(x) ==
    \/ NextTask(x) \/ NextRound(x) \/ FinishPlan(x) \/ StopAtFailure(x)
    \/ AgentAnswers(x) \/ AttemptFails(x)

PlanNext == \E x \in Executions :
    \/ \E s \in {"yes", "no"}, r \in RetryRequests : Execute(x, s, r)
    \/ PlanStep(x)

PlanSpec == PlanInit /\ [][PlanNext]_planVars

\* Agents answer or fail, and the event loop goes on.
PlanFairness == \A x \in Executions : WF_planVars(PlanStep(x))

-----------------------------------------------------------------------------
(***************************************************************************)
(* Properties                                                              *)
(***************************************************************************)

PlanTypeOK ==
    /\ dependencies \in Plans
    /\ status \in [Tasks -> TaskStatus]
    /\ execution \in [Executions -> PlanRun]
    /\ reached \subseteq Tasks /\ made \subseteq Tasks
    /\ overtaken \in BOOLEAN /\ cut \in BOOLEAN

\* No task was ever started before everything it builds on was done: not after
\* a failure, although a skipped dependency counts as satisfied, and not when
\* several executions mark the same graph.
PlanInOrder == \A t \in reached : dependencies[t] \subseteq made

AllOver == \A x \in Executions : ~UnderWay(x)
Asked == \E x \in Executions : execution[x].at # "idle"

\* When the executions of a plan are over, no task is left running or pending.
\* Without another execution beside it, and unless it had to stop at a failure,
\* a task is skipped only behind one that failed: when no task failed, every
\* task is done.
PlanAccountsForAll ==
    AllOver /\ Asked =>
        /\ \A t \in Tasks : status[t] \in {"done", "failed", "skipped"}
        /\ ~overtaken /\ ~cut =>
            \A t \in Tasks : status[t] = "skipped" =>
                \E d \in dependencies[t] : status[d] \in {"failed", "skipped"}

\* Every execution of a plan ends.
PlansEnd == []<>AllOver
=============================================================================
