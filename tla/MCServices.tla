------------------------------ MODULE MCServices ------------------------------
(* The services that share nothing, one of them in each behaviour.           *)
EXTENDS MCAutonomousSession, PipelineEngine, JobEngine, ExecutionPool,
        GenerationQueue, PipelinePlanner, PlanExecution, TLC

CONSTANTS j1, j2, j3, w1, w2, w3

VARIABLE service  \* the service that runs

Priorities == (j1 :> 1) @@ (j2 :> 2) @@ (j3 :> 2)

\* Every pipeline of three agents and, of four, those with five dependencies
\* where a walk that comes by 1 has two branches; of two agents also those with
\* a dependency they do not define, and the empty one.
EdgesOf(f) == UNION {{<<a, b>> : b \in f[a]} : a \in DOMAIN f}
SmallPipelines ==
    {<<>>} \cup [1..2 -> SUBSET (1..3)] \cup [1..3 -> SUBSET (1..3)]
    \cup {f \in [1..4 -> SUBSET (1..4)] : Cardinality(EdgesOf(f)) = 5
                                        /\ {2, 3} \subseteq f[1]
                                        /\ \A a \in 1..4 : a \notin f[a]}
\* Three branches that meet, one of two tasks.
Meeting == {(1 :> {}) @@ (2 :> {1}) @@ (3 :> {1}) @@ (4 :> {2}) @@ (5 :> {3, 4})}

servicesVars == <<service, vars, pipelineVars, jobVars, poolVars, genVars,
                  plannerVars, planVars>>

ServicesInit ==
    /\ service \in {"sessions", "pipelines", "jobs", "pool", "generations",
                   "planner", "plans"}
    /\ Init /\ PipelineInit /\ JobInit /\ PoolInit /\ GenInit
    /\ PlannerInit /\ (service # "planner" => definition = <<>>)
    /\ PlanInit

ServicesNext ==
    /\ \/ /\ service = "sessions" /\ Next
          /\ UNCHANGED <<pipelineVars, jobVars, poolVars, genVars, plannerVars, planVars>>
       \/ /\ service = "pipelines" /\ PipelineNext
          /\ UNCHANGED <<vars, jobVars, poolVars, genVars, plannerVars, planVars>>
       \/ /\ service = "jobs" /\ JobNext
          /\ UNCHANGED <<vars, pipelineVars, poolVars, genVars, plannerVars, planVars>>
       \/ /\ service = "pool" /\ PoolNext
          /\ UNCHANGED <<vars, pipelineVars, jobVars, genVars, plannerVars, planVars>>
       \/ /\ service = "generations" /\ GenNext
          /\ UNCHANGED <<vars, pipelineVars, jobVars, poolVars, plannerVars, planVars>>
       \/ /\ service = "planner" /\ PlannerNext
          /\ UNCHANGED <<vars, pipelineVars, jobVars, poolVars, genVars, planVars>>
       \/ /\ service = "plans" /\ PlanNext
          /\ UNCHANGED <<vars, pipelineVars, jobVars, poolVars, genVars, plannerVars>>
    /\ UNCHANGED service

ServicesSpec ==
    /\ ServicesInit /\ [][ServicesNext]_servicesVars
    /\ SessionFairness /\ PipelineFairness /\ JobFairness /\ PoolFairness /\ PlanFairness

\* Every variable has its type.
ServicesTypeOK ==
    /\ SessionTypeOK /\ PipelineTypeOK /\ JobTypeOK /\ PoolTypeOK /\ GenTypeOK
    /\ PlannerTypeOK /\ PlanTypeOK

\* Both queues of jobs hold what their tables say is queued, each job once.
QueuesAreExact == QueueIsExact /\ GenQueueIsExact

\* What was taken on comes to rest: the jobs, the jobs of the pool, the plans.
AllWorkEnds == JobsEnd /\ JobsSettle /\ PlansEnd
=============================================================================
