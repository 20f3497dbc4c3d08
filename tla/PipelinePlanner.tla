--------------------------- MODULE PipelinePlanner ---------------------------
(***************************************************************************)
(* PlannerEngine.createPlan over a PipelineDefinition: the definition is   *)
(* validated, its cycles found by findCycleMembers (Tarjan's strongly      *)
(* connected components, with a work list instead of recursion), and a     *)
(* request may only narrow it.                                             *)
(*                                                                         *)
(* The order of the nodes and of their dependencies, which is the author's *)
(* of the definition, is left open.                                        *)
(***************************************************************************)
EXTENDS Naturals, Sequences, FiniteSets

CONSTANTS
    Agents,       \* agent names
    Defined,      \* those an agent definition lets a pipeline run
    Definitions,  \* pipelines: an agent of the pipeline |-> its deps
    Requests      \* what goals may ask for

ASSUME PlannerConstantsOK ==
    /\ Defined \subseteq Agents
    /\ \A f \in Definitions :
        DOMAIN f \subseteq Agents /\ \A a \in DOMAIN f : f[a] \subseteq Agents
    /\ Requests \subseteq SUBSET Agents

VARIABLES
    definition,  \* the pipeline that is validated
    index,       \* index: agent |-> the order in which the walk opened it, from 0
    lowlink,
    stack,       \* componentStack
    work,        \* the frames of the walk: an agent and its deps to follow
    members,     \* agents found on a cycle
    plan         \* the agents of the plan: none before it is made, or when it
                 \* is refused

plannerVars == <<definition, index, lowlink, stack, work, members, plan>>

Declared == DOMAIN definition
Opened == DOMAIN index
Stacked == {stack[i] : i \in DOMAIN stack}
Smaller(m, n) == IF m < n THEN m ELSE n
Last(s) == s[Len(s)]
Front(s) == SubSeq(s, 1, Len(s) - 1)

PlannerInit ==
    /\ definition \in Definitions
    /\ index = <<>> /\ lowlink = <<>> /\ stack = <<>> /\ work = <<>>
    /\ members = {} /\ plan = {}

-----------------------------------------------------------------------------
(***************************************************************************)
(* findCycleMembers                                                        *)
(***************************************************************************)

\* open: a also becomes the last frame of w.
Open(a, w) ==
    LET counter == Cardinality(Opened)
    IN  /\ index' = [b \in Opened \cup {a} |-> IF b = a THEN counter ELSE index[b]]
        /\ lowlink' = [b \in Opened \cup {a} |-> IF b = a THEN counter ELSE lowlink[b]]
        /\ stack' = Append(stack, a)
        \* A dependency the pipeline does not define is no edge.
        /\ work' = Append(w, [agent |-> a, deps |-> definition[a] \cap Declared])

Begin(a) ==
    /\ work = <<>> /\ a \in Declared \ Opened
    /\ Open(a, work)
    /\ UNCHANGED <<definition, members, plan>>

Followed(d) == [work EXCEPT ![Len(work)].deps = @ \ {d}]

\* Mutant: an edge to an agent opened before is passed over, as if it could
\* only lead where the walk has been.
LoweredNever(a, d) == lowlink
\* The lowlink of a once its edge to d, opened before, is seen.
Lowered(a, d) ==
    IF d \in Stacked THEN [lowlink EXCEPT ![a] = Smaller(@, index[d])] ELSE lowlink

Follow(d) ==
    /\ work # <<>> /\ d \in Last(work).deps
    /\ IF d \in Opened
       THEN /\ lowlink' = Lowered(Last(work).agent, d)
            /\ work' = Followed(d)
            /\ UNCHANGED <<index, stack>>
       ELSE Open(d, Followed(d))
    /\ UNCHANGED <<definition, members, plan>>

\* What stands on the stack from a on.
Component(a) == {b \in Stacked : index[b] >= index[a]}
Below(a) == SubSeq(stack, 1, Len(stack) - Cardinality(Component(a)))

\* A single agent is on a cycle when it depends on itself.
OnCycle(C) ==
    IF Cardinality(C) > 1 THEN C ELSE {a \in C : a \in definition[a]}

LeaveAgent ==
    /\ work # <<>> /\ Last(work).deps = {}
    /\ LET a == Last(work).agent
           rest == Front(work)
       IN  /\ work' = rest
           /\ lowlink' = IF rest = <<>> THEN lowlink
                         ELSE [lowlink EXCEPT ![Last(rest).agent] =
                                 Smaller(@, lowlink[a])]
           /\ IF lowlink[a] = index[a]
              THEN /\ stack' = Below(a)
                   /\ members' = members \cup OnCycle(Component(a))
              ELSE UNCHANGED <<stack, members>>
    /\ UNCHANGED <<definition, index, plan>>

WalkIsOver == work = <<>> /\ Declared \subseteq Opened

-----------------------------------------------------------------------------
(***************************************************************************)
(* selectPipelineNodes                                                     *)
(***************************************************************************)

\* validatePipelineDefinition finds nothing.
DefinitionIsSound ==
    /\ Declared # {}
    /\ Declared \subseteq Defined
    /\ \A a \in Declared : definition[a] \subseteq Declared
    /\ members = {}

\* A request may only narrow, and keeps what it depends on.
RequestIsSound(request) ==
    /\ request # {} /\ request \subseteq Declared
    /\ \A a \in request : definition[a] \subseteq request

CreatePlan(request) ==
    /\ WalkIsOver /\ plan = {}
    /\ DefinitionIsSound /\ RequestIsSound(request)
    /\ plan' = request
    /\ UNCHANGED <<definition, index, lowlink, stack, work, members>>

PlannerNext ==
    \/ \E a \in Agents : Begin(a) \/ Follow(a)
    \/ LeaveAgent
    \/ \E request \in Requests \cup {Declared} : CreatePlan(request)

PlannerSpec == PlannerInit /\ [][PlannerNext]_plannerVars

-----------------------------------------------------------------------------
(***************************************************************************)
(* Properties                                                              *)
(***************************************************************************)

PlannerTypeOK ==
    /\ definition \in Definitions
    /\ Opened \subseteq Declared /\ DOMAIN lowlink = Opened
    /\ \A a \in Opened : index[a] \in Nat /\ lowlink[a] \in 0..index[a]
    /\ stack \in Seq(Opened) /\ work \in Seq([agent: Opened, deps: SUBSET Declared])
    /\ members \subseteq Opened /\ plan \subseteq Declared

\* The agents a reaches by one or more dependencies, by the definition: those
\* in every set that has the deps of a and of its own members.
Reaches(a) ==
    {c \in Declared : \A S \in SUBSET Declared :
        (\A b \in S \cup {a} : definition[b] \cap Declared \subseteq S) => c \in S}

\* When the walk is over, the agents it reports are those on a cycle: each one
\* that can be reached from itself, on whichever branch, and no other.  A plan
\* that is handed out is closed and has no cycle: every task can become ready.
CyclesExact ==
    /\ WalkIsOver => members = {a \in Declared : a \in Reaches(a)}
    /\ \A a \in plan : definition[a] \subseteq plan /\ a \notin Reaches(a)
=============================================================================
