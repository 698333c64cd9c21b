------------------------------- MODULE Kernel -------------------------------
(***************************************************************************)
(* The synchronous kernel: RuntimeEngine and its event bus over            *)
(* CentralOrchestrator.handle, with the doctrine and control gates, the    *)
(* state machine (StateContext), the agent layer and the memory.  A client *)
(* builds a plan and submits it; ticks handle one event each.              *)
(*                                                                         *)
(* handle is synchronous, so an action is a whole call of it.  Drift is in *)
(* thousandths.  Of the memory only the newest record is kept; what the    *)
(* observer logs is left out.                                              *)
(***************************************************************************)
EXTENDS ExecutionGraph

CONSTANTS
    MaxNodes,       \* bound: steps of a plan
    MaxEdges,       \* bound: dependencies of a plan
    Submitted,      \* bound: the plans the engine is started with
    Priorities,     \* EventPriority, or those the client uses
    Capability,     \* agents and what they can do: [agent -> SUBSET capability]
    MaxPending      \* bound: events on the bus

ASSUME BoundsAssumption ==
    MaxNodes \in Nat /\ MaxEdges \in Nat /\ MaxPending \in Nat \ {0}
ASSUME PriorityAssumption ==
    Priorities \subseteq {"CRITICAL", "HIGH", "MEDIUM", "LOW"}
ASSUME AgentAssumption ==
    IsFiniteSet(DOMAIN Capability)

VARIABLES
    plan,           \* the payload of the client's plan
    running,        \* RuntimeEngine.running
    bus,            \* EventBus._queue
    state,          \* StateContext.current
    expired,        \* time_in_current_state exceeds the timeout of the state
    drift,          \* DriftInterface._drift_score
    graph,          \* CentralOrchestrator.execution_graph
    agents,         \* AgentRuntimeAdapter._agents: status and current task
    tasks,          \* AgentExecutor._tasks
    memory          \* the result in the newest MemoryRecord

engine == <<plan, running, bus>>
layers == <<graph, agents, tasks>>
kvars == <<engine, state, expired, drift, layers, memory>>

Agent == DOMAIN Capability

-----------------------------------------------------------------------------
(* The bus *)

Categories == {"EXECUTION_PLAN", "AGENT_DISPATCH", "STATE_TRANSITION",
               "OBSERVATION", "SYSTEM_BOOT", "ERROR"}

\* lawful: every law registered with the doctrine engine holds of the event.
\* detail: the target state of a transition, the capability of a dispatch.
Event(category, priority, lawful, detail) ==
    [category |-> category, priority |-> priority, lawful |-> lawful,
     detail |-> detail]

BootEvent == Event("SYSTEM_BOOT", "MEDIUM", TRUE, "")

-----------------------------------------------------------------------------
(* The state machine *)

\* Mutant: a recovery can only give up.
MatrixWithoutReplan ==
    [IDLE       |-> {"PLANNING"},
     PLANNING   |-> {"EXECUTING"},
     EXECUTING  |-> {"EXECUTING", "VERIFYING", "RECOVERING", "FAILED"},
     VERIFYING  |-> {"COMPLETED", "RECOVERING"},
     RECOVERING |-> {"FAILED", "IDLE"},
     FAILED     |-> {"IDLE"},
     COMPLETED  |-> {"IDLE"}]

TransitionMatrix ==
    [IDLE       |-> {"PLANNING"},
     PLANNING   |-> {"EXECUTING"},
     EXECUTING  |-> {"EXECUTING", "VERIFYING", "RECOVERING", "FAILED"},
     VERIFYING  |-> {"COMPLETED", "RECOVERING"},
     RECOVERING |-> {"PLANNING", "FAILED", "IDLE"},
     FAILED     |-> {"IDLE"},
     COMPLETED  |-> {"IDLE"}]

RuntimeState == DOMAIN TransitionMatrix

\* The states with a finite timeout.
Timed == {"PLANNING", "EXECUTING", "VERIFYING", "RECOVERING"}

\* transition, on a context c = [state, expired].  A state that has timed
\* out refuses, and so is never left again.
Transition(c, target) ==
    IF target \in TransitionMatrix[c.state] \ {c.state} /\ ~c.expired
    THEN [state |-> target, expired |-> FALSE]
    ELSE c

Context == [state |-> state, expired |-> expired]

\* One target after the other.
Through(targets) ==
    LET c[i \in 0..Len(targets)] ==
            IF i = 0 THEN Context ELSE Transition(c[i - 1], targets[i])
    IN  c[Len(targets)]

MoveTo(c) == state' = c.state /\ expired' = c.expired

-----------------------------------------------------------------------------
(* The gates *)

Risk == [CRITICAL |-> 1000, HIGH |-> 750, MEDIUM |-> 400, LOW |-> 100]

DriftThreshold == 300
DriftLimit == 800

\* The score after DriftInterface.check.  The sum is a float: where it is
\* the limit exactly, rounding may take it above.  Above the limit every
\* score is alike.
DriftAfter(event) ==
    LET sum == drift + Risk[event.priority] \div 10
    IN  IF Risk[event.priority] <= DriftThreshold THEN {drift}
        ELSE IF sum = DriftLimit THEN {sum, sum + 1}
        ELSE {IF sum > DriftLimit THEN DriftLimit + 1 ELSE sum}

\* DoctrineEngine.validate, then ControlAdapter.evaluate.  Nobody consumes
\* from the budget or updates the stability score, so both let all pass.
Gates(event) ==
    \/ ~event.lawful /\ UNCHANGED drift
    \/ event.lawful /\ drift' \in DriftAfter(event)

Blocked(event) == ~event.lawful \/ drift' > DriftLimit

-----------------------------------------------------------------------------
(* The agent layer *)

IdleAgent == [status |-> "IDLE", task |-> 0]

Available == {a \in Agent : agents[a].status = "IDLE"}

\* dispatch to each agent of a sequence: a new running task, and the agent
\* activated on it.  Only available agents are dispatched to, so that
\* activate does not fail.
Dispatch(names) ==
    /\ tasks' = tasks \o [i \in DOMAIN names |->
                             [agent |-> names[i], status |-> "running"]]
    /\ agents' = [a \in Agent |->
                     IF a \in ToSet(names)
                     THEN [status |-> "ACTIVATED",
                           task |-> Len(tasks) + CHOOSE i \in DOMAIN names : names[i] = a]
                     ELSE agents[a]]

\* route: all policies are registered with priority 0, so the first of the
\* available agents with the capability; any one, their order being free.
Route(capability) == {a \in Available : capability \in Capability[a]}

ProcessEvent(capability) ==
    \/ \E a \in Route(capability) : Dispatch(<<a>>)
    \/ Route(capability) = {} /\ UNCHANGED <<agents, tasks>>

\* process_graph asks every available agent.
ProcessGraph == Dispatch(SetToSeq(Available))

\* complete_task: the first task of that id, whatever its status is.
CompleteTask(i) ==
    /\ tasks' = [tasks EXCEPT ![i].status = "completed"]
    /\ agents' = [agents EXCEPT ![tasks[i].agent] =
                     [status |-> "COMPLETED", task |-> 0]]
    /\ UNCHANGED <<engine, state, expired, drift, graph, memory>>

\* Mutant: the agent is free for other work.
FailTaskReleases(i) ==
    /\ tasks' = [tasks EXCEPT ![i].status = "failed"]
    /\ agents' = [agents EXCEPT ![tasks[i].agent] = IdleAgent]
    /\ UNCHANGED <<engine, state, expired, drift, graph, memory>>

\* fail_task leaves the agent as it is.
FailTask(i) ==
    /\ tasks' = [tasks EXCEPT ![i].status = "failed"]
    /\ UNCHANGED <<engine, state, expired, drift, graph, agents, memory>>

-----------------------------------------------------------------------------
(* CentralOrchestrator.handle *)

Remember(result) == memory' = result

HandleBlocked(event) ==
    /\ Blocked(event)
    /\ Remember("blocked")
    /\ UNCHANGED <<state, expired, layers>>

\* _build_execution_graph returned None: PLANNING, from where the transition
\* to FAILED is forbidden; nothing is remembered.
HandleRefusedPlan(event) ==
    /\ event.category = "EXECUTION_PLAN"
    /\ ~Validates(plan)
    /\ MoveTo(Through(<<"PLANNING", "FAILED">>))
    /\ UNCHANGED <<layers, memory>>

\* The transitions are tried one after the other and their answers ignored;
\* the nodes of a graph that validates sort, and all of them succeed.
HandlePlan(event) ==
    /\ event.category = "EXECUTION_PLAN"
    /\ Validates(plan)
    /\ graph' = plan
    /\ ProcessGraph
    /\ MoveTo(Through(<<"PLANNING", "EXECUTING", "VERIFYING", "COMPLETED">>))
    /\ Remember("success")

HandleDispatch(event) ==
    /\ event.category = "AGENT_DISPATCH"
    /\ ProcessEvent(event.detail)
    /\ Remember("agent_outputs")
    /\ UNCHANGED <<state, expired, graph>>

HandleTransition(event) ==
    /\ event.category = "STATE_TRANSITION"
    /\ MoveTo(IF event.detail \in RuntimeState
              THEN Transition(Context, event.detail) ELSE Context)
    /\ UNCHANGED <<layers, memory>>

HandleObservation(event) ==
    /\ event.category = "OBSERVATION"
    /\ Remember("observed")
    /\ UNCHANGED <<state, expired, layers>>

HandleSystemEvent(event) ==
    /\ event.category = "SYSTEM_BOOT"
    /\ UNCHANGED <<state, expired, layers, memory>>

HandleOther(event) ==
    /\ event.category = "ERROR"
    /\ Remember("processed")
    /\ UNCHANGED <<state, expired, layers>>

Handle(event) ==
    /\ Gates(event)
    /\ \/ HandleBlocked(event)
       \/ /\ ~Blocked(event)
          /\ \/ HandleRefusedPlan(event)
             \/ HandlePlan(event)
             \/ HandleDispatch(event)
             \/ HandleTransition(event)
             \/ HandleObservation(event)
             \/ HandleSystemEvent(event)
             \/ HandleOther(event)

-----------------------------------------------------------------------------
(* RuntimeEngine *)

Publish(event) ==
    /\ Len(bus) < MaxPending
    /\ bus' = Append(bus, event)

Start ==
    /\ plan \in Submitted
    /\ running' = TRUE
    /\ Publish(BootEvent)
    /\ UNCHANGED <<plan, state, expired, drift, layers, memory>>

Tick ==
    /\ running
    /\ bus # <<>>
    /\ bus' = Tail(bus)
    /\ Handle(Head(bus))
    /\ UNCHANGED <<plan, running>>

\* stop publishes an event that no tick of this run will handle.
Stop ==
    /\ running
    /\ running' = FALSE
    /\ Publish(BootEvent)
    /\ UNCHANGED <<plan, state, expired, drift, layers, memory>>

\* What the rest of the program publishes: submit, which publishes a plan,
\* and the events of the other categories.
Details(category) ==
    CASE category = "STATE_TRANSITION" -> RuntimeState \cup {""}
      [] category = "AGENT_DISPATCH"   -> UNION {Capability[a] : a \in Agent}
      [] OTHER                         -> {""}

\* Of an unlawful event nothing else is read.
Unlawful == Event("ERROR", "LOW", FALSE, "")

Submit ==
    /\ running
    /\ \/ \E c \in Categories, p \in Priorities :
             \E d \in Details(c) : Publish(Event(c, p, TRUE, d))
       \/ Publish(Unlawful)
    /\ UNCHANGED <<plan, running, state, expired, drift, layers, memory>>

\* The client writes its plan before the engine is started.  A step without
\* an id is numbered; one with a known id replaces that step.
BuildPlan ==
    /\ ~running
    /\ bus = <<>>
    /\ \/ \E n \in 1..Len(plan.order) + 1, mutable \in BOOLEAN :
             /\ n <= MaxNodes
             /\ plan' = AddNode(plan, n, mutable)
       \/ /\ Len(plan.edges) < MaxEdges
          /\ \E a, b \in Nodes(plan) : plan' = AddEdge(plan, a, b)
    /\ UNCHANGED <<running, bus, state, expired, drift, layers, memory>>

\* Time passes in a state that has a timeout.
Linger ==
    /\ state \in Timed
    /\ expired' = TRUE
    /\ UNCHANGED <<engine, state, drift, layers, memory>>

KInit ==
    /\ plan = EmptyGraph
    /\ running = FALSE
    /\ bus = <<>>
    /\ state = "IDLE"
    /\ expired = FALSE
    /\ drift = 0
    /\ graph = EmptyGraph
    /\ agents = [a \in Agent |-> IdleAgent]
    /\ tasks = <<>>
    /\ memory = "none"

KNext ==
    \/ BuildPlan
    \/ Start
    \/ Tick
    \/ Stop
    \/ Submit
    \/ Linger
    \/ \E i \in DOMAIN tasks : CompleteTask(i) \/ FailTask(i)

KSpec == KInit /\ [][KNext]_kvars

-----------------------------------------------------------------------------
(* Properties *)

\* Whatever plan a client builds, the four graph algorithms agree with each
\* other and with reachability: what validate accepts, topological_sort can
\* order, parallel_safe_batches can schedule, and critical_path ends on.
\* (Once the engine runs, the plan changes no more.)
GraphAlgorithmsAgree ==
    \/ running
    \/ CyclesAgree(plan) /\ (IsAcyclic(plan) => OrdersAgree(plan))

PlanRan ==
    /\ Len(bus') < Len(bus)
    /\ bus[1].category = "EXECUTION_PLAN"
    /\ ~Blocked(bus[1])
    /\ Validates(plan)

\* Although _handle_execution_plan ignores what transition answers, a plan
\* that ran leaves the machine in COMPLETED from whichever state a sequence
\* of events and recoveries had brought it to, FAILED and a state that had
\* timed out excepted; in those two it stays.
PlanEndsCompleted ==
    [][PlanRan => IF state = "FAILED" \/ expired
                  THEN state' = state
                  ELSE state' = "COMPLETED"]_kvars

\* A task that is running has its agent, activated on that very task: no
\* sequence of dispatches, completions and failures gives the agent to two
\* tasks or takes it from a running one.
TaskHoldsAgent ==
    \A i \in DOMAIN tasks :
        tasks[i].status = "running"
            => agents[tasks[i].agent] = [status |-> "ACTIVATED", task |-> i]

=============================================================================
