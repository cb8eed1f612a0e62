------------------------------- MODULE TaskGraph -------------------------------
(* The task graph of a conversation: its executions as tasks, with what the   *)
(* hub's events say of their dependencies, priorities and retries             *)
(* (httpapi/handlers_run_tasks.go), the graph made of it (runtime/agentgraph/ *)
(* graph.go) and the states it shows (runtime/scheduler/scheduler.go, put     *)
(* together in runtime/application/task_read_model.go). The graph is computed *)
(* anew for every request; what changes is what it is computed from.          *)
(*                                                                            *)
(* Tasks are numbered in the order of their queue. Artifacts and error texts  *)
(* are carried along and are left out. No event of the hub carries a state by *)
(* name, nor does an execution ever have the state "retrying".                *)
EXTENDS Naturals, FiniteSets

CONSTANTS TaskCount,   \* bound: executions of the conversation
          Parallelism, \* values of max_parallelism
          MaxReports   \* bound: events and changes of state

ASSUME TaskAssumption ==
  TaskCount \in Nat /\ Parallelism \subseteq Nat /\ 1 \in Parallelism /\ MaxReports \in Nat

VARIABLES
  present,     \* the conversation's executions
  execution,   \* task -> Execution.State
  override,    \* task -> the state of the last task event, or "none"
  explicit,    \* task -> depends_on
  urgent,      \* task -> has it a priority above the default?
  retriesLeft, \* task -> is retry_count below max_retries?
  maxParallelism,
  reports

taskVars == <<present, execution, override, explicit, urgent, retriesLeft,
              maxParallelism, reports>>

TaskIds == 1..TaskCount
ExecutionStates == {"queued", "executing", "confirming", "completed", "failed", "cancelled"}

TaskInit ==
  /\ present = {}
  /\ execution = [t \in TaskIds |-> "queued"]
  /\ override = [t \in TaskIds |-> "none"]
  /\ explicit = [t \in TaskIds |-> {}]
  /\ urgent = [t \in TaskIds |-> FALSE]
  /\ retriesLeft = [t \in TaskIds |-> FALSE]
  /\ maxParallelism = 1
  /\ reports = 0
-------------------------------------------------------------------------------
(* agentgraph.ResolveTaskGraph.                                               *)

Known == [t \in present |-> (explicit[t] \cap present) \ {t}]

\* A cycle is a set of tasks each of which depends on one of them.
HasCycle_SelfOnly(depends) == \E t \in present : t \in depends[t]
HasCycle(depends) ==
  \E S \in (SUBSET present) \ {{}} : \A t \in S : depends[t] \cap S # {}

\* buildSequentialGraph: each task depends on the one before it.
Sequential ==
  [t \in present |-> {d \in present : d < t /\ \A e \in present : e <= d \/ e >= t}]

DependsOn ==
  IF (\A t \in present : Known[t] = {}) \/ HasCycle(Known) THEN Sequential ELSE Known
-------------------------------------------------------------------------------
(* BuildRunTaskGraph and scheduler.NormalizeTaskStates.                       *)

\* A task event beats the execution; then mapRunStateToTaskState.
StateOf(t) ==
  LET s == IF override[t] = "none" THEN execution[t] ELSE override[t] IN
  CASE s = "executing" -> "running"
    [] s = "confirming" -> "blocked"
    [] OTHER -> s

\* sortedTasks: the place of a task in the pass, urgent ones first.
InOrder(t) == IF urgent[t] THEN t ELSE TaskCount + t

Retries(t) == StateOf(t) = "failed" /\ retriesLeft[t]
Waits(t) == StateOf(t) \in {"queued", "blocked"} \/ Retries(t)

FreeSlots ==
  LET active == Cardinality({t \in present : StateOf(t) = "running"})
  IN  IF maxParallelism > active THEN maxParallelism - active ELSE 0

\* areDependenciesCompleted looks at the states as far as the pass has come.
DependenciesReady(states, t) == \A d \in DependsOn[t] : states[d] = "completed"

\* One task of the pass: a waiting task goes if it is ready and a slot is left,
\* and is blocked otherwise. Any other task is shown as it is.
Place(done, t) ==
  IF ~Waits(t) THEN done
  ELSE IF DependenciesReady(done.shown, t) /\ done.slots > 0
  THEN [shown |-> [done.shown EXCEPT ![t] = IF Retries(t) THEN "retrying" ELSE "queued"],
        slots |-> done.slots - 1]
  ELSE [shown |-> [done.shown EXCEPT ![t] = "blocked"], slots |-> done.slots]

\* The task whose turn it is, if there is one.
TakeTurn(done, n) ==
  IF \E t \in present : InOrder(t) = n
  THEN Place(done, CHOOSE t \in present : InOrder(t) = n)
  ELSE done

Shown ==
  LET pass[n \in 0..(2 * TaskCount)] ==
        IF n = 0 THEN [shown |-> [t \in present |-> StateOf(t)], slots |-> FreeSlots]
        ELSE TakeTurn(pass[n - 1], n)
  IN pass[2 * TaskCount].shown
-------------------------------------------------------------------------------
(* What the graph is computed from.                                           *)

Report == reports < MaxReports /\ reports' = reports + 1

\* ComposerSubmitHandler: an execution, and the events that configure its task.
Compose(t) ==
  /\ t \notin present /\ \A d \in 1..(t - 1) : d \in present
  /\ present' = present \cup {t}
  /\ execution' = [execution EXCEPT ![t] = "queued"]
  /\ override' = [override EXCEPT ![t] = "none"]
  /\ explicit' = [explicit EXCEPT ![t] = {d \in present : d = t - 1}]
  /\ urgent' = [urgent EXCEPT ![t] = FALSE]
  /\ retriesLeft' = [retriesLeft EXCEPT ![t] = FALSE]
  /\ maxParallelism' = 1
  /\ UNCHANGED reports

\* A rollback forgets the executions from t on.
Forget(t) ==
  /\ Report
  /\ t \in present /\ present' = present \cap 1..(t - 1)
  /\ UNCHANGED <<execution, override, explicit, urgent, retriesLeft, maxParallelism>>

\* The engine or the user moves the execution.
Move(t) ==
  /\ Report
  /\ t \in present /\ execution' \in {[execution EXCEPT ![t] = s] : s \in ExecutionStates}
  /\ UNCHANGED <<present, override, explicit, urgent, retriesLeft, maxParallelism>>

\* Task events: applyRunTaskExecutionMetadata, applyStructuredTaskEventMetadata.
TaskMoved(t) ==
  /\ Report
  /\ t \in present
  /\ \E s \in {"executing", "completed", "failed", "cancelled"} :
       override' = [override EXCEPT ![t] = s]
  /\ UNCHANGED <<present, execution, explicit, urgent, retriesLeft, maxParallelism>>

DependenciesUpdated(t) ==
  /\ Report
  /\ t \in present
  /\ \E deps \in SUBSET TaskIds : explicit' = [explicit EXCEPT ![t] = deps]
  /\ \E first \in BOOLEAN : urgent' = [urgent EXCEPT ![t] = first]
  /\ UNCHANGED <<present, execution, override, retriesLeft, maxParallelism>>

RetryPolicyUpdated(t) ==
  /\ Report
  /\ t \in present /\ retriesLeft' = [retriesLeft EXCEPT ![t] = ~@]
  /\ UNCHANGED <<present, execution, override, explicit, urgent, maxParallelism>>

GraphConfigured ==
  /\ Report
  /\ maxParallelism' \in Parallelism \ {0}
  /\ UNCHANGED <<present, execution, override, explicit, urgent, retriesLeft>>

TaskNext ==
  \/ \E t \in TaskIds : Compose(t) \/ Forget(t) \/ Move(t) \/ TaskMoved(t)
                        \/ DependenciesUpdated(t) \/ RetryPolicyUpdated(t)
  \/ GraphConfigured

TaskSpec == TaskInit /\ [][TaskNext]_taskVars
-------------------------------------------------------------------------------
Ready(t) == \A d \in DependsOn[t] : StateOf(d) = "completed"
Promoted == {t \in present : Waits(t) /\ Shown[t] # "blocked"}

\* The free slots go to the first ready tasks in the order of priority and of the
\* queue, and to no other: no slot is given twice, and none is kept back.
SlotsGoToTheFirstReady ==
  /\ Cardinality(Promoted) <= FreeSlots
  /\ \A t \in Promoted : Ready(t)
  /\ \A t \in present : Waits(t) /\ Ready(t) /\ t \notin Promoted =>
       /\ Cardinality(Promoted) = FreeSlots
       /\ \A p \in Promoted : urgent[p] \/ (~urgent[t] /\ p < t)

\* The tasks never block one another for good: while nothing runs, waiting tasks
\* whose dependencies are completed or among themselves mean that one may go.
NoCircularWait ==
  \A F \in (SUBSET {t \in present : Waits(t)}) \ {{}} :
    /\ \A t \in F : \A d \in DependsOn[t] : d \in F \/ StateOf(d) = "completed"
    /\ \A t \in present : StateOf(t) # "running"
    => Promoted # {}

\* What the graph promises of any request.
GraphIsFairToTasks == SlotsGoToTheFirstReady /\ NoCircularWait
===============================================================================
