------------------------------- MODULE Scheduler -------------------------------
(***************************************************************************)
(* AbstractSchedulerEngine (src/src/abstractschedulerengine.cpp): the      *)
(* queues of the master, the control of runScheduler and what the end of a *)
(* task does to the table of tasks.  allocate and waitForAnyWorker are     *)
(* pure virtual there: a module that EXTENDS this one supplies them and    *)
(* the next-state relation.                                                *)
(***************************************************************************)
EXTENDS TaskTable

CONSTANT NWorkers   \* nworkers, the number of workers

\* AbstractEngine::init leaves the engine not ready without a worker.
ASSUME NWorkersAssumption == NWorkers \in Nat \ {0}

VARIABLES
  pc,             \* where runScheduler stands
  freeWorkers,    \* queue of free worker ids
  taskQueue,      \* queue of the tasks ready to be allocated
  blockedTasks,   \* tasks waiting for a dependency
  taskAssignation \* worker -> task it was last given (0: none yet)

schedVars ==
  << pc, taskState, dependencies, retries, validTasks, revDepMap, freeWorkers,
     taskQueue, blockedTasks, taskAssignation >>

Workers == 1..NWorkers

\* The elements of a finite set of ids in increasing order: the order in which
\* the code walks a set<int>, and the order of a revDepMap list.
Ascending(S) ==
  CHOOSE s \in Bijection(1..Cardinality(S), S) :
    \A i, j \in 1..Cardinality(S) : i < j => s[i] < s[j]

SchedInit ==
  /\ TableInit
  /\ freeWorkers = [ i \in Workers |-> i ]
  /\ taskQueue = << >>
  /\ blockedTasks = {}
  /\ taskAssignation = [ w \in Workers |-> 0 ]
  /\ pc = "start"

-------------------------------------------------------------------------------
(* The control of runScheduler                                             *)

\* Before the main loop: the waiting tasks are queued, the blocked ones set
\* aside.
FillQueue ==
  /\ pc = "start"
  /\ taskQueue' = Ascending({ t \in validTasks : taskState[t] = "waiting" })
  /\ blockedTasks' = { t \in validTasks : taskState[t] = "blocked" }
  /\ pc' = "schedule"
  /\ UNCHANGED << taskState, dependencies, retries, validTasks, revDepMap,
                  freeWorkers, taskAssignation >>

\* The points of the loop where allocate is called on the head of the queue.
MustAllocate ==
  /\ pc = "schedule"
  /\ taskQueue # << >>
  /\ freeWorkers # << >>

\* The points where waitForAnyWorker is called: every worker is busy, or only
\* blocked tasks are left, or the last tasks are still running.
MustWait ==
  \/ pc = "schedule" /\ taskQueue # << >> /\ freeWorkers = << >>
  \/ pc = "schedule" /\ taskQueue = << >> /\ blockedTasks # {}
  \/ pc = "drain" /\ Len(freeWorkers) # NWorkers

\* The main loop ends.
LeaveLoop ==
  /\ pc = "schedule"
  /\ taskQueue = << >>
  /\ blockedTasks = {}
  /\ pc' = "drain"
  /\ UNCHANGED << taskState, dependencies, retries, validTasks, revDepMap,
                  freeWorkers, taskQueue, blockedTasks, taskAssignation >>

\* Wrong: runScheduler returns once everything is allocated.
ReturnEarly ==
  /\ pc = "drain"
  /\ pc' = "done"
  /\ UNCHANGED << taskState, dependencies, retries, validTasks, revDepMap,
                  freeWorkers, taskQueue, blockedTasks, taskAssignation >>

\* Every worker is free again: runScheduler returns.
Return ==
  /\ pc = "drain"
  /\ Len(freeWorkers) = NWorkers
  /\ pc' = "done"
  /\ UNCHANGED << taskState, dependencies, retries, validTasks, revDepMap,
                  freeWorkers, taskQueue, blockedTasks, taskAssignation >>

-------------------------------------------------------------------------------
(* taskEpilogue and updateDependencies                                     *)

\* Wrong: a dependant is queued when its first dependency is gone.
AllOf(kids, deps) == kids

\* The dependants that are left without dependencies.
ReadyOf(kids, deps) == { c \in kids : deps[c] = {} }

\* setTaskState(completed); updateDependencies(t): t is removed from the
\* dependencies of its dependants, and those left without any leave the
\* blocked set for the queue, whatever their state.
Complete(t) ==
  LET kids  == revDepMap[t]
      deps  == [ c \in TaskId |-> IF c \in kids
                                  THEN DepsAfterRemove(dependencies[c], t)
                                  ELSE dependencies[c] ]
      ready == ReadyOf(kids, deps)
  IN  /\ dependencies' = deps
      /\ taskState' = [ c \in TaskId |->
                          IF c = t THEN "completed"
                          ELSE IF c \in kids
                               THEN StateAfterRemove(taskState[c], deps[c])
                               ELSE taskState[c] ]
      /\ blockedTasks' = blockedTasks \ ready
      /\ taskQueue' = taskQueue \o Ascending(ready)

\* setTaskState(failed); updateDependencies(t): everything that depends on t,
\* directly or not, is cancelled, whatever its state.
Fail(t) ==
  LET gone == Descendants(t)
  IN  /\ taskState' = [ c \in TaskId |->
                          IF c \in gone THEN "cancelled"
                          ELSE IF c = t THEN "failed" ELSE taskState[c] ]
      /\ blockedTasks' = blockedTasks \ gone
      /\ UNCHANGED << dependencies, taskQueue >>

-------------------------------------------------------------------------------
(* Invariants of the master's tables, common to the engines                *)

SchedTypeOK ==
  /\ pc \in {"start", "schedule", "drain", "done", "crashed"}
  /\ taskState \in [ TaskId -> TaskStates ]
  /\ dependencies \in [ TaskId -> SUBSET (Nat \ {0}) ]
  /\ retries \in [ TaskId -> 0..MaxRetries ]
  /\ validTasks \in SUBSET TaskId
  /\ revDepMap \in [ TaskId -> SUBSET TaskId ]
  /\ freeWorkers \in Seq(Workers)
  /\ taskQueue \in Seq(TaskId)
  /\ blockedTasks \in SUBSET TaskId
  /\ taskAssignation \in [ Workers -> TaskId \cup {0} ]

\* The queue holds waiting tasks, each once.
QueueOfWaiting ==
  /\ Range(taskQueue) \subseteq { t \in validTasks : taskState[t] = "waiting" }
  /\ IsInjective(taskQueue)
  /\ pc = "start" => taskQueue = << >>

\* The tables of the master agree with each other: what updateDependencies and
\* runScheduler rely on without testing it.
TablesAgree ==
  /\ BackwardOnly
  /\ DependenciesLeft
  /\ DroppedStaysOut
  /\ ReadyHasNoDependencies
  /\ CancelledByParent
  /\ QueueOfWaiting

\* Nothing the master has to come back to is missing from its queues, and they
\* are empty once the loop is left.
QueuesComplete ==
  /\ pc \in {"schedule", "drain", "done"} =>
       /\ { t \in validTasks : taskState[t] = "waiting" } \subseteq Range(taskQueue)
       /\ blockedTasks = { t \in validTasks : taskState[t] = "blocked" }
  /\ pc \in {"drain", "done"} => taskQueue = << >> /\ blockedTasks = {}

\* A task in one of these states has taken its dependants along.
LossSpreads(lost) ==
  \A t \in validTasks :
    taskState[t] \in lost => \A c \in revDepMap[t] : taskState[c] = "cancelled"

-------------------------------------------------------------------------------
(* Property every engine with a master has to have                         *)

\* Every task that has no verdict yet is in exactly one of the places the master
\* will look for it, once and in the state that belongs there; when runScheduler
\* returns, the queue and the blocked set are empty and none is left behind.
NothingLeftBehind ==
  pc \in {"schedule", "drain", "done"} =>
    /\ IsInjective(taskQueue)
    /\ Range(taskQueue) = { t \in validTasks : taskState[t] = "waiting" }
    /\ blockedTasks = { t \in validTasks : taskState[t] = "blocked" }
    /\ pc = "done" => \A t \in validTasks : taskState[t] \in FinalStates
===============================================================================
