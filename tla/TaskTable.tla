------------------------------- MODULE TaskTable -------------------------------
(***************************************************************************)
(* The table of tasks of an engine (AbstractEngine, src/src/               *)
(* abstractengine.cpp): what init leaves in taskMap, validTasks and        *)
(* revDepMap, and what every engine has to do with it.  The engines run    *)
(* the tasks in different ways: Scheduler with a queue and workers,        *)
(* ThreadEngine with a pool of threads.                                    *)
(***************************************************************************)
EXTENDS GreasyTask, Sequences, Functions

CONSTANTS
  TaskId,       \* lines of the task file that hold a task: the keys of taskMap
  MaxRetries,   \* configuration key MaxRetries (0 when it is not set)
  Files         \* the parsed task files the run may start from

ASSUME TaskIdAssumption == TaskId \subseteq Nat \ {0} /\ IsFiniteSet(TaskId)

ASSUME MaxRetriesAssumption == MaxRetries \in Nat

\* What parseTaskFile can leave in taskMap for one line: a command without
\* dependencies is waiting, one with a dependency list is blocked, and a line
\* it could not accept is invalid.
ParsedTask ==
  { r \in [state : {"waiting", "blocked", "invalid"}, deps : SUBSET (Nat \ {0})] :
      r.state = "waiting" => r.deps = {} }

ASSUME FilesAssumption ==
  \A f \in Files :
    /\ DOMAIN f = TaskId
    /\ \A t \in TaskId : f[t] \in ParsedTask /\ t \notin f[t].deps

VARIABLES
  taskState,      \* taskMap[t]->taskState
  dependencies,   \* taskMap[t]->dependencies
  retries,        \* taskMap[t]->retries
  validTasks,     \* the tasks checkDependencies left in validTasks
  revDepMap       \* dependants of each task

tableVars == << taskState, dependencies, retries, validTasks, revDepMap >>

-------------------------------------------------------------------------------
(* The table checkDependencies leaves behind                               *)

\* Wrong: a dependency on a line that was dropped is accepted.
AcceptedIfParsed(d, t, valid) == d \in TaskId /\ d < t

\* A dependency checkDependencies accepts: an earlier task it has kept.
Accepted(d, t, valid) == d \in valid /\ d < t

\* checkDependencies walks the tasks by increasing id and keeps those whose
\* dependencies are all accepted.  revDepMap also lists a task that is dropped
\* for another one of its dependencies.
Load(file) ==
  LET parsed == { t \in TaskId : file[t].state # "invalid" }
  IN  /\ validTasks \in SUBSET TaskId
      /\ validTasks =
           { t \in parsed : \A d \in file[t].deps : Accepted(d, t, validTasks) }
      /\ revDepMap =
           [ p \in TaskId |->
               { t \in parsed : p \in file[t].deps /\ Accepted(p, t, validTasks) } ]
      /\ taskState =
           [ t \in TaskId |-> IF t \in validTasks THEN file[t].state ELSE "invalid" ]
      /\ dependencies = [ t \in TaskId |-> file[t].deps ]

TableInit ==
  /\ \E file \in Files : Load(file)
  /\ retries = [ t \in TaskId |-> 0 ]

-------------------------------------------------------------------------------
(* The end of a task                                                       *)

\* Wrong: the recursion is missing.
DirectDependants(t) == revDepMap[t]

\* The tasks the recursion of updateDependencies reaches from t: the least set
\* that holds the dependants of t and the dependants of its own elements.
Descendants(t) ==
  { d \in TaskId :
      \A S \in SUBSET TaskId :
        revDepMap[t] \subseteq S /\ (\A s \in S : revDepMap[s] \subseteq S)
          => d \in S }

\* The calls of updateDependencies in progress, the last one first, each with the
\* dependants its loop has still to visit: the one the last call comes to, in
\* increasing order, and the calls once it is done with that one.
NextOf(calls) == CHOOSE t \in Head(calls).left : \A s \in Head(calls).left : t <= s
Advanced(calls) ==
  << [ Head(calls) EXCEPT !.left = @ \ {NextOf(calls)} ] >> \o Tail(calls)

\* Wrong: one retry too many.
CanRetryOnceMore(t) == retries[t] <= MaxRetries

\* A task that failed and may be run again.
CanRetry(t) == retries[t] < MaxRetries

-------------------------------------------------------------------------------
(* Invariants of the table, common to the engines                          *)

\* The tasks a task was loaded to depend on.
Parents(t) == { p \in validTasks : t \in revDepMap[p] }

\* Only tasks that were kept have dependants, and those come later in the file.
BackwardOnly == \A p \in TaskId : \A c \in revDepMap[p] : p \in validTasks /\ p < c

\* What is left in the dependencies of a task that was kept are the parents that
\* have not completed.
DependenciesLeft ==
  \A c \in validTasks :
    dependencies[c] = { p \in Parents(c) : taskState[p] # "completed" }

\* A task that was dropped keeps the dependency it was dropped for, whatever
\* completes: updateDependencies never empties its list, and never queues it.
DroppedStaysOut ==
  \A c \in TaskId \ validTasks :
    /\ taskState[c] \in {"invalid", "cancelled"}
    /\ Parents(c) # {} => \E d \in dependencies[c] : d \notin Parents(c)

\* A task that is ready, running or settled by its own run waits for nothing.
ReadyHasNoDependencies ==
  \A t \in validTasks :
    /\ taskState[t] # "invalid"
    /\ taskState[t] \in {"waiting", "running", "completed", "failed"} =>
         dependencies[t] = {}

\* A cancelled task still waits for a parent that will never complete.
CancelledByParent ==
  \A t \in validTasks :
    taskState[t] = "cancelled" =>
      \E p \in Parents(t) : taskState[p] \in {"failed", "cancelled"}

-------------------------------------------------------------------------------
(* Properties every engine has to have                                     *)

\* No task is started, and so none has a verdict of its own, before every task
\* it depends on has completed: only waiting tasks are run, and
\* updateDependencies releases a task when its last dependency goes.
ParentsFirst ==
  \A t \in validTasks :
    taskState[t] \in {"running", "completed", "failed"} =>
      \A p \in Parents(t) : taskState[p] = "completed"

\* A task is cancelled exactly when one of the tasks it depends on failed or was
\* cancelled itself: the recursion of updateDependencies reaches all of them and
\* no other.
CancelledWithAncestor ==
  \A t \in validTasks :
    (taskState[t] = "cancelled") <=>
      (\E p \in Parents(t) : taskState[p] \in {"failed", "cancelled"})

\* A verdict is never taken back: the cancellation of what depends on a failed
\* task and the release of what depends on a completed one do not touch a task
\* that has been settled, whatever the order in which tasks end.
VerdictsStand ==
  [][ \A t \in TaskId :
        taskState[t] \in FinalStates => taskState'[t] = taskState[t] ]_tableVars

\* The promise the engine implements: a task that is not in validTasks is
\* ignored, whatever its state says.
WorkflowStatus ==
  [ t \in TaskId |->
      IF t \notin validTasks THEN "ignored"
      ELSE CASE taskState[t] \in {"waiting", "blocked"} -> "pending"
             [] taskState[t] = "running" -> "active"
             [] taskState[t] = "completed" -> "done"
             [] OTHER -> taskState[t] ]

Promise == INSTANCE Workflow WITH
  Task <- TaskId,
  status <- WorkflowStatus,
  parents <- [ t \in TaskId |-> IF t \in validTasks THEN Parents(t) ELSE {} ]

\* Every step of the engine is a step of the workflow, or changes nothing the
\* user can see of it.
ImplementsWorkflow == Promise!Spec
===============================================================================
