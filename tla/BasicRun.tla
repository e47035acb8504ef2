------------------------------- MODULE BasicRun --------------------------------
(***************************************************************************)
(* A run of Greasy with the basic engine, from the load of the task file   *)
(* to the restart file: main and termHandler (src/src/greasy.cpp) around   *)
(* BasicEngine.  The restart file is written by finalize when something    *)
(* went wrong, or by the handler of SIGTERM and SIGINT, which may find the *)
(* master anywhere: inside updateDependencies, whose loop is taken here    *)
(* one dependant at a time, or while it writes the restart file itself.    *)
(***************************************************************************)
EXTENDS BasicEngine, RestartFile

VARIABLES
  handlers,   \* signal handlers that were entered, none of which returns
  calls,      \* the calls of updateDependencies the master is in, the last first
  before      \* the tables when the master reaped a child or was interrupted

runVars == << vars, rstVars, handlers, calls, before >>

\* SIGTERM and SIGINT have one handler, and each is blocked while its own runs.
MaxHandlers == 2

\* The tables as they are, when a child is reaped.
Tables(pid) ==
  [ state |-> taskState, deps |-> dependencies, queue |-> taskQueue,
    blocked |-> blockedTasks, free |-> freeWorkers, pid |-> pid,
    status |-> waitStatus[pid], task |-> child[pid] ]

Nothing == << >>

RunInit ==
  /\ Init
  /\ RestartInit
  /\ handlers = 0
  /\ calls = << >>
  /\ before = Nothing

-------------------------------------------------------------------------------
(* The end of a task, one dependant at a time                              *)

\* The verdict of taskEpilogue for a child that is not retried.
Verdict(pid) ==
  IF ReturnCode(pid) = 0 THEN "completed" ELSE "failed"

\* A child is reaped and its task settled; the call of updateDependencies is
\* about to start.
Reap ==
  /\ MustWait
  /\ \E pid \in zombies :
       /\ ReturnCode(pid) # 0 => ~ CanRetry(TaskOf(pid))
       /\ taskState' = [ taskState EXCEPT ![TaskOf(pid)] = Verdict(pid) ]
       /\ calls' = << [ task |-> TaskOf(pid), left |-> revDepMap[TaskOf(pid)] ] >>
       /\ before' = Tables(pid)
       /\ freeWorkers' = Freed(pid)
       /\ child' = Reaped(pid)
       /\ zombies' = zombies \ {pid}
       /\ waitStatus' = [ waitStatus EXCEPT ![pid] = 0 ]
  /\ UNCHANGED << pc, dependencies, retries, validTasks, revDepMap, taskQueue,
                  blockedTasks, taskAssignation, pidToWorker, commandOk >>

\* The dependant of a completed task loses a dependency, and is queued if that
\* was its last one.
ReleaseNext ==
  /\ Head(calls).left # {}
  /\ taskState[Head(calls).task] = "completed"
  /\ LET d    == NextOf(calls)
         deps == DepsAfterRemove(dependencies[d], Head(calls).task)
     IN  /\ dependencies' = [ dependencies EXCEPT ![d] = deps ]
         /\ taskState' = [ taskState EXCEPT ![d] = StateAfterRemove(@, deps) ]
         /\ blockedTasks' = IF deps = {} THEN blockedTasks \ {d} ELSE blockedTasks
         /\ taskQueue' = IF deps = {} THEN Append(taskQueue, d) ELSE taskQueue
  /\ calls' = Advanced(calls)
  /\ UNCHANGED before

\* The dependant of a task that failed or was cancelled is cancelled, and
\* updateDependencies is called for it.
CancelNext ==
  /\ Head(calls).left # {}
  /\ taskState[Head(calls).task] # "completed"
  /\ LET d == NextOf(calls)
     IN  /\ taskState' = [ taskState EXCEPT ![d] = "cancelled" ]
         /\ blockedTasks' = blockedTasks \ {d}
         /\ calls' = << [ task |-> d, left |-> revDepMap[d] ] >> \o calls
  /\ UNCHANGED << dependencies, taskQueue, before >>

\* Wrong: the first dependant that has others of its own ends the loop.
ReturnToTop ==
  /\ Head(calls).left = {}
  /\ calls' = << >>
  /\ before' = Nothing
  /\ UNCHANGED << taskState, dependencies, blockedTasks, taskQueue >>

\* updateDependencies returns, to the call it was made from or to taskEpilogue.
ReturnFromCall ==
  /\ Head(calls).left = {}
  /\ \/ Len(calls) > 1 /\ calls' = Advanced(Tail(calls)) /\ UNCHANGED before
     \/ Len(calls) = 1 /\ calls' = << >> /\ before' = Nothing
  /\ UNCHANGED << taskState, dependencies, blockedTasks, taskQueue >>

UpdateStep ==
  /\ ReleaseNext \/ CancelNext \/ ReturnFromCall
  /\ UNCHANGED << pc, retries, validTasks, revDepMap, freeWorkers, taskAssignation,
                  engineVars >>

\* A child is reaped whose task is allocated again: this handler is one step,
\* since it changes nothing a restart file shows.
ReapAndRetry == WaitForAnyWorker /\ retries' # retries /\ UNCHANGED << calls, before >>

MasterStep ==
  IF calls # << >> THEN UpdateStep
  ELSE \/ Reap
       \/ ReapAndRetry
       \/ /\ \/ FillQueue /\ UNCHANGED engineVars
             \/ Allocate
             \/ WaitWithoutChild
             \/ LeaveLoop /\ UNCHANGED engineVars
             \/ Return /\ UNCHANGED engineVars
          /\ UNCHANGED << calls, before >>

ChildStep == \E pid \in Pids : ChildEnds(pid) /\ UNCHANGED << calls, before >>

\* The master and the children go on while nobody writes the restart file.
EngineStep ==
  /\ rstPhase = "off"
  /\ MasterStep \/ ChildStep
  /\ UNCHANGED << rstVars, handlers >>

-------------------------------------------------------------------------------
(* The restart file                                                        *)

\* main calls finalize, which writes the restart file if it is needed.
Finalize ==
  /\ pc = "done"
  /\ rstPhase = "off"
  /\ NeedsRestart
  /\ OpenRestart
  /\ before' = [ state |-> taskState, deps |-> dependencies ]
  /\ UNCHANGED << vars, handlers, calls >>

\* termHandler: whatever the master was doing is given up, and the restart file
\* is written from the start; the handler then exits.
TermHandler ==
  /\ handlers < MaxHandlers
  /\ pc # "crashed"
  /\ OpenRestart
  /\ handlers' = handlers + 1
  /\ before' = IF before = Nothing THEN [ state |-> taskState, deps |-> dependencies ]
               ELSE before
  /\ UNCHANGED << vars, calls >>

WriterStep ==
  /\ VisitTask \/ CloseRestart
  /\ UNCHANGED << engineVars, handlers, calls, before >>

\* main has returned, or the handler has called exit().
Exited ==
  /\ \/ rstPhase = "closed"
     \/ rstPhase = "off" /\ pc = "crashed"
     \/ rstPhase = "off" /\ pc = "done" /\ ~ NeedsRestart
  /\ UNCHANGED runVars

RunNext == EngineStep \/ Finalize \/ TermHandler \/ WriterStep \/ Exited

RunSpec == RunInit /\ [][RunNext]_runVars

RunFairSpec ==
  /\ RunSpec
  /\ WF_runVars(EngineStep \/ Finalize \/ WriterStep)
  /\ \A pid \in Pids : WF_runVars(EngineStep /\ ChildEnds(pid))

-------------------------------------------------------------------------------
(* Properties                                                              *)

\* Outside updateDependencies the restart file holds exactly the work that is
\* left, with its dependencies on the new lines.
RestartFaithful ==
  rstPhase = "closed" /\ calls = << >> => WorkIsThere([ t \in TaskId |-> {} ])

\* The ids a dependant still has of a completed task, whose loop has not come to it.
NotReleased ==
  [ c \in TaskId |->
      IF /\ calls # << >>
         /\ taskState[Head(calls).task] = "completed"
         /\ c \in Head(calls).left
      THEN {Head(calls).task} ELSE {} ]

\* Wherever the handler finds the master, the restart file holds exactly the work
\* that is left, with one exception: in the loop that releases the dependants of
\* a completed task, those it has not come to yet are written with the old id of
\* that task among their dependencies.
HandlerFaithful == rstPhase = "closed" => WorkIsThere(NotReleased)

\* A run that is not interrupted and ends without a restart file has completed
\* every task of the file.
SilentSuccess ==
  pc = "done" /\ ~ NeedsRestart => \A t \in TaskId : taskState[t] = "completed"

\* Every run ends: either all tasks completed, or there is a restart file.
EndsWithRestart ==
  <>(rstPhase = "closed" \/ \A t \in TaskId : taskState[t] = "completed")

\* As BasicEngine has it, the child is reaped and everything done about it at
\* once, when updateDependencies has returned for the last time; a handler of a
\* signal only stops it.
Paused == calls # << >> \/ rstPhase # "off"
Reaping == calls # << >>

\* The tables it sees meanwhile.
SeenState == IF Paused THEN before.state ELSE taskState
SeenDependencies == IF Paused THEN before.deps ELSE dependencies
SeenQueue == IF Reaping THEN before.queue ELSE taskQueue
SeenBlocked == IF Reaping THEN before.blocked ELSE blockedTasks
SeenFree == IF Reaping THEN before.free ELSE freeWorkers
SeenChild == IF Reaping THEN [ child EXCEPT ![before.pid] = before.task ] ELSE child
SeenZombies == IF Reaping THEN zombies \cup {before.pid} ELSE zombies
SeenStatus ==
  IF Reaping THEN [ waitStatus EXCEPT ![before.pid] = before.status ] ELSE waitStatus

Atomic == INSTANCE BasicEngine WITH
  taskState <- SeenState,
  dependencies <- SeenDependencies,
  taskQueue <- SeenQueue,
  blockedTasks <- SeenBlocked,
  freeWorkers <- SeenFree,
  child <- SeenChild,
  zombies <- SeenZombies,
  waitStatus <- SeenStatus

\* The steps the loop of updateDependencies takes, its recursion and the order in
\* which it comes to the dependants add up to the single step BasicEngine makes
\* of them, in every interleaving with the children that end meanwhile.
ImplementsEngine == Atomic!Spec
===============================================================================
