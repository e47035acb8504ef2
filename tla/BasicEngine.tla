------------------------------ MODULE BasicEngine ------------------------------
(***************************************************************************)
(* BasicEngine (src/src/basicengine.cpp): the scheduler of Greasy over     *)
(* fork and wait.  The master forks one child per allocated task; the      *)
(* child runs the command with system() and exits with its exit code, and  *)
(* the master reaps children with wait().                                  *)
(*                                                                         *)
(* The processes are the master and the children.  Between two of its own  *)
(* steps the master is either inside its loop or blocked in wait(), and no *)
(* other process touches its memory, so each of its handlers is one        *)
(* action.                                                                 *)
(***************************************************************************)
EXTENDS Scheduler

CONSTANTS
  Pids,           \* process ids the system can give to a child
  SystemStatus,   \* values system() can return for a command
  KillSignals,    \* signals that may kill a child of the master itself
  ForkMayFail     \* whether fork() can fail

\* The system has a process id for every worker at once.
ASSUME PidsAssumption == IsFiniteSet(Pids) /\ Cardinality(Pids) >= NWorkers

ASSUME StatusAssumption ==
  SystemStatus \subseteq Int /\ KillSignals \subseteq 1..127 /\ ForkMayFail \in BOOLEAN

VARIABLES
  child,        \* task run by each child process (0: no such process)
  zombies,      \* children that ended and were not reaped yet
  waitStatus,   \* status wait() will report for a child that ended
  pidToWorker,  \* pidToWorker (a missing key reads as 0)
  commandOk     \* whether the last run of the task's command ended with success

engineVars == << child, zombies, waitStatus, pidToWorker, commandOk >>
vars == << schedVars, engineVars >>

-------------------------------------------------------------------------------
(* The status word of wait() and system()                                  *)

WIFEXITED(status) == status % 128 = 0
WEXITSTATUS(status) == (status \div 256) % 256
ExitWith(code) == (code % 256) * 256

-------------------------------------------------------------------------------

Init ==
  /\ SchedInit
  /\ child = [ p \in Pids |-> 0 ]
  /\ zombies = {}
  /\ waitStatus = [ p \in Pids |-> 0 ]
  /\ pidToWorker = [ p \in Pids |-> 0 ]
  /\ commandOk = [ t \in TaskId |-> FALSE ]

\* The children the master has not reaped, and those still running.
Children == { p \in Pids : child[p] # 0 }
Running == Children \ zombies

-------------------------------------------------------------------------------
(* The master                                                              *)

\* Wrong: insert() in pidToWorker instead of operator[], which keeps the worker
\* of an earlier child with the same process id.
ForkWithInsert(t, free, procs) ==
  \E pid \in { p \in Pids : procs[p] = 0 } :
    /\ child' = [ procs EXCEPT ![pid] = t ]
    /\ pidToWorker' = IF pidToWorker[pid] = 0
                      THEN [ pidToWorker EXCEPT ![pid] = Head(free) ]
                      ELSE pidToWorker
    /\ taskAssignation' = [ taskAssignation EXCEPT ![Head(free)] = t ]
    /\ taskState' = [ taskState EXCEPT ![t] = "running" ]
    /\ freeWorkers' = Tail(free)

\* allocate(t), when free are the free workers and procs the child processes at
\* the call: the worker at the head of the queue is given the task, and fork()
\* gives it a process of its own.
Fork(t, free, procs) ==
  \E pid \in { p \in Pids : procs[p] = 0 } :
    /\ child' = [ procs EXCEPT ![pid] = t ]
    /\ pidToWorker' = [ pidToWorker EXCEPT ![pid] = Head(free) ]
    /\ taskAssignation' = [ taskAssignation EXCEPT ![Head(free)] = t ]
    /\ taskState' = [ taskState EXCEPT ![t] = "running" ]
    /\ freeWorkers' = Tail(free)

\* The error branch of allocate: the task has failed and its worker is free
\* again.  Nobody tells the dependants of the task.
ForkFails(t, free, procs) ==
  /\ ForkMayFail
  /\ child' = procs
  /\ taskAssignation' = [ taskAssignation EXCEPT ![Head(free)] = t ]
  /\ taskState' = [ taskState EXCEPT ![t] = "failed" ]
  /\ freeWorkers' = Append(Tail(free), Head(free))
  /\ UNCHANGED pidToWorker

\* runScheduler allocates the task at the head of the queue.
Allocate ==
  /\ MustAllocate
  /\ \/ Fork(Head(taskQueue), freeWorkers, child)
     \/ ForkFails(Head(taskQueue), freeWorkers, child)
  /\ taskQueue' = Tail(taskQueue)
  /\ UNCHANGED << pc, dependencies, retries, validTasks, revDepMap, blockedTasks,
                  zombies, waitStatus, commandOk >>

\* The worker and the task waitForAnyWorker finds for a reaped child.
WorkerOf(pid) == pidToWorker[pid]
TaskOf(pid) == taskAssignation[WorkerOf(pid)]

\* Wrong: the status is not tested with WIFEXITED.
ExitCodeOf(pid) == WEXITSTATUS(waitStatus[pid])

\* The return code it stores in the task.
ReturnCode(pid) ==
  IF WIFEXITED(waitStatus[pid]) THEN WEXITSTATUS(waitStatus[pid]) ELSE -1

\* The free workers and the child processes once the child is reaped.
Freed(pid) == Append(freeWorkers, WorkerOf(pid))
Reaped(pid) == [ child EXCEPT ![pid] = 0 ]

\* taskEpilogue of a task that returned 0.
EpilogueSuccess(pid) ==
  /\ ReturnCode(pid) = 0
  /\ Complete(TaskOf(pid))
  /\ freeWorkers' = Freed(pid)
  /\ child' = Reaped(pid)
  /\ UNCHANGED << retries, taskAssignation, pidToWorker >>

\* taskEpilogue of a task that failed and has no retry left.
EpilogueFailure(pid) ==
  /\ ReturnCode(pid) # 0
  /\ ~ CanRetry(TaskOf(pid))
  /\ Fail(TaskOf(pid))
  /\ freeWorkers' = Freed(pid)
  /\ child' = Reaped(pid)
  /\ UNCHANGED << retries, taskAssignation, pidToWorker >>

\* taskEpilogue of a task that failed and has retries left: it is allocated
\* again at once, ahead of the queue, to the worker that was free for longest.
EpilogueRetry(pid) ==
  /\ ReturnCode(pid) # 0
  /\ CanRetry(TaskOf(pid))
  /\ retries' = [ retries EXCEPT ![TaskOf(pid)] = @ + 1 ]
  /\ \/ Fork(TaskOf(pid), Freed(pid), Reaped(pid))
     \/ ForkFails(TaskOf(pid), Freed(pid), Reaped(pid))
  /\ UNCHANGED << dependencies, blockedTasks, taskQueue >>

\* wait() hands over any child that ended.
WaitForAnyWorker ==
  /\ MustWait
  /\ \E pid \in zombies :
       /\ \/ EpilogueSuccess(pid)
          \/ EpilogueFailure(pid)
          \/ EpilogueRetry(pid)
       /\ zombies' = zombies \ {pid}
       /\ waitStatus' = [ waitStatus EXCEPT ![pid] = 0 ]
  /\ UNCHANGED << pc, validTasks, revDepMap, commandOk >>

\* Without any child wait() returns -1.  pidToWorker[-1] and taskAssignation[0]
\* read as 0, and taskMap[0] is the null pointer waitForAnyWorker goes through.
WaitWithoutChild ==
  /\ MustWait
  /\ Children = {}
  /\ pc' = "crashed"
  /\ UNCHANGED << taskState, dependencies, retries, validTasks, revDepMap,
                  freeWorkers, taskQueue, blockedTasks, taskAssignation, engineVars >>

Master ==
  \/ FillQueue /\ UNCHANGED engineVars
  \/ Allocate
  \/ WaitForAnyWorker
  \/ WaitWithoutChild
  \/ LeaveLoop /\ UNCHANGED engineVars
  \/ Return /\ UNCHANGED engineVars

-------------------------------------------------------------------------------
(* The children                                                            *)

\* executeTask: system() returns and the child exits with the exit code of the
\* status it got.  commandOk records what became of the command itself.
CommandReturns(pid) ==
  /\ pid \in Running
  /\ \E status \in SystemStatus :
       /\ waitStatus' = [ waitStatus EXCEPT ![pid] = ExitWith(WEXITSTATUS(status)) ]
       /\ commandOk' = [ commandOk EXCEPT ![child[pid]] = (status = 0) ]
  /\ zombies' = zombies \cup {pid}
  /\ UNCHANGED << schedVars, child, pidToWorker >>

\* The child itself dies of a signal.
ChildKilled(pid) ==
  /\ pid \in Running
  /\ \E signal \in KillSignals :
       waitStatus' = [ waitStatus EXCEPT ![pid] = signal ]
  /\ commandOk' = [ commandOk EXCEPT ![child[pid]] = FALSE ]
  /\ zombies' = zombies \cup {pid}
  /\ UNCHANGED << schedVars, child, pidToWorker >>

ChildEnds(pid) == CommandReturns(pid) \/ ChildKilled(pid)

\* runScheduler has returned, or the process has died.
Stopped ==
  /\ pc \in {"done", "crashed"}
  /\ UNCHANGED vars

Next ==
  \/ Master
  \/ \E pid \in Pids : ChildEnds(pid)
  \/ Stopped

Spec == Init /\ [][Next]_vars

\* The master is a sequential program, and the users' commands terminate.
Fairness ==
  /\ WF_vars(Master)
  /\ \A pid \in Pids : WF_vars(ChildEnds(pid))

FairSpec == Spec /\ Fairness

-------------------------------------------------------------------------------
(* Properties                                                              *)

TypeOK ==
  /\ SchedTypeOK
  /\ child \in [ Pids -> TaskId \cup {0} ]
  /\ zombies \subseteq Children
  /\ waitStatus \in [ Pids -> Nat ]
  /\ pidToWorker \in [ Pids -> Workers \cup {0} ]
  /\ commandOk \in [ TaskId -> BOOLEAN ]

\* A child runs the task its worker was given, which is running; no worker and no
\* task has two children, and the worker of a child is not free.
ChildrenInOrder ==
  /\ \A p \in Children :
       /\ child[p] \in validTasks
       /\ taskState[child[p]] = "running"
       /\ WorkerOf(p) \in Workers \ Range(freeWorkers)
       /\ TaskOf(p) = child[p]
  /\ \A p, q \in Children :
       p # q => WorkerOf(p) # WorkerOf(q) /\ child[p] # child[q]
  /\ IsInjective(freeWorkers)

\* The inductive invariant behind ParentsFirst and VerdictsStand: what every
\* handler of the master takes for granted when it is entered.
EngineInv ==
  /\ TypeOK
  /\ TablesAgree
  /\ ChildrenInOrder

\* In a file the engine can finish, no task is blocked on nothing.
SoundFiles ==
  \A f \in Files : \A t \in TaskId : f[t].state = "blocked" => f[t].deps # {}

\* The queues are complete, no worker and no running task is without a child unless
\* the worker is free, and none is left at the end.
EveryoneKnown ==
  /\ QueuesComplete
  /\ \A w \in Workers : w \in Range(freeWorkers) \/ \E p \in Children : WorkerOf(p) = w
  /\ \A t \in validTasks : taskState[t] = "running" => \E p \in Children : child[p] = t
  /\ pc = "done" => Children = {}

\* What failed or was cancelled has taken its dependants along, but for a task
\* whose fork() failed; and what is blocked waits for something.
NobodyForgotten ==
  /\ LossSpreads({"cancelled"})
  /\ ~ ForkMayFail => LossSpreads({"failed"})
  /\ SoundFiles =>
       \A t \in validTasks : taskState[t] = "blocked" => dependencies[t] # {}

\* The inductive invariant behind WorkerAccounting, NothingLeftBehind,
\* CancelledWithAncestor and NoBlindWait: nothing the master has to come back to
\* is lost from its tables.
WorkInv ==
  /\ EngineInv
  /\ EveryoneKnown
  /\ NobodyForgotten

\* taskAssignation and pidToWorker always lead from a child back to the task it
\* runs, however workers and process ids are reused: no worker has two
\* children, a worker is free exactly when it has none, and a task is running
\* exactly when one child runs it.
WorkerAccounting ==
  pc # "crashed" =>
    /\ IsInjective(freeWorkers)
    /\ \A p, q \in Children : WorkerOf(p) = WorkerOf(q) => p = q
    /\ Range(freeWorkers) = Workers \ { WorkerOf(p) : p \in Children }
    /\ \A p \in Children : TaskOf(p) = child[p]
    /\ \A t \in TaskId :
         (taskState[t] = "running") <=> (\E p \in Children : child[p] = t)

\* A blocked task is exactly one that some unfinished task still holds back:
\* waitForAnyWorker is never called for want of a task to run while no child is
\* left to wait for.
NoBlindWait == MustWait => Children # {}

\* The only way the master comes to wait for nobody: nothing is running or ready,
\* and every task that is still blocked is blocked on nothing, or on a parent
\* that failed without a word, when fork() did, or on another blocked task.
BlindWaitExplained ==
  MustWait /\ Children = {} =>
    /\ pc = "schedule"
    /\ taskQueue = << >>
    /\ \A t \in blockedTasks :
         \/ dependencies[t] = {}
         \/ \E p \in Parents(t) : p \in blockedTasks \/ taskState[p] = "failed"

\* A completed task is one whose command succeeded: the exit code survives
\* system(), the exit of the child and wait().
CompletedFine == \A t \in TaskId : taskState[t] = "completed" => commandOk[t]

\* Besides, a failed task is one whose command failed on its last run, after
\* every retry it was entitled to.
VerdictOfCommand ==
  /\ CompletedFine
  /\ \A t \in TaskId :
       taskState[t] = "failed" => ~ commandOk[t] /\ retries[t] = MaxRetries

\* The status words of success and of nothing else end in the exit code 0: no
\* command dies of a signal.
TruthfulStatuses == \A status \in SystemStatus : status = 0 <=> WEXITSTATUS(status) = 0

\* A command that succeeded is known to have: its task is completed, or wait() will
\* report success.  Where statuses are truthful wait() reports no other success.
StatusesTell ==
  /\ \A t \in TaskId :
       commandOk[t] =>
         taskState[t] = "completed" \/ \E p \in zombies : child[p] = t /\ ReturnCode(p) = 0
  /\ TruthfulStatuses => \A p \in zombies : ReturnCode(p) = 0 => commandOk[child[p]]

\* The inductive invariant behind VerdictOfCommand, whatever fork() and the
\* commands do: no task fails whose command succeeded.
VerdictInv ==
  /\ EngineInv
  /\ StatusesTell
  /\ TruthfulStatuses => CompletedFine
  /\ ~ ForkMayFail => \A t \in TaskId : taskState[t] = "failed" => retries[t] = MaxRetries

\* The master reaches the end of runScheduler as long as the commands end.
Termination == <>(pc = "done")
===============================================================================
