------------------------------- MODULE MPIEngine -------------------------------
(***************************************************************************)
(* MPIEngine (src/src/mpiengine.cpp): the scheduler of Greasy over MPI.    *)
(* Rank 0 is the master; every other rank is a worker that receives the    *)
(* size of a command and then the command, runs it and reports.  A         *)
(* negative size fires the worker.                                         *)
(*                                                                         *)
(* MPI delivers the messages from one rank to another in the order they    *)
(* were sent, whatever happens between other ranks.  Sends are buffered:   *)
(* they never block.  MPI errors end the program (the default handler of   *)
(* MPI::COMM_WORLD), so the catch branches of the worker are never taken.  *)
(***************************************************************************)
EXTENDS Scheduler

CONSTANTS
  SystemStatus,   \* values system() can return for a command
  MallocMayFail   \* whether a worker can run out of memory

ASSUME MPIAssumption == SystemStatus \subseteq Int /\ MallocMayFail \in BOOLEAN

VARIABLES
  inbox,      \* messages from the master to each worker
  reports,    \* reports from each worker to the master
  workerPc,   \* where each worker is in runWorker
  command,    \* task whose command the worker runs
  fired,      \* whether the master has called fireWorkers
  commandOk   \* whether the last run of the task's command ended with success

mpiVars == << inbox, reports, workerPc, command, fired, commandOk >>
vars == << schedVars, mpiVars >>

NoTask == 0

\* A command is sent in two messages; the task of a report is only there for
\* the properties: the report names no task.
Size == [ kind |-> "size", task |-> NoTask ]
Command(t) == [ kind |-> "command", task |-> t ]
Fired == [ kind |-> "fired", task |-> NoTask ]
Report(t, code) == [ task |-> t, retcode |-> code ]

Init ==
  /\ SchedInit
  /\ inbox = [ w \in Workers |-> << >> ]
  /\ reports = [ w \in Workers |-> << >> ]
  /\ workerPc = [ w \in Workers |-> "listening" ]
  /\ command = [ w \in Workers |-> NoTask ]
  /\ fired = FALSE
  /\ commandOk = [ t \in TaskId |-> FALSE ]

-------------------------------------------------------------------------------
(* The master                                                              *)

\* Wrong: the worker is not taken out of the queue.
SendKeepingWorker(t, free) ==
  /\ freeWorkers' = free
  /\ taskAssignation' = [ taskAssignation EXCEPT ![Head(free)] = t ]
  /\ taskState' = [ taskState EXCEPT ![t] = "running" ]
  /\ inbox' = [ inbox EXCEPT ![Head(free)] = @ \o << Size, Command(t) >> ]

\* allocate(t), when free are the free workers.
Send(t, free) ==
  /\ freeWorkers' = Tail(free)
  /\ taskAssignation' = [ taskAssignation EXCEPT ![Head(free)] = t ]
  /\ taskState' = [ taskState EXCEPT ![t] = "running" ]
  /\ inbox' = [ inbox EXCEPT ![Head(free)] = @ \o << Size, Command(t) >> ]

Allocate ==
  /\ MustAllocate
  /\ Send(Head(taskQueue), freeWorkers)
  /\ taskQueue' = Tail(taskQueue)
  /\ UNCHANGED << pc, dependencies, retries, validTasks, revDepMap, blockedTasks,
                  reports, workerPc, command, fired, commandOk >>

\* The task a report is charged to.
TaskOf(w) == taskAssignation[w]

\* taskEpilogue for a report with this code from w: success, failure or retry.
EpilogueSuccess(w, code) ==
  /\ code = 0
  /\ Complete(TaskOf(w))
  /\ freeWorkers' = Append(freeWorkers, w)
  /\ UNCHANGED << retries, taskAssignation, inbox >>

EpilogueFailure(w, code) ==
  /\ code # 0
  /\ ~ CanRetry(TaskOf(w))
  /\ Fail(TaskOf(w))
  /\ freeWorkers' = Append(freeWorkers, w)
  /\ UNCHANGED << retries, taskAssignation, inbox >>

EpilogueRetry(w, code) ==
  /\ code # 0
  /\ CanRetry(TaskOf(w))
  /\ retries' = [ retries EXCEPT ![TaskOf(w)] = @ + 1 ]
  /\ Send(TaskOf(w), Append(freeWorkers, w))
  /\ UNCHANGED << dependencies, blockedTasks, taskQueue >>

\* A report of any worker is received.  The master does not look at the status
\* of the worker that is in it.
WaitForAnyWorker ==
  /\ MustWait
  /\ \E w \in Workers :
       /\ reports[w] # << >>
       /\ LET code == Head(reports[w]).retcode
          IN  \/ EpilogueSuccess(w, code)
              \/ EpilogueFailure(w, code)
              \/ EpilogueRetry(w, code)
       /\ reports' = [ reports EXCEPT ![w] = Tail(@) ]
  /\ UNCHANGED << pc, validTasks, revDepMap, workerPc, command, fired, commandOk >>

\* finalize, once runScheduler has returned.
FireWorkers ==
  /\ pc = "done"
  /\ ~ fired
  /\ fired' = TRUE
  /\ inbox' = [ w \in Workers |-> Append(inbox[w], Fired) ]
  /\ UNCHANGED << schedVars, reports, workerPc, command, commandOk >>

Master ==
  \/ FillQueue /\ UNCHANGED mpiVars
  \/ Allocate
  \/ WaitForAnyWorker
  \/ LeaveLoop /\ UNCHANGED mpiVars
  \/ Return /\ UNCHANGED mpiVars
  \/ FireWorkers

-------------------------------------------------------------------------------
(* The workers                                                             *)

Receives(w, kind) ==
  /\ inbox[w] # << >>
  /\ Head(inbox[w]).kind = kind

\* The size of a command is received ...
ReceiveSize(w) ==
  /\ workerPc[w] = "listening"
  /\ Receives(w, "size")
  /\ inbox' = [ inbox EXCEPT ![w] = Tail(@) ]
  /\ workerPc' = [ workerPc EXCEPT ![w] = "expecting" ]
  /\ UNCHANGED << reports, command, commandOk >>

\* ... and then the command.
ReceiveCommand(w) ==
  /\ workerPc[w] = "expecting"
  /\ Receives(w, "command")
  /\ inbox' = [ inbox EXCEPT ![w] = Tail(@) ]
  /\ command' = [ command EXCEPT ![w] = Head(inbox[w]).task ]
  /\ workerPc' = [ workerPc EXCEPT ![w] = "running" ]
  /\ UNCHANGED << reports, commandOk >>

\* Without memory for the command the worker reports a failure and leaves its
\* loop.
GiveUp(w) ==
  /\ MallocMayFail
  /\ workerPc[w] = "expecting"
  /\ Receives(w, "command")
  /\ reports' = [ reports EXCEPT ![w] = Append(@, Report(Head(inbox[w]).task, -1)) ]
  /\ workerPc' = [ workerPc EXCEPT ![w] = "gaveup" ]
  /\ commandOk' = [ commandOk EXCEPT ![Head(inbox[w]).task] = FALSE ]
  /\ UNCHANGED << inbox, command >>

\* Wrong: the worker reports the exit status, as the basic engine does.
ExitStatusOf(status) == (status \div 256) % 256

\* The worker reports what system() returned.
RetcodeOf(status) == status

\* The command ends.
CommandEnds(w) ==
  /\ workerPc[w] = "running"
  /\ \E status \in SystemStatus :
       /\ reports' =
            [ reports EXCEPT ![w] = Append(@, Report(command[w], RetcodeOf(status))) ]
       /\ commandOk' = [ commandOk EXCEPT ![command[w]] = (status = 0) ]
  /\ command' = [ command EXCEPT ![w] = NoTask ]
  /\ workerPc' = [ workerPc EXCEPT ![w] = "listening" ]
  /\ UNCHANGED inbox

\* A negative size ends the loop.
LeaveWork(w) ==
  /\ workerPc[w] = "listening"
  /\ Receives(w, "fired")
  /\ inbox' = [ inbox EXCEPT ![w] = Tail(@) ]
  /\ workerPc' = [ workerPc EXCEPT ![w] = "gone" ]
  /\ UNCHANGED << reports, command, commandOk >>

Worker(w) ==
  /\ \/ ReceiveSize(w)
     \/ ReceiveCommand(w)
     \/ GiveUp(w)
     \/ CommandEnds(w)
     \/ LeaveWork(w)
  /\ UNCHANGED << schedVars, fired >>

Next == Master \/ \E w \in Workers : Worker(w)

Spec == Init /\ [][Next]_vars

\* Every rank is a sequential program, MPI delivers, and the users' commands
\* terminate.
Fairness == WF_vars(Master) /\ \A w \in Workers : WF_vars(Worker(w))

FairSpec == Spec /\ Fairness

-------------------------------------------------------------------------------
(* Properties                                                              *)

Message == [ kind : {"size", "command", "fired"}, task : TaskId \cup {NoTask} ]

MPITypeOK ==
  /\ SchedTypeOK
  /\ inbox \in [ Workers -> Seq(Message) ]
  /\ reports \in [ Workers -> Seq([ task : TaskId, retcode : Int ]) ]
  /\ workerPc \in [ Workers -> {"listening", "expecting", "running", "gaveup", "gone"} ]
  /\ command \in [ Workers -> TaskId \cup {NoTask} ]
  /\ fired \in BOOLEAN
  /\ commandOk \in [ TaskId -> BOOLEAN ]

\* The workers that are not free, and the one a task was given to.
Busy == Workers \ Range(freeWorkers)

\* A busy worker that did not give up: its command is on its way, it runs, or its
\* report is on its way and tells what became of the command.
AtWork(w) ==
  LET t == taskAssignation[w]
  IN  \/ /\ reports[w] = << >>
         /\ \/ workerPc[w] = "listening" /\ inbox[w] = << Size, Command(t) >>
            \/ workerPc[w] = "expecting" /\ inbox[w] = << Command(t) >>
            \/ workerPc[w] = "running" /\ inbox[w] = << >> /\ command[w] = t
      \/ /\ workerPc[w] = "listening"
         /\ inbox[w] = << >>
         /\ reports[w] # << >> /\ reports[w] = << Head(reports[w]) >>
         /\ Head(reports[w]).task = t
         /\ Head(reports[w]).retcode = 0 <=> commandOk[t]

\* A free worker that did not give up has nothing to do but to leave.
AtRest(w) ==
  /\ reports[w] = << >>
  /\ \/ workerPc[w] = "listening" /\ inbox[w] = IF fired THEN << Fired >> ELSE << >>
     \/ workerPc[w] = "gone" /\ inbox[w] = << >> /\ fired

\* A worker that gave up may be given other tasks, of which it says nothing; what
\* it has said was of the first.
OutOfReach(w) ==
  \/ reports[w] = << >>
  \/ /\ w \in Busy
     /\ reports[w] = << Report(taskAssignation[w], -1) >>
     /\ ~ commandOk[taskAssignation[w]]

\* Every busy worker has a running task of its own, and every running task a busy
\* worker; what is on its way between the master and a worker is what its place
\* in the queue of free workers calls for.
RanksAgree ==
  /\ IsInjective(freeWorkers)
  /\ \A w \in Busy : taskAssignation[w] \in validTasks /\ taskState[taskAssignation[w]] = "running"
  /\ \A v, w \in Busy : taskAssignation[v] = taskAssignation[w] => v = w
  /\ \A t \in validTasks : taskState[t] = "running" => \E w \in Busy : taskAssignation[w] = t
  /\ \A w \in Workers :
       IF workerPc[w] = "gaveup" THEN OutOfReach(w)
       ELSE IF w \in Busy THEN AtWork(w) ELSE AtRest(w)
  /\ pc = "done" => Busy = {}
  /\ fired => pc = "done"

\* A completed task is one whose command succeeded, a failed one is one whose
\* command did not succeed on its last run, after every retry: the status of
\* system() reaches the master as it is.
VerdictOfCommand ==
  \A t \in TaskId :
    /\ taskState[t] = "completed" => commandOk[t]
    /\ taskState[t] = "failed" => ~ commandOk[t] /\ retries[t] = MaxRetries

\* The inductive invariant behind the properties of this engine.
MPIInv ==
  /\ MPITypeOK
  /\ TablesAgree
  /\ QueuesComplete
  /\ LossSpreads({"failed", "cancelled"})
  /\ RanksAgree
  /\ VerdictOfCommand

\* What a worker has still to do or to say: commands on their way, the one it
\* runs, and reports on their way.
InHand(w) ==
  { << "message", i >> : i \in { k \in DOMAIN inbox[w] : inbox[w][k].kind = "command" } }
  \cup { << "running", 0 >> : x \in { y \in {w} : workerPc[y] = "running" } }
  \cup { << "report", i >> : i \in DOMAIN reports[w] }

\* As the master sees it: no worker is twice in the queue, and a task is running
\* exactly when one worker that is not free was given it last.  As the workers
\* see it: one that is still in its loop has work in hand exactly when it is not
\* free, one task at a time, and every report is charged to the task it is of.
WorkersAccounted ==
  /\ IsInjective(freeWorkers)
  /\ \A t \in TaskId :
       (taskState[t] = "running") <=>
         \E w \in Workers \ Range(freeWorkers) :
           /\ taskAssignation[w] = t
           /\ \A v \in Workers \ Range(freeWorkers) : taskAssignation[v] = t => v = w
  /\ \A w \in Workers :
       /\ \A i \in DOMAIN reports[w] : reports[w][i].task = taskAssignation[w]
       /\ workerPc[w] # "gaveup" =>
            /\ Cardinality(InHand(w)) = IF w \in Range(freeWorkers) THEN 0 ELSE 1
            /\ fired => w \in Range(freeWorkers)

\* Unless a worker gives up, the run ends: every task has its verdict, and every
\* worker is fired and leaves its loop, so that MPI::Finalize returns.
EveryoneLeaves ==
  <>( \/ \E w \in Workers : workerPc[w] = "gaveup"
      \/ \A w \in Workers : workerPc[w] = "gone" )
===============================================================================
