----------------------------- MODULE MPIEngineProofs -----------------------------
(***************************************************************************)
(* MPIInv is an inductive invariant of MPIEngine: what is on its way       *)
(* between the master and a worker is always what the tables of the master *)
(* say.  From it follow the accounting of workers, that a verdict is that  *)
(* of the command it is about, and that the engine implements Workflow.    *)
(***************************************************************************)
EXTENDS MPIEngine, SchedulerProofs

-------------------------------------------------------------------------------
(* Messages                                                                *)

\* What is sent in one or two messages and received from the front.
LEMMA ShortQueues ==
  ASSUME NEW a, NEW b
  PROVE  /\ Head(<< a, b >>) = a /\ Tail(<< a, b >>) = << b >> /\ << a, b >> # << >>
         /\ Head(<< a >>) = a /\ Tail(<< a >>) = << >> /\ << a >> # << >>
         /\ Append(<< >>, a) = << a >> /\ << >> \o << a, b >> = << a, b >>
OBVIOUS

\* The three kinds of messages.
LEMMA Messages ==
  /\ Size \in Message /\ Size.kind = "size"
  /\ Fired \in Message /\ Fired.kind = "fired"
  /\ \A t \in TaskId \cup {NoTask} :
       Command(t) \in Message /\ Command(t).kind = "command" /\ Command(t).task = t
  /\ \A t \in TaskId : \A code \in Int :
       /\ Report(t, code) \in [ task : TaskId, retcode : Int ]
       /\ Report(t, code).task = t /\ Report(t, code).retcode = code
BY DEF Size, Fired, Command, Report, Message, NoTask

\* A worker is where its place in the queue of free workers calls for.
InPlace(w) ==
  IF workerPc[w] = "gaveup" THEN OutOfReach(w)
  ELSE IF w \in Busy THEN AtWork(w) ELSE AtRest(w)

-------------------------------------------------------------------------------
(* The workers                                                             *)

\* A step of a worker that leaves it in its place keeps the invariant.
LEMMA WorkerKeepsInv ==
  ASSUME MPIInv, NEW w \in Workers, UNCHANGED << schedVars, fired >>,
         \A v \in Workers \ {w} :
           /\ inbox'[v] = inbox[v] /\ reports'[v] = reports[v]
           /\ workerPc'[v] = workerPc[v] /\ command'[v] = command[v],
         \A t \in TaskId :
           t # taskAssignation[w] \/ w \notin Busy => commandOk'[t] = commandOk[t],
         MPITypeOK', InPlace(w)'
  PROVE  MPIInv'
<1>1. UNCHANGED << pc, taskState, dependencies, retries, validTasks, revDepMap, freeWorkers,
                   taskQueue, blockedTasks, taskAssignation, fired >>
      /\ Workers' = Workers /\ Busy' = Busy
  BY DEF schedVars, Workers, Busy
<1>2. TablesAgree' /\ QueuesComplete' /\ LossSpreads({"failed", "cancelled"})'
  BY <1>1 DEF MPIInv, TablesAgree, BackwardOnly, DependenciesLeft, DroppedStaysOut,
     ReadyHasNoDependencies, CancelledByParent, QueueOfWaiting, Parents, QueuesComplete,
     LossSpreads
<1>3. /\ RanksAgree /\ VerdictOfCommand /\ validTasks \subseteq TaskId
      /\ \A v \in Busy : taskAssignation[v] \in validTasks
                         /\ taskState[taskAssignation[v]] = "running"
  BY DEF MPIInv, MPITypeOK, SchedTypeOK, RanksAgree
<1>4. ASSUME NEW v \in Workers \ {w} PROVE InPlace(v)'
  <2>1. InPlace(v)
    BY <1>3 DEF RanksAgree, InPlace
  <2>2. v \in Busy => commandOk'[taskAssignation[v]] = commandOk[taskAssignation[v]]
    BY <1>3 DEF RanksAgree
  <2> QED BY <1>1, <2>1, <2>2 DEF InPlace, OutOfReach, AtWork, AtRest
<1>5. RanksAgree'
  <2>1. \A v \in Workers : InPlace(v)'
    BY <1>4
  <2> QED BY <1>1, <1>3, <2>1 DEF RanksAgree, InPlace
<1>6. VerdictOfCommand'
  <2>1. ASSUME NEW t \in TaskId, taskState[t] \in {"completed", "failed"}
        PROVE  commandOk'[t] = commandOk[t]
    BY <1>3, <2>1
  <2> QED BY <1>1, <1>3, <2>1 DEF VerdictOfCommand
<1> QED BY <1>2, <1>5, <1>6 DEF MPIInv

\* The types of what a worker has, as its steps need them.
LEMMA WorkerTypes ==
  ASSUME MPIInv, NEW w \in Workers
  PROVE  /\ inbox \in [ Workers -> Seq(Message) ] /\ inbox[w] \in Seq(Message)
         /\ reports \in [ Workers -> Seq([ task : TaskId, retcode : Int ]) ]
         /\ workerPc \in [ Workers -> {"listening", "expecting", "running", "gaveup", "gone"} ]
         /\ command \in [ Workers -> TaskId \cup {NoTask} ]
         /\ fired \in BOOLEAN /\ commandOk \in [ TaskId -> BOOLEAN ]
         /\ SchedTypeOK
         /\ InPlace(w)
         /\ w \in Busy => /\ taskAssignation[w] \in TaskId
                          /\ taskAssignation[w] \in validTasks
                          /\ taskState[taskAssignation[w]] = "running"
BY DEF MPIInv, MPITypeOK, SchedTypeOK, RanksAgree, InPlace

\* The worker learns that a command comes, or that it is fired.
LEMMA ListeningKeepsInv ==
  ASSUME MPIInv, NEW w \in Workers, ReceiveSize(w) \/ LeaveWork(w),
         UNCHANGED << schedVars, fired >>
  PROVE  MPIInv'
<1> DEFINE t == taskAssignation[w]
<1>1. /\ workerPc[w] = "listening" /\ inbox[w] # << >>
      /\ inbox' = [ inbox EXCEPT ![w] = Tail(@) ]
      /\ UNCHANGED << reports, command, commandOk >>
  BY DEF ReceiveSize, LeaveWork, Receives
<1>2. MPITypeOK'
  <2>1. SchedTypeOK'
    BY WorkerTypes DEF schedVars, SchedTypeOK, Workers
  <2>2. inbox' \in [ Workers -> Seq(Message) ]
    BY <1>1, WorkerTypes
  <2>3. workerPc' \in [ Workers -> {"listening", "expecting", "running", "gaveup", "gone"} ]
    BY WorkerTypes DEF ReceiveSize, LeaveWork
  <2> QED BY <1>1, <2>1, <2>2, <2>3, WorkerTypes DEF MPITypeOK, Workers, Message
<1>3. Busy' = Busy /\ taskAssignation' = taskAssignation /\ fired' = fired
  BY DEF schedVars, Busy, Workers
<1>4. CASE ReceiveSize(w)
  <2>1. Head(inbox[w]).kind = "size" /\ workerPc'[w] = "expecting"
    BY <1>4, WorkerTypes DEF ReceiveSize, Receives
  <2>2. w \in Busy /\ inbox[w] = << Size, Command(t) >> /\ reports[w] = << >>
    <3>1. w \in Busy
      BY <1>1, <2>1, WorkerTypes, ShortQueues, Messages DEF InPlace, AtRest
    <3> QED BY <1>1, <3>1, WorkerTypes DEF InPlace, AtWork
  <2>3. inbox'[w] = << Command(t) >>
    BY <1>1, <2>2, WorkerTypes, ShortQueues
  <2>4. InPlace(w)'
    BY <1>1, <1>3, <2>1, <2>2, <2>3 DEF InPlace, AtWork, Command
  <2> QED BY <1>1, <1>2, <1>4, <2>4, WorkerKeepsInv, WorkerTypes DEF ReceiveSize
<1>5. CASE LeaveWork(w)
  <2>1. Head(inbox[w]).kind = "fired" /\ workerPc'[w] = "gone"
    BY <1>5, WorkerTypes DEF LeaveWork, Receives
  <2>2. w \notin Busy /\ inbox[w] = << Fired >> /\ reports[w] = << >> /\ fired
    <3>1. Head(<< Size, Command(t) >>) = Size /\ Size.kind = "size"
      BY Messages
    <3>2. w \notin Busy
      BY <1>1, <2>1, <3>1, WorkerTypes DEF InPlace, AtWork
    <3> QED BY <1>1, <3>2, WorkerTypes DEF InPlace, AtRest
  <2>3. inbox'[w] = << >>
    BY <1>1, <2>2, WorkerTypes, ShortQueues
  <2>4. InPlace(w)'
    BY <1>1, <1>3, <2>1, <2>2, <2>3 DEF InPlace, AtRest
  <2> QED BY <1>1, <1>2, <1>5, <2>4, WorkerKeepsInv, WorkerTypes DEF LeaveWork
<1> QED BY <1>4, <1>5

\* The worker receives its command, and has the memory for it or gives up.
LEMMA CommandArrivesKeepsInv ==
  ASSUME MPIInv, NEW w \in Workers, ReceiveCommand(w) \/ GiveUp(w),
         UNCHANGED << schedVars, fired >>
  PROVE  MPIInv'
<1> DEFINE t == taskAssignation[w]
<1>1. /\ workerPc[w] = "expecting" /\ inbox[w] # << >> /\ Head(inbox[w]).kind = "command"
  BY DEF ReceiveCommand, GiveUp, Receives
<1>2. /\ w \in Busy /\ inbox[w] = << Command(t) >> /\ reports[w] = << >>
      /\ t \in TaskId
  <2>1. w \in Busy
    BY <1>1, WorkerTypes DEF InPlace, AtRest
  <2> QED BY <1>1, <2>1, WorkerTypes DEF InPlace, AtWork
<1>3. Head(inbox[w]).task = t /\ Tail(inbox[w]) = << >>
  BY <1>2, ShortQueues, Messages
<1>4. Busy' = Busy /\ taskAssignation' = taskAssignation
  BY DEF schedVars, Busy, Workers
<1>5. SchedTypeOK'
  BY WorkerTypes DEF schedVars, SchedTypeOK, Workers
<1> HIDE DEF t
<1>6. CASE ReceiveCommand(w)
  <2>1. /\ inbox' = [ inbox EXCEPT ![w] = Tail(@) ]
        /\ command' = [ command EXCEPT ![w] = t ]
        /\ workerPc' = [ workerPc EXCEPT ![w] = "running" ]
        /\ UNCHANGED << reports, commandOk >>
    BY <1>3, <1>6 DEF ReceiveCommand
  <2>2. MPITypeOK'
    <3>1. inbox' \in [ Workers -> Seq(Message) ]
      BY <1>1, <2>1, WorkerTypes
    <3>2. /\ command' \in [ Workers -> TaskId \cup {NoTask} ]
          /\ workerPc' \in [ Workers -> {"listening", "expecting", "running", "gaveup", "gone"} ]
      BY <1>2, <2>1, WorkerTypes
    <3> QED BY <1>5, <2>1, <3>1, <3>2, WorkerTypes DEF MPITypeOK, Workers, Message
  <2>3. inbox'[w] = << >> /\ command'[w] = t /\ workerPc'[w] = "running"
    BY <1>3, <2>1, WorkerTypes
  <2>4. InPlace(w)'
    BY <1>2, <1>4, <2>1, <2>3 DEF InPlace, AtWork, t
  <2>5. \A v \in Workers \ {w} :
           /\ inbox'[v] = inbox[v] /\ reports'[v] = reports[v]
           /\ workerPc'[v] = workerPc[v] /\ command'[v] = command[v]
    BY <2>1, WorkerTypes
  <2> QED BY <2>1, <2>2, <2>4, <2>5, WorkerKeepsInv
<1>7. CASE GiveUp(w)
  <2>1. /\ reports' = [ reports EXCEPT ![w] = Append(@, Report(t, -1)) ]
        /\ workerPc' = [ workerPc EXCEPT ![w] = "gaveup" ]
        /\ commandOk' = [ commandOk EXCEPT ![t] = FALSE ]
        /\ UNCHANGED << inbox, command >>
    BY <1>3, <1>7 DEF GiveUp
  <2>2. MPITypeOK'
    <3>1. Append(reports[w], Report(t, -1)) \in Seq([ task : TaskId, retcode : Int ])
      BY <1>2, WorkerTypes, Messages
    <3>3. reports' \in [ Workers -> Seq([ task : TaskId, retcode : Int ]) ]
      BY <2>1, <3>1, WorkerTypes
    <3>2. /\ workerPc' \in [ Workers -> {"listening", "expecting", "running", "gaveup", "gone"} ]
          /\ commandOk' \in [ TaskId -> BOOLEAN ]
      BY <1>2, <2>1, WorkerTypes
    <3> QED BY <1>5, <2>1, <3>2, <3>3, WorkerTypes DEF MPITypeOK, Workers, Message
  <2>3. reports'[w] = << Report(t, -1) >> /\ workerPc'[w] = "gaveup" /\ ~ commandOk'[t]
    BY <1>2, <2>1, WorkerTypes, ShortQueues
  <2>4. InPlace(w)'
    BY <1>2, <1>4, <2>3 DEF InPlace, OutOfReach, Report, t
  <2>5. /\ \A v \in Workers \ {w} :
             /\ inbox'[v] = inbox[v] /\ reports'[v] = reports[v]
             /\ workerPc'[v] = workerPc[v] /\ command'[v] = command[v]
        /\ \A s \in TaskId : s # t => commandOk'[s] = commandOk[s]
    BY <2>1, WorkerTypes
  <2> QED BY <1>2, <2>2, <2>4, <2>5, WorkerKeepsInv DEF t
<1> QED BY <1>6, <1>7

\* The command ends: the report tells what became of it.
LEMMA CommandEndsKeepsInv ==
  ASSUME MPIInv, NEW w \in Workers, CommandEnds(w), UNCHANGED << schedVars, fired >>
  PROVE  MPIInv'
<1> DEFINE t == taskAssignation[w]
<1>1. workerPc[w] = "running"
  BY DEF CommandEnds
<1>2. /\ w \in Busy /\ inbox[w] = << >> /\ reports[w] = << >> /\ command[w] = t
      /\ t \in TaskId
  <2>1. w \in Busy
    BY <1>1, WorkerTypes DEF InPlace, AtRest
  <2> QED BY <1>1, <2>1, WorkerTypes DEF InPlace, AtWork
<1>3. /\ Busy' = Busy /\ taskAssignation' = taskAssignation /\ SchedTypeOK'
  BY WorkerTypes DEF schedVars, SchedTypeOK, Busy, Workers
<1> HIDE DEF t
<1>4. PICK status \in SystemStatus :
        /\ reports' = [ reports EXCEPT ![w] = Append(@, Report(t, status)) ]
        /\ commandOk' = [ commandOk EXCEPT ![t] = (status = 0) ]
  BY <1>2 DEF CommandEnds, RetcodeOf
<1>5. /\ status \in Int
      /\ command' = [ command EXCEPT ![w] = NoTask ]
      /\ workerPc' = [ workerPc EXCEPT ![w] = "listening" ]
      /\ UNCHANGED inbox
  BY MPIAssumption DEF CommandEnds
<1>6. commandOk' \in [ TaskId -> BOOLEAN ] /\ commandOk'[t] = (status = 0)
  <2>1. (status = 0) \in BOOLEAN
    OBVIOUS
  <2>2. commandOk \in [ TaskId -> BOOLEAN ]
    BY WorkerTypes
  <2> QED BY <1>2, <1>4, <2>1, <2>2, Zenon
<1>7. MPITypeOK'
  <2>1. Append(reports[w], Report(t, status)) \in Seq([ task : TaskId, retcode : Int ])
    BY <1>2, <1>5, WorkerTypes, Messages
  <2>3. reports' \in [ Workers -> Seq([ task : TaskId, retcode : Int ]) ]
    BY <1>4, <2>1, WorkerTypes
  <2>2. /\ workerPc' \in [ Workers -> {"listening", "expecting", "running", "gaveup", "gone"} ]
        /\ command' \in [ Workers -> TaskId \cup {NoTask} ]
    BY <1>5, WorkerTypes
  <2> QED BY <1>3, <1>5, <1>6, <2>2, <2>3, WorkerTypes DEF MPITypeOK, Workers, Message
<1>8. reports'[w] = << Report(t, status) >> /\ workerPc'[w] = "listening" /\ inbox'[w] = << >>
  BY <1>2, <1>4, <1>5, WorkerTypes, ShortQueues
<1>9. /\ Head(reports'[w]) = Report(t, status) /\ reports'[w] # << >>
      /\ Report(t, status).task = t /\ Report(t, status).retcode = status
  BY <1>2, <1>5, <1>8, ShortQueues, Messages
<1>10. InPlace(w)'
  BY <1>2, <1>3, <1>6, <1>8, <1>9 DEF InPlace, AtWork, t
<1>11. /\ \A v \in Workers \ {w} :
            /\ inbox'[v] = inbox[v] /\ reports'[v] = reports[v]
            /\ workerPc'[v] = workerPc[v] /\ command'[v] = command[v]
       /\ \A s \in TaskId : s # t => commandOk'[s] = commandOk[s]
  BY <1>4, <1>5, WorkerTypes
<1> QED BY <1>2, <1>7, <1>10, <1>11, WorkerKeepsInv DEF t

-------------------------------------------------------------------------------
(* The master                                                              *)

\* The initial states satisfy the invariant.
LEMMA InitMPIInv == Init => MPIInv
<1> SUFFICES ASSUME Init PROVE MPIInv
  OBVIOUS
<1>1. SchedTypeOK /\ TablesAgree
  BY LoadAgrees DEF Init
<1>2. PICK file \in Files : Load(file)
  BY DEF Init, SchedInit, TableInit
<1>3. \A t \in TaskId : taskState[t] \in {"waiting", "blocked", "invalid"}
  BY <1>2, FilesAssumption DEF Load, ParsedTask
<1>4. /\ freeWorkers = [ w \in Workers |-> w ] /\ pc = "start"
      /\ inbox = [ w \in Workers |-> << >> ] /\ reports = [ w \in Workers |-> << >> ]
      /\ workerPc = [ w \in Workers |-> "listening" ]
      /\ command = [ w \in Workers |-> NoTask ] /\ fired = FALSE
      /\ commandOk = [ t \in TaskId |-> FALSE ]
  BY DEF Init, SchedInit
<1>5. MPITypeOK
  <2>1. << >> \in Seq(Message) /\ << >> \in Seq([ task : TaskId, retcode : Int ])
    OBVIOUS
  <2>2. /\ inbox \in [ Workers -> Seq(Message) ]
        /\ reports \in [ Workers -> Seq([ task : TaskId, retcode : Int ]) ]
    BY <1>4, <2>1
  <2>3. /\ workerPc \in [ Workers -> {"listening", "expecting", "running", "gaveup", "gone"} ]
        /\ command \in [ Workers -> TaskId \cup {NoTask} ]
        /\ fired \in BOOLEAN /\ commandOk \in [ TaskId -> BOOLEAN ]
    BY <1>4
  <2> QED BY <1>1, <2>2, <2>3 DEF MPITypeOK
<1>6. QueuesComplete /\ LossSpreads({"failed", "cancelled"})
  BY <1>1, <1>3, <1>4 DEF QueuesComplete, LossSpreads, SchedTypeOK
<1>7. Busy = {} /\ IsInjective(freeWorkers)
  BY <1>4 DEF Busy, Range, IsInjective
<1>8. \A w \in Workers : AtRest(w)
  BY <1>4 DEF AtRest
<1>9. RanksAgree
  BY <1>1, <1>3, <1>4, <1>7, <1>8 DEF RanksAgree, SchedTypeOK
<1>10. VerdictOfCommand
  BY <1>3 DEF VerdictOfCommand
<1> QED BY <1>1, <1>5, <1>6, <1>9, <1>10 DEF MPIInv

\* The steps that send nothing and change no task.
LEMMA ControlKeepsMPI ==
  ASSUME MPIInv, FillQueue \/ LeaveLoop \/ Return, UNCHANGED mpiVars
  PROVE  MPIInv'
<1>1. /\ UNCHANGED << taskState, dependencies, retries, validTasks, revDepMap, freeWorkers,
                      taskAssignation >>
      /\ UNCHANGED << inbox, reports, workerPc, command, fired, commandOk >>
      /\ Workers' = Workers /\ Busy' = Busy /\ pc # "done" /\ ~ fired
  BY DEF FillQueue, LeaveLoop, Return, mpiVars, Workers, Busy, MPIInv, RanksAgree
<1>2. SchedTypeOK /\ TablesAgree /\ QueuesComplete
  BY DEF MPIInv, MPITypeOK
<1>3. SchedTypeOK' /\ TablesAgree'
  <2>1. CASE FillQueue
    BY <1>2, <2>1, FillQueueAgrees
  <2>2. CASE LeaveLoop \/ Return
    BY <1>1, <1>2, <2>2 DEF LeaveLoop, Return, SchedTypeOK, TablesAgree, BackwardOnly,
       DependenciesLeft, DroppedStaysOut, ReadyHasNoDependencies, CancelledByParent,
       QueueOfWaiting, Parents
  <2> QED BY <2>1, <2>2
<1>4. QueuesComplete'
  BY <1>2, ControlKeepsQueues
<1>5. /\ MPITypeOK' /\ VerdictOfCommand' /\ LossSpreads({"failed", "cancelled"})'
  BY <1>1, <1>3 DEF MPIInv, MPITypeOK, VerdictOfCommand, LossSpreads, Message
<1>6. pc' = "done" => Busy = {}
  <2> SUFFICES ASSUME Return PROVE Busy = {}
    BY <1>1 DEF FillQueue, LeaveLoop
  <2>1. /\ freeWorkers \in Seq(Workers) /\ IsInjective(freeWorkers)
        /\ Len(freeWorkers) = NWorkers
    BY <1>2 DEF SchedTypeOK, MPIInv, RanksAgree, Return
  <2> QED BY <2>1, AllWorkersFree DEF Busy
<1>7. RanksAgree'
  <2>1. \A w \in Workers : (InPlace(w)' <=> InPlace(w))
    BY <1>1 DEF InPlace, OutOfReach, AtWork, AtRest
  <2>2. \A w \in Workers : InPlace(w)'
    BY <2>1 DEF MPIInv, RanksAgree, InPlace
  <2> QED BY <1>1, <1>6, <2>2 DEF MPIInv, RanksAgree, InPlace
<1> QED BY <1>3, <1>4, <1>5, <1>7 DEF MPIInv

\* Once runScheduler has returned every worker is free, and is told to leave.
LEMMA FireKeepsMPI ==
  ASSUME MPIInv, FireWorkers
  PROVE  MPIInv'
<1>1. /\ UNCHANGED << pc, taskState, dependencies, retries, validTasks, revDepMap,
                      freeWorkers, taskQueue, blockedTasks, taskAssignation >>
      /\ UNCHANGED << reports, workerPc, command, commandOk >>
      /\ pc = "done" /\ ~ fired /\ fired'
      /\ inbox' = [ w \in Workers |-> Append(inbox[w], Fired) ]
      /\ Workers' = Workers /\ Busy' = Busy
  BY DEF FireWorkers, schedVars, Workers, Busy
<1>2. SchedTypeOK' /\ TablesAgree' /\ QueuesComplete'
  BY <1>1 DEF MPIInv, MPITypeOK, SchedTypeOK, TablesAgree, BackwardOnly, DependenciesLeft,
     DroppedStaysOut, ReadyHasNoDependencies, CancelledByParent, QueueOfWaiting, Parents,
     QueuesComplete
<1>3. MPITypeOK'
  <2>1. /\ inbox \in [ Workers -> Seq(Message) ] /\ Fired \in Message
    BY Messages DEF MPIInv, MPITypeOK
  <2>2. \A w \in Workers : Append(inbox[w], Fired) \in Seq(Message)
    BY <2>1
  <2>3. inbox' \in [ Workers -> Seq(Message) ]
    BY <1>1, <2>2
  <2>4. fired' \in BOOLEAN
    BY DEF FireWorkers
  <2> QED BY <1>1, <1>2, <2>3, <2>4 DEF MPIInv, MPITypeOK, Message
<1>4. VerdictOfCommand' /\ LossSpreads({"failed", "cancelled"})'
  BY <1>1 DEF MPIInv, VerdictOfCommand, LossSpreads
<1>5. Busy = {} /\ \A w \in Workers : InPlace(w)
  BY <1>1 DEF MPIInv, RanksAgree, InPlace
<1>6. ASSUME NEW w \in Workers PROVE InPlace(w)'
  <2>1. CASE workerPc[w] = "gaveup"
    BY <1>1, <1>5, <2>1 DEF InPlace, OutOfReach
  <2>2. CASE workerPc[w] # "gaveup"
    <3>1. workerPc[w] = "listening" /\ inbox[w] = << >> /\ reports[w] = << >>
      BY <1>1, <1>5, <2>2 DEF InPlace, AtRest
    <3>2. inbox'[w] = << Fired >>
      BY <1>1, <3>1, ShortQueues
    <3> QED BY <1>1, <1>5, <3>1, <3>2 DEF InPlace, AtRest
  <2> QED BY <2>1, <2>2
<1>7. RanksAgree'
  BY <1>1, <1>5, <1>6 DEF MPIInv, RanksAgree, InPlace
<1> QED BY <1>2, <1>3, <1>4, <1>7 DEF MPIInv

\* A worker at work, wherever the other messages are.
InHandOf(w) == IF workerPc[w] = "gaveup" THEN OutOfReach(w) ELSE AtWork(w)

\* A worker that could be given a task.
CanTake(w) == workerPc[w] = "gaveup" \/ (workerPc[w] = "listening" /\ inbox[w] = << >>)

\* Sending a task to the first of the free workers, when every other worker has a
\* task of its own.
LEMMA SendKeepsRanks ==
  ASSUME SchedTypeOK, MPITypeOK, ~ fired, pc # "done",
         NEW t \in validTasks, taskState[t] \in {"waiting", "running"},
         NEW free \in Seq(Workers), free # << >>, IsInjective(free),
         \A w \in Workers \ Range(free) :
           /\ taskAssignation[w] \in validTasks \ {t}
           /\ taskState[taskAssignation[w]] = "running"
           /\ reports'[w] = reports[w]
           /\ w \in Busy /\ InHandOf(w)
           /\ \A v \in Workers \ Range(free) :
                taskAssignation[v] = taskAssignation[w] => v = w,
         \A s \in validTasks \ {t} : taskState[s] = "running" =>
           \E w \in Workers \ Range(free) : taskAssignation[w] = s,
         \A w \in Range(free) : reports'[w] = << >> /\ CanTake(w),
         Send(t, free),
         UNCHANGED << pc, validTasks, workerPc, command, fired, commandOk >>
  PROVE  /\ RanksAgree'
         /\ freeWorkers' \in Seq(Workers)
         /\ taskAssignation' \in [ Workers -> TaskId \cup {0} ]
         /\ inbox' \in [ Workers -> Seq(Message) ]
         /\ taskState' = [ taskState EXCEPT ![t] = "running" ]
<1> DEFINE h == Head(free)
<1>1. /\ h \in Workers /\ h \in Range(free) /\ Range(free) \subseteq Workers
      /\ Tail(free) \in Seq(Workers) /\ IsInjective(Tail(free))
      /\ Range(Tail(free)) = Range(free) \ {h}
  <2>1. Range(free) \subseteq Workers
    BY DEF Range
  <2> QED BY <2>1, PopHead
<1>2. /\ t \in TaskId /\ validTasks \subseteq TaskId
      /\ taskState \in [ TaskId -> TaskStates ]
      /\ taskAssignation \in [ Workers -> TaskId \cup {0} ]
      /\ inbox \in [ Workers -> Seq(Message) ]
  BY DEF SchedTypeOK, MPITypeOK
<1>3. /\ freeWorkers' = Tail(free)
      /\ taskAssignation' = [ taskAssignation EXCEPT ![h] = t ]
      /\ taskState' = [ taskState EXCEPT ![t] = "running" ]
      /\ inbox' = [ inbox EXCEPT ![h] = @ \o << Size, Command(t) >> ]
  BY DEF Send
<1> HIDE DEF h
<1>4. /\ \A w \in Workers : taskAssignation'[w] = IF w = h THEN t ELSE taskAssignation[w]
      /\ \A w \in Workers \ {h} : inbox'[w] = inbox[w]
      /\ \A s \in TaskId : taskState'[s] = IF s = t THEN "running" ELSE taskState[s]
      /\ Busy' = (Workers \ Range(free)) \cup {h}
      /\ Workers' = Workers
  BY <1>1, <1>2, <1>3 DEF Busy, Workers
<1>5. inbox[h] \o << Size, Command(t) >> \in Seq(Message)
  <2>1. << Size, Command(t) >> \in Seq(Message)
    BY <1>2, Messages
  <2> QED BY <1>1, <1>2, <2>1
<1>6. /\ freeWorkers' \in Seq(Workers)
      /\ taskAssignation' \in [ Workers -> TaskId \cup {0} ]
      /\ inbox' \in [ Workers -> Seq(Message) ]
  BY <1>1, <1>2, <1>3, <1>5
<1>7. ASSUME NEW w \in Workers PROVE InPlace(w)'
  <2>1. CASE w = h
    <3>1. reports'[w] = << >> /\ w \in Busy'
      BY <1>1, <1>4, <2>1
    <3>2. CASE workerPc[w] = "gaveup"
      BY <3>1, <3>2 DEF InPlace, OutOfReach
    <3>3. CASE workerPc[w] # "gaveup"
      <4>1. workerPc[w] = "listening" /\ inbox[w] = << >>
        BY <1>1, <2>1, <3>3 DEF CanTake
      <4>2. inbox'[w] = << Size, Command(t) >>
        BY <1>2, <1>3, <2>1, <4>1, ShortQueues
      <4> QED BY <1>4, <2>1, <3>1, <4>1, <4>2 DEF InPlace, AtWork, Command
    <3> QED BY <3>2, <3>3
  <2>2. CASE w # h /\ w \in Range(free)
    <3>1. /\ reports'[w] = << >> /\ w \notin Busy' /\ CanTake(w) /\ inbox'[w] = inbox[w]
      BY <1>1, <1>4, <2>2
    <3> QED BY <3>1 DEF InPlace, OutOfReach, AtRest, CanTake
  <2>3. CASE w \notin Range(free)
    <3>1. /\ reports'[w] = reports[w] /\ w \in Busy /\ w \in Busy' /\ inbox'[w] = inbox[w]
          /\ taskAssignation'[w] = taskAssignation[w] /\ InHandOf(w)
      BY <1>1, <1>4, <2>3
    <3> QED BY <3>1 DEF InPlace, InHandOf, OutOfReach, AtWork
  <2> QED BY <2>1, <2>2, <2>3
<1>8. /\ \A w \in Busy' : /\ taskAssignation'[w] \in validTasks
                          /\ taskState'[taskAssignation'[w]] = "running"
      /\ \A v, w \in Busy' : taskAssignation'[v] = taskAssignation'[w] => v = w
      /\ \A s \in validTasks : taskState'[s] = "running" =>
           \E w \in Busy' : taskAssignation'[w] = s
  <2>1. \A w \in Workers \ Range(free) : w # h
    BY <1>1
  <2>2. \A w \in Busy' : /\ taskAssignation'[w] \in validTasks
                         /\ taskState'[taskAssignation'[w]] = "running"
    BY <1>1, <1>2, <1>4, <2>1
  <2>3. \A v, w \in Busy' : taskAssignation'[v] = taskAssignation'[w] => v = w
    BY <1>1, <1>4, <2>1
  <2>4. ASSUME NEW s \in validTasks, taskState'[s] = "running"
        PROVE  \E w \in Busy' : taskAssignation'[w] = s
    <3>1. CASE s = t
      BY <1>1, <1>4, <3>1
    <3>2. CASE s # t
      BY <1>2, <1>4, <2>1, <2>4, <3>2
    <3> QED BY <3>1, <3>2
  <2> QED BY <2>2, <2>3, <2>4
<1>9. IsInjective(freeWorkers')
  BY <1>1, <1>3
<1>10. RanksAgree'
  BY <1>4, <1>7, <1>8, <1>9 DEF RanksAgree, InPlace
<1> QED BY <1>3, <1>6, <1>10

\* The invariant before a step of the master, in the parts its proofs use.
LEMMA MasterSees ==
  ASSUME MPIInv
  PROVE  /\ SchedTypeOK /\ MPITypeOK /\ TablesAgree /\ QueuesComplete
         /\ LossSpreads({"failed", "cancelled"}) /\ VerdictOfCommand
         /\ validTasks \subseteq TaskId /\ freeWorkers \in Seq(Workers)
         /\ IsInjective(freeWorkers) /\ Range(freeWorkers) \subseteq Workers
         /\ retries \in [ TaskId -> 0..MaxRetries ]
         /\ fired => pc = "done"
         /\ \A w \in Busy : /\ w \in Workers \ Range(freeWorkers) /\ InHandOf(w)
                            /\ taskAssignation[w] \in validTasks
                            /\ taskState[taskAssignation[w]] = "running"
                            /\ \A v \in Busy : taskAssignation[v] = taskAssignation[w] => v = w
         /\ \A t \in validTasks : taskState[t] = "running" =>
              \E w \in Busy : taskAssignation[w] = t
         /\ \A w \in Range(freeWorkers) : reports[w] = << >> /\ (~ fired => CanTake(w))
<1>1. Range(freeWorkers) \subseteq Workers
  BY DEF MPIInv, MPITypeOK, SchedTypeOK, Range
<1>2. ASSUME NEW w \in Range(freeWorkers)
      PROVE  reports[w] = << >> /\ (~ fired => CanTake(w))
  <2>1. w \in Workers /\ w \notin Busy
    BY <1>1 DEF Busy
  <2> QED BY <2>1 DEF MPIInv, RanksAgree, OutOfReach, AtRest, CanTake
<1>3. \A w \in Busy : w \in Workers \ Range(freeWorkers) /\ InHandOf(w)
  BY DEF Busy, MPIInv, RanksAgree, InHandOf
<1> QED BY <1>1, <1>2, <1>3 DEF MPIInv, MPITypeOK, SchedTypeOK, RanksAgree

\* The allocation of the task at the head of the queue.
LEMMA AllocateKeepsMPI ==
  ASSUME MPIInv, Allocate
  PROVE  MPIInv'
<1> DEFINE t == Head(taskQueue)
<1>1. /\ pc = "schedule" /\ taskQueue # << >> /\ freeWorkers # << >>
      /\ Send(t, freeWorkers) /\ taskQueue' = Tail(taskQueue)
      /\ UNCHANGED << pc, dependencies, retries, validTasks, revDepMap, blockedTasks,
                      reports, workerPc, command, fired, commandOk >>
  BY DEF Allocate, MustAllocate
<1>2. /\ t \in Range(taskQueue)
      /\ Tail(taskQueue) \in Seq(TaskId) /\ IsInjective(Tail(taskQueue))
      /\ Range(Tail(taskQueue)) = Range(taskQueue) \ {t}
  BY <1>1, MasterSees, PopHead DEF SchedTypeOK, TablesAgree, QueueOfWaiting
<1>3. t \in validTasks /\ t \in TaskId /\ taskState[t] = "waiting"
  BY <1>2, MasterSees DEF TablesAgree, QueueOfWaiting
<1> HIDE DEF t
<1>4. /\ RanksAgree'
      /\ freeWorkers' \in Seq(Workers)
      /\ taskAssignation' \in [ Workers -> TaskId \cup {0} ]
      /\ inbox' \in [ Workers -> Seq(Message) ]
      /\ taskState' = [ taskState EXCEPT ![t] = "running" ]
  <2>1. /\ ~ fired /\ pc # "done"
        /\ \A w \in Workers \ Range(freeWorkers) :
             /\ taskAssignation[w] \in validTasks \ {t}
             /\ taskState[taskAssignation[w]] = "running"
             /\ reports'[w] = reports[w]
             /\ w \in Busy /\ InHandOf(w)
             /\ \A v \in Workers \ Range(freeWorkers) :
                  taskAssignation[v] = taskAssignation[w] => v = w
        /\ \A s \in validTasks \ {t} : taskState[s] = "running" =>
             \E w \in Workers \ Range(freeWorkers) : taskAssignation[w] = s
        /\ \A w \in Range(freeWorkers) : reports'[w] = << >> /\ CanTake(w)
    BY <1>1, <1>3, MasterSees DEF Busy
  <2> QED BY <1>1, <1>3, <2>1, MasterSees, SendKeepsRanks
<1>5. TablesAgree' /\ taskState' \in [ TaskId -> TaskStates ]
  BY <1>1, <1>2, <1>3, <1>4, MasterSees, StartAgrees
<1>6. SchedTypeOK'
  BY <1>1, <1>2, <1>4, <1>5, MasterSees DEF SchedTypeOK, Workers
<1>7. /\ \A s \in TaskId \ {t} : taskState'[s] = taskState[s]
      /\ taskState'[t] = "running"
  BY <1>3, <1>4, MasterSees DEF SchedTypeOK
<1>8. QueuesComplete'
  BY <1>1, <1>2, <1>3, <1>7, MasterSees, StartKeepsQueues
<1>9. LossSpreads({"failed", "cancelled"})'
  BY <1>1, <1>3, <1>7, MasterSees, StartKeepsLoss
<1>10. MPITypeOK'
  BY <1>1, <1>4, <1>6, MasterSees DEF MPITypeOK, Workers, Message
<1>11. VerdictOfCommand'
  BY <1>1, <1>7, MasterSees DEF VerdictOfCommand
<1> QED BY <1>4, <1>5, <1>8, <1>9, <1>10, <1>11 DEF MPIInv

\* What the master knows when it receives a report: whose it is, and that it tells
\* what became of the task the worker was given.
LEMMA ReportReceived ==
  ASSUME MPIInv, NEW w \in Workers, reports[w] # << >>
  PROVE  /\ w \in Busy
         /\ TaskOf(w) \in validTasks /\ TaskOf(w) \in TaskId
         /\ taskState[TaskOf(w)] = "running"
         /\ Tail(reports[w]) = << >>
         /\ Head(reports[w]).task = TaskOf(w)
         /\ Head(reports[w]).retcode = 0 <=> commandOk[TaskOf(w)]
         /\ CanTake(w)
         /\ Append(freeWorkers, w) \in Seq(Workers)
         /\ IsInjective(Append(freeWorkers, w))
         /\ Append(freeWorkers, w) # << >>
         /\ Range(Append(freeWorkers, w)) = Range(freeWorkers) \cup {w}
<1>1. w \in Busy
  <2>1. w \notin Range(freeWorkers)
    BY MasterSees
  <2> QED BY <2>1 DEF Busy
<1>2. /\ TaskOf(w) \in validTasks /\ TaskOf(w) \in TaskId
      /\ taskState[TaskOf(w)] = "running" /\ InHandOf(w)
  BY <1>1, MasterSees DEF TaskOf
<1>3. /\ Append(freeWorkers, w) \in Seq(Workers)
      /\ IsInjective(Append(freeWorkers, w))
      /\ Range(Append(freeWorkers, w)) = Range(freeWorkers) \cup {w}
  BY <1>1, MasterSees, PushFresh
<1>4. Append(freeWorkers, w) # << >>
  BY <1>3 DEF Range
<1>5. CASE workerPc[w] = "gaveup"
  <2>1. /\ reports[w] = << Report(TaskOf(w), -1) >> /\ ~ commandOk[TaskOf(w)]
    BY <1>2, <1>5 DEF InHandOf, OutOfReach, TaskOf
  <2>2. Head(reports[w]) = Report(TaskOf(w), -1) /\ Tail(reports[w]) = << >>
    BY <2>1, ShortQueues
  <2>3. Head(reports[w]).task = TaskOf(w) /\ Head(reports[w]).retcode = -1
    BY <1>2, <2>2, Messages
  <2> QED BY <1>1, <1>2, <1>3, <1>4, <1>5, <2>1, <2>2, <2>3 DEF CanTake
<1>6. CASE workerPc[w] # "gaveup"
  <2>1. /\ workerPc[w] = "listening" /\ inbox[w] = << >>
        /\ reports[w] = << Head(reports[w]) >>
        /\ Head(reports[w]).task = TaskOf(w)
        /\ Head(reports[w]).retcode = 0 <=> commandOk[TaskOf(w)]
    BY <1>2, <1>6 DEF InHandOf, AtWork, TaskOf
  <2>2. Tail(reports[w]) = << >>
    BY <2>1, ShortQueues
  <2> QED BY <1>1, <1>2, <1>3, <1>4, <2>1, <2>2 DEF CanTake
<1> QED BY <1>5, <1>6

\* The ranks once the report of w has been received and w is free again.
LEMMA OthersAtWork ==
  ASSUME MPIInv, NEW w \in Workers, reports[w] # << >>, ~ fired,
         reports' = [ reports EXCEPT ![w] = Tail(@) ]
  PROVE  LET free == Append(freeWorkers, w)
         IN  /\ \A v \in Workers \ Range(free) :
                  /\ v # w /\ v \in Busy /\ InHandOf(v)
                  /\ taskAssignation[v] \in validTasks \ {TaskOf(w)}
                  /\ taskState[taskAssignation[v]] = "running"
                  /\ reports'[v] = reports[v]
                  /\ \A x \in Workers \ Range(free) :
                       taskAssignation[x] = taskAssignation[v] => x = v
             /\ \A s \in validTasks \ {TaskOf(w)} : taskState[s] = "running" =>
                  \E v \in Workers \ Range(free) : taskAssignation[v] = s
             /\ \A v \in Range(free) : reports'[v] = << >> /\ CanTake(v)
<1> DEFINE free == Append(freeWorkers, w)
<1>1. /\ reports \in [ Workers -> Seq([ task : TaskId, retcode : Int ]) ]
      /\ Range(free) = Range(freeWorkers) \cup {w}
      /\ w \in Busy
      /\ Tail(reports[w]) = << >> /\ CanTake(w)
  BY ReportReceived DEF MPIInv, MPITypeOK
<1> HIDE DEF free
<1>2. \A v \in Workers : reports'[v] = IF v = w THEN << >> ELSE reports[v]
  BY <1>1
<1>3. \A v \in Workers \ Range(free) : v # w /\ v \in Busy
  BY <1>1 DEF Busy
<1>4. \A v \in Busy : v # w => taskAssignation[v] # TaskOf(w) /\ v \in Workers \ Range(free)
  BY <1>1, MasterSees DEF TaskOf
<1>5. \A v \in Range(free) : reports'[v] = << >> /\ CanTake(v)
  BY <1>1, <1>2, MasterSees
<1>6. \A s \in validTasks \ {TaskOf(w)} : taskState[s] = "running" =>
         \E v \in Workers \ Range(free) : taskAssignation[v] = s
  BY <1>4, MasterSees DEF TaskOf
<1>7. \A v \in Workers \ Range(free) :
        /\ v # w /\ v \in Busy /\ InHandOf(v)
        /\ taskAssignation[v] \in validTasks \ {TaskOf(w)}
        /\ taskState[taskAssignation[v]] = "running"
        /\ reports'[v] = reports[v]
        /\ \A x \in Workers \ Range(free) :
             taskAssignation[x] = taskAssignation[v] => x = v
  BY <1>2, <1>3, <1>4, MasterSees
<1> QED BY <1>5, <1>6, <1>7 DEF free

\* A report of failure for a task that has retries left.
LEMMA RetryKeepsMPI ==
  ASSUME MPIInv, MustWait, NEW w \in Workers, reports[w] # << >>,
         EpilogueRetry(w, Head(reports[w]).retcode),
         reports' = [ reports EXCEPT ![w] = Tail(@) ],
         UNCHANGED << pc, validTasks, revDepMap, workerPc, command, fired, commandOk >>
  PROVE  MPIInv'
<1> DEFINE t == TaskOf(w)
           free == Append(freeWorkers, w)
<1>1. /\ pc \in {"schedule", "drain"} /\ ~ fired
      /\ t \in validTasks /\ t \in TaskId /\ taskState[t] = "running"
      /\ free \in Seq(Workers) /\ IsInjective(free) /\ free # << >>
      /\ CanRetry(t)
      /\ retries' = [ retries EXCEPT ![t] = @ + 1 ]
      /\ Send(t, free)
      /\ UNCHANGED << dependencies, blockedTasks, taskQueue >>
  BY MasterSees, ReportReceived DEF MustWait, EpilogueRetry
<1>2. /\ \A v \in Workers \ Range(free) :
           /\ v # w /\ v \in Busy /\ InHandOf(v)
           /\ taskAssignation[v] \in validTasks \ {t}
           /\ taskState[taskAssignation[v]] = "running"
           /\ reports'[v] = reports[v]
           /\ \A x \in Workers \ Range(free) :
                taskAssignation[x] = taskAssignation[v] => x = v
      /\ \A s \in validTasks \ {t} : taskState[s] = "running" =>
           \E v \in Workers \ Range(free) : taskAssignation[v] = s
      /\ \A v \in Range(free) : reports'[v] = << >> /\ CanTake(v)
  BY <1>1, OthersAtWork
<1> HIDE DEF t, free
<1>3. /\ RanksAgree'
      /\ freeWorkers' \in Seq(Workers)
      /\ taskAssignation' \in [ Workers -> TaskId \cup {0} ]
      /\ inbox' \in [ Workers -> Seq(Message) ]
      /\ taskState' = [ taskState EXCEPT ![t] = "running" ]
  BY <1>1, <1>2, MasterSees, SendKeepsRanks
<1>4. TablesAgree' /\ taskState' \in [ TaskId -> TaskStates ]
  <2>1. Range(taskQueue') \subseteq Range(taskQueue) \ {t} /\ IsInjective(taskQueue')
    BY <1>1, MasterSees DEF TablesAgree, QueueOfWaiting
  <2> QED BY <1>1, <1>3, <2>1, MasterSees, StartAgrees
<1>5. retries' \in [ TaskId -> 0..MaxRetries ] /\ \A s \in TaskId \ {t} : retries'[s] = retries[s]
  BY <1>1, MasterSees, MaxRetriesAssumption DEF CanRetry
<1>6. SchedTypeOK'
  BY <1>1, <1>3, <1>4, <1>5, MasterSees DEF SchedTypeOK, Workers
<1>7. /\ \A s \in TaskId \ {t} : taskState'[s] = taskState[s]
      /\ taskState'[t] = "running"
  BY <1>1, <1>3, MasterSees DEF SchedTypeOK
<1>8. QueuesComplete'
  BY <1>1, <1>7, MasterSees, StartKeepsQueues
<1>9. LossSpreads({"failed", "cancelled"})'
  BY <1>1, <1>7, MasterSees, StartKeepsLoss
<1>10. reports' \in [ Workers -> Seq([ task : TaskId, retcode : Int ]) ]
  <2>1. reports \in [ Workers -> Seq([ task : TaskId, retcode : Int ]) ] /\ Tail(reports[w]) = << >>
    BY ReportReceived DEF MPIInv, MPITypeOK
  <2>2. << >> \in Seq([ task : TaskId, retcode : Int ])
    OBVIOUS
  <2> QED BY <2>1, <2>2
<1>11. MPITypeOK'
  BY <1>3, <1>6, <1>10, MasterSees DEF MPITypeOK, Workers, Message
<1>12. VerdictOfCommand'
  BY <1>5, <1>7, MasterSees DEF VerdictOfCommand
<1> QED BY <1>3, <1>4, <1>8, <1>9, <1>11, <1>12 DEF MPIInv

\* A report that settles a task.
LEMMA SettleKeepsMPI ==
  ASSUME MPIInv, MustWait, NEW w \in Workers, reports[w] # << >>,
         \/ EpilogueSuccess(w, Head(reports[w]).retcode)
         \/ EpilogueFailure(w, Head(reports[w]).retcode),
         reports' = [ reports EXCEPT ![w] = Tail(@) ],
         UNCHANGED << pc, validTasks, revDepMap, workerPc, command, fired, commandOk >>
  PROVE  MPIInv'
<1> DEFINE t == TaskOf(w)
           free == Append(freeWorkers, w)
<1>1. /\ pc \in {"schedule", "drain"} /\ ~ fired
      /\ t \in validTasks /\ t \in TaskId /\ taskState[t] = "running"
      /\ free \in Seq(Workers) /\ IsInjective(free)
      /\ freeWorkers' = free
      /\ \/ Complete(t) /\ commandOk[t]
         \/ Fail(t) /\ ~ commandOk[t] /\ ~ CanRetry(t)
      /\ UNCHANGED << retries, taskAssignation, inbox >>
  BY MasterSees, ReportReceived DEF MustWait, EpilogueSuccess, EpilogueFailure
<1>2. /\ \A v \in Workers \ Range(free) :
           /\ v # w /\ v \in Busy /\ InHandOf(v)
           /\ taskAssignation[v] \in validTasks \ {t}
           /\ taskState[taskAssignation[v]] = "running"
           /\ reports'[v] = reports[v]
           /\ \A x \in Workers \ Range(free) :
                taskAssignation[x] = taskAssignation[v] => x = v
      /\ \A s \in validTasks \ {t} : taskState[s] = "running" =>
           \E v \in Workers \ Range(free) : taskAssignation[v] = s
      /\ \A v \in Range(free) : reports'[v] = << >> /\ CanTake(v)
  BY <1>1, OthersAtWork
<1> HIDE DEF t, free
<1>3. /\ TablesAgree'
      /\ taskState' \in [ TaskId -> TaskStates ]
      /\ dependencies' \in [ TaskId -> SUBSET (Nat \ {0}) ]
      /\ taskQueue' \in Seq(TaskId)
      /\ blockedTasks' \in SUBSET TaskId
  <2>1. pc' # "start" /\ UNCHANGED << validTasks, revDepMap >>
    BY <1>1
  <2>2. CASE Complete(t)
    BY <1>1, <2>1, <2>2, MasterSees, CompleteAgrees
  <2>3. CASE Fail(t)
    BY <1>1, <2>1, <2>3, MasterSees, FailAgrees DEF SchedTypeOK
  <2> QED BY <1>1, <2>2, <2>3
<1>4. /\ QueuesComplete'
      /\ LossSpreads({"failed", "cancelled"})'
      /\ \A s \in TaskId \ {t} :
           \/ taskState'[s] = taskState[s]
           \/ /\ taskState[s] \in {"blocked", "invalid"}
              /\ taskState'[s] \in {"waiting", "cancelled"}
      /\ Complete(t) => taskState'[t] = "completed"
      /\ Fail(t) => taskState'[t] = "failed"
  BY <1>1, MasterSees, SettleKeepsQueues, SettleElsewhere
<1>5. SchedTypeOK'
  BY <1>1, <1>3, MasterSees DEF SchedTypeOK, Workers
<1>6. reports' \in [ Workers -> Seq([ task : TaskId, retcode : Int ]) ]
  <2>1. reports \in [ Workers -> Seq([ task : TaskId, retcode : Int ]) ] /\ Tail(reports[w]) = << >>
    BY ReportReceived DEF MPIInv, MPITypeOK
  <2>2. << >> \in Seq([ task : TaskId, retcode : Int ])
    OBVIOUS
  <2> QED BY <2>1, <2>2
<1>7. MPITypeOK'
  BY <1>1, <1>5, <1>6, MasterSees DEF MPITypeOK, Workers, Message
<1>8. VerdictOfCommand'
  <2>1. ~ CanRetry(t) => retries[t] = MaxRetries
    BY <1>1, MasterSees, MaxRetriesAssumption DEF CanRetry
  <2>2. ASSUME NEW s \in TaskId
        PROVE  /\ taskState'[s] = "completed" => commandOk[s]
               /\ taskState'[s] = "failed" => ~ commandOk[s] /\ retries[s] = MaxRetries
    <3>1. CASE s = t
      BY <1>1, <1>4, <2>1, <3>1
    <3>2. CASE s # t
      BY <1>4, <3>2, MasterSees DEF VerdictOfCommand
    <3> QED BY <3>1, <3>2
  <2> QED BY <1>1, <2>2 DEF VerdictOfCommand
<1>9. RanksAgree'
  <2>1. Busy' = Workers \ Range(free) /\ Workers' = Workers
    BY <1>1 DEF Busy, Workers
  <2>2. \A v \in Busy' : taskState'[taskAssignation[v]] = "running"
    BY <1>2, <1>4, <2>1, MasterSees
  <2>3. ASSUME NEW v \in Workers PROVE InPlace(v)'
    <3>1. CASE v \in Range(free)
      <4>1. reports'[v] = << >> /\ CanTake(v) /\ v \notin Busy'
        BY <1>2, <2>1, <3>1
      <4> QED BY <1>1, <4>1 DEF InPlace, OutOfReach, AtRest, CanTake
    <3>2. CASE v \notin Range(free)
      <4>1. reports'[v] = reports[v] /\ InHandOf(v) /\ v \in Busy /\ v \in Busy'
        BY <1>2, <2>1, <3>2
      <4> QED BY <1>1, <4>1 DEF InPlace, InHandOf, OutOfReach, AtWork
    <3> QED BY <3>1, <3>2
  <2>4. \A s \in validTasks : taskState'[s] = "running" => \E v \in Busy' : taskAssignation[v] = s
    BY <1>1, <1>2, <1>4, <2>1, MasterSees
  <2>5. \A u, v \in Busy' : taskAssignation[u] = taskAssignation[v] => u = v
    BY <1>2, <2>1
  <2>6. \A v \in Busy' : taskAssignation[v] \in validTasks
    BY <1>2, <2>1
  <2> QED BY <1>1, <2>1, <2>2, <2>3, <2>4, <2>5, <2>6 DEF RanksAgree, InPlace
<1> QED BY <1>3, <1>4, <1>7, <1>8, <1>9 DEF MPIInv

\* The tables of the master, the channels and the workers agree after every send,
\* receive and end of a command, also when a worker gives up (runWorker).
THEOREM MPIInvariant == Spec => []MPIInv
<1>1. MPIInv /\ [Next]_vars => MPIInv'
  <2> SUFFICES ASSUME MPIInv, [Next]_vars PROVE MPIInv'
    OBVIOUS
  <2>1. CASE (FillQueue \/ LeaveLoop \/ Return) /\ UNCHANGED mpiVars
    BY <2>1, ControlKeepsMPI
  <2>2. CASE Allocate
    BY <2>2, AllocateKeepsMPI
  <2>3. CASE WaitForAnyWorker
    <3>1. PICK w \in Workers :
            /\ reports[w] # << >>
            /\ \/ EpilogueSuccess(w, Head(reports[w]).retcode)
               \/ EpilogueFailure(w, Head(reports[w]).retcode)
               \/ EpilogueRetry(w, Head(reports[w]).retcode)
            /\ reports' = [ reports EXCEPT ![w] = Tail(@) ]
      BY <2>3 DEF WaitForAnyWorker
    <3>2. /\ MustWait
          /\ UNCHANGED << pc, validTasks, revDepMap, workerPc, command, fired, commandOk >>
      BY <2>3 DEF WaitForAnyWorker
    <3> QED BY <3>1, <3>2, RetryKeepsMPI, SettleKeepsMPI
  <2>4. CASE FireWorkers
    BY <2>4, FireKeepsMPI
  <2>5. ASSUME NEW w \in Workers, Worker(w) PROVE MPIInv'
    BY <2>5, ListeningKeepsInv, CommandArrivesKeepsInv, CommandEndsKeepsInv DEF Worker
  <2>6. CASE UNCHANGED vars
    <3>1. UNCHANGED mpiVars /\ UNCHANGED schedVars
      BY <2>6 DEF vars
    <3>2. SchedTypeOK' /\ TablesAgree' /\ QueuesComplete' /\ LossSpreads({"failed", "cancelled"})'
      BY <3>1 DEF schedVars, MPIInv, MPITypeOK, SchedTypeOK, TablesAgree, BackwardOnly,
         DependenciesLeft, DroppedStaysOut, ReadyHasNoDependencies, CancelledByParent,
         QueueOfWaiting, Parents, QueuesComplete, LossSpreads, Workers
    <3>3. MPITypeOK' /\ VerdictOfCommand'
      BY <3>1, <3>2 DEF schedVars, mpiVars, MPIInv, MPITypeOK, VerdictOfCommand, Workers,
         Message
    <3>4. RanksAgree'
      BY <3>1 DEF schedVars, mpiVars, MPIInv, RanksAgree, Busy, OutOfReach, AtWork, AtRest,
         Workers
    <3> QED BY <3>2, <3>3, <3>4 DEF MPIInv
  <2> QED BY <2>1, <2>2, <2>3, <2>4, <2>5, <2>6 DEF Next, Master
<1> QED BY <1>1, InitMPIInv, PTL DEF Spec

\* A verdict is that of the task's own command, on its last run: the reports reach
\* the master in an order that never charges one to another task.
THEOREM MPIVerdictsAreTrue == Spec => []VerdictOfCommand
BY MPIInvariant, PTL DEF MPIInv

\* No worker has work taskAssignation does not know of, or the other way round.
THEOREM MPIWorkersAccounted == Spec => []WorkersAccounted
<1>1. MPIInv => WorkersAccounted
  <2> SUFFICES ASSUME MPIInv PROVE WorkersAccounted
    OBVIOUS
  <2>1. ASSUME NEW t \in TaskId
        PROVE  (taskState[t] = "running") <=>
                 \E w \in Workers \ Range(freeWorkers) :
                   /\ taskAssignation[w] = t
                   /\ \A v \in Workers \ Range(freeWorkers) : taskAssignation[v] = t => v = w
    <3>1. taskState[t] = "running" => t \in validTasks
      BY MasterSees DEF TablesAgree, DroppedStaysOut
    <3> QED BY <3>1, MasterSees DEF Busy
  <2>2. ASSUME NEW w \in Workers, NEW i \in DOMAIN reports[w]
        PROVE  reports[w][i].task = taskAssignation[w]
    <3>1. reports[w] # << >>
      BY <2>2
    <3>2. Tail(reports[w]) = << >> /\ Head(reports[w]).task = taskAssignation[w]
      BY <3>1, ReportReceived DEF TaskOf
    <3>3. reports[w] \in Seq([ task : TaskId, retcode : Int ])
      BY DEF MPIInv, MPITypeOK
    <3> DEFINE r == reports[w]
    <3>4. r \in Seq([ task : TaskId, retcode : Int ]) /\ r # << >> /\ Tail(r) = << >>
      BY <3>1, <3>2, <3>3
    <3> HIDE DEF r
    <3>5. Len(Tail(r)) = Len(r) - 1 /\ Len(r) \in Nat /\ DOMAIN r = 1..Len(r)
      BY <3>4, HeadTailProperties, LenProperties
    <3>6. DOMAIN r = {1}
      <4>1. Len(<< >>) = 0
        OBVIOUS
      <4>2. Len(Tail(r)) = Len(<< >>)
        BY <3>4, Zenon
      <4> QED BY <3>5, <4>1, <4>2
    <3>7. i = 1 /\ Head(r) = r[1]
      BY <2>2, <3>4, <3>6 DEF r
    <3> QED BY <3>2, <3>7 DEF r
  <2>3. ASSUME NEW w \in Workers, workerPc[w] # "gaveup"
        PROVE  Cardinality(InHand(w)) = IF w \in Range(freeWorkers) THEN 0 ELSE 1
    <3>1. w \in Range(freeWorkers) => InHand(w) = {}
      <4> SUFFICES ASSUME w \in Range(freeWorkers) PROVE InHand(w) = {}
        OBVIOUS
      <4>1. AtRest(w)
        BY <2>3 DEF MPIInv, RanksAgree, Busy
      <4>2. /\ DOMAIN reports[w] = {} /\ workerPc[w] # "running"
            /\ \A k \in DOMAIN inbox[w] : inbox[w][k].kind = "fired"
        BY <4>1, Messages DEF AtRest
      <4> QED BY <4>2 DEF InHand
    <3>2. w \notin Range(freeWorkers) => \E x : InHand(w) = {x}
      <4> SUFFICES ASSUME w \notin Range(freeWorkers) PROVE \E x : InHand(w) = {x}
        OBVIOUS
      <4>1. AtWork(w)
        BY <2>3 DEF MPIInv, RanksAgree, Busy
      <4> DEFINE t == taskAssignation[w]
      <4>2. Size.kind # "command" /\ Command(t).kind = "command"
        BY DEF Size, Command
      <4>3. CASE reports[w] = << >> /\ workerPc[w] = "listening"
                 /\ inbox[w] = << Size, Command(t) >>
        <5>1. DOMAIN reports[w] = {} /\ { k \in DOMAIN inbox[w] : inbox[w][k].kind = "command" } = {2}
          BY <4>2, <4>3
        <5>2. InHand(w) = { << "message", 2 >> }
          BY <4>3, <5>1 DEF InHand
        <5> QED BY <5>2
      <4>4. CASE reports[w] = << >> /\ workerPc[w] = "expecting" /\ inbox[w] = << Command(t) >>
        <5>1. DOMAIN reports[w] = {} /\ { k \in DOMAIN inbox[w] : inbox[w][k].kind = "command" } = {1}
          BY <4>2, <4>4
        <5>2. InHand(w) = { << "message", 1 >> }
          BY <4>4, <5>1 DEF InHand
        <5> QED BY <5>2
      <4>5. CASE reports[w] = << >> /\ workerPc[w] = "running" /\ inbox[w] = << >>
        <5>1. DOMAIN reports[w] = {} /\ DOMAIN inbox[w] = {}
          BY <4>5
        <5>2. InHand(w) = { << "running", 0 >> }
          BY <4>5, <5>1 DEF InHand
        <5> QED BY <5>2
      <4>6. CASE workerPc[w] = "listening" /\ inbox[w] = << >>
                 /\ reports[w] = << Head(reports[w]) >>
        <5>1. DOMAIN reports[w] = {1} /\ DOMAIN inbox[w] = {}
          BY <4>6
        <5>2. InHand(w) = { << "report", 1 >> }
          BY <4>6, <5>1 DEF InHand
        <5> QED BY <5>2
      <4> QED BY <4>1, <4>3, <4>4, <4>5, <4>6 DEF AtWork
    <3> QED BY <3>1, <3>2, FS_EmptySet, FS_Singleton
  <2>4. ASSUME fired, NEW w \in Workers PROVE w \in Range(freeWorkers)
    BY <2>4 DEF MPIInv, RanksAgree, Busy
  <2> QED BY <2>1, <2>2, <2>3, <2>4, MasterSees DEF WorkersAccounted
<1> QED BY <1>1, MPIInvariant, PTL

\* The master over MPI keeps what the basic engine keeps: it starts no task before
\* its parents have completed, cancels exactly the dependants of what failed, and
\* leaves no task behind.
THEOREM MPIKeepsOrder == Spec => [](ParentsFirst /\ CancelledWithAncestor /\ NothingLeftBehind)
<1>1. MPIInv => ParentsFirst
  BY MasterSees DEF ParentsFirst, TablesAgree, ReadyHasNoDependencies, DependenciesLeft
<1>2. MPIInv => CancelledWithAncestor
  BY MasterSees DEF CancelledWithAncestor, SchedTypeOK, TablesAgree, CancelledByParent,
     LossSpreads, Parents
<1>3. MPIInv => NothingLeftBehind
  <2> SUFFICES ASSUME MPIInv, pc \in {"schedule", "drain", "done"}
               PROVE  /\ IsInjective(taskQueue)
                      /\ Range(taskQueue) = { t \in validTasks : taskState[t] = "waiting" }
                      /\ blockedTasks = { t \in validTasks : taskState[t] = "blocked" }
                      /\ pc = "done" => \A t \in validTasks : taskState[t] \in FinalStates
    BY DEF NothingLeftBehind
  <2>1. /\ IsInjective(taskQueue)
        /\ Range(taskQueue) = { t \in validTasks : taskState[t] = "waiting" }
        /\ blockedTasks = { t \in validTasks : taskState[t] = "blocked" }
    BY MasterSees DEF TablesAgree, QueueOfWaiting, QueuesComplete
  <2>2. ASSUME pc = "done", NEW t \in validTasks PROVE taskState[t] \in FinalStates
    <3>1. taskState[t] \in TaskStates /\ taskState[t] # "invalid"
      BY MasterSees DEF SchedTypeOK, TablesAgree, ReadyHasNoDependencies
    <3>2. taskState[t] # "waiting" /\ taskState[t] # "blocked"
      BY <2>1, <2>2, MasterSees DEF QueuesComplete, Range
    <3>3. taskState[t] # "running"
      BY <2>2 DEF MPIInv, RanksAgree
    <3> QED BY <3>1, <3>2, <3>3 DEF TaskStates, FinalStates
  <2> QED BY <2>1, <2>2
<1> QED BY <1>1, <1>2, <1>3, MPIInvariant, PTL

-------------------------------------------------------------------------------
(* MPIEngine implements Workflow                                           *)

\* A step of the engine is a step of the workflow, or none the user can see.
LEMMA MPIStepImplements ==
  ASSUME MPIInv, MPIInv', [Next]_vars
  PROVE  [Promise!Next]_(Promise!wfVars)
<1>0. /\ SchedTypeOK /\ TablesAgree /\ SchedTypeOK' /\ TablesAgree'
      /\ LossSpreads({"failed", "cancelled"})'
  BY DEF MPIInv, MPITypeOK
<1>1. CASE Allocate
  <2> DEFINE t == Head(taskQueue)
  <2>1. t \in Range(taskQueue)
    BY <1>0, <1>1, PopHead DEF Allocate, MustAllocate, SchedTypeOK, TablesAgree, QueueOfWaiting
  <2>2. t \in validTasks /\ taskState[t] = "waiting"
    BY <1>0, <2>1 DEF TablesAgree, QueueOfWaiting
  <2>3. /\ taskState' = [ taskState EXCEPT ![t] = "running" ]
        /\ UNCHANGED << validTasks, revDepMap >>
    BY <1>1 DEF Allocate, Send
  <2> HIDE DEF t
  <2>4. Promise!Start(t) /\ t \in TaskId
    BY <1>0, <2>2, <2>3, StartStep, StatusOfValid DEF StatusesMean
  <2> QED BY <2>4 DEF Promise!Next
<1>2. CASE WaitForAnyWorker
  <2>1. PICK w \in Workers :
          /\ reports[w] # << >>
          /\ \/ EpilogueSuccess(w, Head(reports[w]).retcode)
             \/ EpilogueFailure(w, Head(reports[w]).retcode)
             \/ EpilogueRetry(w, Head(reports[w]).retcode)
    BY <1>2 DEF WaitForAnyWorker
  <2>2. UNCHANGED << validTasks, revDepMap >>
    BY <1>2 DEF WaitForAnyWorker
  <2>3. TaskOf(w) \in validTasks /\ TaskOf(w) \in TaskId /\ taskState[TaskOf(w)] = "running"
    BY <2>1, ReportReceived
  <2>4. CASE EpilogueSuccess(w, Head(reports[w]).retcode)
    <3>1. Promise!Finish(TaskOf(w))
      BY <1>0, <2>2, <2>3, <2>4, FinishStep DEF EpilogueSuccess
    <3> QED BY <2>3, <3>1 DEF Promise!Next
  <2>5. CASE EpilogueFailure(w, Head(reports[w]).retcode)
    <3>1. Promise!Abandon(TaskOf(w))
      BY <1>0, <2>2, <2>3, <2>5, AbandonStep DEF EpilogueFailure
    <3> QED BY <2>3, <3>1 DEF Promise!Next
  <2>6. CASE EpilogueRetry(w, Head(reports[w]).retcode)
    <3>1. taskState' = [ taskState EXCEPT ![TaskOf(w)] = "running" ]
      BY <2>6 DEF EpilogueRetry, Send
    <3>2. UNCHANGED Promise!wfVars
      BY <1>0, <2>2, <2>3, <3>1, RestartStep
    <3> QED BY <3>2
  <2> QED BY <2>1, <2>4, <2>5, <2>6
<1>3. CASE FillQueue \/ LeaveLoop \/ Return
  BY <1>3, UnseenStep DEF FillQueue, LeaveLoop, Return
<1>4. CASE FireWorkers \/ (\E w \in Workers : Worker(w)) \/ UNCHANGED vars
  BY <1>4, UnseenStep DEF FireWorkers, Worker, vars, schedVars
<1> QED BY <1>1, <1>2, <1>3, <1>4 DEF Next, Master

\* The initial states are initial states of the workflow.
LEMMA MPIInitImplements == Init => Promise!Init
BY SchedInitImplements DEF Init

\* The engine over MPI implements the abstract workflow, for any number of tasks,
\* workers and retries, also when workers give up.
THEOREM MPIImplementsWorkflow == Spec => ImplementsWorkflow
<1>1. MPIInv /\ MPIInv' /\ [Next]_vars => [Promise!Next]_(Promise!wfVars)
  BY MPIStepImplements
<1> QED BY <1>1, MPIInitImplements, MPIInvariant, PTL
       DEF Spec, ImplementsWorkflow, Promise!Spec
===============================================================================
