---------------------------- MODULE BasicRunProofs -----------------------------
(***************************************************************************)
(* A run of Greasy with the basic engine, from the load of the task file   *)
(* to the restart file, proved for every task file, every number of        *)
(* workers and any number of signals: the inductive invariant RunInv, what *)
(* follows from it, and that the run is one of BasicEngine.                *)
(***************************************************************************)
EXTENDS RunInvariant, BasicEngineProofs

-------------------------------------------------------------------------------
(* Between two calls of updateDependencies                                 *)

\* Without a call in progress the tables are those the handlers of the master take
\* for granted.
LEMMA IdleIsWork ==
  ASSUME TablesKept, TablesAtWork, calls = << >>
  PROVE  WorkInv
<1>1. \A c \in TaskId : NotReleased[c] = {}
  BY DEF NotReleased
<1>2. validTasks \subseteq TaskId
  BY DEF TablesKept, TypeOK, SchedTypeOK
<1>3. DependenciesLeft
  BY <1>1, <1>2 DEF TablesAtWork, DependenciesOwed, DependenciesLeft, Owed
<1>4. CancelledByParent
  BY <1>2 DEF TablesKept, CancelledBelow, CancelledByParent
<1>5. EngineInv
  BY <1>3, <1>4 DEF TablesKept, TablesAtWork, EngineInv, TablesAgree
<1>6. \A t, c : ~ StillToTell(t, c)
  BY DEF StillToTell
<1>7. NobodyForgotten
  BY <1>6 DEF TablesAtWork, LossIsSpreading, LossSpreads, NobodyForgotten
<1> QED BY <1>5, <1>7 DEF WorkInv, TablesAtWork

\* When nothing is left to do, every task has a verdict or was dropped.
LEMMA DoneIsSettled ==
  ASSUME WorkInv, pc = "done"
  PROVE  \A t \in TaskId : taskState[t] \in FinalStates \cup {"invalid"}
<1> SUFFICES ASSUME NEW t \in TaskId PROVE taskState[t] \in FinalStates \cup {"invalid"}
  OBVIOUS
<1>1. CASE t \in validTasks
  <2>1. taskState[t] \in TaskStates
    BY DEF WorkInv, EngineInv, TypeOK, SchedTypeOK
  <2>2. taskState[t] # "waiting" /\ taskState[t] # "blocked"
    BY <1>1 DEF WorkInv, EveryoneKnown, QueuesComplete, Range
  <2>3. taskState[t] # "running"
    BY <1>1 DEF WorkInv, EveryoneKnown
  <2> QED BY <2>1, <2>2, <2>3 DEF TaskStates, FinalStates
<1>2. CASE t \notin validTasks
  BY <1>2 DEF WorkInv, EngineInv, TablesAgree, DroppedStaysOut, FinalStates
<1> QED BY <1>1, <1>2

\* The other way around.
LEMMA WorkIsIdle ==
  WorkInv /\ CancelledBelow /\ calls = << >> => TablesKept /\ TablesAtWork
<1> SUFFICES ASSUME WorkInv, CancelledBelow, calls = << >>
             PROVE  TablesKept /\ TablesAtWork
  OBVIOUS
<1>1. \A c \in TaskId : NotReleased[c] = {}
  BY DEF NotReleased
<1>2. validTasks \subseteq TaskId /\ EngineInv
  BY DEF WorkInv, EngineInv, TypeOK, SchedTypeOK
<1>3. DependenciesOwed
  BY <1>1, <1>2 DEF EngineInv, TablesAgree, DependenciesOwed, DependenciesLeft, Owed
<1>4. CallsFit
  BY DEF CallsFit
<1>5. TablesKept
  BY <1>2, <1>4, DoneIsSettled DEF TablesKept, EngineInv, TablesAgree, DroppedStaysOut,
     ReadyHasNoDependencies
<1>6. /\ LossSpreads({"cancelled"}) => LossIsSpreading({"cancelled"})
      /\ LossSpreads({"failed"}) => LossIsSpreading({"failed"})
  BY DEF LossSpreads, LossIsSpreading
<1> QED BY <1>2, <1>3, <1>5, <1>6 DEF WorkInv, EngineInv, TablesAgree, TablesAtWork,
           NobodyForgotten

\* A handler that settles no task cancels none, and starts only tasks it has kept.
LEMMA NobodyCancelled ==
  ASSUME EngineInv,
         \/ FillQueue \/ LeaveLoop \/ Return \/ WaitWithoutChild
         \/ Allocate
         \/ WaitForAnyWorker /\ retries' # retries
         \/ \E pid \in Pids : ChildEnds(pid)
  PROVE  /\ \A t \in TaskId : taskState'[t] = "cancelled" => taskState[t] = "cancelled"
         /\ UNCHANGED << validTasks, revDepMap >>
<1>1. /\ SchedTypeOK /\ TablesAgree /\ taskState \in [ TaskId -> TaskStates ]
      /\ validTasks \subseteq TaskId
  BY DEF EngineInv, TypeOK, SchedTypeOK
<1>2. ASSUME NEW s \in validTasks, NEW free, NEW procs,
             Fork(s, free, procs) \/ ForkFails(s, free, procs)
      PROVE  \A t \in TaskId : taskState'[t] = "cancelled" => taskState[t] = "cancelled"
  BY <1>1, <1>2 DEF Fork, ForkFails
<1>3. CASE Allocate
  <2>1. Head(taskQueue) \in Range(taskQueue)
    BY <1>1, <1>3, PopHead DEF Allocate, MustAllocate, SchedTypeOK, TablesAgree,
       QueueOfWaiting
  <2>2. Head(taskQueue) \in validTasks
    BY <1>1, <2>1 DEF TablesAgree, QueueOfWaiting
  <2> QED BY <1>2, <1>3, <2>2 DEF Allocate
<1>4. CASE WaitForAnyWorker /\ retries' # retries
  <2>1. PICK pid \in zombies : EpilogueRetry(pid)
    BY <1>4 DEF WaitForAnyWorker, EpilogueSuccess, EpilogueFailure
  <2>2. TaskOf(pid) \in validTasks
    BY ReapedChild
  <2> QED BY <1>2, <1>4, <2>1, <2>2 DEF EpilogueRetry, WaitForAnyWorker
<1>5. CASE FillQueue \/ LeaveLoop \/ Return \/ WaitWithoutChild
  BY <1>5 DEF FillQueue, LeaveLoop, Return, WaitWithoutChild
<1>6. CASE \E pid \in Pids : ChildEnds(pid)
  BY <1>6 DEF ChildEnds, CommandReturns, ChildKilled, schedVars
<1> QED BY <1>3, <1>4, <1>5, <1>6

\* The handlers of the master that call nothing, and the children that end between
\* two calls.
LEMMA IdleStepKeeps ==
  ASSUME TablesKept, TablesAtWork, calls = << >>, calls' = << >>, Next,
         \/ FillQueue \/ LeaveLoop \/ Return \/ WaitWithoutChild
         \/ Allocate
         \/ WaitForAnyWorker /\ retries' # retries
         \/ \E pid \in Pids : ChildEnds(pid)
  PROVE  TablesKept' /\ TablesAtWork'
<1>1. WorkInv /\ EngineInv
  BY IdleIsWork DEF WorkInv
<1>2. WorkInv'
  BY <1>1, StepKeepsWork
<1>3. /\ \A t \in TaskId : taskState'[t] = "cancelled" => taskState[t] = "cancelled"
      /\ UNCHANGED << validTasks, revDepMap >>
  BY <1>1, NobodyCancelled
<1>4. \A t \in TaskId : taskState[t] \in {"failed", "cancelled"} => taskState'[t] = taskState[t]
  BY <1>1, StepKeepsVerdicts DEF FinalStates
<1>5. validTasks \subseteq TaskId
  BY <1>1 DEF EngineInv, TypeOK, SchedTypeOK
<1>6. CancelledBelow'
  BY <1>3, <1>4, <1>5 DEF TablesKept, CancelledBelow, Parents
<1>7. WorkInv' /\ CancelledBelow' /\ (calls = << >>)' => TablesKept' /\ TablesAtWork'
  BY WorkIsIdle, PTL
<1> QED BY <1>2, <1>6, <1>7

-------------------------------------------------------------------------------
(* The start of a call for the task of a child that ended                  *)

\* The child is gone, and its task has its verdict.
LEMMA ReapTakesChild ==
  ASSUME TablesKept, TablesAtWork, calls = << >>, MustWait,
         NEW pid \in zombies, NEW verdict \in {"completed", "failed"},
         taskState' = [ taskState EXCEPT ![TaskOf(pid)] = verdict ],
         freeWorkers' = Freed(pid), child' = Reaped(pid),
         zombies' = zombies \ {pid},
         waitStatus' = [ waitStatus EXCEPT ![pid] = 0 ],
         UNCHANGED << pc, dependencies, retries, validTasks, revDepMap, taskQueue,
                      blockedTasks, taskAssignation, pidToWorker, commandOk >>
  PROVE  TypeOK' /\ ChildrenInOrder' /\ EveryoneKnown'
<1>1. WorkInv /\ EngineInv /\ SchedTypeOK /\ TypeOK
  BY IdleIsWork DEF WorkInv, EngineInv, TypeOK
<1>2. PICK t : t = TaskOf(pid)
  OBVIOUS
<1>3. /\ pid \in Pids /\ t \in validTasks /\ t \in TaskId /\ taskState[t] = "running"
      /\ Freed(pid) \in Seq(Workers)
      /\ Reaped(pid) \in [ Pids -> TaskId \cup {0} ]
      /\ OrderOf(Reaped(pid), Freed(pid))
      /\ \A p \in Pids : /\ Reaped(pid)[p] = IF p = pid THEN 0 ELSE child[p]
                         /\ Reaped(pid)[p] # 0 => taskState[Reaped(pid)[p]] = "running"
                         /\ Reaped(pid)[p] # t
  BY <1>1, <1>2, ReapedChild DEF SchedTypeOK
<1>4. /\ taskState' \in [ TaskId -> TaskStates ]
      /\ \A s \in TaskId : taskState'[s] = IF s = t THEN verdict ELSE taskState[s]
  BY <1>1, <1>2, <1>3 DEF SchedTypeOK, TaskStates
<1>5. SchedTypeOK'
  BY <1>1, <1>3, <1>4 DEF SchedTypeOK, Workers
<1>6. TypeOK'
  <2>1. zombies' \subseteq Children'
    <3>1. \A p \in zombies : p \in Pids /\ child[p] # 0
      BY <1>1 DEF TypeOK, Children
    <3> QED BY <1>3, <3>1 DEF Children
  <2>2. /\ waitStatus' \in [ Pids -> Nat ]
        /\ commandOk' \in [ TaskId -> BOOLEAN ]
        /\ pidToWorker' \in [ Pids -> Workers' \cup {0} ]
    BY <1>1, <1>3 DEF TypeOK, Workers
  <2> QED BY <1>3, <1>5, <2>1, <2>2 DEF TypeOK
<1>7. ChildrenInOrder'
  <2>1. \A p \in Pids : child'[p] # 0 => taskState'[child'[p]] = "running"
    BY <1>3, <1>4
  <2>2. OrderOf(child', freeWorkers')
    BY <1>3
  <2>3. \A p \in Pids : WorkerOf(p)' = WorkerOf(p) /\ TaskOf(p)' = TaskOf(p)
    BY DEF WorkerOf, TaskOf
  <2> QED BY <2>1, <2>2, <2>3 DEF OrderOf, ChildrenInOrder, Children, Workers
<1>8. EveryoneKnown'
  <2>1. QueuesComplete'
    <3>1. \A s \in TaskId : /\ taskState'[s] = "waiting" <=> taskState[s] = "waiting"
                            /\ taskState'[s] = "blocked" <=> taskState[s] = "blocked"
      BY <1>3, <1>4
    <3>2. validTasks \subseteq TaskId
      BY <1>1 DEF SchedTypeOK
    <3> QED BY <1>1, <3>1, <3>2 DEF WorkInv, EveryoneKnown, QueuesComplete
  <2>2. \A w \in Workers :
          w \in Range(freeWorkers') \/ \E p \in Children' : WorkerOf(p)' = w
    BY <1>1, ReapedWorker DEF Children, WorkerOf
  <2>3. \A s \in validTasks : taskState'[s] = "running" => \E p \in Children' : child'[p] = s
    <3> SUFFICES ASSUME NEW s \in validTasks, taskState'[s] = "running"
                 PROVE  \E p \in Children' : child'[p] = s
      OBVIOUS
    <3>1. s \in TaskId /\ 0 \notin TaskId
      BY <1>1, TaskIdAssumption DEF SchedTypeOK
    <3>2. s # t /\ taskState[s] = "running"
      BY <1>4, <3>1
    <3>3. PICK p \in Pids : Reaped(pid)[p] = s
      BY <1>1, <1>2, <3>2, ReapedWorker
    <3> QED BY <3>1, <3>3 DEF Children
  <2>4. pc' # "done"
    BY DEF MustWait
  <2> QED BY <2>1, <2>2, <2>3, <2>4 DEF EveryoneKnown, Workers
<1> QED BY <1>6, <1>7, <1>8

\* The master reaps a child and is about to tell the dependants of its task.
LEMMA ReapKeeps ==
  ASSUME TablesKept, TablesAtWork, calls = << >>, Reap
  PROVE  TablesKept' /\ TablesAtWork'
<1>1. WorkInv /\ EngineInv /\ SchedTypeOK
  BY IdleIsWork DEF WorkInv, EngineInv, TypeOK
<1>2. PICK pid \in zombies :
        /\ taskState' = [ taskState EXCEPT ![TaskOf(pid)] = Verdict(pid) ]
        /\ calls' = << [ task |-> TaskOf(pid), left |-> revDepMap[TaskOf(pid)] ] >>
        /\ freeWorkers' = Freed(pid)
        /\ child' = Reaped(pid)
        /\ zombies' = zombies \ {pid}
        /\ waitStatus' = [ waitStatus EXCEPT ![pid] = 0 ]
  BY DEF Reap
<1>3. PICK t, verdict : t = TaskOf(pid) /\ verdict = Verdict(pid)
  OBVIOUS
<1>4. /\ t \in validTasks /\ t \in TaskId /\ taskState[t] = "running"
      /\ verdict \in {"completed", "failed"}
  BY <1>1, <1>3, ReapedChild DEF SchedTypeOK, Verdict
<1>5. /\ MustWait
      /\ UNCHANGED << pc, dependencies, retries, validTasks, revDepMap, taskQueue,
                      blockedTasks, taskAssignation, pidToWorker, commandOk >>
  BY DEF Reap
<1>6. TypeOK' /\ ChildrenInOrder' /\ EveryoneKnown'
  BY <1>2, <1>3, <1>4, <1>5, ReapTakesChild
<1>7. /\ \A s \in TaskId : taskState'[s] = IF s = t THEN verdict ELSE taskState[s]
      /\ validTasks \subseteq TaskId
      /\ revDepMap \in [ TaskId -> SUBSET TaskId ]
  BY <1>1, <1>2, <1>3, <1>4 DEF SchedTypeOK
<1>8. /\ calls' \in Seq([ task : TaskId, left : SUBSET TaskId ])
      /\ Len(calls') = 1 /\ calls' # << >>
      /\ calls'[1] = [ task |-> t, left |-> revDepMap[t] ]
      /\ Head(calls') = calls'[1]
  BY <1>2, <1>3, <1>4, <1>7
<1>9. TablesKept'
  <2>1. CallsFit'
    BY <1>4, <1>5, <1>7, <1>8 DEF CallsFit, MustWait
  <2>2. CancelledBelow'
    BY <1>4, <1>5, <1>7 DEF TablesKept, CancelledBelow, Parents
  <2>3. /\ BackwardOnly'
        /\ \A s \in validTasks : taskState'[s] # "invalid"
        /\ \A s \in TaskId \ validTasks : taskState'[s] \in {"invalid", "cancelled"}
        /\ pc' # "done"
    BY <1>4, <1>5, <1>7 DEF TablesKept, BackwardOnly, MustWait
  <2> QED BY <1>5, <1>6, <2>1, <2>2, <2>3 DEF TablesKept
<1>10. DependenciesOwed'
  <2>1. ASSUME NEW c \in validTasks PROVE dependencies'[c] = Owed(c)' \cup NotReleased'[c]
    <3>1. dependencies[c] = { p \in Parents(c) : taskState[p] # "completed" }
      BY <1>1 DEF EngineInv, TablesAgree, DependenciesLeft
    <3>2. Parents(c)' = Parents(c) /\ (t \in Parents(c) <=> c \in revDepMap[t])
      BY <1>4, <1>5 DEF Parents
    <3>3. NotReleased'[c] = IF verdict = "completed" /\ c \in revDepMap[t] THEN {t} ELSE {}
      <4>1. Head(calls').task = t /\ Head(calls').left = revDepMap[t] /\ calls' # << >>
        BY <1>8
      <4>2. taskState'[t] = verdict /\ c \in TaskId
        BY <1>4, <1>7
      <4> QED BY <4>1, <4>2 DEF NotReleased
    <3>4. \A p \in Parents(c) :
            taskState'[p] # "completed" <=> taskState[p] # "completed" /\ ~ (p = t /\ verdict = "completed")
      BY <1>4, <1>7 DEF Parents
    <3>5. Owed(c)' = { p \in Parents(c) : taskState'[p] # "completed" }
      BY <3>2 DEF Owed
    <3> QED BY <1>4, <1>5, <3>1, <3>2, <3>3, <3>4, <3>5
  <2> QED BY <1>5, <2>1 DEF DependenciesOwed
<1>11. DroppedStaysOut' /\ ReadyHasNoDependencies' /\ QueueOfWaiting'
  BY <1>4, <1>5, <1>7 DEF TablesAtWork, DroppedStaysOut, ReadyHasNoDependencies,
     QueueOfWaiting, Parents, MustWait
<1>12. ASSUME NEW lost \in SUBSET {"failed", "cancelled"}, LossSpreads(lost)
       PROVE  LossIsSpreading(lost)'
  <2> SUFFICES ASSUME NEW s \in validTasks, taskState'[s] \in lost, NEW c \in revDepMap[s]
               PROVE  taskState'[c] = "cancelled" \/ StillToTell(s, c)'
    BY <1>5 DEF LossIsSpreading
  <2>1. CASE s = t
    BY <1>8, <2>1 DEF StillToTell
  <2>2. CASE s # t
    BY <1>4, <1>7, <1>12, <2>2 DEF LossSpreads
  <2> QED BY <2>1, <2>2
<1>13. /\ LossIsSpreading({"cancelled"})'
       /\ ~ ForkMayFail => LossIsSpreading({"failed"})'
  BY <1>1, <1>12 DEF WorkInv, NobodyForgotten
<1>14. SoundFiles => \A s \in validTasks : taskState'[s] = "blocked" => dependencies'[s] # {}
  BY <1>4, <1>5, <1>7 DEF TablesAtWork
<1> QED BY <1>5, <1>6, <1>9, <1>10, <1>11, <1>13, <1>14 DEF TablesAtWork, SoundFiles

-------------------------------------------------------------------------------
(* The loop of updateDependencies                                          *)

\* The dependant a loop comes to has not been started, and still has the task of
\* the call among its dependencies.
LEMMA LoopComesTo ==
  ASSUME TablesKept, TablesAtWork, calls # << >>, Head(calls).left # {},
         NEW t, t = Head(calls).task, NEW d, d = NextOf(calls)
  PROVE  /\ t \in validTasks /\ t \in TaskId /\ d \in TaskId /\ t # d
         /\ Head(calls) = calls[1] /\ calls[1] \in [ task : TaskId, left : SUBSET TaskId ]
         /\ Len(calls) \in Nat \ {0}
         /\ d \in calls[1].left /\ \A s \in calls[1].left : d <= s
         /\ d \in revDepMap[t]
         /\ taskState[t] \in {"completed", "failed", "cancelled"}
         /\ taskState[d] \in {"blocked", "cancelled", "invalid"}
         /\ d \in validTasks => t \in dependencies[d] /\ taskState[d] # "invalid"
         /\ d \notin validTasks => taskState[d] # "blocked"
<1>1. /\ calls \in Seq([ task : TaskId, left : SUBSET TaskId ])
      /\ revDepMap \in [ TaskId -> SUBSET TaskId ]
      /\ validTasks \subseteq TaskId
      /\ taskState \in [ TaskId -> TaskStates ]
      /\ TaskId \subseteq Nat
  BY TaskIdAssumption DEF TablesKept, CallsFit, TypeOK, SchedTypeOK
<1>2. /\ Head(calls) = calls[1] /\ Len(calls) \in Nat \ {0} /\ 1 \in 1..Len(calls)
      /\ calls[1] \in [ task : TaskId, left : SUBSET TaskId ]
  <2> DEFINE S == [ task : TaskId, left : SUBSET TaskId ]
  <2>1. calls \in Seq(S)
    BY <1>1
  <2> HIDE DEF S
  <2>2. Head(calls) = calls[1] /\ Len(calls) \in Nat \ {0} /\ 1 \in 1..Len(calls)
    BY <2>1, EmptySeq, LenProperties, HeadTailProperties
  <2>3. calls[1] \in S
    BY <2>1, <2>2, ElementOfSeq
  <2> QED BY <2>2, <2>3 DEF S
<1>3. \E m \in Head(calls).left : \A s \in Head(calls).left : m <= s
  BY <1>1, <1>2, LeastElement
<1>4. d \in calls[1].left /\ \A s \in calls[1].left : d <= s
  BY <1>2, <1>3 DEF NextOf
<1>5. /\ calls[1].left \subseteq revDepMap[t]
      /\ taskState[t] \in {"completed", "failed", "cancelled"}
  BY <1>2 DEF TablesKept, CallsFit
<1>6. t \in TaskId /\ d \in TaskId /\ d \in revDepMap[t]
  BY <1>1, <1>2, <1>4, <1>5
<1>7. t \in validTasks /\ t < d
  BY <1>6 DEF TablesKept, BackwardOnly
<1>8. ASSUME d \in validTasks PROVE t \in dependencies[d]
  <2>1. dependencies[d] = Owed(d) \cup NotReleased[d]
    BY <1>8 DEF TablesAtWork, DependenciesOwed
  <2>2. CASE taskState[t] = "completed"
    BY <1>2, <1>4, <1>6, <2>1, <2>2 DEF NotReleased
  <2>3. CASE taskState[t] # "completed"
    BY <1>6, <1>7, <2>1, <2>3 DEF Owed, Parents
  <2> QED BY <2>2, <2>3
<1>9. d \in validTasks => taskState[d] \in {"blocked", "cancelled"}
  BY <1>1, <1>6, <1>8 DEF TablesAtWork, ReadyHasNoDependencies, TaskStates
<1>10. d \notin validTasks => taskState[d] \in {"invalid", "cancelled"}
  BY <1>6 DEF TablesKept
<1>11. t # d
  BY <1>1, <1>6, <1>7
<1> QED BY <1>2, <1>4, <1>5, <1>6, <1>7, <1>8, <1>9, <1>10, <1>11

\* What the loop does to a dependant does not touch the children.
LEMMA LoopKeepsChildren ==
  ASSUME TablesKept, TablesAtWork,
         NEW d \in TaskId, taskState[d] \in {"blocked", "cancelled", "invalid"},
         NEW state \in {"waiting", "blocked", "cancelled", "invalid"},
         taskState' = [ taskState EXCEPT ![d] = state ],
         dependencies' \in [ TaskId -> SUBSET (Nat \ {0}) ],
         taskQueue' \in Seq(TaskId), blockedTasks' \in SUBSET TaskId,
         pc # "done",
         UNCHANGED << pc, retries, validTasks, revDepMap, freeWorkers, taskAssignation,
                      engineVars >>
  PROVE  /\ TypeOK' /\ ChildrenInOrder'
         /\ QueuesComplete' => EveryoneKnown'
<1>1. /\ TypeOK /\ SchedTypeOK
      /\ ChildrenInOrder /\ EveryoneKnown
  BY DEF TablesKept, TablesAtWork, TypeOK
<1>2. UNCHANGED << child, zombies, waitStatus, pidToWorker, commandOk >>
  BY DEF engineVars
<1>3. /\ taskState' \in [ TaskId -> TaskStates ]
      /\ \A s \in TaskId : taskState'[s] = IF s = d THEN state ELSE taskState[s]
      /\ \A s \in TaskId : taskState'[s] = "running" <=> taskState[s] = "running"
  BY <1>1 DEF SchedTypeOK, TaskStates
<1>4. SchedTypeOK'
  BY <1>1, <1>3 DEF SchedTypeOK, Workers
<1>5. TypeOK'
  BY <1>1, <1>2, <1>4 DEF TypeOK, Children, Workers
<1>6. ChildrenInOrder'
  <2>1. validTasks \subseteq TaskId
    BY <1>1 DEF SchedTypeOK
  <2>2. \A p \in Children : taskState'[child[p]] = "running"
    BY <1>1, <1>3, <2>1 DEF ChildrenInOrder
  <2> QED BY <1>1, <1>2, <2>2 DEF ChildrenInOrder, Children, WorkerOf, TaskOf, Workers
<1>7. QueuesComplete' => EveryoneKnown'
  <2>1. validTasks \subseteq TaskId
    BY <1>1 DEF SchedTypeOK
  <2> QED BY <1>1, <1>2, <1>3, <2>1 DEF EveryoneKnown, Children, WorkerOf, Workers
<1> QED BY <1>5, <1>6, <1>7

\* A child ends while the master is in a call.
LEMMA ChildEndsKeeps ==
  ASSUME TablesKept, TablesAtWork, calls # << >>,
         NEW pid \in Pids, ChildEnds(pid), UNCHANGED calls
  PROVE  TablesKept' /\ TablesAtWork'
<1>1. /\ zombies' = zombies \cup {pid}
      /\ pid \in Children /\ child[pid] \in TaskId
      /\ UNCHANGED << schedVars, child, pidToWorker >>
  <2>1. pid \in Children
    BY DEF ChildEnds, CommandReturns, ChildKilled, Running
  <2> QED BY <2>1 DEF ChildEnds, CommandReturns, ChildKilled, TablesKept, TypeOK, Children
<1>2. waitStatus' \in [ Pids -> Nat ] /\ commandOk' \in [ TaskId -> BOOLEAN ]
  BY <1>1, EndIsTyped DEF TablesKept, TypeOK
<1>3. UNCHANGED << pc, taskState, dependencies, retries, validTasks, revDepMap, freeWorkers,
                   taskQueue, blockedTasks, taskAssignation >>
  BY <1>1 DEF schedVars
<1>4. SchedTypeOK'
  BY <1>3 DEF TablesKept, TypeOK, SchedTypeOK, Workers
<1>5. TypeOK'
  BY <1>1, <1>2, <1>4 DEF TablesKept, TypeOK, Children, Workers
<1>6. TablesKept'
  BY <1>3, <1>5 DEF TablesKept, CallsFit, BackwardOnly, CancelledBelow, Parents
<1>7. ChildrenInOrder' /\ EveryoneKnown'
  BY <1>1, <1>3 DEF TablesAtWork, ChildrenInOrder, EveryoneKnown, QueuesComplete, Children,
     WorkerOf, TaskOf, Workers
<1>8. DependenciesOwed'
  <2>1. NotReleased' = NotReleased /\ \A c : Owed(c)' = Owed(c)
    BY <1>3 DEF NotReleased, Owed, Parents
  <2> QED BY <1>3, <2>1 DEF TablesAtWork, DependenciesOwed
<1>9. DroppedStaysOut' /\ ReadyHasNoDependencies' /\ QueueOfWaiting'
  BY <1>3 DEF TablesAtWork, DroppedStaysOut, ReadyHasNoDependencies, QueueOfWaiting, Parents
<1>10. /\ LossIsSpreading({"cancelled"})'
       /\ ~ ForkMayFail => LossIsSpreading({"failed"})'
  BY <1>3 DEF TablesAtWork, LossIsSpreading, StillToTell
<1> QED BY <1>3, <1>6, <1>7, <1>8, <1>9, <1>10 DEF TablesAtWork, SoundFiles

\* The calls once the last one is done with its dependant.
LEMMA LoopAdvances ==
  ASSUME NEW stack \in Seq([ task : TaskId, left : SUBSET TaskId ]), stack # << >>,
         NEW d, d = NextOf(stack)
  PROVE  /\ Advanced(stack) \in Seq([ task : TaskId, left : SUBSET TaskId ])
         /\ Len(Advanced(stack)) = Len(stack) /\ Len(stack) \in Nat \ {0}
         /\ Advanced(stack) # << >>
         /\ Advanced(stack)[1] = [ task |-> stack[1].task, left |-> stack[1].left \ {d} ]
         /\ \A i \in 2..Len(stack) : Advanced(stack)[i] = stack[i]
<1> DEFINE S == [ task : TaskId, left : SUBSET TaskId ]
           c == [ Head(stack) EXCEPT !.left = @ \ {NextOf(stack)} ]
<1>1. stack \in Seq(S) /\ stack # << >>
  OBVIOUS
<1>2. Head(stack) = stack[1] /\ stack[1] \in S /\ Len(stack) \in Nat \ {0}
  <2> HIDE DEF S
  <2>1. Head(stack) = stack[1] /\ Len(stack) \in Nat \ {0} /\ 1 \in 1..Len(stack)
    BY <1>1, EmptySeq, LenProperties, HeadTailProperties
  <2> QED BY <1>1, <2>1, ElementOfSeq
<1>3. c \in S /\ c = [ task |-> stack[1].task, left |-> stack[1].left \ {d} ]
  <2>1. c \in S /\ c.task = stack[1].task /\ c.left = stack[1].left \ {d}
    BY <1>2
  <2> HIDE DEF c
  <2>2. c = [ task |-> c.task, left |-> c.left ]
    BY <2>1
  <2> QED BY <2>1, <2>2
<1> HIDE DEF S
<1>5. c = [ Head(stack) EXCEPT !.left = @ \ {NextOf(stack)} ]
  OBVIOUS
<1> HIDE DEF c
<1>4. /\ Advanced(stack) \in Seq(S)
      /\ Len(Advanced(stack)) = Len(stack)
      /\ Advanced(stack) # << >>
      /\ Advanced(stack)[1] = c
      /\ \A i \in 2..Len(stack) : Advanced(stack)[i] = stack[i]
  BY <1>1, <1>3, <1>5, CallAdvanced
<1> QED BY <1>2, <1>3, <1>4 DEF S

\* The calls once the last one has called updateDependencies for a dependant.
LEMMA LoopCalls ==
  ASSUME calls \in Seq([ task : TaskId, left : SUBSET TaskId ]),
         NEW call \in [ task : TaskId, left : SUBSET TaskId ], calls' = << call >> \o calls
  PROVE  /\ calls' \in Seq([ task : TaskId, left : SUBSET TaskId ])
         /\ Len(calls) \in Nat /\ Len(calls') = Len(calls) + 1 /\ calls' # << >>
         /\ calls'[1] = call
         /\ \A i \in 1..Len(calls) : calls'[i + 1] = calls[i]
<1> DEFINE S == [ task : TaskId, left : SUBSET TaskId ]
<1>1. calls \in Seq(S) /\ call \in S
  OBVIOUS
<1> HIDE DEF S
<1>2. /\ calls' \in Seq(S)
      /\ Len(calls) \in Nat /\ Len(calls') = Len(calls) + 1 /\ calls' # << >>
      /\ calls'[1] = call
      /\ \A i \in 1..Len(calls) : calls'[i + 1] = calls[i]
  BY <1>1, CallPushed, LenProperties
<1> QED BY <1>2 DEF S

\* The calls once the last one has returned to the one below: that one is done with
\* the dependant it was made for.
LEMMA LoopReturns ==
  ASSUME CallsFit, revDepMap \in [ TaskId -> SUBSET TaskId ],
         Len(calls) > 1, calls' = Advanced(Tail(calls))
  PROVE  /\ calls' \in Seq([ task : TaskId, left : SUBSET TaskId ])
         /\ Len(calls) \in Nat /\ Len(calls') = Len(calls) - 1 /\ calls' # << >>
         /\ calls'[1].task = calls[2].task
         /\ calls'[1].left = calls[2].left \ {calls[1].task}
         /\ \A i \in 2..Len(calls') : calls'[i] = calls[i + 1]
         /\ \A i \in 1..Len(calls) :
              /\ calls[i].task \in TaskId /\ calls[i].left \in SUBSET TaskId
              /\ calls[i].left \subseteq revDepMap[calls[i].task]
              /\ taskState[calls[i].task] \in {"failed", "cancelled"}
<1> DEFINE S == [ task : TaskId, left : SUBSET TaskId ]
<1>1. calls \in Seq(S) /\ Len(calls) \in Nat \ {0} /\ calls # << >>
  <2>1. calls \in Seq(S)
    BY DEF CallsFit
  <2> HIDE DEF S
  <2> QED BY <2>1, EmptySeq, LenProperties
<1>2. PICK rest, d : rest = Tail(calls) /\ d = NextOf(rest)
  OBVIOUS
<1> HIDE DEF S
<1>3. /\ rest \in Seq(S)
      /\ Len(rest) = Len(calls) - 1 /\ rest # << >>
      /\ \A i \in 1..Len(rest) : rest[i] = calls[i + 1]
      /\ Head(rest) = rest[1]
  <2>1. /\ rest \in Seq(S)
        /\ Len(rest) = Len(calls) - 1
        /\ \A i \in 1..Len(rest) : rest[i] = calls[i + 1]
    BY <1>1, <1>2, HeadTailProperties
  <2>2. rest # << >>
    BY <1>1, <2>1, EmptySeq
  <2> QED BY <2>1, <2>2, HeadTailProperties
<1> USE DEF S
<1>4. /\ calls' \in Seq([ task : TaskId, left : SUBSET TaskId ])
      /\ Len(calls') = Len(calls) - 1 /\ calls' # << >>
      /\ calls'[1] = [ task |-> rest[1].task, left |-> rest[1].left \ {d} ]
      /\ \A i \in 2..Len(rest) : calls'[i] = rest[i]
  BY <1>2, <1>3, LoopAdvances
<1>5. /\ rest[1] = calls[2]
      /\ \A i \in 2..Len(calls') : calls'[i] = calls[i + 1]
  BY <1>1, <1>3, <1>4
<1>6. \A i \in 1..Len(calls) :
        /\ calls[i].task \in TaskId /\ calls[i].left \in SUBSET TaskId
        /\ calls[i].left \subseteq revDepMap[calls[i].task]
        /\ taskState[calls[i].task] \in {"failed", "cancelled"}
  <2> TAKE i \in 1..Len(calls)
  <2>1. calls[i] \in [ task : TaskId, left : SUBSET TaskId ]
    BY <1>1, ElementOfSeq
  <2> QED BY <2>1 DEF CallsFit
<1>7. d = calls[1].task
  <2>1. 2 \in 2..Len(calls) /\ 2 \in 1..Len(calls)
    BY <1>1
  <2>2. /\ calls[1].task \in rest[1].left
        /\ \A s \in rest[1].left : calls[1].task <= s
    BY <1>5, <2>1 DEF CallsFit
  <2>3. rest[1].left \subseteq Nat
    BY <1>5, <1>6, <2>1, TaskIdAssumption
  <2>4. d \in rest[1].left /\ \A s \in rest[1].left : d <= s
    BY <1>2, <1>3, <2>2 DEF NextOf
  <2> QED BY <2>2, <2>3, <2>4
<1> QED BY <1>1, <1>4, <1>5, <1>6, <1>7

\* The dependant of a completed task is released, and queued if it is ready.
LEMMA ReleaseKeeps ==
  ASSUME TablesKept, TablesAtWork, calls # << >>, ReleaseNext,
         UNCHANGED << pc, retries, validTasks, revDepMap, freeWorkers, taskAssignation,
                      engineVars >>
  PROVE  TablesKept' /\ TablesAtWork'
<1>1. PICK t, d : t = Head(calls).task /\ d = NextOf(calls)
  OBVIOUS
<1>2. /\ t \in validTasks /\ t \in TaskId /\ d \in TaskId /\ t # d
      /\ Head(calls) = calls[1] /\ calls[1] \in [ task : TaskId, left : SUBSET TaskId ]
      /\ Len(calls) \in Nat \ {0}
      /\ d \in calls[1].left /\ d \in revDepMap[t]
      /\ taskState[d] \in {"blocked", "cancelled", "invalid"}
      /\ d \in validTasks => t \in dependencies[d] /\ taskState[d] # "invalid"
      /\ d \notin validTasks => taskState[d] # "blocked"
  BY <1>1, LoopComesTo DEF ReleaseNext
<1>3. /\ SchedTypeOK /\ CallsFit
      /\ taskState \in [ TaskId -> TaskStates ]
      /\ dependencies \in [ TaskId -> SUBSET (Nat \ {0}) ]
      /\ validTasks \subseteq TaskId
      /\ taskQueue \in Seq(TaskId) /\ blockedTasks \in SUBSET TaskId
      /\ pc \in {"schedule", "drain"}
  BY DEF TablesKept, TypeOK, SchedTypeOK, CallsFit
<1>4. /\ Len(calls) = 1 /\ taskState[t] = "completed"
  <2>1. taskState[calls[1].task] = "completed" /\ 1 \in 1..Len(calls)
    BY <1>1, <1>2 DEF ReleaseNext
  <2>2. Len(calls) > 1 => taskState[calls[1].task] # "completed"
    BY <1>3, <2>1 DEF CallsFit
  <2> QED BY <1>1, <1>2, <2>1, <2>2
<1>5. PICK deps : deps = dependencies[d] \ {t}
  OBVIOUS
<1>6. /\ dependencies' = [ dependencies EXCEPT ![d] = deps ]
      /\ taskState' = [ taskState EXCEPT ![d] = StateAfterRemove(taskState[d], deps) ]
      /\ blockedTasks' = IF deps = {} THEN blockedTasks \ {d} ELSE blockedTasks
      /\ taskQueue' = IF deps = {} THEN Append(taskQueue, d) ELSE taskQueue
      /\ calls' = Advanced(calls)
  BY <1>1, <1>3, <1>5 DEF ReleaseNext, DepsAfterRemove
<1>7. \* the other parents of the dependant
      /\ d \in validTasks => deps = Owed(d)
      /\ NotReleased = [ c \in TaskId |-> IF c \in calls[1].left THEN {t} ELSE {} ]
  <2>1. NotReleased = [ c \in TaskId |-> IF c \in calls[1].left THEN {t} ELSE {} ]
    BY <1>1, <1>2, <1>4 DEF NotReleased
  <2>2. t \notin Owed(d)
    BY <1>4 DEF Owed
  <2>3. d \in validTasks => dependencies[d] = Owed(d) \cup {t}
    BY <1>2, <2>1 DEF TablesAtWork, DependenciesOwed
  <2> QED BY <1>5, <2>1, <2>2, <2>3
<1>8. deps = {} => d \in validTasks /\ taskState[d] = "blocked"
  <2>1. deps = {} => d \in validTasks
    BY <1>2, <1>5 DEF TablesAtWork, DroppedStaysOut, Parents
  <2>2. ASSUME d \in validTasks, taskState[d] = "cancelled" PROVE deps # {}
    BY <1>2, <1>7, <2>2 DEF TablesKept, CancelledBelow, Owed
  <2> QED BY <1>2, <2>1, <2>2
<1>9. PICK state : state = IF deps = {} THEN "waiting" ELSE taskState[d]
  OBVIOUS
<1>10. /\ taskState' = [ taskState EXCEPT ![d] = state ]
       /\ \A s \in TaskId : taskState'[s] = IF s = d THEN state ELSE taskState[s]
       /\ state \in {"waiting", "blocked", "cancelled", "invalid"}
       /\ state # taskState[d] => state = "waiting" /\ taskState[d] = "blocked" /\ d \in validTasks /\ deps = {}
  BY <1>2, <1>3, <1>6, <1>8, <1>9 DEF StateAfterRemove
<1>11. /\ dependencies' \in [ TaskId -> SUBSET (Nat \ {0}) ]
       /\ \A c \in TaskId : dependencies'[c] = IF c = d THEN deps ELSE dependencies[c]
       /\ taskQueue' \in Seq(TaskId) /\ blockedTasks' \in SUBSET TaskId
  BY <1>2, <1>3, <1>5, <1>6
<1>12. /\ TypeOK' /\ ChildrenInOrder'
       /\ QueuesComplete' => EveryoneKnown'
  <2>1. pc # "done"
    BY <1>3
  <2> QED BY <1>2, <1>10, <1>11, <2>1, LoopKeepsChildren
<1>13. /\ calls' \in Seq([ task : TaskId, left : SUBSET TaskId ])
       /\ Len(calls') = 1 /\ calls' # << >>
       /\ calls'[1] = [ task |-> t, left |-> calls[1].left \ {d} ]
  BY <1>1, <1>2, <1>3, <1>4, <1>6, LoopAdvances DEF CallsFit
<1>14. TablesKept'
  <2>1. CallsFit'
    <3>1. calls[1].left \subseteq revDepMap[t]
      BY <1>1, <1>2 DEF CallsFit, TablesKept
    <3> QED BY <1>2, <1>3, <1>4, <1>10, <1>13, <3>1 DEF CallsFit
  <2>2. CancelledBelow'
    BY <1>3, <1>10 DEF TablesKept, CancelledBelow, Parents
  <2>3. /\ BackwardOnly'
        /\ \A s \in validTasks : taskState'[s] # "invalid"
        /\ \A s \in TaskId \ validTasks : taskState'[s] \in {"invalid", "cancelled"}
        /\ pc' # "done"
    BY <1>3, <1>10 DEF TablesKept, BackwardOnly
  <2> QED BY <1>12, <2>1, <2>2, <2>3 DEF TablesKept
<1>15. \A c \in TaskId : Parents(c)' = Parents(c) /\ Owed(c)' = Owed(c)
  <2>1. \A c \in TaskId : Parents(c)' = Parents(c) /\ Parents(c) \subseteq TaskId
    BY <1>3 DEF Parents
  <2>2. \A p \in TaskId : taskState'[p] # "completed" <=> taskState[p] # "completed"
    BY <1>2, <1>10
  <2> QED BY <2>1, <2>2 DEF Owed
<1>16. DependenciesOwed'
  <2>1. ASSUME NEW c \in validTasks PROVE dependencies'[c] = Owed(c)' \cup NotReleased'[c]
    <3>1. NotReleased'[c] = IF c \in calls[1].left \ {d} THEN {t} ELSE {}
      <4>1. /\ Head(calls') = calls'[1] /\ calls' # << >>
            /\ calls'[1].task = t /\ calls'[1].left = calls[1].left \ {d}
            /\ taskState'[t] = "completed"
        BY <1>2, <1>4, <1>10, <1>13
      <4> QED BY <1>3, <4>1 DEF NotReleased
    <3>2. dependencies[c] = Owed(c) \cup NotReleased[c]
      BY DEF TablesAtWork, DependenciesOwed
    <3> QED BY <1>3, <1>7, <1>11, <1>15, <3>1, <3>2
  <2> QED BY <2>1 DEF DependenciesOwed
<1>17. DroppedStaysOut'
  <2>1. \A c \in TaskId : c \notin validTasks => c # d \/ taskState'[d] = taskState[d]
    BY <1>2, <1>10
  <2>2. ASSUME NEW c \in TaskId \ validTasks, Parents(c) # {}
        PROVE  \E x \in dependencies'[c] : x \notin Parents(c)
    <3>1. PICK x \in dependencies[c] : x \notin Parents(c)
      BY <2>2 DEF TablesAtWork, DroppedStaysOut
    <3>2. c = d => x # t
      BY <1>2, <3>1 DEF Parents
    <3> QED BY <1>5, <1>11, <3>1, <3>2
  <2> QED BY <1>14, <1>15, <2>2 DEF DroppedStaysOut, TablesKept
<1>18. ReadyHasNoDependencies'
  BY <1>2, <1>3, <1>5, <1>10, <1>11 DEF TablesAtWork, ReadyHasNoDependencies
<1>19. d \notin Range(taskQueue) /\ IsInjective(taskQueue)
  BY <1>2 DEF TablesAtWork, QueueOfWaiting
<1>20. /\ IsInjective(taskQueue')
       /\ Range(taskQueue') = IF deps = {} THEN Range(taskQueue) \cup {d} ELSE Range(taskQueue)
  <2>1. CASE deps = {}
    BY <1>2, <1>3, <1>6, <1>19, <2>1, PushFresh
  <2>2. CASE deps # {}
    BY <1>6, <1>19, <2>2
  <2> QED BY <2>1, <2>2
<1>21. QueueOfWaiting'
  <2>1. \A s \in Range(taskQueue') : s \in validTasks /\ taskState'[s] = "waiting"
    BY <1>3, <1>8, <1>9, <1>10, <1>20 DEF TablesAtWork, QueueOfWaiting
  <2> QED BY <1>3, <1>20, <2>1 DEF QueueOfWaiting
<1>22. QueuesComplete'
  <2>1. /\ { s \in validTasks : taskState[s] = "waiting" } \subseteq Range(taskQueue)
        /\ blockedTasks = { s \in validTasks : taskState[s] = "blocked" }
        /\ pc = "drain" => taskQueue = << >> /\ blockedTasks = {}
    BY <1>3 DEF TablesAtWork, EveryoneKnown, QueuesComplete
  <2>2. pc = "drain" => deps # {}
    BY <1>8, <2>1
  <2>3. { s \in validTasks : taskState'[s] = "waiting" } \subseteq Range(taskQueue')
    BY <1>3, <1>9, <1>10, <1>20, <2>1
  <2>4. blockedTasks' = { s \in validTasks : taskState'[s] = "blocked" }
    <3>1. CASE deps = {}
      BY <1>3, <1>6, <1>9, <1>10, <2>1, <3>1
    <3>2. CASE deps # {}
      BY <1>3, <1>6, <1>9, <1>10, <2>1, <3>2
    <3> QED BY <3>1, <3>2
  <2> QED BY <1>3, <1>6, <2>1, <2>2, <2>3, <2>4 DEF QueuesComplete
<1>23. ASSUME NEW lost \in SUBSET {"failed", "cancelled"}, LossIsSpreading(lost)
       PROVE  LossIsSpreading(lost)'
  <2> SUFFICES ASSUME NEW s \in validTasks, taskState'[s] \in lost, NEW c \in revDepMap[s]
               PROVE  taskState'[c] = "cancelled" \/ StillToTell(s, c)'
    BY DEF LossIsSpreading
  <2>1. s \in TaskId /\ c \in TaskId /\ taskState[s] \in lost
    BY <1>3, <1>10 DEF SchedTypeOK
  <2>2. s # t
    BY <1>4, <2>1
  <2>3. ~ StillToTell(s, c)
    BY <1>1, <1>2, <1>4, <2>2 DEF StillToTell
  <2>4. taskState[c] = "cancelled"
    BY <1>23, <2>1, <2>3 DEF LossIsSpreading
  <2> QED BY <1>10, <2>1, <2>4
<1>24. /\ LossIsSpreading({"cancelled"})'
       /\ ~ ForkMayFail => LossIsSpreading({"failed"})'
  BY <1>23 DEF TablesAtWork
<1>25. SoundFiles => \A s \in validTasks : taskState'[s] = "blocked" => dependencies'[s] # {}
  BY <1>3, <1>9, <1>10, <1>11 DEF TablesAtWork
<1> QED BY <1>12, <1>14, <1>16, <1>17, <1>18, <1>21, <1>22, <1>24, <1>25
        DEF TablesAtWork, SoundFiles

\* The dependant of a lost task is cancelled, and its own dependants are next.
LEMMA CancelKeeps ==
  ASSUME TablesKept, TablesAtWork, calls # << >>, CancelNext,
         UNCHANGED << pc, retries, validTasks, revDepMap, freeWorkers, taskAssignation,
                      engineVars >>
  PROVE  TablesKept' /\ TablesAtWork'
<1>1. PICK t, d : t = Head(calls).task /\ d = NextOf(calls)
  OBVIOUS
<1>2. /\ t \in validTasks /\ t \in TaskId /\ d \in TaskId /\ t # d
      /\ Head(calls) = calls[1] /\ calls[1] \in [ task : TaskId, left : SUBSET TaskId ]
      /\ Len(calls) \in Nat \ {0}
      /\ d \in calls[1].left /\ (\A s \in calls[1].left : d <= s)
      /\ d \in revDepMap[t]
      /\ taskState[t] \in {"failed", "cancelled"}
      /\ taskState[d] \in {"blocked", "cancelled", "invalid"}
      /\ d \in validTasks => t \in dependencies[d] /\ taskState[d] # "invalid"
  BY <1>1, LoopComesTo DEF CancelNext
<1>3. /\ SchedTypeOK /\ CallsFit
      /\ calls \in Seq([ task : TaskId, left : SUBSET TaskId ])
      /\ taskState \in [ TaskId -> TaskStates ]
      /\ dependencies \in [ TaskId -> SUBSET (Nat \ {0}) ]
      /\ revDepMap \in [ TaskId -> SUBSET TaskId ]
      /\ validTasks \subseteq TaskId
      /\ taskQueue \in Seq(TaskId) /\ blockedTasks \in SUBSET TaskId
      /\ pc \in {"schedule", "drain"}
  BY DEF TablesKept, TypeOK, SchedTypeOK, CallsFit
<1>4. PICK call \in [ task : TaskId, left : SUBSET TaskId ] :
        call = [ task |-> d, left |-> revDepMap[d] ]
  BY <1>2, <1>3
<1>5. /\ taskState' = [ taskState EXCEPT ![d] = "cancelled" ]
      /\ blockedTasks' = blockedTasks \ {d}
      /\ calls' = << call >> \o calls
      /\ UNCHANGED << dependencies, taskQueue >>
  BY <1>1, <1>4 DEF CancelNext
<1>6. /\ \A s \in TaskId : taskState'[s] = IF s = d THEN "cancelled" ELSE taskState[s]
      /\ dependencies' \in [ TaskId -> SUBSET (Nat \ {0}) ]
      /\ taskQueue' \in Seq(TaskId) /\ blockedTasks' \in SUBSET TaskId
  BY <1>2, <1>3, <1>5
<1>7. /\ TypeOK' /\ ChildrenInOrder'
      /\ QueuesComplete' => EveryoneKnown'
  <2>1. pc # "done"
    BY <1>3
  <2> QED BY <1>2, <1>5, <1>6, <2>1, LoopKeepsChildren
<1>8. /\ calls' \in Seq([ task : TaskId, left : SUBSET TaskId ])
      /\ Len(calls') = Len(calls) + 1 /\ calls' # << >>
      /\ calls'[1] = call
      /\ \A i \in 1..Len(calls) : calls'[i + 1] = calls[i]
  BY <1>3, <1>5, LoopCalls
<1>9. \A i \in 2..Len(calls') : i - 1 \in 1..Len(calls) /\ calls'[i] = calls[i - 1]
  <2> TAKE i \in 2..Len(calls')
  <2>1. i - 1 \in 1..Len(calls) /\ (i - 1) + 1 = i
    BY <1>2, <1>8
  <2> QED BY <1>8, <2>1
<1>10. \A i \in 1..Len(calls) :
         /\ calls[i] \in [ task : TaskId, left : SUBSET TaskId ]
         /\ calls[i].left \subseteq revDepMap[calls[i].task]
         /\ taskState[calls[i].task] \in {"failed", "cancelled"}
         /\ taskState'[calls[i].task] \in {"failed", "cancelled"}
         /\ i > 1 => /\ taskState'[calls[i - 1].task] = "cancelled"
                     /\ calls[i - 1].task \in calls[i].left
                     /\ \A s \in calls[i].left : calls[i - 1].task <= s
  <2> SUFFICES ASSUME NEW i \in 1..Len(calls)
               PROVE  /\ calls[i] \in [ task : TaskId, left : SUBSET TaskId ]
                      /\ calls[i].left \subseteq revDepMap[calls[i].task]
                      /\ taskState[calls[i].task] \in {"failed", "cancelled"}
                      /\ taskState'[calls[i].task] \in {"failed", "cancelled"}
                      /\ i > 1 => /\ taskState'[calls[i - 1].task] = "cancelled"
                                  /\ calls[i - 1].task \in calls[i].left
                                  /\ \A s \in calls[i].left : calls[i - 1].task <= s
    OBVIOUS
  <2>1. calls[i] \in [ task : TaskId, left : SUBSET TaskId ]
    BY <1>3, ElementOfSeq
  <2>2. /\ calls[i].left \subseteq revDepMap[calls[i].task]
        /\ taskState[calls[i].task] \in {"completed", "failed", "cancelled"}
        /\ Len(calls) > 1 => taskState[calls[i].task] # "completed"
    BY <1>3 DEF CallsFit
  <2>3. Len(calls) = 1 => i = 1
    BY <1>2
  <2>4. taskState[calls[i].task] \in {"failed", "cancelled"}
    BY <1>1, <1>2, <2>2, <2>3
  <2>5. ASSUME i > 1
        PROVE  /\ i - 1 \in 1..Len(calls)
               /\ taskState[calls[i - 1].task] = "cancelled"
               /\ calls[i - 1].task \in calls[i].left
               /\ \A s \in calls[i].left : calls[i - 1].task <= s
    <3>1. i \in 2..Len(calls) /\ i - 1 \in 1..Len(calls)
      BY <1>2, <2>5
    <3> QED BY <1>3, <3>1 DEF CallsFit
  <2> QED BY <1>6, <2>1, <2>2, <2>4, <2>5
<1>11. CallsFit'
  <2>1. ASSUME NEW i \in 1..Len(calls')
        PROVE  /\ calls'[i].left \subseteq revDepMap[calls'[i].task]
               /\ taskState'[calls'[i].task] \in {"failed", "cancelled"}
               /\ i > 1 => /\ taskState'[calls'[i - 1].task] = "cancelled"
                           /\ calls'[i - 1].task \in calls'[i].left
                           /\ \A s \in calls'[i].left : calls'[i - 1].task <= s
    <3>1. CASE i = 1
      BY <1>2, <1>4, <1>6, <1>8, <3>1
    <3>2. CASE i = 2
      BY <1>2, <1>4, <1>6, <1>8, <1>9, <1>10, <3>2
    <3>3. CASE i > 2
      <4>1. /\ i - 1 \in 1..Len(calls) /\ calls'[i] = calls[i - 1] /\ i - 1 > 1
            /\ calls'[i - 1] = calls[(i - 1) - 1]
        BY <1>2, <1>8, <1>9, <3>3
      <4> QED BY <1>10, <3>3, <4>1
    <3> QED BY <1>2, <1>8, <3>1, <3>2, <3>3
  <2>2. \A i \in 2..Len(calls') : i \in 1..Len(calls') /\ i > 1
    BY <1>2, <1>8
  <2> QED BY <1>3, <1>8, <2>1, <2>2 DEF CallsFit
<1>12. \A c \in TaskId : Parents(c)' = Parents(c) /\ Owed(c)' = Owed(c)
  <2>1. \A c \in TaskId : Parents(c)' = Parents(c) /\ Parents(c) \subseteq TaskId
    BY <1>3 DEF Parents
  <2>2. \A p \in TaskId : taskState'[p] # "completed" <=> taskState[p] # "completed"
    BY <1>2, <1>6
  <2> QED BY <2>1, <2>2 DEF Owed
<1>13. TablesKept'
  <2>1. CancelledBelow'
    <3>1. t \in Parents(d)
      BY <1>2 DEF Parents
    <3>2. \A c \in TaskId : Parents(c) \subseteq TaskId
      BY <1>3 DEF Parents
    <3> QED BY <1>2, <1>6, <1>12, <3>1, <3>2 DEF TablesKept, CancelledBelow
  <2>2. /\ BackwardOnly'
        /\ \A s \in validTasks : taskState'[s] # "invalid"
        /\ \A s \in TaskId \ validTasks : taskState'[s] \in {"invalid", "cancelled"}
        /\ pc' # "done"
    BY <1>3, <1>6 DEF TablesKept, BackwardOnly
  <2> QED BY <1>7, <1>11, <2>1, <2>2 DEF TablesKept
<1>14. DependenciesOwed'
  <2>1. \A c \in TaskId : NotReleased[c] = {}
    BY <1>1, <1>2 DEF NotReleased
  <2>2. \A c \in TaskId : NotReleased'[c] = {}
    <3>1. Head(calls') = call /\ taskState'[call.task] = "cancelled"
      BY <1>2, <1>4, <1>6, <1>8
    <3> QED BY <3>1 DEF NotReleased
  <2> QED BY <1>3, <1>5, <1>12, <2>1, <2>2 DEF TablesAtWork, DependenciesOwed
<1>15. DroppedStaysOut'
  BY <1>5, <1>12, <1>13 DEF TablesAtWork, DroppedStaysOut, TablesKept
<1>16. ReadyHasNoDependencies'
  BY <1>3, <1>5, <1>6 DEF TablesAtWork, ReadyHasNoDependencies
<1>17. QueueOfWaiting'
  BY <1>2, <1>3, <1>5, <1>6 DEF TablesAtWork, QueueOfWaiting
<1>18. QueuesComplete'
  BY <1>2, <1>3, <1>5, <1>6 DEF TablesAtWork, EveryoneKnown, QueuesComplete
<1>19. ASSUME NEW lost \in SUBSET {"failed", "cancelled"}, LossIsSpreading(lost)
       PROVE  LossIsSpreading(lost)'
  <2> SUFFICES ASSUME NEW s \in validTasks, taskState'[s] \in lost, NEW c \in revDepMap[s]
               PROVE  taskState'[c] = "cancelled" \/ StillToTell(s, c)'
    BY DEF LossIsSpreading
  <2>1. s \in TaskId /\ c \in TaskId
    BY <1>3
  <2>2. CASE s = d
    BY <1>2, <1>4, <1>8, <2>2 DEF StillToTell
  <2>3. CASE s # d
    <3>1. taskState[c] = "cancelled" \/ StillToTell(s, c)
      BY <1>6, <1>19, <2>1, <2>3 DEF LossIsSpreading
    <3>2. ASSUME StillToTell(s, c) PROVE StillToTell(s, c)'
      <4>1. PICK i \in 1..Len(calls) : calls[i].task = s /\ c \in calls[i].left
        BY <3>2 DEF StillToTell
      <4>2. i + 1 \in 1..Len(calls') /\ calls'[i + 1] = calls[i]
        BY <1>2, <1>8
      <4> QED BY <4>1, <4>2 DEF StillToTell
    <3> QED BY <1>6, <2>1, <3>1, <3>2
  <2> QED BY <2>2, <2>3
<1>20. /\ LossIsSpreading({"cancelled"})'
       /\ ~ ForkMayFail => LossIsSpreading({"failed"})'
  BY <1>19 DEF TablesAtWork
<1>21. SoundFiles => \A s \in validTasks : taskState'[s] = "blocked" => dependencies'[s] # {}
  BY <1>3, <1>5, <1>6 DEF TablesAtWork
<1> QED BY <1>7, <1>13, <1>14, <1>15, <1>16, <1>17, <1>18, <1>20, <1>21
        DEF TablesAtWork, SoundFiles

\* The last call returns, and the one before is done with its dependant.
LEMMA ReturnKeeps ==
  ASSUME TablesKept, TablesAtWork, calls # << >>, ReturnFromCall,
         UNCHANGED << pc, retries, validTasks, revDepMap, freeWorkers, taskAssignation,
                      engineVars >>
  PROVE  TablesKept' /\ TablesAtWork'
<1>1. /\ calls \in Seq([ task : TaskId, left : SUBSET TaskId ])
      /\ CallsFit /\ Head(calls) = calls[1] /\ calls[1].left = {}
      /\ Len(calls) \in Nat \ {0}
      /\ UNCHANGED << taskState, dependencies, blockedTasks, taskQueue, pc, retries,
                      validTasks, revDepMap, freeWorkers, taskAssignation >>
      /\ validTasks \subseteq TaskId
      /\ revDepMap \in [ TaskId -> SUBSET TaskId ]
  <2> DEFINE S == [ task : TaskId, left : SUBSET TaskId ]
  <2>1. calls \in Seq(S) /\ CallsFit
    BY DEF TablesKept, CallsFit
  <2> HIDE DEF S
  <2>2. Head(calls) = calls[1] /\ Len(calls) \in Nat \ {0}
    BY <2>1, EmptySeq, LenProperties, HeadTailProperties
  <2> QED BY <2>1, <2>2 DEF S, ReturnFromCall, TablesKept, TypeOK, SchedTypeOK
<1>2. \* the calls that are left, and what they have still to tell
      /\ CallsFit'
      /\ \A c \in TaskId : NotReleased'[c] = NotReleased[c]
      /\ \A s \in validTasks : \A c \in revDepMap[s] :
           StillToTell(s, c) => taskState[c] = "cancelled" \/ StillToTell(s, c)'
  <2>1. CASE Len(calls) = 1 /\ calls' = << >>
    <3>1. CallsFit'
      BY <2>1 DEF CallsFit
    <3>2. \A c \in TaskId : NotReleased'[c] = {} /\ NotReleased[c] = {}
      BY <1>1, <2>1 DEF NotReleased
    <3>3. \A s, c : ~ StillToTell(s, c)
      BY <1>1, <2>1 DEF StillToTell
    <3> QED BY <3>1, <3>2, <3>3
  <2>2. CASE Len(calls) > 1 /\ calls' = Advanced(Tail(calls))
    <3>1. PICK d : d = calls[1].task
      OBVIOUS
    <3>2. /\ calls' \in Seq([ task : TaskId, left : SUBSET TaskId ])
          /\ Len(calls') = Len(calls) - 1 /\ calls' # << >>
          /\ calls'[1].task = calls[2].task /\ calls'[1].left = calls[2].left \ {d}
          /\ \A i \in 2..Len(calls') : calls'[i] = calls[i + 1]
          /\ \A i \in 1..Len(calls) :
               /\ calls[i].left \subseteq revDepMap[calls[i].task]
               /\ taskState[calls[i].task] \in {"failed", "cancelled"}
      BY <1>1, <2>2, <3>1, LoopReturns
    <3>3. \A i \in 2..Len(calls) :
            /\ taskState[calls[i - 1].task] = "cancelled"
            /\ calls[i - 1].task \in calls[i].left
            /\ \A s \in calls[i].left : calls[i - 1].task <= s
      BY <1>1 DEF CallsFit
    <3>4. taskState[d] = "cancelled"
      <4>1. 2 \in 2..Len(calls) /\ calls[2 - 1] = calls[1]
        BY <1>1, <2>2
      <4> QED BY <3>1, <3>3, <4>1
    <3>5. CallsFit'
      <4>1. ASSUME NEW i \in 1..Len(calls')
            PROVE  /\ calls'[i].left \subseteq revDepMap[calls'[i].task]
                   /\ taskState[calls'[i].task] \in {"failed", "cancelled"}
        <5>1. i + 1 \in 1..Len(calls) /\ (i = 1 \/ i \in 2..Len(calls'))
          BY <1>1, <3>2
        <5> QED BY <3>2, <5>1
      <4>2. ASSUME NEW i \in 2..Len(calls')
            PROVE  /\ taskState[calls'[i - 1].task] = "cancelled"
                   /\ calls'[i - 1].task \in calls'[i].left
                   /\ \A s \in calls'[i].left : calls'[i - 1].task <= s
        <5>1. /\ i + 1 \in 2..Len(calls) /\ (i + 1) - 1 = i
              /\ calls'[i] = calls[i + 1]
          BY <1>1, <3>2
        <5>2. calls'[i - 1].task = calls[i].task
          <6>1. CASE i = 2
            BY <3>2, <6>1
          <6>2. CASE i > 2
            BY <3>2, <6>2
          <6> QED BY <6>1, <6>2
        <5> QED BY <3>3, <5>1, <5>2
      <4> QED BY <1>1, <3>2, <4>1, <4>2 DEF CallsFit
    <3>6. \A c \in TaskId : NotReleased'[c] = {} /\ NotReleased[c] = {}
      <4>1. taskState[Head(calls').task] # "completed"
        BY <1>1, <2>2, <3>2
      <4> QED BY <1>1, <4>1 DEF NotReleased
    <3>7. ASSUME NEW s \in validTasks, NEW c \in revDepMap[s],
                  StillToTell(s, c), taskState[c] # "cancelled"
           PROVE  StillToTell(s, c)'
      <4>1. PICK i \in 1..Len(calls) : calls[i].task = s /\ c \in calls[i].left
        BY <3>7 DEF StillToTell
      <4>2. i # 1 /\ c # d
        BY <1>1, <3>4, <3>7, <4>1
      <4>3. CASE i = 2
        BY <1>1, <2>2, <3>2, <4>1, <4>2, <4>3 DEF StillToTell
      <4>4. CASE i > 2
        <5>1. i - 1 \in 2..Len(calls') /\ calls'[i - 1] = calls[i] /\ i - 1 \in 1..Len(calls')
          BY <1>1, <3>2, <4>4
        <5> QED BY <4>1, <5>1 DEF StillToTell
      <4> QED BY <4>2, <4>3, <4>4
    <3> QED BY <3>5, <3>6, <3>7
  <2> QED BY <2>1, <2>2 DEF ReturnFromCall
<1>3. /\ TypeOK' /\ ChildrenInOrder' /\ EveryoneKnown'
  <2>1. SchedTypeOK'
    BY <1>1 DEF TablesKept, TypeOK, SchedTypeOK, Workers
  <2>2. TypeOK'
    BY <1>1, <2>1 DEF TablesKept, TypeOK, engineVars, Children, Workers
  <2> QED BY <1>1, <2>2 DEF TablesAtWork, engineVars, ChildrenInOrder, EveryoneKnown,
             QueuesComplete, Children, WorkerOf, TaskOf, Workers
<1>4. TablesKept'
  BY <1>1, <1>2, <1>3 DEF TablesKept, BackwardOnly, CancelledBelow, Parents
<1>5. DependenciesOwed'
  <2>1. \A c : Owed(c)' = Owed(c)
    BY <1>1 DEF Owed, Parents
  <2> QED BY <1>1, <1>2, <2>1 DEF TablesAtWork, DependenciesOwed
<1>6. DroppedStaysOut' /\ ReadyHasNoDependencies' /\ QueueOfWaiting'
  BY <1>1 DEF TablesAtWork, DroppedStaysOut, ReadyHasNoDependencies, QueueOfWaiting, Parents
<1>7. /\ LossIsSpreading({"cancelled"})'
      /\ ~ ForkMayFail => LossIsSpreading({"failed"})'
  BY <1>1, <1>2 DEF TablesAtWork, LossIsSpreading
<1> QED BY <1>1, <1>3, <1>4, <1>5, <1>6, <1>7 DEF TablesAtWork, SoundFiles

-------------------------------------------------------------------------------
(* The master and the children                                             *)

\* While nobody writes the restart file, the tables agree but for what the calls
\* in progress have still to do.
LEMMA WorkKeeps ==
  ASSUME TablesKept, TablesAtWork, EngineStep
  PROVE  TablesKept' /\ TablesAtWork'
<1>1. CASE calls # << >> /\ UpdateStep
  BY <1>1, ReleaseKeeps, CancelKeeps, ReturnKeeps DEF UpdateStep
<1>2. CASE calls = << >> /\ Reap
  BY <1>2, ReapKeeps
<1>3. CASE /\ calls = << >> /\ calls' = << >>
           /\ \/ FillQueue /\ UNCHANGED engineVars
              \/ Allocate
              \/ WaitWithoutChild
              \/ LeaveLoop /\ UNCHANGED engineVars
              \/ Return /\ UNCHANGED engineVars
              \/ WaitForAnyWorker /\ retries' # retries
  <2>1. Next
    BY <1>3 DEF Next, Master
  <2> QED BY <1>3, <2>1, IdleStepKeeps
<1>4. ASSUME NEW pid \in Pids, ChildEnds(pid), UNCHANGED calls
      PROVE  TablesKept' /\ TablesAtWork'
  <2>1. Next
    BY <1>4 DEF Next
  <2> QED BY <1>4, <2>1, IdleStepKeeps, ChildEndsKeeps
<1> QED BY <1>1, <1>2, <1>3, <1>4 DEF EngineStep, MasterStep, ChildStep, ReapAndRetry

-------------------------------------------------------------------------------
(* The numbers of the lines                                                *)

\* A task that is visited adds its line, and its warning, to those of the others.
LEMMA LinesAdded ==
  ASSUME NEW S \in SUBSET TaskId, NEW t \in TaskId, t \notin S
  PROVE  /\ LinesFor(S) \in Nat
         /\ LinesFor(S \cup {t}) =
              LinesFor(S) + (IF Skipped(t) THEN 0 ELSE 1) + (IF Warned(t) THEN 1 ELSE 0)
<1>1. IsFiniteSet(TaskId)
  BY TaskIdAssumption
<1>2. /\ Written(S) \subseteq TaskId /\ IsFiniteSet(Written(S))
      /\ Warnings(S) \subseteq TaskId /\ IsFiniteSet(Warnings(S))
  <2>1. Written(S) \subseteq TaskId /\ Warnings(S) \subseteq TaskId
    BY DEF Written, Warnings
  <2> QED BY <1>1, <2>1, FS_Subset
<1>3. Cardinality(Written(S)) \in Nat /\ Cardinality(Warnings(S)) \in Nat
  BY <1>2, FS_CardinalityType
<1>4. Cardinality(Written(S \cup {t})) = Cardinality(Written(S)) + (IF Skipped(t) THEN 0 ELSE 1)
  <2>1. CASE Skipped(t)
    <3>1. Written(S \cup {t}) = Written(S)
      BY <2>1 DEF Written
    <3> QED BY <1>3, <2>1, <3>1
  <2>2. CASE ~ Skipped(t)
    <3>1. Written(S \cup {t}) = Written(S) \cup {t} /\ t \notin Written(S)
      BY <2>2 DEF Written
    <3>2. Cardinality(Written(S) \cup {t}) = Cardinality(Written(S)) + 1
      BY <1>2, <3>1, FS_AddElement
    <3> QED BY <2>2, <3>1, <3>2
  <2> QED BY <2>1, <2>2
<1>5. Cardinality(Warnings(S \cup {t})) = Cardinality(Warnings(S)) + (IF Warned(t) THEN 1 ELSE 0)
  <2>1. CASE ~ Warned(t)
    <3>1. Warnings(S \cup {t}) = Warnings(S)
      BY <2>1 DEF Warnings
    <3> QED BY <1>3, <2>1, <3>1
  <2>2. CASE Warned(t)
    <3>1. Warnings(S \cup {t}) = Warnings(S) \cup {t} /\ t \notin Warnings(S)
      BY <2>2 DEF Warnings
    <3>2. Cardinality(Warnings(S) \cup {t}) = Cardinality(Warnings(S)) + 1
      BY <1>2, <3>1, FS_AddElement
    <3> QED BY <2>2, <3>1, <3>2
  <2> QED BY <2>1, <2>2
<1> QED BY <1>3, <1>4, <1>5 DEF LinesFor

\* More tasks, more lines, and never more than two for each.
LEMMA LinesBounded ==
  ASSUME NEW R \in SUBSET TaskId, NEW S \in SUBSET R
  PROVE  /\ LinesFor(S) \in Nat /\ LinesFor(R) \in Nat
         /\ LinesFor(S) <= LinesFor(R)
         /\ LinesFor(R) <= 2 * Cardinality(TaskId)
         /\ Cardinality(TaskId) \in Nat
<1>1. IsFiniteSet(TaskId) /\ Cardinality(TaskId) \in Nat
  BY TaskIdAssumption, FS_CardinalityType
<1>2. /\ Written(R) \subseteq TaskId /\ Warnings(R) \subseteq TaskId
      /\ Written(S) \subseteq Written(R) /\ Warnings(S) \subseteq Warnings(R)
  BY DEF Written, Warnings
<1>3. /\ IsFiniteSet(Written(R)) /\ Cardinality(Written(R)) <= Cardinality(TaskId)
      /\ IsFiniteSet(Warnings(R)) /\ Cardinality(Warnings(R)) <= Cardinality(TaskId)
  BY <1>1, <1>2, FS_Subset
<1>4. /\ Cardinality(Written(S)) <= Cardinality(Written(R)) /\ IsFiniteSet(Written(S))
      /\ Cardinality(Warnings(S)) <= Cardinality(Warnings(R)) /\ IsFiniteSet(Warnings(S))
  BY <1>2, <1>3, FS_Subset
<1>5. /\ Cardinality(Written(R)) \in Nat /\ Cardinality(Warnings(R)) \in Nat
      /\ Cardinality(Written(S)) \in Nat /\ Cardinality(Warnings(S)) \in Nat
  BY <1>3, <1>4, FS_CardinalityType
<1> QED BY <1>1, <1>3, <1>4, <1>5 DEF LinesFor

\* A task that is written has a smaller number than any that comes after it.
LEMMA NumbersIncrease ==
  ASSUME NEW t \in TaskId
  PROVE  /\ Number(t) \in Nat /\ Number(t) >= FirstLine
         /\ \A p \in TaskId : p < t /\ ~ Skipped(p) => Number(p) < Number(t)
<1>1. Before(t) \in SUBSET TaskId /\ LinesFor(Before(t)) \in Nat
  BY LinesBounded DEF Before
<1>2. ASSUME NEW p \in TaskId, p < t, ~ Skipped(p) PROVE Number(p) < Number(t)
  <2>1. /\ Before(p) \in SUBSET TaskId /\ p \notin Before(p)
        /\ Before(p) \cup {p} \in SUBSET Before(t)
    <3>1. \A s \in TaskId : s \in Nat
      BY TaskIdAssumption
    <3>2. \A s \in Before(p) : s \in TaskId /\ s < p
      BY DEF Before
    <3>3. \A s \in TaskId : s < p => s < t
      BY <1>2, <3>1
    <3>4. ~ (p < p)
      BY <3>1
    <3> QED BY <1>2, <3>2, <3>3, <3>4 DEF Before
  <2>2. /\ LinesFor(Before(p)) \in Nat
        /\ LinesFor(Before(p) \cup {p}) =
             LinesFor(Before(p)) + 1 + (IF Warned(p) THEN 1 ELSE 0)
    BY <1>2, <2>1, LinesAdded
  <2>3. LinesFor(Before(p) \cup {p}) <= LinesFor(Before(t))
    BY <1>1, <2>1, LinesBounded
  <2> QED BY <1>1, <2>2, <2>3 DEF Number, FirstLine
<1> QED BY <1>1, <1>2 DEF Number, FirstLine

\* The task the loop comes to is the first it has not visited.
LEMMA LoopOfWriterComesTo ==
  ASSUME LoopOfWriter, NEW t \in TaskId, IsNext(t)
  PROVE  /\ t \notin Visited /\ Visited = Before(t)
         /\ TaskId \ (rstLeft \ {t}) = Visited \cup {t}
         /\ rstLeft \ {t} \subseteq TaskId
         /\ \A s \in Visited \cup {t}, c \in rstLeft \ {t} : s < c
         /\ nindex \in Nat
         /\ LineFor(t) = Number(t)
         /\ FirstLine + LinesFor(Visited \cup {t}) =
              IF Skipped(t) THEN nindex ELSE Number(t) + 1
<1>1. t \in rstLeft /\ \A s \in rstLeft : t <= s
  BY DEF IsNext
<1>2. TaskId \subseteq Nat /\ rstLeft \subseteq TaskId /\ \A s \in Visited, c \in rstLeft : s < c
  BY TaskIdAssumption DEF LoopOfWriter
<1>3. t \notin Visited /\ Visited = Before(t)
  <2>1. \A s \in TaskId : s \in Visited <=> s \notin rstLeft
    BY DEF Visited
  <2>2. \A s \in TaskId : s \in Visited <=> s < t
    BY <1>1, <1>2, <2>1
  <2>3. Visited \subseteq TaskId
    BY DEF Visited
  <2> QED BY <1>1, <2>1, <2>2, <2>3 DEF Before
<1>4. /\ TaskId \ (rstLeft \ {t}) = Visited \cup {t}
      /\ \A s \in Visited \cup {t}, c \in rstLeft \ {t} : s < c
  BY <1>1, <1>2 DEF Visited
<1>5. Visited \in SUBSET TaskId /\ nindex = FirstLine + LinesFor(Visited)
  BY DEF Visited, LoopOfWriter
<1>6. /\ LinesFor(Visited) \in Nat
      /\ LinesFor(Visited \cup {t}) =
           LinesFor(Visited) + (IF Skipped(t) THEN 0 ELSE 1) + (IF Warned(t) THEN 1 ELSE 0)
  BY <1>3, <1>5, LinesAdded
<1>7. Skipped(t) => ~ Warned(t)
  BY DEF Skipped, Warned
<1>8. Number(t) = nindex + IF Warned(t) THEN 1 ELSE 0
  BY <1>3, <1>5 DEF Number
<1> QED BY <1>2, <1>3, <1>4, <1>5, <1>6, <1>7, <1>8 DEF LineFor, FirstLine

-------------------------------------------------------------------------------
(* The loop of writeRestartFile                                            *)

\* The loop takes waiting tasks for blocked ones and changes no other state: what a
\* task owes and the number it has stay the same.
SameVerdicts ==
  /\ \A s \in TaskId :
       taskState'[s] = taskState[s]
         \/ (taskState[s] \in {"waiting", "blocked"} /\ taskState'[s] = "blocked")
  /\ UNCHANGED << pc, retries, validTasks, revDepMap, freeWorkers, taskQueue,
                  blockedTasks, taskAssignation, engineVars, calls >>

LEMMA SameNumbers ==
  ASSUME TablesKept, SameVerdicts
  PROVE  /\ \A t \in TaskId : /\ Skipped(t)' <=> Skipped(t)
                              /\ taskState'[t] = "invalid" <=> taskState[t] = "invalid"
                              /\ taskState'[t] = "completed" <=> taskState[t] = "completed"
                              /\ Number(t)' = Number(t)
                              /\ Owed(t)' = Owed(t)
                              /\ Owed(t) \subseteq TaskId
                              /\ NotReleased'[t] = NotReleased[t]
         /\ \A S \in SUBSET TaskId : LinesFor(S)' = LinesFor(S)
<1>1. /\ validTasks \subseteq TaskId
      /\ UNCHANGED << validTasks, revDepMap, calls >>
  BY DEF TablesKept, TypeOK, SchedTypeOK, SameVerdicts
<1>2. \A t \in TaskId :
        /\ taskState'[t] = "invalid" <=> taskState[t] = "invalid"
        /\ taskState'[t] = "completed" <=> taskState[t] = "completed"
        /\ taskState'[t] = "failed" <=> taskState[t] = "failed"
        /\ taskState'[t] = "cancelled" <=> taskState[t] = "cancelled"
  BY DEF SameVerdicts
<1>3. \A t \in TaskId : (Skipped(t)' <=> Skipped(t)) /\ (Warned(t)' <=> Warned(t))
  BY <1>2 DEF Skipped, Warned
<1>4. \A S \in SUBSET TaskId : LinesFor(S)' = LinesFor(S)
  <2> TAKE S \in SUBSET TaskId
  <2>1. Written(S)' = Written(S) /\ Warnings(S)' = Warnings(S)
    BY <1>3 DEF Written, Warnings
  <2> QED BY <2>1 DEF LinesFor
<1>5. ASSUME NEW t \in TaskId PROVE Number(t)' = Number(t)
  <2>1. Before(t) \in SUBSET TaskId
    BY DEF Before
  <2>2. LinesFor(Before(t))' = LinesFor(Before(t))
    BY <1>4, <2>1 DEF Before
  <2> QED BY <1>3, <2>2 DEF Number
<1>6. ASSUME NEW t \in TaskId PROVE Owed(t)' = Owed(t) /\ Owed(t) \subseteq TaskId
  <2>1. Parents(t)' = Parents(t) /\ Parents(t) \subseteq TaskId
    BY <1>1 DEF Parents
  <2> QED BY <1>2, <2>1 DEF Owed
<1>7. NotReleased' = NotReleased
  <2>1. CASE calls = << >>
    BY <1>1, <2>1 DEF NotReleased
  <2>2. CASE calls # << >>
    <3>1. Head(calls).task \in TaskId
      <4> DEFINE S == [ task : TaskId, left : SUBSET TaskId ]
      <4>1. calls \in Seq(S) /\ calls # << >>
        BY <2>2 DEF TablesKept, CallsFit
      <4> HIDE DEF S
      <4>2. Head(calls) \in S
        BY <4>1, HeadTailProperties
      <4> QED BY <4>2 DEF S
    <3> QED BY <1>1, <1>2, <3>1 DEF NotReleased
  <2> QED BY <2>1, <2>2
<1> QED BY <1>2, <1>3, <1>4, <1>5, <1>6, <1>7

\* The calls that were given up, and the tables that stay.
LEMMA WriterKeepsTables ==
  ASSUME TablesKept, SameVerdicts, dependencies' \in [ TaskId -> SUBSET (Nat \ {0}) ],
         taskState' \in [ TaskId -> TaskStates ]
  PROVE  TablesKept'
<1>1. /\ UNCHANGED << pc, retries, validTasks, revDepMap, freeWorkers, taskQueue,
                      blockedTasks, taskAssignation, engineVars, calls >>
      /\ validTasks \subseteq TaskId
      /\ \A t \in TaskId :
           /\ taskState'[t] = "invalid" <=> taskState[t] = "invalid"
           /\ taskState'[t] = "completed" <=> taskState[t] = "completed"
           /\ taskState'[t] = "failed" <=> taskState[t] = "failed"
           /\ taskState'[t] = "cancelled" <=> taskState[t] = "cancelled"
  BY DEF SameVerdicts, TablesKept, TypeOK, SchedTypeOK
<1>2. TypeOK'
  <2>1. SchedTypeOK'
    BY <1>1 DEF TablesKept, TypeOK, SchedTypeOK, Workers
  <2> QED BY <1>1, <2>1 DEF TablesKept, TypeOK, engineVars, Children, Workers
<1>3. CallsFit'
  <2> DEFINE S == [ task : TaskId, left : SUBSET TaskId ]
  <2>1. calls \in Seq(S)
    BY DEF TablesKept, CallsFit
  <2>2. \A i \in 1..Len(calls) : calls[i].task \in TaskId
    <3> TAKE i \in 1..Len(calls)
    <3>1. calls[i] \in S
      <4> HIDE DEF S
      <4> QED BY <2>1, ElementOfSeq
    <3> QED BY <3>1
  <2>3. \A i \in 2..Len(calls) : i - 1 \in 1..Len(calls)
    BY <2>1, LenProperties
  <2> HIDE DEF S
  <2> QED BY <1>1, <2>2, <2>3 DEF TablesKept, CallsFit
<1>4. CancelledBelow'
  <2>1. \A t \in TaskId : Parents(t)' = Parents(t) /\ Parents(t) \subseteq TaskId
    BY <1>1 DEF Parents
  <2> QED BY <1>1, <2>1 DEF TablesKept, CancelledBelow
<1>5. /\ BackwardOnly'
      /\ \A t \in validTasks : taskState'[t] # "invalid"
      /\ \A t \in TaskId \ validTasks : taskState'[t] \in {"invalid", "cancelled"}
      /\ pc' = "done" => \A t \in TaskId : taskState'[t] \in FinalStates \cup {"invalid"}
  BY <1>1 DEF TablesKept, BackwardOnly, FinalStates
<1> QED BY <1>1, <1>2, <1>3, <1>4, <1>5 DEF TablesKept

\* finalize or a handler opens the file and starts at the first task.
LEMMA OpenKeeps ==
  ASSUME RunInv, OpenRestart, UNCHANGED << vars, calls >>
  PROVE  RunInv'
<1>1. UNCHANGED << pc, taskState, dependencies, retries, validTasks, revDepMap,
                   freeWorkers, taskQueue, blockedTasks, taskAssignation, engineVars, calls >>
  BY DEF vars, schedVars
<1>2. SameVerdicts
  BY <1>1 DEF SameVerdicts
<1>3. TablesKept'
  BY <1>1, <1>2, WriterKeepsTables DEF RunInv, TablesKept, TypeOK, SchedTypeOK
<1>4. Visited' = {} /\ rstPhase' = "writing" /\ rstLeft' = TaskId
  BY DEF OpenRestart, Visited
<1>5. LinesFor({})' = 0
  BY FS_EmptySet DEF LinesFor, Written, Warnings
<1>6. /\ nindex' = FirstLine /\ printed' = HeaderLines
      /\ lineOf' = [ t \in TaskId |-> 0 ]
      /\ written' = [ t \in TaskId |-> {} ]
      /\ invalidTasks' = {}
  BY DEF OpenRestart
<1>7. LoopOfWriter'
  BY <1>4, <1>5, <1>6 DEF LoopOfWriter, FirstLine, HeaderLines
<1>8. RestartTypeOK'
  <2>1. Cardinality(TaskId) \in Nat
    BY LinesBounded
  <2> QED BY <1>4, <1>6, <2>1 DEF RestartTypeOK, FirstLine, HeaderLines
<1>9. ASSUME ShortFile PROVE NumbersOfWriter'
  <2>1. \A c \in TaskId : \A T \in SUBSET TaskId : Renumbered(c, T)' = Renumbered(c, T)
    <3> TAKE c \in TaskId
    <3> TAKE T \in SUBSET TaskId
    <3>1. \A p \in Owed(c) : Number(p)' = Number(p)
      BY <1>2, SameNumbers DEF RunInv
    <3>2. Owed(c)' = Owed(c) /\ NotReleased'[c] = NotReleased[c]
      BY <1>2, SameNumbers DEF RunInv
    <3> QED BY <3>1, <3>2 DEF Renumbered
  <2>2. validTasks \subseteq TaskId
    BY DEF RunInv, TablesKept, TypeOK, SchedTypeOK
  <2>3. CASE rstPhase = "off"
    <3>1. \A c \in validTasks : dependencies[c] = Renumbered(c, {})
      BY <2>3 DEF RunInv, TablesAtWork, DependenciesOwed, Renumbered
    <3> QED BY <1>1, <1>4, <2>1, <2>2, <3>1 DEF NumbersOfWriter
  <2>4. CASE rstPhase # "off"
    <3>1. PICK T \in SUBSET TaskId :
            \A c \in validTasks :
              taskState[c] # "completed" => dependencies[c] = Renumbered(c, T)
      BY <1>9, <2>4 DEF RunInv, NumbersOfWriter
    <3> QED BY <1>1, <1>4, <2>1, <2>2, <3>1 DEF NumbersOfWriter
  <2> QED BY <2>3, <2>4
<1> QED BY <1>3, <1>4, <1>7, <1>8, <1>9 DEF RunInv, ShortFile

\* A task is renumbered in the dependencies of its dependants, whether or not an
\* earlier pass has done it, and no other id is touched.
LEMMA RenumberOne ==
  ASSUME TablesKept, ShortFile, NEW T \in SUBSET TaskId, NEW t \in TaskId, ~ Skipped(t),
         NEW c \in validTasks
  PROVE  Renumbered(c, T \cup {t}) =
           IF c \in revDepMap[t]
           THEN DepsAfterAdd(c, DepsAfterRemove(Renumbered(c, T), t), Number(t))
           ELSE Renumbered(c, T)
<1>1. /\ validTasks \subseteq TaskId /\ c \in TaskId
      /\ \A p \in TaskId : p \in Nat /\ p < FirstLine
  BY TaskIdAssumption DEF TablesKept, TypeOK, SchedTypeOK, ShortFile
<1>2. \A p \in TaskId : Number(p) \in Nat /\ Number(p) >= FirstLine
  BY NumbersIncrease
<1>3. Owed(c) \subseteq TaskId /\ (t \in Owed(c) <=> c \in revDepMap[t])
  BY <1>1 DEF Owed, Parents, TablesKept, BackwardOnly, Skipped
<1>4. t \notin NotReleased[c]
  BY <1>1 DEF NotReleased, Skipped
<1>5. CASE c \in revDepMap[t]
  <2>1. DepsAfterAdd(c, DepsAfterRemove(Renumbered(c, T), t), Number(t)) =
          (Renumbered(c, T) \ {t}) \cup {Number(t)}
    BY <1>1, <1>2 DEF DepsAfterAdd, DepsAfterRemove, FirstLine
  <2>2. ASSUME NEW x \in Renumbered(c, T), x # t PROVE x \in Renumbered(c, T \cup {t})
    <3>1. CASE \E p \in Owed(c) : x = IF p \in T THEN Number(p) ELSE p
      BY <2>2, <3>1 DEF Renumbered
    <3>2. CASE x \in NotReleased[c]
      BY <3>2 DEF Renumbered
    <3> QED BY <2>2, <3>1, <3>2 DEF Renumbered
  <2>3. Number(t) \in Renumbered(c, T \cup {t})
    BY <1>3, <1>5 DEF Renumbered
  <2>4. ASSUME NEW x \in Renumbered(c, T \cup {t})
        PROVE  x \in (Renumbered(c, T) \ {t}) \cup {Number(t)}
    <3>1. CASE \E p \in Owed(c) : x = IF p \in T \cup {t} THEN Number(p) ELSE p
      <4>1. PICK p \in Owed(c) : x = IF p \in T \cup {t} THEN Number(p) ELSE p
        BY <3>1
      <4>2. CASE p = t
        BY <4>1, <4>2
      <4>3. CASE p # t
        <5>1. x = IF p \in T THEN Number(p) ELSE p
          BY <4>1, <4>3
        <5>2. x # t
          <6>1. p \in TaskId /\ t \in Nat /\ t < FirstLine
            BY <1>1, <1>3
          <6>2. Number(p) # t
            BY <1>2, <6>1 DEF FirstLine
          <6> QED BY <4>3, <5>1, <6>2
        <5> QED BY <5>1, <5>2 DEF Renumbered
      <4> QED BY <4>2, <4>3
    <3>2. CASE x \in NotReleased[c]
      BY <1>4, <3>2 DEF Renumbered
    <3> QED BY <2>4, <3>1, <3>2 DEF Renumbered
  <2> QED BY <1>5, <2>1, <2>2, <2>3, <2>4
<1>6. CASE c \notin revDepMap[t]
  <2>1. \A p \in Owed(c) : p \in T \cup {t} <=> p \in T
    BY <1>3, <1>6
  <2> QED BY <1>6, <2>1 DEF Renumbered
<1> QED BY <1>5, <1>6

\* Once all its parents have numbers, it does not matter who else has.
LEMMA RenumberedAll ==
  ASSUME NEW c, NEW T \in SUBSET TaskId, Owed(c) \subseteq T
  PROVE  Renumbered(c, T) = Renumbered(c, TaskId)
BY DEF Renumbered

\* A task that is left out.
LEMMA SkipKeeps ==
  ASSUME RunInv, rstPhase = "writing", NEW t \in TaskId, IsNext(t), SkipTask(t),
         rstLeft' = rstLeft \ {t},
         UNCHANGED << rstPhase, pc, retries, validTasks, revDepMap, freeWorkers, taskQueue,
                      blockedTasks, taskAssignation, engineVars, calls >>
  PROVE  RunInv'
<1>1. /\ TablesKept /\ LoopOfWriter /\ RestartTypeOK
      /\ UNCHANGED << taskState, dependencies, nindex, printed, lineOf, written >>
      /\ Skipped(t)
  BY DEF RunInv, SkipTask, Skipped
<1>2. SameVerdicts
  BY <1>1 DEF SameVerdicts
<1>3. TablesKept'
  BY <1>1, <1>2, WriterKeepsTables DEF TablesKept, TypeOK, SchedTypeOK
<1>4. /\ t \notin Visited /\ Visited = Before(t)
      /\ TaskId \ (rstLeft \ {t}) = Visited \cup {t}
      /\ rstLeft \ {t} \subseteq TaskId
      /\ \A s \in Visited \cup {t}, c \in rstLeft \ {t} : s < c
      /\ FirstLine + LinesFor(Visited \cup {t}) = nindex
  BY <1>1, LoopOfWriterComesTo
<1>5. Visited' = Visited \cup {t} /\ Visited \cup {t} \in SUBSET TaskId
  BY <1>4 DEF Visited
<1>6. PICK V \in SUBSET TaskId : V = Visited \cup {t}
  BY <1>5
<1>7. LoopOfWriter'
  <2>1. nindex' = FirstLine + LinesFor(Visited)'
    <3>1. LinesFor(Visited)' = LinesFor(V)'
      BY <1>5, <1>6 DEF LinesFor, Written, Warnings
    <3>2. LinesFor(V)' = LinesFor(V)
      BY <1>1, <1>2, <1>6, SameNumbers
    <3> QED BY <1>1, <1>4, <1>6, <3>1, <3>2
  <2>2. lineOf' = [ s \in TaskId |->
                      IF s \in Visited' /\ ~ Skipped(s)' THEN Number(s)' ELSE 0 ]
    <3>1. lineOf' = [ s \in TaskId |-> IF s \in Visited /\ ~ Skipped(s) THEN Number(s) ELSE 0 ]
      BY <1>1 DEF LoopOfWriter
    <3>2. \A s \in TaskId : /\ Skipped(s)' <=> Skipped(s)
                            /\ Number(s)' = Number(s)
      BY <1>1, <1>2, SameNumbers
    <3>3. \A s \in TaskId : s \in Visited' /\ ~ Skipped(s) <=> s \in Visited /\ ~ Skipped(s)
      BY <1>1, <1>5
    <3> QED BY <3>1, <3>2, <3>3
  <2>3. invalidTasks' = { s \in Visited' : taskState'[s] = "invalid" }
    <3>1. invalidTasks = { s \in Visited : taskState[s] = "invalid" }
      BY <1>1 DEF LoopOfWriter
    <3>2. invalidTasks' = IF taskState[t] = "invalid" THEN invalidTasks \cup {t} ELSE invalidTasks
      BY DEF SkipTask
    <3> QED BY <1>1, <1>5, <3>1, <3>2
  <2>4. \A s \in Visited', c \in rstLeft' : s < c
    BY <1>4, <1>5
  <2>5. /\ rstLeft' \subseteq TaskId /\ printed' = nindex' - 1 /\ rstPhase' # "closed"
        /\ written' \in [ TaskId -> SUBSET (Nat \ {0}) ]
    BY <1>1, <1>4 DEF LoopOfWriter
  <2> QED BY <2>1, <2>2, <2>3, <2>4, <2>5 DEF LoopOfWriter
<1>8. RestartTypeOK'
  <2>1. invalidTasks' \in SUBSET TaskId
    BY <1>1 DEF RestartTypeOK, SkipTask
  <2> QED BY <1>1, <1>4, <2>1 DEF RestartTypeOK
<1>9. ASSUME ShortFile PROVE NumbersOfWriter'
  <2>1. validTasks \subseteq TaskId /\ \A c \in validTasks : taskState[c] # "invalid"
    BY <1>1 DEF TablesKept, TypeOK, SchedTypeOK
  <2>2. \A c \in TaskId : t \notin Owed(c)
    BY <1>1, <2>1 DEF Owed, Parents, Skipped
  <2>3. \A c \in TaskId : \A T \in SUBSET TaskId : Renumbered(c, T)' = Renumbered(c, T)
    <3> TAKE c \in TaskId
    <3> TAKE T \in SUBSET TaskId
    <3>1. \A p \in Owed(c) : Number(p)' = Number(p)
      BY <1>1, <1>2, SameNumbers
    <3>2. Owed(c)' = Owed(c) /\ NotReleased'[c] = NotReleased[c]
      BY <1>1, <1>2, SameNumbers
    <3> QED BY <3>1, <3>2 DEF Renumbered
  <2>4. NumbersOfWriter
    BY <1>9 DEF RunInv
  <2>5. PICK T \in SUBSET TaskId :
          /\ Visited \subseteq T
          /\ \A c \in validTasks :
               taskState[c] # "completed" => dependencies[c] = Renumbered(c, T)
    BY <2>4 DEF NumbersOfWriter
  <2>6. \A c \in TaskId : Renumbered(c, T \cup {t}) = Renumbered(c, T)
    BY <2>2 DEF Renumbered
  <2>7. T \cup {t} \in SUBSET TaskId /\ Visited' \subseteq T \cup {t}
    BY <1>5, <2>5
  <2>8. \A c \in validTasks :
          taskState'[c] # "completed" => dependencies'[c] = Renumbered(c, T \cup {t})'
    BY <1>1, <2>1, <2>3, <2>5, <2>6, <2>7
  <2>9. \A c \in validTasks \cap Visited' :
          taskState'[c] # "completed" => written'[c] = Renumbered(c, TaskId)'
    <3> SUFFICES ASSUME NEW c \in validTasks \cap Visited', taskState'[c] # "completed"
                 PROVE  written'[c] = Renumbered(c, TaskId)'
      OBVIOUS
    <3>1. c # t
      BY <1>1, <2>1 DEF Skipped
    <3> QED BY <1>1, <1>5, <2>1, <2>3, <2>4, <3>1 DEF NumbersOfWriter
  <2> QED BY <2>7, <2>8, <2>9 DEF NumbersOfWriter
<1> QED BY <1>3, <1>7, <1>8, <1>9 DEF RunInv, ShortFile

\* What the loop makes of the tables when it writes a task.
LEMMA WriteRenumbers ==
  ASSUME TablesKept, LoopOfWriter, rstPhase = "writing", NEW t \in TaskId, IsNext(t),
         WriteTask(t),
         UNCHANGED << rstPhase, pc, retries, validTasks, revDepMap, freeWorkers, taskQueue,
                      blockedTasks, taskAssignation, engineVars, calls >>
  PROVE  /\ SameVerdicts /\ TablesKept'
         /\ \A c \in TaskId :
              dependencies'[c] =
                IF c \in revDepMap[t]
                THEN DepsAfterAdd(c, DepsAfterRemove(dependencies[c], t), Number(t))
                ELSE dependencies[c]
<1>1. /\ SchedTypeOK /\ taskState \in [ TaskId -> TaskStates ]
      /\ dependencies \in [ TaskId -> SUBSET (Nat \ {0}) ]
  BY DEF TablesKept, TypeOK, SchedTypeOK
<1>2. LineFor(t) = Number(t) /\ Number(t) \in Nat /\ Number(t) >= FirstLine
  BY LoopOfWriterComesTo, NumbersIncrease
<1>3. /\ taskState' \in [ TaskId -> TaskStates ]
      /\ \A c \in TaskId :
           taskState'[c] = taskState[c]
             \/ (taskState[c] \in {"waiting", "blocked"} /\ taskState'[c] = "blocked")
  <2>1. taskState' =
          [ c \in TaskId |->
              IF c \in revDepMap[t]
              THEN StateAfterAdd(StateAfterRemove(taskState[c],
                                                  DepsAfterRemove(dependencies[c], t)))
              ELSE taskState[c] ]
    BY DEF WriteTask
  <2>2. \A state \in TaskStates, deps \in SUBSET Nat :
          /\ StateAfterAdd(StateAfterRemove(state, deps)) \in TaskStates
          /\ StateAfterAdd(StateAfterRemove(state, deps)) = state
               \/ (/\ state \in {"waiting", "blocked"}
                   /\ StateAfterAdd(StateAfterRemove(state, deps)) = "blocked")
    BY DEF StateAfterAdd, StateAfterRemove, TaskStates
  <2>3. \A c \in TaskId : /\ taskState[c] \in TaskStates
                          /\ DepsAfterRemove(dependencies[c], t) \in SUBSET Nat
    BY <1>1 DEF DepsAfterRemove
  <2> QED BY <2>1, <2>2, <2>3
<1>4. SameVerdicts
  BY <1>3 DEF SameVerdicts
<1>5. /\ dependencies' =
           [ c \in TaskId |-> IF c \in revDepMap[t]
                              THEN DepsAfterAdd(c, DepsAfterRemove(dependencies[c], t), Number(t))
                              ELSE dependencies[c] ]
      /\ dependencies' \in [ TaskId -> SUBSET (Nat \ {0}) ]
  <2>1. dependencies' =
           [ c \in TaskId |-> IF c \in revDepMap[t]
                              THEN DepsAfterAdd(c, DepsAfterRemove(dependencies[c], t), Number(t))
                              ELSE dependencies[c] ]
    BY <1>2 DEF WriteTask, Renumber
  <2>2. \A c \in TaskId :
          /\ dependencies[c] \in SUBSET (Nat \ {0})
          /\ DepsAfterAdd(c, DepsAfterRemove(dependencies[c], t), Number(t)) \in SUBSET (Nat \ {0})
    BY <1>1, <1>2 DEF DepsAfterAdd, DepsAfterRemove, FirstLine
  <2> QED BY <2>1, <2>2
<1>6. TablesKept'
  BY <1>3, <1>4, <1>5, WriterKeepsTables
<1> QED BY <1>4, <1>5, <1>6

\* A task that is written.
LEMMA WriteKeeps ==
  ASSUME RunInv, rstPhase = "writing", NEW t \in TaskId, IsNext(t), WriteTask(t),
         rstLeft' = rstLeft \ {t},
         UNCHANGED << rstPhase, pc, retries, validTasks, revDepMap, freeWorkers, taskQueue,
                      blockedTasks, taskAssignation, engineVars, calls >>
  PROVE  RunInv'
<1>1. /\ TablesKept /\ LoopOfWriter /\ RestartTypeOK
      /\ ~ Skipped(t)
      /\ SameVerdicts /\ TablesKept'
      /\ \A c \in TaskId :
           dependencies'[c] =
             IF c \in revDepMap[t]
             THEN DepsAfterAdd(c, DepsAfterRemove(dependencies[c], t), Number(t))
             ELSE dependencies[c]
  <2>1. TablesKept /\ LoopOfWriter /\ RestartTypeOK
    BY DEF RunInv
  <2>2. ~ Skipped(t)
    BY DEF WriteTask, Skipped
  <2> QED BY <2>1, <2>2, WriteRenumbers
<1>2. /\ t \notin Visited /\ Visited = Before(t)
      /\ TaskId \ (rstLeft \ {t}) = Visited \cup {t}
      /\ rstLeft \ {t} \subseteq TaskId
      /\ \A s \in Visited \cup {t}, c \in rstLeft \ {t} : s < c
      /\ nindex \in Nat
      /\ LineFor(t) = Number(t)
      /\ FirstLine + LinesFor(Visited \cup {t}) = Number(t) + 1
  BY <1>1, LoopOfWriterComesTo
<1>3. Number(t) \in Nat /\ Number(t) >= FirstLine
  BY NumbersIncrease
<1>4. Visited' = Visited \cup {t} /\ Visited \cup {t} \in SUBSET TaskId
  BY <1>2 DEF Visited
<1>5. PICK V \in SUBSET TaskId : V = Visited \cup {t}
  BY <1>4
<1>6. /\ nindex' = Number(t) + 1
      /\ printed' = Number(t)
      /\ lineOf' = [ lineOf EXCEPT ![t] = Number(t) ]
      /\ written' = [ written EXCEPT ![t] = dependencies[t] ]
      /\ invalidTasks' = invalidTasks
  <2>1. printed = nindex - 1
    BY <1>1 DEF LoopOfWriter
  <2>2. printed' = Number(t)
    BY <1>2, <2>1 DEF WriteTask, LineFor
  <2> QED BY <1>2, <2>2 DEF WriteTask
<1>7. LoopOfWriter'
  <2>1. nindex' = FirstLine + LinesFor(Visited)'
    <3>1. LinesFor(Visited)' = LinesFor(V)'
      BY <1>4, <1>5 DEF LinesFor, Written, Warnings
    <3>2. LinesFor(V)' = LinesFor(V)
      BY <1>1, <1>5, SameNumbers
    <3> QED BY <1>2, <1>5, <1>6, <3>1, <3>2
  <2>2. lineOf' = [ s \in TaskId |->
                      IF s \in Visited' /\ ~ Skipped(s)' THEN Number(s)' ELSE 0 ]
    <3>1. lineOf = [ s \in TaskId |-> IF s \in Visited /\ ~ Skipped(s) THEN Number(s) ELSE 0 ]
      BY <1>1 DEF LoopOfWriter
    <3>2. \A s \in TaskId : /\ Skipped(s)' <=> Skipped(s)
                            /\ Number(s)' = Number(s)
      BY <1>1, SameNumbers
    <3>3. lineOf' = [ s \in TaskId |->
                        IF s = t THEN Number(t)
                        ELSE IF s \in Visited /\ ~ Skipped(s) THEN Number(s) ELSE 0 ]
      BY <1>6, <3>1
    <3> QED BY <1>1, <1>4, <3>2, <3>3
  <2>3. invalidTasks' = { s \in Visited' : taskState'[s] = "invalid" }
    <3>1. invalidTasks = { s \in Visited : taskState[s] = "invalid" }
      BY <1>1 DEF LoopOfWriter
    <3>2. \A s \in TaskId : taskState'[s] = "invalid" <=> taskState[s] = "invalid"
      BY <1>1, SameNumbers
    <3>3. taskState[t] # "invalid"
      BY <1>1 DEF Skipped
    <3> QED BY <1>4, <1>6, <3>1, <3>2, <3>3
  <2>4. \A s \in Visited', c \in rstLeft' : s < c
    BY <1>2, <1>4
  <2>5. written' \in [ TaskId -> SUBSET (Nat \ {0}) ]
    <3>1. dependencies[t] \in SUBSET (Nat \ {0})
      BY <1>1 DEF TablesKept, TypeOK, SchedTypeOK
    <3> QED BY <1>1, <1>6, <3>1 DEF LoopOfWriter
  <2>6. rstLeft' \subseteq TaskId /\ printed' = nindex' - 1 /\ rstPhase' # "closed"
    BY <1>2, <1>3, <1>6
  <2> QED BY <2>1, <2>2, <2>3, <2>4, <2>5, <2>6 DEF LoopOfWriter
<1>8. RestartTypeOK'
  <2>1. nindex' \in FirstLine..(FirstLine + 2 * Cardinality(TaskId))
    <3>1. /\ LinesFor(V) \in Nat /\ Cardinality(TaskId) \in Nat
          /\ LinesFor(V) <= 2 * Cardinality(TaskId)
      BY LinesBounded
    <3> QED BY <1>2, <1>3, <1>5, <1>6, <3>1 DEF FirstLine
  <2>2. lineOf' \in [ TaskId -> Nat ]
    BY <1>1, <1>3, <1>6 DEF RestartTypeOK
  <2> QED BY <1>1, <1>2, <1>3, <1>6, <1>7, <2>1, <2>2 DEF RestartTypeOK, LoopOfWriter
<1>9. ASSUME ShortFile PROVE NumbersOfWriter'
  <2>1. /\ validTasks \subseteq TaskId
        /\ \A c \in TaskId : Owed(c) \subseteq TaskId /\ Owed(c)' = Owed(c)
        /\ \A c \in TaskId : taskState'[c] = "completed" <=> taskState[c] = "completed"
    BY <1>1, SameNumbers DEF TablesKept, TypeOK, SchedTypeOK
  <2>2. \A c \in TaskId : \A T \in SUBSET TaskId : Renumbered(c, T)' = Renumbered(c, T)
    <3> TAKE c \in TaskId
    <3> TAKE T \in SUBSET TaskId
    <3>1. \A p \in Owed(c) : Number(p)' = Number(p)
      BY <1>1, SameNumbers
    <3>2. NotReleased'[c] = NotReleased[c]
      BY <1>1, SameNumbers
    <3> QED BY <2>1, <3>1, <3>2 DEF Renumbered
  <2>3. NumbersOfWriter
    BY <1>9 DEF RunInv
  <2>4. PICK T \in SUBSET TaskId :
          /\ Visited \subseteq T
          /\ \A c \in validTasks :
               taskState[c] # "completed" => dependencies[c] = Renumbered(c, T)
    BY <2>3 DEF NumbersOfWriter
  <2>5. T \cup {t} \in SUBSET TaskId /\ Visited' \subseteq T \cup {t}
    BY <1>4, <2>4
  <2>6. \A c \in validTasks :
          taskState'[c] # "completed" => dependencies'[c] = Renumbered(c, T \cup {t})'
    <3> SUFFICES ASSUME NEW c \in validTasks, taskState'[c] # "completed"
                 PROVE  dependencies'[c] = Renumbered(c, T \cup {t})'
      OBVIOUS
    <3>1. Renumbered(c, T \cup {t})' = Renumbered(c, T \cup {t})
      BY <2>1, <2>2, <2>5
    <3>2. Renumbered(c, T \cup {t}) =
            IF c \in revDepMap[t]
            THEN DepsAfterAdd(c, DepsAfterRemove(Renumbered(c, T), t), Number(t))
            ELSE Renumbered(c, T)
      BY <1>1, <1>9, RenumberOne
    <3>3. dependencies[c] = Renumbered(c, T)
      BY <2>1, <2>4
    <3> QED BY <1>1, <2>1, <3>1, <3>2, <3>3
  <2>7. ASSUME t \in validTasks PROVE dependencies[t] = Renumbered(t, TaskId)
    <3>1. Owed(t) \subseteq Visited
      BY <1>1, <1>2, <2>1 DEF Owed, Parents, Before, TablesKept, BackwardOnly
    <3>2. dependencies[t] = Renumbered(t, T)
      BY <1>1, <2>4, <2>7 DEF Skipped
    <3> QED BY <2>4, <3>1, <3>2, RenumberedAll
  <2>8. \A c \in validTasks \cap Visited' :
          taskState'[c] # "completed" => written'[c] = Renumbered(c, TaskId)'
    <3> SUFFICES ASSUME NEW c \in validTasks \cap Visited', taskState'[c] # "completed"
                 PROVE  written'[c] = Renumbered(c, TaskId)'
      OBVIOUS
    <3>1. Renumbered(c, TaskId)' = Renumbered(c, TaskId) /\ c \in TaskId
      BY <2>1, <2>2
    <3>2. written'[c] = IF c = t THEN dependencies[t] ELSE written[c]
      BY <1>1, <1>6, <3>1 DEF LoopOfWriter
    <3>3. c # t => written[c] = Renumbered(c, TaskId)
      BY <1>4, <2>1, <2>3 DEF NumbersOfWriter
    <3> QED BY <2>7, <3>1, <3>2, <3>3
  <2> QED BY <2>5, <2>6, <2>8 DEF NumbersOfWriter
<1> QED BY <1>1, <1>7, <1>8, <1>9 DEF RunInv, ShortFile

\* The end of the file, and whatever happens once it is closed.
LEMMA CloseKeeps ==
  ASSUME RunInv, rstPhase # "off", rstPhase' \in {"writing", "closed"},
         rstPhase' = "closed" => rstLeft = {},
         UNCHANGED << schedVars, engineVars, calls, rstLeft, nindex, printed, lineOf, written,
                      invalidTasks >>
  PROVE  RunInv'
<1>1. UNCHANGED << pc, taskState, dependencies, retries, validTasks, revDepMap,
                   freeWorkers, taskQueue, blockedTasks, taskAssignation, engineVars,
                   calls, rstLeft, nindex, printed, lineOf, written, invalidTasks >>
  BY DEF schedVars
<1>2. SameVerdicts
  BY <1>1 DEF SameVerdicts
<1>3. TablesKept'
  BY <1>1, <1>2, WriterKeepsTables DEF RunInv, TablesKept, TypeOK, SchedTypeOK
<1>4. LoopOfWriter /\ RestartTypeOK
  BY DEF RunInv
<1>5. LoopOfWriter'
  BY <1>1, <1>4 DEF LoopOfWriter, Visited, Skipped, Number, LinesFor, Written, Warnings,
     Before, Warned
<1>6. RestartTypeOK'
  BY <1>1, <1>4 DEF RestartTypeOK
<1>7. ASSUME ShortFile PROVE NumbersOfWriter'
  <2>1. NumbersOfWriter
    BY <1>7 DEF RunInv
  <2>2. validTasks \subseteq TaskId
    BY DEF RunInv, TablesKept, TypeOK, SchedTypeOK
  <2>3. \A c \in TaskId : \A T \in SUBSET TaskId : Renumbered(c, T)' = Renumbered(c, T)
    <3> TAKE c \in TaskId
    <3> TAKE T \in SUBSET TaskId
    <3>1. \A p \in Owed(c) : Number(p)' = Number(p)
      BY <1>2, SameNumbers DEF RunInv
    <3>2. Owed(c)' = Owed(c) /\ NotReleased'[c] = NotReleased[c]
      BY <1>2, SameNumbers DEF RunInv
    <3> QED BY <3>1, <3>2 DEF Renumbered
  <2>4. Visited' = Visited
    BY <1>1 DEF Visited
  <2> QED BY <1>1, <2>1, <2>2, <2>3, <2>4 DEF NumbersOfWriter
<1> QED BY <1>3, <1>4, <1>5, <1>6, <1>7 DEF RunInv, ShortFile

\* One turn of the loop, or the end of the file.
LEMMA WriterKeeps ==
  ASSUME RunInv, WriterStep
  PROVE  RunInv'
<1>1. UNCHANGED << engineVars, calls >>
  BY DEF WriterStep
<1>2. CASE VisitTask
  <2>1. PICK t \in TaskId :
          /\ IsNext(t)
          /\ SkipTask(t) \/ WriteTask(t)
          /\ rstLeft' = rstLeft \ {t}
    BY <1>2 DEF VisitTask
  <2>2. /\ rstPhase = "writing"
        /\ UNCHANGED << rstPhase, pc, retries, validTasks, revDepMap, freeWorkers, taskQueue,
                        blockedTasks, taskAssignation >>
    BY <1>2 DEF VisitTask
  <2> QED BY <1>1, <2>1, <2>2, SkipKeeps, WriteKeeps
<1>3. CASE CloseRestart
  BY <1>1, <1>3, CloseKeeps DEF CloseRestart
<1> QED BY <1>2, <1>3 DEF WriterStep

-------------------------------------------------------------------------------
(* The invariant of a run                                                  *)

\* A run starts with the tables of the file, and no restart file.
LEMMA InitRunInv == RunInit => RunInv
<1> SUFFICES ASSUME RunInit PROVE RunInv
  OBVIOUS
<1>1. WorkInv /\ SchedTypeOK
  BY InitWorkInv DEF RunInit, WorkInv, EngineInv, TypeOK
<1>2. CancelledBelow
  <2>1. PICK file \in Files :
          /\ \A t \in TaskId : file[t].state \in {"waiting", "blocked", "invalid"}
          /\ TableLoaded(file)
    BY LoadedEntries DEF RunInit, Init, SchedInit
  <2> QED BY <2>1 DEF TableLoaded, CancelledBelow
<1>3. TablesKept /\ TablesAtWork
  BY <1>1, <1>2, WorkIsIdle DEF RunInit
<1>4. RestartTypeOK
  <2>1. Cardinality(TaskId) \in Nat
    BY LinesBounded
  <2> QED BY <2>1 DEF RunInit, RestartInit, RestartTypeOK, FirstLine
<1> QED BY <1>3, <1>4 DEF RunInit, RestartInit, RunInv

\* A step that changes nothing.
LEMMA StutterKeeps ==
  ASSUME RunInv, UNCHANGED runVars
  PROVE  RunInv'
<1>1. UNCHANGED << schedVars, engineVars, rstVars, calls >>
  BY DEF runVars, vars
<1>2. UNCHANGED << pc, taskState, dependencies, retries, validTasks, revDepMap, freeWorkers,
                   taskQueue, blockedTasks, taskAssignation, engineVars, calls,
                   rstPhase, rstLeft, nindex, printed, lineOf, written, invalidTasks >>
  BY <1>1 DEF schedVars, rstVars
<1>3. CASE rstPhase = "off"
  <2>1. TablesKept /\ TablesAtWork /\ SameVerdicts
    BY <1>2, <1>3 DEF RunInv, SameVerdicts
  <2>2. TablesKept'
    BY <1>2, <2>1, WriterKeepsTables DEF TablesKept, TypeOK, SchedTypeOK
  <2>3. DependenciesOwed'
    <3>1. NotReleased' = NotReleased /\ \A c : Owed(c)' = Owed(c)
      BY <1>2 DEF NotReleased, Owed, Parents
    <3> QED BY <1>2, <2>1, <3>1 DEF TablesAtWork, DependenciesOwed
  <2>4. DroppedStaysOut' /\ ReadyHasNoDependencies' /\ QueueOfWaiting'
    BY <1>2, <2>1 DEF TablesAtWork, DroppedStaysOut, ReadyHasNoDependencies,
       QueueOfWaiting, Parents
  <2>5. ChildrenInOrder' /\ EveryoneKnown'
    BY <1>2, <2>1 DEF TablesAtWork, engineVars, ChildrenInOrder, EveryoneKnown,
       QueuesComplete, Children, WorkerOf, TaskOf, Workers
  <2>6. /\ LossIsSpreading({"cancelled"})'
        /\ ~ ForkMayFail => LossIsSpreading({"failed"})'
    BY <1>2, <2>1 DEF TablesAtWork, LossIsSpreading, StillToTell
  <2>7. TablesAtWork'
    BY <1>2, <2>1, <2>3, <2>4, <2>5, <2>6 DEF TablesAtWork, SoundFiles
  <2> QED BY <1>2, <1>3, <2>2, <2>7 DEF RunInv, RestartTypeOK
<1>4. CASE rstPhase # "off"
  <2>1. rstPhase' \in {"writing", "closed"} /\ (rstPhase' = "closed" => rstLeft = {})
    BY <1>2, <1>4 DEF RunInv, RestartTypeOK, LoopOfWriter
  <2> QED BY <1>1, <1>2, <1>4, <2>1, CloseKeeps
<1> QED BY <1>3, <1>4

\* Wherever a signal finds the master, and however often, the tables agree but for
\* the calls of updateDependencies in progress, and the restart file is numbered as
\* writeRestartFile numbers it in every pass.
THEOREM RunInvariant == RunSpec => []RunInv
<1>1. RunInv /\ [RunNext]_runVars => RunInv'
  <2> SUFFICES ASSUME RunInv, [RunNext]_runVars PROVE RunInv'
    OBVIOUS
  <2>1. CASE EngineStep
    <3>1. rstPhase = "off" /\ UNCHANGED rstVars
      BY <2>1 DEF EngineStep
    <3>2. TablesKept' /\ TablesAtWork'
      BY <2>1, <3>1, WorkKeeps DEF RunInv
    <3>3. RestartTypeOK' /\ rstPhase' = "off"
      BY <3>1 DEF rstVars, RunInv, RestartTypeOK
    <3> QED BY <3>2, <3>3 DEF RunInv
  <2>2. CASE Finalize \/ TermHandler
    BY <2>2, OpenKeeps DEF Finalize, TermHandler
  <2>3. CASE WriterStep
    BY <2>3, WriterKeeps
  <2>4. CASE UNCHANGED runVars
    BY <2>4, StutterKeeps
  <2> QED BY <2>1, <2>2, <2>3, <2>4 DEF RunNext, Exited
<1> QED BY <1>1, InitRunInv, PTL DEF RunSpec

-------------------------------------------------------------------------------
(* What follows                                                            *)

\* The variables of writeRestartFile have their types: in particular nindex never
\* passes two lines for each task, whatever an earlier pass left in it.
THEOREM RestartTyped == RunSpec => []RestartTypeOK
<1>1. RunInv => RestartTypeOK
  BY DEF RunInv
<1> QED BY <1>1, RunInvariant, PTL

\* Where the ids of the tasks end before the line numbers start, the restart file
\* holds exactly the work that is left, with the dependencies on the new lines, even
\* when the handler interrupts updateDependencies, or writeRestartFile itself: only
\* the dependants a completed task has not released yet still name it.
THEOREM RestartIsFaithful ==
  ASSUME ShortFile
  PROVE  RunSpec => []HandlerFaithful
<1>1. ASSUME RunInv, rstPhase = "closed" PROVE WorkIsThere(NotReleased)
  <2>1. /\ TablesKept /\ LoopOfWriter /\ NumbersOfWriter
        /\ validTasks \subseteq TaskId
        /\ Visited = TaskId
    BY <1>1, ShortFile DEF RunInv, TablesKept, TypeOK, SchedTypeOK, LoopOfWriter, Visited
  <2>2. \A t \in TaskId : lineOf[t] = IF Skipped(t) THEN 0 ELSE Number(t)
    BY <2>1 DEF LoopOfWriter
  <2>3. \A t \in TaskId : /\ Number(t) \in Nat /\ Number(t) >= FirstLine
                          /\ \A p \in TaskId : p < t /\ ~ Skipped(p) => Number(p) < Number(t)
    BY NumbersIncrease
  <2>4. ASSUME NEW t \in validTasks
        PROVE  IF taskState[t] = "completed"
               THEN lineOf[t] = 0
               ELSE /\ lineOf[t] >= FirstLine
                    /\ written[t] = { lineOf[p] : p \in Owed(t) } \cup NotReleased[t]
                    /\ \A p \in Owed(t) : lineOf[p] \in FirstLine..(lineOf[t] - 1)
    <3>1. t \in TaskId /\ (Skipped(t) <=> taskState[t] = "completed")
      BY <2>1 DEF TablesKept, Skipped
    <3>2. \A p \in Owed(t) : p \in TaskId /\ p < t /\ ~ Skipped(p)
      BY <2>1, <3>1 DEF Owed, Parents, Skipped, TablesKept, BackwardOnly
    <3>3. \A p \in Owed(t) : lineOf[p] = Number(p)
      BY <2>2, <3>2
    <3>4. taskState[t] # "completed" => written[t] = Renumbered(t, TaskId)
      BY <2>1, <3>1 DEF NumbersOfWriter
    <3>5. Renumbered(t, TaskId) = { lineOf[p] : p \in Owed(t) } \cup NotReleased[t]
      BY <3>2, <3>3 DEF Renumbered
    <3>6. \A p \in Owed(t) : Number(p) \in FirstLine..(Number(t) - 1)
      BY <2>3, <3>1, <3>2 DEF FirstLine
    <3> QED BY <2>2, <2>3, <3>1, <3>3, <3>4, <3>5, <3>6 DEF FirstLine
  <2>5. ASSUME NEW t \in TaskId, NEW s \in TaskId, lineOf[t] # 0, lineOf[s] = lineOf[t]
        PROVE  s = t
    <3>1. ~ Skipped(t) /\ ~ Skipped(s) /\ Number(s) = Number(t)
      BY <2>2, <2>5
    <3>2. ~ (s < t) /\ ~ (t < s)
      BY <2>3, <3>1
    <3> QED BY <3>2, TaskIdAssumption
  <2>6. invalidTasks \subseteq TaskId \ validTasks
    BY <2>1 DEF LoopOfWriter, TablesKept
  <2> QED BY <2>4, <2>5, <2>6 DEF WorkIsThere
<1>2. RunInv => HandlerFaithful
  BY <1>1 DEF HandlerFaithful
<1> QED BY <1>2, RunInvariant, PTL

\* A task that was dropped is listed as invalid at the end of the restart file, or is
\* written as cancelled by a failure above it: none disappears.
THEOREM DroppedAreExplained == RunSpec => []DroppedExplained
<1>1. ASSUME RunInv, rstPhase = "closed", NEW t \in TaskId \ validTasks
      PROVE  \/ lineOf[t] = 0 /\ t \in invalidTasks
             \/ /\ lineOf[t] # 0
                /\ taskState[t] = "cancelled"
                /\ \E p \in Parents(t) : taskState[p] \in {"failed", "cancelled"}
  <2>1. TablesKept /\ LoopOfWriter /\ Visited = TaskId
    BY <1>1 DEF RunInv, LoopOfWriter, Visited
  <2>2. /\ lineOf[t] = IF Skipped(t) THEN 0 ELSE Number(t)
        /\ t \in invalidTasks <=> taskState[t] = "invalid"
    BY <2>1 DEF LoopOfWriter
  <2>3. Number(t) # 0
    BY NumbersIncrease DEF FirstLine
  <2>4. taskState[t] \in {"invalid", "cancelled"}
    BY <2>1 DEF TablesKept
  <2>5. taskState[t] = "cancelled" =>
          \E p \in Parents(t) : taskState[p] \in {"failed", "cancelled"}
    BY <2>1 DEF TablesKept, CancelledBelow
  <2> QED BY <2>2, <2>3, <2>4, <2>5 DEF Skipped
<1>2. RunInv => DroppedExplained
  BY <1>1 DEF DroppedExplained
<1> QED BY <1>2, RunInvariant, PTL

\* A run that ends without anything to restart has completed every task of the file,
\* those that were dropped included: there were none.
THEOREM SilenceIsSuccess == RunSpec => []SilentSuccess
<1>1. RunInv => SilentSuccess
  BY DEF RunInv, TablesKept, SilentSuccess, NeedsRestart, FinalStates
<1> QED BY <1>1, RunInvariant, PTL

-------------------------------------------------------------------------------
(* What is remembered while a step of BasicEngine is taken                 *)

\* The status the child left is that BasicEngine reads.
LEMMA CodeBefore ==
  ASSUME ReapedBefore, calls # << >>, waitStatus \in [ Pids -> Nat ]
  PROVE  Atomic!ReturnCode(before.pid) =
           IF WIFEXITED(before.status) THEN WEXITSTATUS(before.status) ELSE -1
<1>1. before.pid \in Pids /\ SeenStatus = [ waitStatus EXCEPT ![before.pid] = before.status ]
  BY DEF ReapedBefore, SeenStatus, Reaping
<1>2. SeenStatus[before.pid] = before.status
  BY <1>1
<1> QED BY <1>2 DEF Atomic!ReturnCode, Atomic!WIFEXITED, Atomic!WEXITSTATUS, WIFEXITED,
           WEXITSTATUS

\* What was reaped stays reaped until the last call returns.
LEMMA ReapedStays ==
  ASSUME ReapedBefore, calls # << >>, calls' # << >>,
         waitStatus \in [ Pids -> Nat ], waitStatus' \in [ Pids -> Nat ],
         UNCHANGED << before, pc, freeWorkers, taskAssignation, pidToWorker, child >>,
         before.pid \notin zombies', waitStatus'[before.pid] = 0,
         calls'[Len(calls')].task = calls[Len(calls)].task
  PROVE  /\ ReapedBefore'
         /\ Atomic!ReturnCode(before.pid)' = Atomic!ReturnCode(before.pid)
         /\ TaskOf(before.pid)' = TaskOf(before.pid)
<1>1. TaskOf(before.pid)' = TaskOf(before.pid) /\ WorkerOf(before.pid)' = WorkerOf(before.pid)
  BY DEF TaskOf, WorkerOf
<1>2. Atomic!MustWait'
  BY DEF ReapedBefore, Atomic!MustWait, SeenQueue, SeenFree, SeenBlocked, Reaping
<1>3. ReapedBefore'
  BY <1>1, <1>2 DEF ReapedBefore, Workers
<1>4. ReapedBefore /\ calls # << >> /\ waitStatus \in [ Pids -> Nat ] =>
        Atomic!ReturnCode(before.pid) =
           IF WIFEXITED(before.status) THEN WEXITSTATUS(before.status) ELSE -1
  BY CodeBefore
<1>5. (ReapedBefore /\ calls # << >> /\ waitStatus \in [ Pids -> Nat ] =>
        Atomic!ReturnCode(before.pid) =
           IF WIFEXITED(before.status) THEN WEXITSTATUS(before.status) ELSE -1)'
  BY CodeBefore, PTL
<1>6. /\ Atomic!ReturnCode(before.pid) =
           IF WIFEXITED(before.status) THEN WEXITSTATUS(before.status) ELSE -1
      /\ Atomic!ReturnCode(before.pid)' =
           IF WIFEXITED(before.status) THEN WEXITSTATUS(before.status) ELSE -1
  BY <1>3, <1>4, <1>5 DEF WIFEXITED, WEXITSTATUS
<1> QED BY <1>1, <1>3, <1>6

\* The master reaps a child: nothing is done about its task yet but the verdict.
LEMMA ReapStarts ==
  ASSUME TablesKept, TablesAtWork, calls = << >>, Reap
  PROVE  calls' # << >> /\ ReapedBefore' /\ PartOfStep'
<1>1. WorkInv /\ EngineInv /\ SchedTypeOK /\ TypeOK
  BY IdleIsWork DEF WorkInv, EngineInv, TypeOK
<1>2. PICK pid \in zombies :
        /\ ReturnCode(pid) # 0 => ~ CanRetry(TaskOf(pid))
        /\ taskState' = [ taskState EXCEPT ![TaskOf(pid)] = Verdict(pid) ]
        /\ calls' = << [ task |-> TaskOf(pid), left |-> revDepMap[TaskOf(pid)] ] >>
        /\ before' = Tables(pid)
        /\ freeWorkers' = Freed(pid)
        /\ child' = Reaped(pid)
        /\ zombies' = zombies \ {pid}
        /\ waitStatus' = [ waitStatus EXCEPT ![pid] = 0 ]
  BY DEF Reap
<1>3. /\ MustWait
      /\ UNCHANGED << pc, dependencies, retries, validTasks, revDepMap, taskQueue,
                      blockedTasks, taskAssignation, pidToWorker, commandOk >>
  BY DEF Reap
<1>4. PICK t : t = TaskOf(pid)
  OBVIOUS
<1>5. /\ pid \in Pids /\ t \in validTasks /\ t \in TaskId /\ child[pid] = t
  BY <1>1, <1>4, ReapedChild DEF SchedTypeOK, EngineInv, ChildrenInOrder, TypeOK, Children
<1>6. /\ before'.state = taskState /\ before'.deps = dependencies
      /\ before'.queue = taskQueue /\ before'.blocked = blockedTasks
      /\ before'.free = freeWorkers /\ before'.pid = pid
      /\ before'.status = waitStatus[pid] /\ before'.task = child[pid]
      /\ before' \in [ state : [ TaskId -> TaskStates ], deps : [ TaskId -> SUBSET (Nat \ {0}) ],
                       queue : Seq(TaskId), blocked : SUBSET TaskId, free : Seq(Workers),
                       pid : Pids, status : Nat, task : TaskId ]
  BY <1>1, <1>2, <1>5 DEF Tables, SchedTypeOK, TypeOK
<1>7. calls' # << >> /\ Len(calls') = 1 /\ calls'[1] = [ task |-> t, left |-> revDepMap[t] ]
  BY <1>2, <1>4
<1>8. TaskOf(pid)' = t /\ WorkerOf(pid)' = WorkerOf(pid)
  BY <1>3, <1>4 DEF TaskOf, WorkerOf
<1>9. ReapedBefore'
  <2>1. Atomic!MustWait'
    BY <1>3, <1>6, <1>7 DEF MustWait, Atomic!MustWait, SeenQueue, SeenFree, SeenBlocked,
       Reaping
  <2>2. child'[pid] = 0 /\ waitStatus'[pid] = 0 /\ pid \notin zombies'
    BY <1>1, <1>2, <1>5 DEF TypeOK, Reaped
  <2>3. freeWorkers' = Append(before'.free, WorkerOf(pid)')
    BY <1>2, <1>6, <1>8 DEF Freed
  <2> QED BY <1>6, <1>7, <1>8, <2>1, <2>2, <2>3 DEF ReapedBefore, Workers
<1>10. waitStatus' \in [ Pids -> Nat ]
  BY <1>1, <1>2, <1>5 DEF TypeOK
<1>11. Atomic!ReturnCode(before.pid)' = ReturnCode(pid)
  <2>1. (ReapedBefore /\ calls # << >> /\ waitStatus \in [ Pids -> Nat ] =>
          Atomic!ReturnCode(before.pid) =
            IF WIFEXITED(before.status) THEN WEXITSTATUS(before.status) ELSE -1)'
    BY CodeBefore, PTL
  <2> QED BY <1>6, <1>7, <1>9, <1>10, <2>1 DEF ReturnCode, WIFEXITED, WEXITSTATUS
<1>12. \A s \in TaskId : taskState'[s] = IF s = t THEN Verdict(pid) ELSE taskState[s]
  BY <1>1, <1>2, <1>4 DEF SchedTypeOK
<1>13. CASE ReturnCode(pid) = 0
  <2>1. ReleasedSoFar(t, {})'
    <3>1. Ascending({}) = << >> /\ taskQueue \o << >> = taskQueue
      BY <1>1, AscendingNone DEF SchedTypeOK
    <3>2. /\ dependencies' = [ c \in TaskId |-> dependencies[c] ]
          /\ taskState' = [ c \in TaskId |-> IF c = t THEN "completed" ELSE taskState[c] ]
      BY <1>1, <1>2, <1>3, <1>4, <1>13 DEF SchedTypeOK, Verdict
    <3> QED BY <1>3, <1>6, <3>1, <3>2 DEF ReleasedSoFar, ReadyOf
  <2>2. revDepMap'[t] \ calls'[1].left = {}
    BY <1>3, <1>7
  <2>3. Releasing(t)'
    BY <1>7, <2>1, <2>2 DEF Releasing
  <2> QED BY <1>6, <1>7, <1>8, <1>9, <1>11, <1>13, <2>3 DEF PartOfStep
<1>14. CASE ReturnCode(pid) # 0
  <2>1. CancelledSoFar(t, {})'
    <3>1. taskState' = [ c \in TaskId |-> IF c = t THEN "failed" ELSE taskState[c] ]
      BY <1>1, <1>2, <1>4, <1>14 DEF SchedTypeOK, Verdict
    <3> QED BY <1>3, <1>6, <3>1 DEF CancelledSoFar
  <2>2. \A c \in revDepMap'[t] : StillToTell(t, c)'
    BY <1>3, <1>7 DEF StillToTell
  <2>3. Cancelling(t)'
    BY <1>7, <2>1, <2>2 DEF Cancelling
  <2>4. ~ CanRetry(t)'
    BY <1>2, <1>3, <1>4, <1>14 DEF CanRetry
  <2> QED BY <1>6, <1>7, <1>8, <1>9, <1>11, <1>14, <2>3, <2>4 DEF PartOfStep
<1> QED BY <1>7, <1>9, <1>13, <1>14

\* The dependant the loop comes to is released as Complete does it.
LEMMA ReleaseGoesOn ==
  ASSUME TablesKept, TablesAtWork, calls # << >>, ReapedBefore, PartOfStep, ReleaseNext,
         UNCHANGED << pc, retries, validTasks, revDepMap, freeWorkers, taskAssignation,
                      engineVars >>
  PROVE  calls' # << >> /\ ReapedBefore' /\ PartOfStep'
<1>1. PICK t, d : t = Head(calls).task /\ d = NextOf(calls)
  OBVIOUS
<1>2. /\ t \in validTasks /\ t \in TaskId /\ d \in TaskId /\ t # d
      /\ Head(calls) = calls[1] /\ calls[1] \in [ task : TaskId, left : SUBSET TaskId ]
      /\ Len(calls) \in Nat \ {0}
      /\ d \in calls[1].left /\ (\A s \in calls[1].left : d <= s) /\ d \in revDepMap[t]
  BY <1>1, LoopComesTo DEF ReleaseNext
<1>3. /\ calls \in Seq([ task : TaskId, left : SUBSET TaskId ])
      /\ taskState \in [ TaskId -> TaskStates ]
      /\ dependencies \in [ TaskId -> SUBSET (Nat \ {0}) ]
      /\ waitStatus \in [ Pids -> Nat ]
      /\ TaskId \subseteq Nat
  BY TaskIdAssumption DEF TablesKept, TypeOK, SchedTypeOK, CallsFit
<1>26. revDepMap[t] \in SUBSET TaskId /\ calls[1].left \subseteq revDepMap[t]
  <2>1. revDepMap[t] \in SUBSET TaskId
    BY <1>2 DEF TablesKept, TypeOK, SchedTypeOK
  <2>2. 1 \in 1..Len(calls) /\ calls[1].task = t
    BY <1>1, <1>2
  <2> QED BY <2>1, <2>2 DEF TablesKept, CallsFit
<1>4. /\ Len(calls) = 1 /\ taskState[t] = "completed" /\ t = TaskOf(before.pid)
  <2>1. taskState[calls[1].task] = "completed" /\ 1 \in 1..Len(calls)
    BY <1>1, <1>2 DEF ReleaseNext
  <2>2. Len(calls) > 1 => taskState[calls[1].task] # "completed"
    BY <2>1 DEF CallsFit, TablesKept
  <2>3. Len(calls) = 1
    <3>1. ~ (Len(calls) > 1) /\ Len(calls) \in Nat /\ Len(calls) # 0
      BY <1>2, <2>1, <2>2
    <3> QED BY <3>1
  <2>4. calls[Len(calls)].task = TaskOf(before.pid)
    BY DEF ReapedBefore
  <2> QED BY <1>1, <1>2, <2>1, <2>3, <2>4
<1>5. Atomic!ReturnCode(before.pid) = 0 /\ Releasing(t)
  <2>1. ASSUME NEW gone \in SUBSET TaskId, CancelledSoFar(t, gone) PROVE FALSE
    BY <1>2, <1>4, <2>1 DEF CancelledSoFar
  <2>2. ~ Cancelling(t)
    BY <2>1 DEF Cancelling, Descendants
  <2> QED BY <1>4, <2>2 DEF PartOfStep
<1> DEFINE told == revDepMap[t] \ calls[1].left
           deps(D) == [ c \in TaskId |-> IF c \in D THEN DepsAfterRemove(before.deps[c], t)
                                         ELSE before.deps[c] ]
           ready(D) == ReadyOf(D, deps(D))
<1>25. PICK more : more = told \cup {d}
  OBVIOUS
<1>6. /\ \A s \in told : \A c \in calls[1].left : s < c
      /\ dependencies = deps(told)
      /\ taskState = [ c \in TaskId |->
                         IF c = t THEN "completed"
                         ELSE IF c \in told THEN StateAfterRemove(before.state[c], deps(told)[c])
                              ELSE before.state[c] ]
      /\ blockedTasks = before.blocked \ ready(told)
      /\ taskQueue = before.queue \o Ascending(ready(told))
  BY <1>5 DEF Releasing, ReleasedSoFar
<1>7. /\ before.deps \in [ TaskId -> SUBSET (Nat \ {0}) ]
      /\ before.state \in [ TaskId -> TaskStates ]
      /\ before.queue \in Seq(TaskId)
  BY DEF ReapedBefore
<1>8. d \notin told /\ told \in SUBSET TaskId /\ \A s \in told : s < d
  BY <1>2, <1>3, <1>6, <1>26
<1>9. PICK left : left = before.deps[d] \ {t}
  OBVIOUS
<1>10. /\ dependencies[d] = before.deps[d] /\ taskState[d] = before.state[d]
       /\ deps(more)[d] = left
       /\ \A c \in TaskId : c # d => deps(more)[c] = deps(told)[c]
  BY <1>2, <1>6, <1>8, <1>9, <1>25 DEF DepsAfterRemove
<1>11. /\ dependencies' = [ dependencies EXCEPT ![d] = left ]
       /\ taskState' = [ taskState EXCEPT ![d] = StateAfterRemove(taskState[d], left) ]
       /\ blockedTasks' = IF left = {} THEN blockedTasks \ {d} ELSE blockedTasks
       /\ taskQueue' = IF left = {} THEN Append(taskQueue, d) ELSE taskQueue
       /\ calls' = Advanced(calls)
       /\ before' = before
  BY <1>1, <1>2, <1>3, <1>9, <1>10 DEF ReleaseNext, DepsAfterRemove
<1>12. /\ Len(calls') = 1 /\ calls' # << >>
       /\ calls'[1] = [ task |-> t, left |-> calls[1].left \ {d} ]
  BY <1>1, <1>2, <1>3, <1>4, <1>11, LoopAdvances
<1> HIDE DEF told, deps
<1>13. ready(more) = IF left = {} THEN ready(told) \cup {d} ELSE ready(told)
  BY <1>8, <1>10, <1>25 DEF ReadyOf
<1>14. ready(told) \in SUBSET TaskId /\ \A s \in ready(told) : s < d
  BY <1>8 DEF ReadyOf
<1> HIDE DEF ready
<1>15. taskQueue' = before.queue \o Ascending(ready(more))
  <2>1. CASE left = {}
    <3>1. PICK q \in Seq(TaskId) : q = before.queue
      BY <1>7
    <3>2. PICK S \in SUBSET TaskId : S = ready(told)
      BY <1>14
    <3>3. Append(q \o Ascending(S), d) = q \o Ascending(S \cup {d})
      BY <1>2, <1>14, <3>2, PushInOrder
    <3> QED BY <1>6, <1>11, <1>13, <2>1, <3>1, <3>2, <3>3
  <2>2. CASE left # {}
    BY <1>6, <1>11, <1>13, <2>2
  <2> QED BY <2>1, <2>2
<1>16. blockedTasks' = before.blocked \ ready(more)
  BY <1>6, <1>11, <1>13
<1>17. dependencies' = deps(more)
  <2>1. \A c \in TaskId : dependencies'[c] = deps(more)[c]
    BY <1>2, <1>3, <1>6, <1>10, <1>11
  <2>2. /\ dependencies' = [ c \in TaskId |-> dependencies'[c] ]
        /\ deps(more) = [ c \in TaskId |-> deps(more)[c] ]
    BY <1>3, <1>11 DEF deps
  <2> QED BY <2>1, <2>2
<1>18. taskState' = [ c \in TaskId |->
                        IF c = t THEN "completed"
                        ELSE IF c \in more THEN StateAfterRemove(before.state[c], deps(more)[c])
                             ELSE before.state[c] ]
  <2>1. \A c \in TaskId : taskState'[c] =
           IF c = t THEN "completed"
           ELSE IF c \in more THEN StateAfterRemove(before.state[c], deps(more)[c])
                ELSE before.state[c]
    BY <1>2, <1>3, <1>6, <1>8, <1>10, <1>11, <1>25
  <2>2. taskState' = [ c \in TaskId |-> taskState'[c] ]
    BY <1>3, <1>11
  <2> QED BY <2>1, <2>2
<1>19. revDepMap'[t] \ calls'[1].left = more /\ calls'[1].left = calls[1].left \ {d}
  BY <1>2, <1>12, <1>25 DEF told
<1>20. ReleasedSoFar(t, more)'
  BY <1>11, <1>15, <1>16, <1>17, <1>18 DEF ReleasedSoFar, ready, deps
<1>21. \A s \in more : \A c \in calls'[1].left : s < c
  <2> SUFFICES ASSUME NEW s \in more, NEW c \in calls[1].left, c # d PROVE s < c
    BY <1>19
  <2>1. CASE s \in told
    BY <1>6, <2>1
  <2>2. CASE s = d
    <3>1. d <= c /\ d \in Nat /\ c \in Nat
      BY <1>2, <1>3, <1>26
    <3> QED BY <2>2, <3>1
  <2> QED BY <1>25, <2>1, <2>2
<1>22. Releasing(t)'
  BY <1>12, <1>19, <1>20, <1>21 DEF Releasing
<1>23. /\ ReapedBefore'
       /\ Atomic!ReturnCode(before.pid)' = Atomic!ReturnCode(before.pid)
       /\ TaskOf(before.pid)' = TaskOf(before.pid)
  <2>1. before.pid \notin zombies /\ waitStatus[before.pid] = 0
    BY DEF ReapedBefore
  <2>2. calls'[Len(calls')].task = calls[Len(calls)].task
    BY <1>1, <1>2, <1>4, <1>12
  <2> QED BY <1>3, <1>11, <1>12, <2>1, <2>2, ReapedStays DEF engineVars
<1> QED BY <1>4, <1>5, <1>11, <1>12, <1>22, <1>23 DEF PartOfStep

\* The dependant the loop comes to is cancelled as Fail does it.
LEMMA CancelGoesOn ==
  ASSUME TablesKept, TablesAtWork, calls # << >>, ReapedBefore, PartOfStep, CancelNext,
         UNCHANGED << pc, retries, validTasks, revDepMap, freeWorkers, taskAssignation,
                      engineVars >>
  PROVE  calls' # << >> /\ ReapedBefore' /\ PartOfStep'
<1>1. PICK p, d, t : p = Head(calls).task /\ d = NextOf(calls) /\ t = TaskOf(before.pid)
  OBVIOUS
<1>2. /\ p \in TaskId /\ d \in TaskId
      /\ Head(calls) = calls[1] /\ calls[1].task = p
      /\ Len(calls) \in Nat \ {0}
      /\ d \in revDepMap[p]
      /\ taskState[p] \in {"failed", "cancelled"}
  BY <1>1, LoopComesTo DEF CancelNext
<1>3. /\ calls \in Seq([ task : TaskId, left : SUBSET TaskId ])
      /\ revDepMap \in [ TaskId -> SUBSET TaskId ]
      /\ taskState \in [ TaskId -> TaskStates ]
      /\ waitStatus \in [ Pids -> Nat ]
  BY DEF TablesKept, TypeOK, SchedTypeOK, CallsFit
<1>4. calls[Len(calls)].task = t
  BY <1>1 DEF ReapedBefore
<1>5. t \in TaskId
  <2>1. Len(calls) \in 1..Len(calls)
    BY <1>2
  <2>2. calls[Len(calls)] \in [ task : TaskId, left : SUBSET TaskId ]
    BY <1>3, <2>1, ElementOfSeq
  <2> QED BY <1>4, <2>2
<1>6. Atomic!ReturnCode(before.pid) # 0 /\ ~ CanRetry(t) /\ Cancelling(t)
  <2>1. ASSUME Releasing(t) PROVE FALSE
    <3>1. p = t /\ taskState[t] = "completed"
      BY <1>2, <1>4, <1>5, <2>1 DEF Releasing, ReleasedSoFar
    <3> QED BY <1>2, <3>1
  <2> QED BY <1>1, <2>1 DEF PartOfStep
<1>7. PICK gone \in SUBSET Descendants(t) :
        /\ CancelledSoFar(t, gone)
        /\ \A i \in 1..(Len(calls) - 1) : calls[i].task \in gone
        /\ \A s \in gone \cup {t} : \A c \in revDepMap[s] : c \in gone \/ StillToTell(s, c)
  BY <1>6 DEF Cancelling
<1>8. PICK call \in [ task : TaskId, left : SUBSET TaskId ] :
        call = [ task |-> d, left |-> revDepMap[d] ]
  BY <1>2, <1>3
<1>9. /\ taskState' = [ taskState EXCEPT ![d] = "cancelled" ]
      /\ blockedTasks' = blockedTasks \ {d}
      /\ calls' = << call >> \o calls
      /\ UNCHANGED << dependencies, taskQueue, before >>
  BY <1>1, <1>8 DEF CancelNext
<1>10. /\ calls' \in Seq([ task : TaskId, left : SUBSET TaskId ])
       /\ Len(calls') = Len(calls) + 1 /\ calls' # << >>
       /\ calls'[1] = call
       /\ \A i \in 1..Len(calls) : calls'[i + 1] = calls[i]
  BY <1>3, <1>9, LoopCalls
<1>11. PICK more : more = gone \cup {d}
  OBVIOUS
<1>12. Descendants(t)' = Descendants(t)
  BY DEF Descendants
<1>13. more \in SUBSET Descendants(t)
  <2>1. p \in gone \cup {t}
    <3>1. CASE Len(calls) = 1
      BY <1>2, <1>4, <3>1
    <3>2. CASE Len(calls) # 1
      <4>1. 1 \in 1..(Len(calls) - 1)
        BY <1>2, <3>2
      <4> QED BY <1>2, <1>7, <4>1
    <3> QED BY <3>1, <3>2
  <2> QED BY <1>2, <1>3, <1>5, <1>7, <1>11, <2>1, DescendantsClosed
<1>14. CancelledSoFar(t, more)'
  <2>1. \A c \in TaskId : taskState'[c] =
          IF c \in more THEN "cancelled" ELSE IF c = t THEN "failed" ELSE before.state[c]
    BY <1>2, <1>3, <1>7, <1>9, <1>11 DEF CancelledSoFar
  <2>2. taskState' = [ c \in TaskId |-> taskState'[c] ]
    BY <1>3, <1>9
  <2>3. taskState' = [ c \in TaskId |->
          IF c \in more THEN "cancelled" ELSE IF c = t THEN "failed" ELSE before.state[c] ]
    BY <2>1, <2>2
  <2> QED BY <1>7, <1>9, <1>11, <2>3 DEF CancelledSoFar
<1>15. \A i \in 1..(Len(calls') - 1) : calls'[i].task \in more
  <2> SUFFICES ASSUME NEW i \in 1..(Len(calls') - 1) PROVE calls'[i].task \in more
    OBVIOUS
  <2>1. CASE i = 1
    BY <1>8, <1>10, <1>11, <2>1
  <2>2. CASE i # 1
    <3>1. i - 1 \in 1..(Len(calls) - 1) /\ i - 1 \in 1..Len(calls) /\ (i - 1) + 1 = i
      BY <1>2, <1>10, <2>2
    <3> QED BY <1>7, <1>10, <1>11, <3>1
  <2> QED BY <2>1, <2>2
<1>16. ASSUME NEW s \in more \cup {t}, NEW c \in revDepMap[s]
       PROVE  c \in more \/ StillToTell(s, c)'
  <2>1. CASE s = d
    <3>1. 1 \in 1..Len(calls') /\ calls'[1].task = d /\ calls'[1].left = revDepMap[d]
      BY <1>2, <1>8, <1>10
    <3> QED BY <1>16, <2>1, <3>1 DEF StillToTell
  <2>2. CASE s # d
    <3>1. c \in gone \/ StillToTell(s, c)
      BY <1>7, <1>11, <1>16, <2>2
    <3>2. ASSUME StillToTell(s, c) PROVE StillToTell(s, c)'
      <4>1. PICK i \in 1..Len(calls) : calls[i].task = s /\ c \in calls[i].left
        BY <3>2 DEF StillToTell
      <4>2. i + 1 \in 1..Len(calls') /\ calls'[i + 1] = calls[i]
        BY <1>2, <1>10
      <4> QED BY <4>1, <4>2 DEF StillToTell
    <3> QED BY <1>11, <3>1, <3>2
  <2> QED BY <2>1, <2>2
<1>17. Cancelling(t)'
  BY <1>12, <1>13, <1>14, <1>15, <1>16 DEF Cancelling
<1>18. /\ ReapedBefore'
       /\ Atomic!ReturnCode(before.pid)' = Atomic!ReturnCode(before.pid)
       /\ TaskOf(before.pid)' = TaskOf(before.pid)
  <2>1. before.pid \notin zombies /\ waitStatus[before.pid] = 0
    BY DEF ReapedBefore
  <2>2. calls'[Len(calls')].task = calls[Len(calls)].task
    <3>1. Len(calls) \in 1..Len(calls)
      BY <1>2
    <3> QED BY <1>10, <3>1
  <2> QED BY <1>3, <1>9, <1>10, <2>1, <2>2, ReapedStays DEF engineVars
<1> QED BY <1>1, <1>6, <1>9, <1>10, <1>17, <1>18 DEF PartOfStep, CanRetry

\* A call that returns to another leaves the work to the loops below.
LEMMA ReturnGoesOn ==
  ASSUME TablesKept, TablesAtWork, calls # << >>, ReapedBefore, PartOfStep,
         ReturnFromCall, Len(calls) # 1,
         UNCHANGED << pc, retries, validTasks, revDepMap, freeWorkers, taskAssignation,
                      engineVars >>
  PROVE  calls' # << >> /\ ReapedBefore' /\ PartOfStep'
<1>1. PICK t : t = TaskOf(before.pid)
  OBVIOUS
<1>2. /\ Head(calls) = calls[1] /\ calls[1].left = {}
      /\ calls' = Advanced(Tail(calls))
      /\ UNCHANGED << taskState, dependencies, blockedTasks, taskQueue, before >>
      /\ CallsFit /\ revDepMap \in [ TaskId -> SUBSET TaskId ]
      /\ waitStatus \in [ Pids -> Nat ]
      /\ Len(calls) > 1
  <2> DEFINE S == [ task : TaskId, left : SUBSET TaskId ]
  <2>1. calls \in Seq(S)
    BY DEF TablesKept, CallsFit
  <2> HIDE DEF S
  <2>2. Head(calls) = calls[1]
    BY <2>1, HeadTailProperties
  <2>3. /\ Head(calls).left = {} /\ calls' = Advanced(Tail(calls))
        /\ UNCHANGED << taskState, dependencies, blockedTasks, taskQueue, before >>
    BY DEF ReturnFromCall
  <2>4. Len(calls) > 1
    <3>1. Len(calls) \in Nat \ {0}
      BY <2>1, EmptySeq, LenProperties
    <3> QED BY <3>1
  <2> QED BY <2>2, <2>3, <2>4 DEF TablesKept, TypeOK, SchedTypeOK
<1>3. /\ Len(calls) \in Nat /\ Len(calls') = Len(calls) - 1 /\ calls' # << >>
      /\ calls'[1].task = calls[2].task
      /\ calls'[1].left = calls[2].left \ {calls[1].task}
      /\ \A i \in 2..Len(calls') : calls'[i] = calls[i + 1]
  BY <1>2, LoopReturns
<1>4. \A i \in 1..Len(calls') : calls'[i].task = calls[i + 1].task
  <2> TAKE i \in 1..Len(calls')
  <2>1. i = 1 \/ i \in 2..Len(calls')
    BY <1>3
  <2> QED BY <1>3, <2>1
<1>5. Atomic!ReturnCode(before.pid) # 0 /\ ~ CanRetry(t) /\ Cancelling(t)
  <2>1. ~ Releasing(t)
    BY <1>3 DEF Releasing
  <2> QED BY <1>1, <2>1 DEF PartOfStep
<1>6. PICK gone \in SUBSET Descendants(t) :
        /\ CancelledSoFar(t, gone)
        /\ \A i \in 1..(Len(calls) - 1) : calls[i].task \in gone
        /\ \A s \in gone \cup {t} : \A c \in revDepMap[s] : c \in gone \/ StillToTell(s, c)
  BY <1>5 DEF Cancelling
<1>7. Descendants(t)' = Descendants(t)
  BY DEF Descendants
<1>8. CancelledSoFar(t, gone)'
  BY <1>2, <1>6 DEF CancelledSoFar
<1>9. \A i \in 1..(Len(calls') - 1) : calls'[i].task \in gone
  <2> TAKE i \in 1..(Len(calls') - 1)
  <2>1. i \in 1..Len(calls') /\ i + 1 \in 1..(Len(calls) - 1)
    BY <1>3
  <2> QED BY <1>4, <1>6, <2>1
<1>10. ASSUME NEW s \in gone \cup {t}, NEW c \in revDepMap[s]
       PROVE  c \in gone \/ StillToTell(s, c)'
  <2> SUFFICES ASSUME c \notin gone PROVE StillToTell(s, c)'
    OBVIOUS
  <2>1. PICK i \in 1..Len(calls) : calls[i].task = s /\ c \in calls[i].left
    BY <1>6, <1>10 DEF StillToTell
  <2>2. i # 1 /\ c # calls[1].task
    <3>1. 1 \in 1..(Len(calls) - 1)
      BY <1>3
    <3> QED BY <1>2, <1>6, <2>1, <3>1
  <2>3. i - 1 \in 1..Len(calls') /\ (i = 2 \/ i - 1 \in 2..Len(calls')) /\ (i - 1) + 1 = i
    BY <1>3, <2>2
  <2>4. calls'[i - 1].task = s
    BY <1>4, <2>1, <2>3
  <2>5. c \in calls'[i - 1].left
    <3>1. CASE i = 2
      BY <1>3, <2>1, <2>2, <3>1
    <3>2. CASE i # 2
      <4>1. calls'[i - 1] = calls[i]
        BY <1>3, <2>3, <3>2
      <4> QED BY <2>1, <4>1
    <3> QED BY <3>1, <3>2
  <2> QED BY <2>3, <2>4, <2>5 DEF StillToTell
<1>11. Cancelling(t)'
  BY <1>7, <1>8, <1>9, <1>10 DEF Cancelling
<1>12. /\ ReapedBefore'
       /\ Atomic!ReturnCode(before.pid)' = Atomic!ReturnCode(before.pid)
       /\ TaskOf(before.pid)' = TaskOf(before.pid)
  <2>1. before.pid \notin zombies /\ waitStatus[before.pid] = 0
    BY DEF ReapedBefore
  <2>2. Len(calls') \in 1..Len(calls') /\ Len(calls') + 1 = Len(calls)
    BY <1>3
  <2>3. calls'[Len(calls')].task = calls[Len(calls)].task
    BY <1>4, <2>2
  <2> QED BY <1>2, <1>3, <2>1, <2>3, ReapedStays DEF engineVars
<1> QED BY <1>1, <1>2, <1>3, <1>5, <1>11, <1>12 DEF PartOfStep, CanRetry

\* While the master is in a call, nothing but a child can take a step.
LEMMA CallsWait ==
  ASSUME calls # << >>, ReapedBefore, PartOfStep,
         waitStatus \in [ Pids -> Nat ], waitStatus' \in [ Pids -> Nat ],
         before.pid \notin zombies', waitStatus'[before.pid] = 0,
         UNCHANGED << calls, before, schedVars, child, pidToWorker >>
  PROVE  ReapedBefore' /\ PartOfStep'
<1>1. UNCHANGED << pc, taskState, dependencies, retries, validTasks, revDepMap, freeWorkers,
                   taskQueue, blockedTasks, taskAssignation >>
  BY DEF schedVars
<1>2. /\ ReapedBefore'
      /\ Atomic!ReturnCode(before.pid)' = Atomic!ReturnCode(before.pid)
      /\ TaskOf(before.pid)' = TaskOf(before.pid)
  BY <1>1, ReapedStays
<1>3. PICK t : t = TaskOf(before.pid)
  OBVIOUS
<1>4. Releasing(t) => Releasing(t)'
  BY <1>1 DEF Releasing, ReleasedSoFar
<1>5. Cancelling(t) => Cancelling(t)'
  <2>1. Descendants(t)' = Descendants(t)
    BY <1>1 DEF Descendants
  <2>2. \A gone : CancelledSoFar(t, gone) => CancelledSoFar(t, gone)'
    BY <1>1 DEF CancelledSoFar
  <2>3. \A s, c : StillToTell(s, c)' <=> StillToTell(s, c)
    BY DEF StillToTell
  <2> QED BY <1>1, <2>1, <2>2, <2>3 DEF Cancelling
<1> QED BY <1>1, <1>2, <1>3, <1>4, <1>5 DEF PartOfStep, CanRetry

\* A child that ends meanwhile is another one.
LEMMA EndGoesOn ==
  ASSUME TablesKept, calls # << >>, ReapedBefore, PartOfStep,
         NEW pid \in Pids, ChildEnds(pid), UNCHANGED << calls, before >>
  PROVE  ReapedBefore' /\ PartOfStep'
<1>1. /\ zombies' = zombies \cup {pid}
      /\ pid \in Children /\ pid # before.pid
      /\ UNCHANGED << schedVars, child, pidToWorker >>
  BY DEF ChildEnds, CommandReturns, ChildKilled, Running, Children, ReapedBefore
<1>2. waitStatus \in [ Pids -> Nat ] /\ waitStatus' \in [ Pids -> Nat ]
  <2>1. child[pid] \in TaskId
    BY <1>1 DEF TablesKept, TypeOK, Children
  <2> QED BY <1>1, <2>1, EndIsTyped DEF TablesKept, TypeOK
<1>3. waitStatus'[before.pid] = 0 /\ before.pid \notin zombies'
  <2>1. PICK status : waitStatus' = [ waitStatus EXCEPT ![pid] = status ]
    BY DEF ChildEnds, CommandReturns, ChildKilled
  <2>2. before.pid \in Pids /\ waitStatus[before.pid] = 0 /\ before.pid \notin zombies
    BY DEF ReapedBefore
  <2> QED BY <1>1, <1>2, <2>1, <2>2
<1> QED BY <1>1, <1>2, <1>3, CallsWait

\* A record is remembered.
LEMMA BeforeIsRecord ==
  /\ ReapedBefore => before # Nothing
  /\ \A s, d : [ state |-> s, deps |-> d ] # Nothing
<1>1. DOMAIN Nothing = {}
  BY DEF Nothing
<1>2. ASSUME ReapedBefore PROVE before # Nothing
  <2>1. "pid" \in DOMAIN before
    BY <1>2 DEF ReapedBefore
  <2> QED BY <1>1, <2>1
<1>3. ASSUME NEW s, NEW d PROVE [ state |-> s, deps |-> d ] # Nothing
  <2>1. "state" \in DOMAIN [ state |-> s, deps |-> d ]
    OBVIOUS
  <2> QED BY <1>1, <2>1
<1> QED BY <1>2, <1>3

\* The last call returns.
LEMMA LastReturn ==
  ASSUME calls # << >>, Len(calls) = 1, ReturnFromCall
  PROVE  calls' = << >> /\ before' = Nothing
BY DEF ReturnFromCall

\* What is remembered is what the step of BasicEngine in progress has changed.
LEMMA StepKeepsBefore ==
  ASSUME StepInv, [RunNext]_runVars
  PROVE  BeforeFits'
<1>1. /\ TablesKept /\ (rstPhase = "off" => TablesAtWork)
      /\ BeforeFits
  BY DEF StepInv, RunInv
<1>2. CASE EngineStep
  <2>1. rstPhase = "off" /\ rstPhase' = "off"
    BY <1>2 DEF EngineStep, rstVars
  <2>2. CASE calls = << >> /\ Reap
    BY <1>1, <2>1, <2>2, ReapStarts DEF BeforeFits
  <2>3. CASE calls = << >> /\ UNCHANGED << calls, before >>
    BY <1>1, <2>1, <2>3 DEF BeforeFits
  <2>4. CASE calls # << >> /\ UpdateStep
    <3>1. /\ ReapedBefore /\ PartOfStep
          /\ UNCHANGED << pc, retries, validTasks, revDepMap, freeWorkers, taskAssignation,
                          engineVars >>
      BY <1>1, <2>1, <2>4 DEF BeforeFits, UpdateStep
    <3>2. CASE ReturnFromCall /\ Len(calls) = 1
      <4>1. calls' = << >> /\ before' = Nothing
        BY <2>4, <3>2, LastReturn
      <4> QED BY <2>1, <4>1 DEF BeforeFits, Nothing
    <3>3. CASE ReleaseNext \/ CancelNext \/ (ReturnFromCall /\ Len(calls) # 1)
      <4>1. calls' # << >> /\ ReapedBefore' /\ PartOfStep'
        BY <1>1, <2>1, <2>4, <3>1, <3>3, ReleaseGoesOn, CancelGoesOn, ReturnGoesOn
      <4> QED BY <2>1, <4>1 DEF BeforeFits
    <3> QED BY <2>4, <3>2, <3>3 DEF UpdateStep
  <2>5. CASE calls # << >> /\ ChildStep
    <3>1. ReapedBefore' /\ PartOfStep' /\ calls' = calls
      BY <1>1, <2>1, <2>5, EndGoesOn DEF BeforeFits, ChildStep
    <3> QED BY <2>1, <2>5, <3>1 DEF BeforeFits
  <2> QED BY <1>2, <2>2, <2>3, <2>4, <2>5 DEF EngineStep, MasterStep, ChildStep, ReapAndRetry
<1>3. CASE Finalize \/ TermHandler
  <2>1. rstPhase' = "writing"
    BY <1>3 DEF Finalize, TermHandler, OpenRestart
  <2>2. before' # Nothing
    BY <1>3, BeforeIsRecord DEF Finalize, TermHandler
  <2> QED BY <2>1, <2>2 DEF BeforeFits, Nothing
<1>4. CASE WriterStep
  <2>1. rstPhase # "off" /\ rstPhase' # "off" /\ before' = before
    BY <1>4 DEF WriterStep, VisitTask, CloseRestart
  <2> QED BY <1>1, <2>1 DEF BeforeFits, Nothing
<1>5. CASE UNCHANGED runVars
  <2>1. UNCHANGED << calls, before, schedVars, child, pidToWorker, zombies, waitStatus, rstPhase >>
    BY <1>5 DEF runVars, vars, engineVars, rstVars
  <2>2. ASSUME rstPhase = "off", calls # << >> PROVE ReapedBefore' /\ PartOfStep'
    <3>1. /\ waitStatus \in [ Pids -> Nat ] /\ ReapedBefore /\ PartOfStep
          /\ before.pid \notin zombies /\ waitStatus[before.pid] = 0
      BY <1>1, <2>2 DEF TablesKept, TypeOK, BeforeFits, ReapedBefore
    <3> QED BY <2>1, <2>2, <3>1, CallsWait
  <2> QED BY <1>1, <2>1, <2>2 DEF BeforeFits, Nothing
<1> QED BY <1>2, <1>3, <1>4, <1>5 DEF RunNext, Exited

\* As long as BasicEngine takes one step for several, what the tables were before is
\* remembered, and how far the loop and the recursion of updateDependencies have come
\* is what Complete and Fail do, for a part of the dependants.
THEOREM StepInvariant == RunSpec => []StepInv
<1>1. RunInit => StepInv
  <2> SUFFICES ASSUME RunInit PROVE StepInv
    OBVIOUS
  <2>1. rstPhase = "off" /\ calls = << >> /\ before = Nothing
    BY DEF RunInit, RestartInit
  <2> QED BY <2>1, InitRunInv DEF StepInv, BeforeFits
<1>2. StepInv /\ RunInv' /\ [RunNext]_runVars => StepInv'
  BY StepKeepsBefore DEF StepInv
<1> QED BY <1>1, <1>2, RunInvariant, PTL DEF RunSpec

-------------------------------------------------------------------------------
(* The run implements BasicEngine                                          *)

\* BasicEngine sees the tables as they are.
SameTables ==
  /\ SeenState = taskState /\ SeenDependencies = dependencies
  /\ SeenQueue = taskQueue /\ SeenBlocked = blockedTasks /\ SeenFree = freeWorkers
  /\ SeenChild = child /\ SeenZombies = zombies /\ SeenStatus = waitStatus

\* It does between two calls, while nobody writes the restart file.
LEMMA SeenAsTheyAre == calls = << >> /\ rstPhase = "off" => SameTables
BY DEF SameTables, Paused, Reaping, SeenState, SeenDependencies, SeenQueue, SeenBlocked,
   SeenFree, SeenChild, SeenZombies, SeenStatus

\* The helpers that name no variable are the same in BasicEngine.
LEMMA SameHelpers ==
  /\ \A S : Atomic!Ascending(S) = Ascending(S)
  /\ \A status : Atomic!WIFEXITED(status) = WIFEXITED(status)
  /\ \A status : Atomic!WEXITSTATUS(status) = WEXITSTATUS(status)
  /\ \A code : Atomic!ExitWith(code) = ExitWith(code)
<1>1. \A S : Atomic!Ascending(S) = Ascending(S)
  BY DEF Cardinality, Atomic!Cardinality, Ascending, Atomic!Ascending, Bijection,
     Atomic!Bijection, Injection, Surjection, IsInjective, Atomic!Injection,
     Atomic!Surjection, Atomic!IsInjective
<1> QED BY <1>1 DEF Atomic!WIFEXITED, Atomic!WEXITSTATUS, Atomic!ExitWith, WIFEXITED,
           WEXITSTATUS, ExitWith

\* A step of the master outside updateDependencies is the same step of BasicEngine.
LEMMA MasterStepIsSeen ==
  ASSUME SameTables, SameTables',
         \/ FillQueue /\ UNCHANGED engineVars
         \/ Allocate
         \/ WaitWithoutChild
         \/ LeaveLoop /\ UNCHANGED engineVars
         \/ Return /\ UNCHANGED engineVars
         \/ WaitForAnyWorker /\ retries' # retries
  PROVE  Atomic!Master
<1> USE DEF SameTables
<1>1. CASE FillQueue /\ UNCHANGED engineVars
  <2>1. Atomic!FillQueue
    <3>1. taskQueue' = Atomic!Ascending({ t \in validTasks : taskState[t] = "waiting" })
      BY <1>1, SameHelpers DEF FillQueue
    <3> QED BY <1>1, <3>1 DEF FillQueue, Atomic!FillQueue
  <2>2. UNCHANGED Atomic!engineVars
    BY <1>1 DEF engineVars, Atomic!engineVars
  <2> QED BY <2>1, <2>2 DEF Atomic!Master
<1>2. CASE Allocate
  <2>1. Atomic!Allocate
    BY <1>2 DEF Allocate, Atomic!Allocate, MustAllocate, Atomic!MustAllocate, Fork,
       Atomic!Fork, ForkFails, Atomic!ForkFails
  <2> QED BY <2>1 DEF Atomic!Master
<1>3. CASE WaitWithoutChild
  <2>1. Atomic!WaitWithoutChild
    BY <1>3 DEF WaitWithoutChild, Atomic!WaitWithoutChild, MustWait, Atomic!MustWait,
       Children, Atomic!Children, engineVars, Atomic!engineVars
  <2> QED BY <2>1 DEF Atomic!Master
<1>4. CASE (LeaveLoop \/ Return) /\ UNCHANGED engineVars
  <2>1. Atomic!LeaveLoop \/ Atomic!Return
    BY <1>4 DEF LeaveLoop, Atomic!LeaveLoop, Return, Atomic!Return
  <2>2. UNCHANGED Atomic!engineVars
    BY <1>4 DEF engineVars, Atomic!engineVars
  <2> QED BY <2>1, <2>2 DEF Atomic!Master
<1>5. CASE WaitForAnyWorker /\ retries' # retries
  <2>1. PICK pid \in zombies :
          /\ EpilogueRetry(pid)
          /\ zombies' = zombies \ {pid}
          /\ waitStatus' = [ waitStatus EXCEPT ![pid] = 0 ]
    BY <1>5 DEF WaitForAnyWorker, EpilogueSuccess, EpilogueFailure
  <2>2. Atomic!EpilogueRetry(pid)
    BY <2>1, SameHelpers DEF EpilogueRetry, Atomic!EpilogueRetry, TaskOf, Atomic!TaskOf,
       WorkerOf, Atomic!WorkerOf, CanRetry, Atomic!CanRetry, ReturnCode, Atomic!ReturnCode,
       Freed, Atomic!Freed, Reaped, Atomic!Reaped, Fork, Atomic!Fork, ForkFails,
       Atomic!ForkFails
  <2>3. Atomic!WaitForAnyWorker
    BY <1>5, <2>1, <2>2 DEF WaitForAnyWorker, Atomic!WaitForAnyWorker, MustWait,
       Atomic!MustWait
  <2> QED BY <2>3 DEF Atomic!Master
<1> QED BY <1>1, <1>2, <1>3, <1>4, <1>5

\* A child that ends is seen to end, in a call of updateDependencies too.
LEMMA EndIsSeen ==
  ASSUME TypeOK, calls # << >> => ReapedBefore, rstPhase = "off", rstPhase' = "off",
         NEW pid \in Pids, ChildEnds(pid), UNCHANGED << calls, before >>
  PROVE  Atomic!ChildEnds(pid)
<1>1. UNCHANGED << schedVars, child, pidToWorker >> /\ pid \in Running
      /\ zombies' = zombies \cup {pid}
  BY DEF ChildEnds, CommandReturns, ChildKilled
<1>2. /\ pid \in Atomic!Running
      /\ SeenChild[pid] = child[pid]
      /\ SeenZombies' = SeenZombies \cup {pid}
      /\ \A status : waitStatus' = [ waitStatus EXCEPT ![pid] = status ] =>
                       SeenStatus' = [ SeenStatus EXCEPT ![pid] = status ]
  <2>1. CASE calls = << >>
    <3>1. SameTables /\ SameTables'
      <4>1. (calls = << >> /\ rstPhase = "off" => SameTables)'
        BY SeenAsTheyAre, PTL
      <4> QED BY <2>1, <4>1, SeenAsTheyAre
    <3> QED BY <1>1, <3>1 DEF SameTables, Running, Atomic!Running, Children, Atomic!Children
  <2>2. CASE calls # << >>
    <3>1. pid # before.pid /\ child[before.pid] = 0 /\ before.pid \in Pids
      BY <1>1, <2>2 DEF Running, Children, ReapedBefore
    <3>2. /\ child \in [ Pids -> TaskId \cup {0} ] /\ waitStatus \in [ Pids -> Nat ]
          /\ child' = child
      BY <1>1 DEF TypeOK
    <3>3. /\ SeenChild = [ child EXCEPT ![before.pid] = before.task ]
          /\ SeenZombies = zombies \cup {before.pid}
          /\ SeenZombies' = zombies' \cup {before.pid}
          /\ SeenStatus = [ waitStatus EXCEPT ![before.pid] = before.status ]
          /\ SeenStatus' = [ waitStatus' EXCEPT ![before.pid] = before.status ]
      BY <2>2 DEF SeenChild, SeenZombies, SeenStatus, Reaping
    <3>4. SeenChild[pid] = child[pid]
      BY <3>1, <3>2, <3>3
    <3>5. pid \in Atomic!Running
      BY <1>1, <3>1, <3>3, <3>4 DEF Running, Atomic!Running, Children, Atomic!Children
    <3>6. ASSUME NEW status, waitStatus' = [ waitStatus EXCEPT ![pid] = status ]
          PROVE  SeenStatus' = [ SeenStatus EXCEPT ![pid] = status ]
      BY <3>1, <3>2, <3>3, <3>6
    <3> QED BY <1>1, <3>3, <3>4, <3>5, <3>6
  <2> QED BY <2>1, <2>2
<1>3. UNCHANGED << Atomic!schedVars, SeenChild, pidToWorker >>
  BY <1>1 DEF schedVars, Atomic!schedVars, SeenState, SeenDependencies, SeenQueue,
     SeenBlocked, SeenFree, SeenChild, Paused, Reaping
<1>4. CASE CommandReturns(pid)
  <2>1. PICK status \in SystemStatus :
          /\ waitStatus' = [ waitStatus EXCEPT ![pid] = ExitWith(WEXITSTATUS(status)) ]
          /\ commandOk' = [ commandOk EXCEPT ![child[pid]] = (status = 0) ]
    BY <1>4 DEF CommandReturns
  <2>2. /\ SeenStatus' = [ SeenStatus EXCEPT ![pid] = Atomic!ExitWith(Atomic!WEXITSTATUS(status)) ]
        /\ commandOk' = [ commandOk EXCEPT ![SeenChild[pid]] = (status = 0) ]
    BY <1>2, <2>1, SameHelpers
  <2> QED BY <1>2, <1>3, <2>2 DEF Atomic!CommandReturns, Atomic!ChildEnds
<1>5. CASE ChildKilled(pid)
  BY <1>2, <1>3, <1>5 DEF ChildKilled, Atomic!ChildKilled, Atomic!ChildEnds
<1> QED BY <1>4, <1>5 DEF ChildEnds

\* Reaping a child is not seen: it is not over yet.
LEMMA ReapIsUnseen ==
  ASSUME TypeOK, calls = << >>, calls' # << >>, rstPhase = "off", rstPhase' = "off", Reap
  PROVE  UNCHANGED Atomic!vars
<1>1. PICK pid \in zombies :
        /\ calls' # << >>
        /\ before' = Tables(pid)
        /\ child' = Reaped(pid)
        /\ zombies' = zombies \ {pid}
        /\ waitStatus' = [ waitStatus EXCEPT ![pid] = 0 ]
  BY DEF Reap
<1>2. /\ pid \in Pids /\ child \in [ Pids -> TaskId \cup {0} ]
      /\ waitStatus \in [ Pids -> Nat ]
  BY DEF TypeOK, Children
<1>3. /\ before'.state = taskState /\ before'.deps = dependencies
      /\ before'.queue = taskQueue /\ before'.blocked = blockedTasks
      /\ before'.free = freeWorkers /\ before'.pid = pid
      /\ before'.status = waitStatus[pid] /\ before'.task = child[pid]
  BY <1>1 DEF Tables
<1>4. SameTables
  BY SeenAsTheyAre
<1>5. /\ SeenState' = taskState /\ SeenDependencies' = dependencies
      /\ SeenQueue' = taskQueue /\ SeenBlocked' = blockedTasks /\ SeenFree' = freeWorkers
  BY <1>3 DEF SeenState, SeenDependencies, SeenQueue, SeenBlocked, SeenFree, Paused, Reaping
<1>6. /\ SeenChild' = [ child' EXCEPT ![pid] = child[pid] ]
      /\ SeenZombies' = zombies' \cup {pid}
      /\ SeenStatus' = [ waitStatus' EXCEPT ![pid] = waitStatus[pid] ]
  BY <1>3 DEF SeenChild, SeenZombies, SeenStatus, Reaping
<1>7. SeenChild' = child /\ SeenZombies' = zombies /\ SeenStatus' = waitStatus
  BY <1>1, <1>2, <1>6 DEF Reaped
<1>8. UNCHANGED << pc, retries, validTasks, revDepMap, taskAssignation, pidToWorker, commandOk >>
  BY DEF Reap
<1> QED BY <1>4, <1>5, <1>7, <1>8 DEF SameTables, Atomic!vars, Atomic!schedVars,
           Atomic!engineVars

\* Nor is anything updateDependencies does before it returns for the last time.
LEMMA CallIsUnseen ==
  ASSUME calls # << >>, calls' # << >>, rstPhase = "off", rstPhase' = "off", UpdateStep
  PROVE  UNCHANGED Atomic!vars
<1>1. before' = before
  BY DEF UpdateStep, ReleaseNext, CancelNext, ReturnFromCall
<1>2. UNCHANGED << pc, retries, validTasks, revDepMap, freeWorkers, taskAssignation,
                   child, zombies, waitStatus, pidToWorker, commandOk >>
  BY DEF UpdateStep, engineVars
<1> QED BY <1>1, <1>2 DEF Atomic!vars, Atomic!schedVars, Atomic!engineVars, SeenState,
           SeenDependencies, SeenQueue, SeenBlocked, SeenFree, SeenChild, SeenZombies,
           SeenStatus, Paused, Reaping

\* What the loop has done of the dependants of a completed task when it ends.
LEMMA ReleasedAll ==
  ASSUME TablesKept, ReapedBefore, NEW t \in TaskId, Releasing(t), calls[1].left = {},
         calls # << >>, SameTables', UNCHANGED << taskState, dependencies, blockedTasks, taskQueue >>
  PROVE  Atomic!Complete(t)
<1> DEFINE kids == revDepMap[t]
           deps == [ c \in TaskId |-> IF c \in kids THEN DepsAfterRemove(before.deps[c], t)
                                      ELSE before.deps[c] ]
           ready == ReadyOf(kids, deps)
<1>1. kids \ calls[1].left = kids
  OBVIOUS
<1>2. /\ dependencies = deps
      /\ taskState = [ c \in TaskId |->
                         IF c = t THEN "completed"
                         ELSE IF c \in kids THEN StateAfterRemove(before.state[c], deps[c])
                              ELSE before.state[c] ]
      /\ blockedTasks = before.blocked \ ready
      /\ taskQueue = before.queue \o Ascending(ready)
  BY <1>1 DEF Releasing, ReleasedSoFar
<1>3. /\ SeenState = before.state /\ SeenDependencies = before.deps
      /\ SeenQueue = before.queue /\ SeenBlocked = before.blocked
  BY DEF SeenState, SeenDependencies, SeenQueue, SeenBlocked, Paused, Reaping
<1>4. Atomic!ReadyOf(kids, deps) = ready /\ Atomic!Ascending(ready) = Ascending(ready)
  BY SameHelpers DEF ReadyOf, Atomic!ReadyOf
<1>5. deps = [ c \in TaskId |-> IF c \in kids THEN Atomic!DepsAfterRemove(SeenDependencies[c], t)
                                ELSE SeenDependencies[c] ]
  BY <1>3 DEF DepsAfterRemove, Atomic!DepsAfterRemove
<1>6. \A state, left : Atomic!StateAfterRemove(state, left) = StateAfterRemove(state, left)
  BY DEF StateAfterRemove, Atomic!StateAfterRemove
<1> HIDE DEF ready, kids
<1>7. /\ SeenDependencies' = deps
      /\ SeenState' = [ c \in TaskId |->
                         IF c = t THEN "completed"
                         ELSE IF c \in kids THEN Atomic!StateAfterRemove(SeenState[c], deps[c])
                              ELSE SeenState[c] ]
      /\ SeenBlocked' = SeenBlocked \ ready
      /\ SeenQueue' = SeenQueue \o Atomic!Ascending(ready)
  BY <1>2, <1>3, <1>4, <1>6 DEF SameTables
<1> HIDE DEF deps
<1> QED BY <1>4, <1>5, <1>7 DEF Atomic!Complete, kids

\* What the recursion has done of the descendants of a failed task when it ends.
LEMMA CancelledAll ==
  ASSUME TablesKept, ReapedBefore, NEW t \in TaskId, Cancelling(t),
         Len(calls) = 1, calls[1].left = {}, calls # << >>,
         SameTables', UNCHANGED << taskState, dependencies, blockedTasks, taskQueue >>
  PROVE  Atomic!Fail(t)
<1>1. PICK gone \in SUBSET Descendants(t) :
        /\ CancelledSoFar(t, gone)
        /\ \A s \in gone \cup {t} : \A c \in revDepMap[s] : c \in gone \/ StillToTell(s, c)
  BY DEF Cancelling
<1>2. revDepMap \in [ TaskId -> SUBSET TaskId ]
  BY DEF TablesKept, TypeOK, SchedTypeOK
<1>3. gone = Descendants(t)
  <2>1. \A s, c : ~ StillToTell(s, c)
    BY DEF StillToTell
  <2>2. gone \in SUBSET TaskId
    BY <1>2, DescendantsClosed
  <2> QED BY <1>1, <2>1, <2>2, DescendantsLeast
<1>4. Atomic!Descendants(t) = Descendants(t)
  BY DEF Descendants, Atomic!Descendants
<1>5. /\ SeenState = before.state /\ SeenDependencies = before.deps
      /\ SeenQueue = before.queue /\ SeenBlocked = before.blocked
  BY DEF SeenState, SeenDependencies, SeenQueue, SeenBlocked, Paused, Reaping
<1> QED BY <1>1, <1>3, <1>4, <1>5 DEF CancelledSoFar, SameTables, Atomic!Fail

\* When updateDependencies returns for the last time, waitForAnyWorker is seen to have
\* reaped the child and settled its task at once.
LEMMA LastReturnIsSeen ==
  ASSUME TablesKept, TablesAtWork, ReapedBefore, PartOfStep, calls # << >>, Len(calls) = 1,
         ReturnFromCall, rstPhase = "off", rstPhase' = "off",
         UNCHANGED << pc, retries, validTasks, revDepMap, freeWorkers, taskAssignation,
                      engineVars >>
  PROVE  Atomic!WaitForAnyWorker
<1>1. PICK t, pid : t = TaskOf(before.pid) /\ pid = before.pid
  OBVIOUS
<1>2. SameTables'
  <2>1. (calls = << >> /\ rstPhase = "off" => SameTables)'
    BY SeenAsTheyAre, PTL
  <2> QED BY <2>1, LastReturn
<1>3. /\ calls[1].left = {} /\ t \in TaskId
      /\ UNCHANGED << taskState, dependencies, blockedTasks, taskQueue >>
  <2> DEFINE S == [ task : TaskId, left : SUBSET TaskId ]
  <2>1. 1 \in 1..Len(calls) /\ calls \in Seq(S)
    BY DEF TablesKept, CallsFit
  <2>2. calls[1] \in S /\ Head(calls) = calls[1]
    <3> HIDE DEF S
    <3> QED BY <2>1, ElementOfSeq, HeadTailProperties
  <2>3. calls[1].task = t
    BY <1>1 DEF ReapedBefore
  <2> QED BY <2>2, <2>3 DEF ReturnFromCall
<1>4. /\ pid \in Pids /\ pid \notin zombies /\ child[pid] = 0 /\ waitStatus[pid] = 0
      /\ child \in [ Pids -> TaskId \cup {0} ] /\ waitStatus \in [ Pids -> Nat ]
      /\ freeWorkers = Append(before.free, WorkerOf(pid))
      /\ Atomic!MustWait
  BY <1>1 DEF ReapedBefore, TablesKept, TypeOK
<1>5. /\ SeenFree = before.free
      /\ SeenChild = [ child EXCEPT ![pid] = before.task ]
      /\ SeenZombies = zombies \cup {pid}
      /\ SeenStatus = [ waitStatus EXCEPT ![pid] = before.status ]
  BY <1>1 DEF SeenFree, SeenChild, SeenZombies, SeenStatus, Reaping
<1>6. UNCHANGED << child, zombies, waitStatus, pidToWorker, commandOk, freeWorkers >>
  BY DEF engineVars
<1>7. /\ SeenFree' = Atomic!Freed(pid) /\ SeenChild' = Atomic!Reaped(pid)
      /\ SeenZombies' = SeenZombies \ {pid}
      /\ SeenStatus' = [ SeenStatus EXCEPT ![pid] = 0 ]
  BY <1>2, <1>4, <1>5, <1>6 DEF SameTables, Atomic!Freed, Atomic!Reaped, Atomic!WorkerOf, WorkerOf
<1>8. Atomic!TaskOf(pid) = t
  BY <1>1 DEF TaskOf, WorkerOf, Atomic!TaskOf, Atomic!WorkerOf
<1>9. CASE Atomic!ReturnCode(pid) = 0
  <2>1. Atomic!Complete(t)
    BY <1>1, <1>2, <1>3, <1>9, ReleasedAll DEF PartOfStep
  <2> QED BY <1>4, <1>5, <1>6, <1>7, <1>8, <1>9, <2>1 DEF Atomic!EpilogueSuccess,
             Atomic!WaitForAnyWorker
<1>10. CASE Atomic!ReturnCode(pid) # 0
  <2>1. Atomic!Fail(t) /\ ~ Atomic!CanRetry(t)
    BY <1>1, <1>2, <1>3, <1>10, CancelledAll DEF PartOfStep, CanRetry, Atomic!CanRetry
  <2> QED BY <1>4, <1>5, <1>6, <1>7, <1>8, <1>10, <2>1 DEF Atomic!EpilogueFailure,
             Atomic!WaitForAnyWorker
<1> QED BY <1>9, <1>10

\* The restart file is none of the business of BasicEngine.
LEMMA WritingIsUnseen ==
  ASSUME StepInv, Finalize \/ TermHandler \/ WriterStep
  PROVE  UNCHANGED Atomic!vars
<1>1. /\ rstPhase' # "off"
      /\ UNCHANGED << pc, retries, validTasks, revDepMap, freeWorkers, taskQueue,
                      blockedTasks, taskAssignation, engineVars, calls >>
  BY DEF Finalize, TermHandler, WriterStep, OpenRestart, VisitTask, CloseRestart, vars, schedVars
<1>2. Paused => before' = before
  <2>1. Paused => before # Nothing
    BY BeforeIsRecord DEF Paused, StepInv, BeforeFits
  <2>2. Finalize => calls = << >>
    BY DEF Finalize, StepInv, RunInv, TablesKept, CallsFit
  <2> QED BY <2>1, <2>2 DEF Finalize, TermHandler, WriterStep, Paused
<1>3. SeenState' = SeenState /\ SeenDependencies' = SeenDependencies
  <2>1. CASE Paused
    BY <1>1, <1>2, <2>1 DEF SeenState, SeenDependencies, Paused
  <2>2. CASE ~ Paused
    <3>1. rstPhase = "off" /\ before = Nothing
      BY <2>2 DEF Paused, StepInv, BeforeFits
    <3>2. before' = [ state |-> taskState, deps |-> dependencies ]
      BY <3>1 DEF Finalize, TermHandler, WriterStep, VisitTask, CloseRestart
    <3> QED BY <1>1, <2>2, <3>2 DEF SeenState, SeenDependencies, Paused
  <2> QED BY <2>1, <2>2
<1>4. UNCHANGED << SeenQueue, SeenBlocked, SeenFree, SeenChild, SeenZombies, SeenStatus >>
  BY <1>1, <1>2 DEF engineVars, SeenQueue, SeenBlocked, SeenFree, SeenChild, SeenZombies,
     SeenStatus, Reaping, Paused
<1> QED BY <1>1, <1>3, <1>4 DEF engineVars, Atomic!vars, Atomic!schedVars, Atomic!engineVars

\* A step of EngineStep is a step of BasicEngine, or the beginning or the middle of one.
LEMMA EngineStepIsSeen ==
  ASSUME StepInv, EngineStep
  PROVE  [Atomic!Next]_(Atomic!vars)
<1>1. /\ rstPhase = "off" /\ rstPhase' = "off"
      /\ TablesKept /\ TablesAtWork /\ TypeOK /\ BeforeFits
  BY DEF EngineStep, rstVars, StepInv, RunInv, TablesKept
<1>2. CASE ChildStep
  <2>1. PICK pid \in Pids : ChildEnds(pid) /\ UNCHANGED << calls, before >>
    BY <1>2 DEF ChildStep
  <2>2. Atomic!ChildEnds(pid)
    BY <1>1, <2>1, EndIsSeen DEF BeforeFits
  <2> QED BY <2>2 DEF Atomic!Next
<1>3. CASE calls = << >> /\ Reap
  <2>1. calls' # << >>
    BY <1>3 DEF Reap
  <2> QED BY <1>1, <1>3, <2>1, ReapIsUnseen
<1>4. CASE /\ calls = << >> /\ UNCHANGED << calls, before >>
           /\ \/ FillQueue /\ UNCHANGED engineVars
              \/ Allocate
              \/ WaitWithoutChild
              \/ LeaveLoop /\ UNCHANGED engineVars
              \/ Return /\ UNCHANGED engineVars
              \/ WaitForAnyWorker /\ retries' # retries
  <2>1. SameTables /\ SameTables'
    <3>1. (calls = << >> /\ rstPhase = "off" => SameTables)'
      BY SeenAsTheyAre, PTL
    <3> QED BY <1>1, <1>4, <3>1, SeenAsTheyAre
  <2>2. Atomic!Master
    BY <1>4, <2>1, MasterStepIsSeen
  <2> QED BY <2>2 DEF Atomic!Next
<1>5. CASE calls # << >> /\ UpdateStep
  <2>1. /\ ReapedBefore /\ PartOfStep
        /\ UNCHANGED << pc, retries, validTasks, revDepMap, freeWorkers, taskAssignation,
                        engineVars >>
    BY <1>1, <1>5 DEF BeforeFits, UpdateStep
  <2>2. CASE ReturnFromCall /\ Len(calls) = 1
    <3>1. Atomic!WaitForAnyWorker
      BY <1>1, <1>5, <2>1, <2>2, LastReturnIsSeen
    <3> QED BY <3>1 DEF Atomic!Master, Atomic!Next
  <2>3. CASE ReleaseNext \/ CancelNext \/ (ReturnFromCall /\ Len(calls) # 1)
    <3>1. calls' # << >>
      BY <1>1, <1>5, <2>1, <2>3, ReleaseGoesOn, CancelGoesOn, ReturnGoesOn
    <3> QED BY <1>1, <1>5, <3>1, CallIsUnseen
  <2> QED BY <1>5, <2>2, <2>3 DEF UpdateStep
<1> QED BY <1>2, <1>3, <1>4, <1>5 DEF EngineStep, MasterStep, ReapAndRetry

\* A run of Greasy, its loop and recursion taken one dependant at a time and its
\* restart file one task at a time, whatever signal interrupts it, is a run of
\* BasicEngine, where the end of a child is one step.
THEOREM RunImplementsEngine == RunSpec => ImplementsEngine
<1>1. RunInit => Atomic!Init
  <2> SUFFICES ASSUME RunInit PROVE Atomic!Init
    OBVIOUS
  <2>1. SameTables /\ Init
    BY SeenAsTheyAre DEF RunInit, RestartInit
  <2>2. Atomic!TableInit
    <3>1. PICK file \in Files : Load(file)
      BY <2>1 DEF Init, SchedInit, TableInit
    <3>2. \A d, t, valid : Atomic!Accepted(d, t, valid) <=> Accepted(d, t, valid)
      BY DEF Accepted, Atomic!Accepted
    <3>3. Atomic!Load(file)
      BY <2>1, <3>1, <3>2 DEF SameTables, Load, Atomic!Load
    <3> QED BY <2>1, <3>3 DEF Init, SchedInit, TableInit, Atomic!TableInit
  <2>3. Atomic!SchedInit
    BY <2>1, <2>2 DEF Init, SchedInit, SameTables, Atomic!SchedInit, Workers, Atomic!Workers
  <2> QED BY <2>1, <2>3 DEF Init, SameTables, Atomic!Init
<1>2. StepInv /\ [RunNext]_runVars => [Atomic!Next]_(Atomic!vars)
  <2> SUFFICES ASSUME StepInv, [RunNext]_runVars PROVE [Atomic!Next]_(Atomic!vars)
    OBVIOUS
  <2>1. CASE EngineStep
    BY <2>1, EngineStepIsSeen
  <2>2. CASE Finalize \/ TermHandler \/ WriterStep
    BY <2>2, WritingIsUnseen
  <2>3. CASE UNCHANGED runVars
    BY <2>3 DEF runVars, rstVars, vars, schedVars, engineVars, Atomic!vars, Atomic!schedVars,
       Atomic!engineVars, SeenState, SeenDependencies, SeenQueue, SeenBlocked, SeenFree,
       SeenChild, SeenZombies, SeenStatus, Paused, Reaping
  <2> QED BY <2>1, <2>2, <2>3 DEF RunNext, Exited
<1> QED BY <1>1, <1>2, StepInvariant, PTL DEF RunSpec, ImplementsEngine, Atomic!Spec
===============================================================================
