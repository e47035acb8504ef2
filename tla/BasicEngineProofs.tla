--------------------------- MODULE BasicEngineProofs ---------------------------
(***************************************************************************)
(* EngineInv is an inductive invariant of BasicEngine, and what follows    *)
(* from it, for any number of tasks, workers, process ids and retries,     *)
(* whether or not fork() may fail.                                         *)
(***************************************************************************)
EXTENDS BasicEngine, SchedulerProofs

-------------------------------------------------------------------------------
(* The status words                                                        *)

\* The status a child leaves is a status word, and WEXITSTATUS reads back an
\* exit code in it.
LEMMA ExitWithType == \A status \in Int : ExitWith(WEXITSTATUS(status)) \in Nat
BY DEF ExitWith, WEXITSTATUS

-------------------------------------------------------------------------------
(* allocate                                                                *)

\* The part of EngineInv about the children, of a given table of processes and
\* queue of free workers.
OrderOf(procs, free) ==
  /\ \A p \in Pids :
       procs[p] # 0 =>
         /\ procs[p] \in validTasks
         /\ WorkerOf(p) \in Workers \ Range(free)
         /\ TaskOf(p) = procs[p]
  /\ \A p, q \in Pids :
       procs[p] # 0 /\ procs[q] # 0 /\ p # q =>
         WorkerOf(p) # WorkerOf(q) /\ procs[p] # procs[q]
  /\ IsInjective(free)

\* allocate gives a task that no child runs to a worker that has none.
LEMMA AllocateKeepsOrder ==
  ASSUME SchedTypeOK, TablesAgree,
         pidToWorker \in [ Pids -> Workers \cup {0} ],
         NEW t \in validTasks, taskState[t] \in {"waiting", "running"},
         NEW free \in Seq(Workers), free # << >>,
         NEW procs \in [ Pids -> TaskId \cup {0} ],
         OrderOf(procs, free),
         \A p \in Pids : procs[p] # 0 => taskState[procs[p]] = "running",
         \A p \in Pids : procs[p] # t,
         Fork(t, free, procs) \/ ForkFails(t, free, procs),
         validTasks' = validTasks
  PROVE  /\ ChildrenInOrder'
         /\ child' \in [ Pids -> TaskId \cup {0} ]
         /\ \A p \in Pids : procs[p] # 0 => child'[p] # 0
         /\ pidToWorker' \in [ Pids -> Workers \cup {0} ]
         /\ taskAssignation' \in [ Workers -> TaskId \cup {0} ]
         /\ freeWorkers' \in Seq(Workers)
         /\ \E state \in {"running", "failed"} :
              taskState' = [ taskState EXCEPT ![t] = state ]
<1> DEFINE w == Head(free)
<1>1. /\ w \in Workers
      /\ w \in Range(free)
      /\ Tail(free) \in Seq(Workers)
      /\ IsInjective(Tail(free))
      /\ Range(Tail(free)) = Range(free) \ {w}
  BY PopHead DEF OrderOf
<1>2. t \in TaskId /\ t # 0 /\ t \in Nat
  BY TaskIdAssumption DEF SchedTypeOK
<1>3. w # 0 /\ 0 \notin Workers
  BY <1>1, NWorkersAssumption DEF Workers
<1> HIDE DEF w
<1>4. CASE Fork(t, free, procs)
  <2>1. PICK pid \in Pids :
          /\ procs[pid] = 0
          /\ child' = [ procs EXCEPT ![pid] = t ]
          /\ pidToWorker' = [ pidToWorker EXCEPT ![pid] = w ]
          /\ taskAssignation' = [ taskAssignation EXCEPT ![w] = t ]
          /\ taskState' = [ taskState EXCEPT ![t] = "running" ]
          /\ freeWorkers' = Tail(free)
    BY <1>4 DEF Fork, w
  <2>2. /\ child' \in [ Pids -> TaskId \cup {0} ]
        /\ pidToWorker' \in [ Pids -> Workers \cup {0} ]
        /\ taskAssignation' \in [ Workers -> TaskId \cup {0} ]
        /\ freeWorkers' \in Seq(Workers)
    BY <1>1, <1>2, <2>1 DEF SchedTypeOK
  <2>3. \A p \in Pids :
          /\ child'[p] = IF p = pid THEN t ELSE procs[p]
          /\ WorkerOf(p)' = IF p = pid THEN w ELSE WorkerOf(p)
    BY <2>1 DEF WorkerOf
  <2>4. \A p \in Pids : procs[p] # 0 =>
          /\ p # pid
          /\ WorkerOf(p) \in Workers \ Range(free)
          /\ WorkerOf(p) # w
          /\ TaskOf(p)' = procs[p]
          /\ procs[p] \in validTasks
          /\ taskState'[procs[p]] = "running"
    <3> SUFFICES ASSUME NEW p \in Pids, procs[p] # 0
                 PROVE  /\ p # pid
                        /\ WorkerOf(p) \in Workers \ Range(free)
                        /\ WorkerOf(p) # w
                        /\ TaskOf(p)' = procs[p]
                        /\ procs[p] \in validTasks
                        /\ taskState'[procs[p]] = "running"
      OBVIOUS
    <3>1. /\ WorkerOf(p) \in Workers \ Range(free)
          /\ TaskOf(p) = procs[p]
          /\ procs[p] \in validTasks
      BY DEF OrderOf
    <3>2. p # pid /\ WorkerOf(p) # w /\ WorkerOf(p)' = WorkerOf(p)
      BY <1>1, <2>1, <2>3, <3>1
    <3>3. taskAssignation'[WorkerOf(p)] = taskAssignation[WorkerOf(p)]
      BY <2>1, <3>1, <3>2 DEF SchedTypeOK
    <3>4. taskState'[procs[p]] = "running"
      BY <2>1, <3>1 DEF SchedTypeOK
    <3> QED BY <3>1, <3>2, <3>3, <3>4 DEF TaskOf
  <2>5. /\ TaskOf(pid)' = t
        /\ taskState'[t] = "running"
    BY <1>1, <1>2, <2>1, <2>3 DEF TaskOf, SchedTypeOK
  <2>6. \A p \in Pids : child'[p] # 0 =>
          /\ child'[p] \in validTasks
          /\ taskState'[child'[p]] = "running"
          /\ WorkerOf(p)' \in Workers \ Range(Tail(free))
          /\ TaskOf(p)' = child'[p]
    BY <1>1, <2>3, <2>4, <2>5
  <2>7. \A p, q \in Pids : child'[p] # 0 /\ child'[q] # 0 /\ p # q =>
          WorkerOf(p)' # WorkerOf(q)' /\ child'[p] # child'[q]
    BY <1>3, <2>3, <2>4 DEF OrderOf
  <2>8. ChildrenInOrder'
    BY <1>1, <2>1, <2>6, <2>7 DEF ChildrenInOrder, Children
  <2> QED BY <1>2, <2>1, <2>2, <2>3, <2>8
<1>5. CASE ForkFails(t, free, procs)
  <2>1. /\ child' = procs
        /\ pidToWorker' = pidToWorker
        /\ taskAssignation' = [ taskAssignation EXCEPT ![w] = t ]
        /\ taskState' = [ taskState EXCEPT ![t] = "failed" ]
        /\ freeWorkers' = Append(Tail(free), w)
    BY <1>5 DEF ForkFails, w
  <2>2. /\ freeWorkers' \in Seq(Workers)
        /\ IsInjective(freeWorkers')
        /\ Range(freeWorkers') = Range(free)
    <3>1. w \notin Range(Tail(free)) /\ Range(Tail(free)) \cup {w} = Range(free)
      BY <1>1
    <3> DEFINE rest == Tail(free)
    <3>2. rest \in Seq(Workers) /\ IsInjective(rest) /\ w \notin Range(rest)
      BY <1>1, <3>1
    <3> HIDE DEF rest
    <3>3. /\ Append(rest, w) \in Seq(Workers)
          /\ IsInjective(Append(rest, w))
          /\ Range(Append(rest, w)) = Range(rest) \cup {w}
      BY <1>1, <3>2, PushFresh
    <3> QED BY <2>1, <3>1, <3>3 DEF rest
  <2>3. taskAssignation' \in [ Workers -> TaskId \cup {0} ]
    BY <1>1, <1>2, <2>1 DEF SchedTypeOK
  <2>4. \A p \in Pids : procs[p] # 0 =>
          /\ procs[p] \in validTasks
          /\ taskState'[procs[p]] = "running"
          /\ WorkerOf(p)' \in Workers \ Range(freeWorkers')
          /\ TaskOf(p)' = procs[p]
    <3> SUFFICES ASSUME NEW p \in Pids, procs[p] # 0
                 PROVE  /\ procs[p] \in validTasks
                        /\ taskState'[procs[p]] = "running"
                        /\ WorkerOf(p)' \in Workers \ Range(freeWorkers')
                        /\ TaskOf(p)' = procs[p]
      OBVIOUS
    <3>1. /\ WorkerOf(p) \in Workers \ Range(free)
          /\ TaskOf(p) = procs[p]
          /\ procs[p] \in validTasks
      BY DEF OrderOf
    <3>2. WorkerOf(p)' = WorkerOf(p) /\ WorkerOf(p) # w
      BY <1>1, <2>1, <3>1 DEF WorkerOf
    <3>3. taskAssignation'[WorkerOf(p)] = taskAssignation[WorkerOf(p)]
      BY <2>1, <3>1, <3>2 DEF SchedTypeOK
    <3>4. taskState'[procs[p]] = "running"
      BY <2>1, <3>1 DEF SchedTypeOK
    <3> QED BY <2>2, <3>1, <3>2, <3>3, <3>4 DEF TaskOf
  <2>5. \A p, q \in Pids : procs[p] # 0 /\ procs[q] # 0 /\ p # q =>
          WorkerOf(p)' # WorkerOf(q)' /\ procs[p] # procs[q]
    BY <2>1 DEF OrderOf, WorkerOf
  <2>6. ChildrenInOrder'
    BY <2>1, <2>2, <2>4, <2>5 DEF ChildrenInOrder, Children
  <2> QED BY <2>1, <2>2, <2>3, <2>6
<1> QED BY <1>4, <1>5

-------------------------------------------------------------------------------
(* EngineInv is inductive                                                  *)

\* The initial states satisfy it.
LEMMA InitEngineInv == Init => EngineInv
<1> SUFFICES ASSUME Init PROVE EngineInv
  OBVIOUS
<1>1. SchedTypeOK /\ TablesAgree
  BY LoadAgrees DEF Init
<1>2. Children = {}
  BY DEF Init, Children
<1>3. TypeOK
  BY <1>1 DEF Init, TypeOK
<1>4. IsInjective(freeWorkers)
  BY DEF Init, SchedInit, TableInit, IsInjective
<1>5. ChildrenInOrder
  BY <1>2, <1>4 DEF ChildrenInOrder
<1> QED BY <1>1, <1>3, <1>5 DEF EngineInv

\* The steps of the master that touch neither the tasks nor the workers.
LEMMA ControlKeepsInv ==
  ASSUME EngineInv,
         ((FillQueue \/ LeaveLoop \/ Return) /\ UNCHANGED engineVars) \/ WaitWithoutChild
  PROVE  EngineInv'
<1>1. SchedTypeOK' /\ TablesAgree'
  <2>1. CASE FillQueue
    BY <2>1, FillQueueAgrees DEF EngineInv, TypeOK
  <2>2. CASE LeaveLoop \/ Return \/ WaitWithoutChild
    <3>1. /\ pc' \in {"drain", "done", "crashed"}
          /\ UNCHANGED << taskState, dependencies, retries, validTasks, revDepMap,
                          freeWorkers, taskQueue, blockedTasks, taskAssignation >>
      BY <2>2 DEF LeaveLoop, Return, WaitWithoutChild
    <3>2. SchedTypeOK'
      BY <3>1 DEF EngineInv, TypeOK, SchedTypeOK, Workers
    <3>3. TablesAgree'
      BY <3>1 DEF EngineInv, TablesAgree, BackwardOnly, DependenciesLeft,
         DroppedStaysOut, ReadyHasNoDependencies, CancelledByParent,
         QueueOfWaiting, Parents
    <3> QED BY <3>2, <3>3
  <2> QED BY <2>1, <2>2
<1>2. UNCHANGED << engineVars, taskState, validTasks, freeWorkers, taskAssignation >>
  BY DEF FillQueue, LeaveLoop, Return, WaitWithoutChild, engineVars
<1>3. TypeOK'
  BY <1>1, <1>2 DEF EngineInv, TypeOK, engineVars, Children, Workers
<1>4. ChildrenInOrder'
  BY <1>2 DEF EngineInv, ChildrenInOrder, Children, WorkerOf, TaskOf, engineVars,
     Workers
<1> QED BY <1>1, <1>3, <1>4 DEF EngineInv

\* The allocation of the task at the head of the queue.
LEMMA AllocateKeepsInv ==
  ASSUME EngineInv, Allocate
  PROVE  EngineInv'
<1> DEFINE t == Head(taskQueue)
<1>1. /\ SchedTypeOK /\ TablesAgree /\ ChildrenInOrder
      /\ pc = "schedule" /\ taskQueue # << >> /\ freeWorkers # << >>
  BY DEF EngineInv, TypeOK, Allocate, MustAllocate
<1>2. /\ t \in Range(taskQueue)
      /\ Tail(taskQueue) \in Seq(TaskId)
      /\ IsInjective(Tail(taskQueue))
      /\ Range(Tail(taskQueue)) = Range(taskQueue) \ {t}
  BY <1>1, PopHead DEF SchedTypeOK, TablesAgree, QueueOfWaiting
<1>3. t \in validTasks /\ taskState[t] = "waiting"
  BY <1>1, <1>2 DEF TablesAgree, QueueOfWaiting
<1> HIDE DEF t
<1>4. /\ \A p \in Pids : child[p] # 0 => taskState[child[p]] = "running"
      /\ OrderOf(child, freeWorkers)
  BY <1>1 DEF ChildrenInOrder, Children, OrderOf
<1>5. \A p \in Pids : child[p] # t
  <2>1. t # 0
    BY <1>1, <1>3, TaskIdAssumption DEF SchedTypeOK
  <2> QED BY <1>3, <1>4, <2>1
<1>6. /\ Fork(t, freeWorkers, child) \/ ForkFails(t, freeWorkers, child)
      /\ taskQueue' = Tail(taskQueue)
      /\ UNCHANGED << pc, dependencies, retries, validTasks, revDepMap, blockedTasks,
                      zombies, waitStatus, commandOk >>
  BY DEF Allocate, t
<1>7. /\ child \in [ Pids -> TaskId \cup {0} ]
      /\ pidToWorker \in [ Pids -> Workers \cup {0} ]
      /\ freeWorkers \in Seq(Workers)
  BY DEF EngineInv, TypeOK, SchedTypeOK
<1>8. /\ ChildrenInOrder'
      /\ child' \in [ Pids -> TaskId \cup {0} ]
      /\ \A p \in Pids : child[p] # 0 => child'[p] # 0
      /\ pidToWorker' \in [ Pids -> Workers \cup {0} ]
      /\ taskAssignation' \in [ Workers -> TaskId \cup {0} ]
      /\ freeWorkers' \in Seq(Workers)
      /\ \E state \in {"running", "failed"} : taskState' = [ taskState EXCEPT ![t] = state ]
  BY <1>1, <1>3, <1>4, <1>5, <1>6, <1>7, AllocateKeepsOrder
<1>9. TablesAgree' /\ taskState' \in [ TaskId -> TaskStates ]
  <2>1. PICK state \in {"running", "failed"} : taskState' = [ taskState EXCEPT ![t] = state ]
    BY <1>8
  <2> QED BY <1>1, <1>2, <1>3, <1>6, <2>1, StartAgrees
<1>10. SchedTypeOK'
  BY <1>1, <1>2, <1>6, <1>8, <1>9 DEF SchedTypeOK, Workers
<1>11. TypeOK'
  BY <1>6, <1>8, <1>10 DEF EngineInv, TypeOK, Children
<1> QED BY <1>8, <1>9, <1>11 DEF EngineInv

\* The child that waitForAnyWorker reaps, its worker and its task.
LEMMA ReapedChild ==
  ASSUME EngineInv, NEW pid \in zombies
  PROVE  /\ pid \in Pids
         /\ TaskOf(pid) = child[pid]
         /\ TaskOf(pid) \in validTasks
         /\ taskState[TaskOf(pid)] = "running"
         /\ Freed(pid) \in Seq(Workers)
         /\ Freed(pid) # << >>
         /\ Reaped(pid) \in [ Pids -> TaskId \cup {0} ]
         /\ OrderOf(Reaped(pid), Freed(pid))
         /\ \A p \in Pids : /\ Reaped(pid)[p] = IF p = pid THEN 0 ELSE child[p]
                            /\ Reaped(pid)[p] # 0 => taskState[Reaped(pid)[p]] = "running"
                            /\ Reaped(pid)[p] # TaskOf(pid)
<1>1. /\ pid \in Pids /\ pid \in Children /\ child[pid] # 0
      /\ SchedTypeOK /\ ChildrenInOrder
      /\ child \in [ Pids -> TaskId \cup {0} ]
  BY DEF EngineInv, TypeOK, Children
<1>2. /\ TaskOf(pid) = child[pid]
      /\ child[pid] \in validTasks
      /\ taskState[child[pid]] = "running"
      /\ WorkerOf(pid) \in Workers \ Range(freeWorkers)
  BY <1>1 DEF ChildrenInOrder
<1>3. /\ Freed(pid) \in Seq(Workers)
      /\ IsInjective(Freed(pid))
      /\ Range(Freed(pid)) = Range(freeWorkers) \cup {WorkerOf(pid)}
  BY <1>1, <1>2, PushFresh DEF Freed, SchedTypeOK, ChildrenInOrder
<1>4. Freed(pid) # << >>
  BY <1>3 DEF Range
<1>5. \A p \in Pids : Reaped(pid)[p] = IF p = pid THEN 0 ELSE child[p]
  BY <1>1 DEF Reaped
<1>6. Reaped(pid) \in [ Pids -> TaskId \cup {0} ]
  BY <1>1 DEF Reaped
<1>7. \A p \in Pids : child[p] # 0 /\ p # pid =>
        /\ child[p] \in validTasks
        /\ taskState[child[p]] = "running"
        /\ WorkerOf(p) \in Workers \ Range(Freed(pid))
        /\ TaskOf(p) = child[p]
        /\ child[p] # child[pid]
  BY <1>1, <1>3 DEF ChildrenInOrder, Children
<1>8. OrderOf(Reaped(pid), Freed(pid))
  BY <1>1, <1>3, <1>5, <1>7 DEF OrderOf, ChildrenInOrder, Children
<1> QED BY <1>1, <1>2, <1>3, <1>4, <1>5, <1>6, <1>7, <1>8

\* The end of a task that is not run again.
LEMMA SettleKeepsInv ==
  ASSUME EngineInv, MustWait, NEW pid \in zombies,
         EpilogueSuccess(pid) \/ EpilogueFailure(pid),
         zombies' = zombies \ {pid},
         waitStatus' = [ waitStatus EXCEPT ![pid] = 0 ],
         UNCHANGED << pc, validTasks, revDepMap, commandOk >>
  PROVE  EngineInv'
<1> DEFINE t == TaskOf(pid)
<1>1. /\ SchedTypeOK /\ TablesAgree
      /\ t \in validTasks /\ taskState[t] = "running"
      /\ pc' # "start"
  BY ReapedChild DEF EngineInv, TypeOK, MustWait
<1>2. /\ freeWorkers' = Freed(pid)
      /\ child' = Reaped(pid)
      /\ UNCHANGED << retries, taskAssignation, pidToWorker >>
      /\ Complete(t) \/ Fail(t)
  BY DEF EpilogueSuccess, EpilogueFailure
<1> HIDE DEF t
<1>3. /\ TablesAgree'
      /\ taskState' \in [ TaskId -> TaskStates ]
      /\ dependencies' \in [ TaskId -> SUBSET (Nat \ {0}) ]
      /\ taskQueue' \in Seq(TaskId)
      /\ blockedTasks' \in SUBSET TaskId
      /\ \A c \in TaskId \ {t} :
           taskState'[c] # taskState[c] => taskState[c] \in {"blocked", "invalid"}
  <2>1. CASE Complete(t)
    BY <1>1, <2>1, CompleteAgrees
  <2>2. CASE Fail(t)
    BY <1>1, <2>2, FailAgrees DEF SchedTypeOK
  <2> QED BY <1>2, <2>1, <2>2
<1>4. SchedTypeOK'
  BY <1>1, <1>2, <1>3, ReapedChild DEF SchedTypeOK, Workers
<1>5. TypeOK'
  <2>1. zombies' \subseteq Children'
    <3>1. \A p \in zombies : p \in Pids /\ child[p] # 0
      BY DEF EngineInv, TypeOK, Children
    <3> QED BY <1>2, <3>1, ReapedChild DEF Children
  <2>2. /\ waitStatus \in [ Pids -> Nat ]
        /\ commandOk \in [ TaskId -> BOOLEAN ]
        /\ pidToWorker \in [ Pids -> Workers \cup {0} ]
    BY DEF EngineInv, TypeOK
  <2>3. child' \in [ Pids -> TaskId \cup {0} ]
    BY <1>2, ReapedChild
  <2>4. waitStatus' \in [ Pids -> Nat ] /\ pidToWorker' \in [ Pids -> Workers' \cup {0} ]
    BY <1>2, <2>2 DEF Workers
  <2> QED BY <1>4, <2>1, <2>2, <2>3, <2>4 DEF TypeOK
<1>6. ChildrenInOrder'
  <2>1. \A p \in Pids : child'[p] # 0 =>
          /\ child'[p] \in TaskId \ {t}
          /\ taskState[child'[p]] = "running"
    <3>1. \A p \in Pids : child'[p] # 0 => child'[p] # t /\ taskState[child'[p]] = "running"
      BY <1>2, ReapedChild DEF t
    <3>2. child' \in [ Pids -> TaskId \cup {0} ]
      BY <1>2, ReapedChild
    <3> QED BY <3>1, <3>2
  <2>2. \A p \in Pids : child'[p] # 0 => taskState'[child'[p]] = "running"
    BY <1>3, <2>1
  <2>3. OrderOf(child', freeWorkers')
    BY <1>2, ReapedChild
  <2>4. \A p \in Pids : WorkerOf(p)' = WorkerOf(p) /\ TaskOf(p)' = TaskOf(p)
    BY <1>2 DEF WorkerOf, TaskOf
  <2> QED BY <2>2, <2>3, <2>4 DEF OrderOf, ChildrenInOrder, Children, Workers
<1> QED BY <1>3, <1>5, <1>6 DEF EngineInv

\* The new run of a task that failed.
LEMMA RetryKeepsInv ==
  ASSUME EngineInv, MustWait, NEW pid \in zombies, EpilogueRetry(pid),
         zombies' = zombies \ {pid},
         waitStatus' = [ waitStatus EXCEPT ![pid] = 0 ],
         UNCHANGED << pc, validTasks, revDepMap, commandOk >>
  PROVE  EngineInv'
<1> DEFINE t == TaskOf(pid)
<1>1. /\ SchedTypeOK /\ TablesAgree
      /\ t \in validTasks /\ taskState[t] = "running"
      /\ pc' # "start"
  BY ReapedChild DEF EngineInv, TypeOK, MustWait
<1>2. /\ retries[t] < MaxRetries
      /\ retries' = [ retries EXCEPT ![t] = @ + 1 ]
      /\ Fork(t, Freed(pid), Reaped(pid)) \/ ForkFails(t, Freed(pid), Reaped(pid))
      /\ UNCHANGED << dependencies, blockedTasks, taskQueue >>
  BY DEF EpilogueRetry, CanRetry
<1>3. /\ pidToWorker \in [ Pids -> Workers \cup {0} ]
      /\ Freed(pid) \in Seq(Workers) /\ Freed(pid) # << >>
      /\ Reaped(pid) \in [ Pids -> TaskId \cup {0} ]
      /\ OrderOf(Reaped(pid), Freed(pid))
      /\ \A p \in Pids : Reaped(pid)[p] # 0 => taskState[Reaped(pid)[p]] = "running"
      /\ \A p \in Pids : Reaped(pid)[p] # t
      /\ \A p \in Pids : Reaped(pid)[p] = IF p = pid THEN 0 ELSE child[p]
  BY ReapedChild DEF EngineInv, TypeOK
<1> HIDE DEF t
<1>4. /\ ChildrenInOrder'
      /\ child' \in [ Pids -> TaskId \cup {0} ]
      /\ \A p \in Pids : Reaped(pid)[p] # 0 => child'[p] # 0
      /\ pidToWorker' \in [ Pids -> Workers \cup {0} ]
      /\ taskAssignation' \in [ Workers -> TaskId \cup {0} ]
      /\ freeWorkers' \in Seq(Workers)
      /\ \E state \in {"running", "failed"} : taskState' = [ taskState EXCEPT ![t] = state ]
  BY <1>1, <1>2, <1>3, AllocateKeepsOrder
<1>5. TablesAgree' /\ taskState' \in [ TaskId -> TaskStates ]
  <2>1. PICK state \in {"running", "failed"} : taskState' = [ taskState EXCEPT ![t] = state ]
    BY <1>4
  <2>2. Range(taskQueue') \subseteq Range(taskQueue) \ {t} /\ IsInjective(taskQueue')
    BY <1>1, <1>2 DEF TablesAgree, QueueOfWaiting
  <2> QED BY <1>1, <1>2, <2>1, <2>2, StartAgrees
<1>6. retries' \in [ TaskId -> 0..MaxRetries ]
  BY <1>1, <1>2, MaxRetriesAssumption DEF SchedTypeOK
<1>7. SchedTypeOK'
  BY <1>1, <1>2, <1>4, <1>5, <1>6 DEF SchedTypeOK, Workers
<1>8. zombies' \subseteq Children'
  <2>1. \A p \in zombies : p \in Pids /\ child[p] # 0
    BY DEF EngineInv, TypeOK, Children
  <2> QED BY <1>3, <1>4, <2>1 DEF Children
<1>9. TypeOK'
  BY <1>4, <1>7, <1>8 DEF EngineInv, TypeOK, Workers
<1> QED BY <1>4, <1>5, <1>9 DEF EngineInv

\* What wait() will report is a status word.
LEMMA EndIsTyped ==
  ASSUME waitStatus \in [ Pids -> Nat ], commandOk \in [ TaskId -> BOOLEAN ],
         NEW pid \in Pids, ChildEnds(pid)
  PROVE  waitStatus' \in [ Pids -> Nat ] /\ commandOk' \in [ TaskId -> BOOLEAN ]
<1>1. CASE CommandReturns(pid)
  <2>1. PICK status \in SystemStatus :
          /\ waitStatus' = [ waitStatus EXCEPT ![pid] = ExitWith(WEXITSTATUS(status)) ]
          /\ commandOk' = [ commandOk EXCEPT ![child[pid]] = (status = 0) ]
    BY <1>1 DEF CommandReturns
  <2>2. ExitWith(WEXITSTATUS(status)) \in Nat
    BY ExitWithType, StatusAssumption
  <2>3. waitStatus' \in [ Pids -> Nat ]
    BY <2>1, <2>2
  <2>4. (status = 0) \in BOOLEAN
    OBVIOUS
  <2>5. commandOk' \in [ TaskId -> BOOLEAN ]
    BY <2>1, <2>4, Zenon
  <2> QED BY <2>3, <2>5
<1>2. CASE ChildKilled(pid)
  <2>1. waitStatus' \in [ Pids -> Nat ]
    BY <1>2, StatusAssumption DEF ChildKilled
  <2>2. commandOk' \in [ TaskId -> BOOLEAN ]
    BY <1>2 DEF ChildKilled
  <2> QED BY <2>1, <2>2
<1> QED BY <1>1, <1>2 DEF ChildEnds

\* The end of a child only fills in what wait() will report.
LEMMA ChildEndsKeepsInv ==
  ASSUME EngineInv, NEW pid \in Pids, ChildEnds(pid)
  PROVE  EngineInv'
<1>1. /\ zombies' = zombies \cup {pid}
      /\ pid \in Children
      /\ child[pid] \in TaskId
      /\ UNCHANGED << schedVars, child, pidToWorker >>
  <2>1. pid \in Children
    BY DEF ChildEnds, CommandReturns, ChildKilled, Running
  <2> QED BY <2>1 DEF ChildEnds, CommandReturns, ChildKilled, EngineInv, TypeOK, Children
<1>2. waitStatus' \in [ Pids -> Nat ] /\ commandOk' \in [ TaskId -> BOOLEAN ]
  BY EndIsTyped DEF EngineInv, TypeOK
<1>3. SchedTypeOK' /\ TablesAgree'
  BY <1>1 DEF EngineInv, TypeOK, schedVars, SchedTypeOK, Workers, TablesAgree,
     BackwardOnly, DependenciesLeft, DroppedStaysOut, ReadyHasNoDependencies,
     CancelledByParent, QueueOfWaiting, Parents
<1>4. TypeOK'
  BY <1>1, <1>2, <1>3 DEF EngineInv, TypeOK, Children, Workers
<1>5. ChildrenInOrder'
  BY <1>1 DEF EngineInv, ChildrenInOrder, Children, WorkerOf, TaskOf, schedVars, Workers
<1> QED BY <1>3, <1>4, <1>5 DEF EngineInv

\* Every handler of the master, and every end of a child, leaves the tables as it
\* found them: agreeing with each other and with the children.
LEMMA StepKeepsEngine ==
  ASSUME EngineInv, [Next]_vars
  PROVE  EngineInv'
<1>1. CASE ((FillQueue \/ LeaveLoop \/ Return) /\ UNCHANGED engineVars) \/ WaitWithoutChild
  BY <1>1, ControlKeepsInv
<1>2. CASE Allocate
  BY <1>2, AllocateKeepsInv
<1>3. CASE WaitForAnyWorker
  <2>1. PICK pid \in zombies :
          /\ \/ EpilogueSuccess(pid)
             \/ EpilogueFailure(pid)
             \/ EpilogueRetry(pid)
          /\ zombies' = zombies \ {pid}
          /\ waitStatus' = [ waitStatus EXCEPT ![pid] = 0 ]
    BY <1>3 DEF WaitForAnyWorker
  <2>2. MustWait /\ UNCHANGED << pc, validTasks, revDepMap, commandOk >>
    BY <1>3 DEF WaitForAnyWorker
  <2>3. CASE EpilogueSuccess(pid) \/ EpilogueFailure(pid)
    BY <2>1, <2>2, <2>3, SettleKeepsInv
  <2>4. CASE EpilogueRetry(pid)
    BY <2>1, <2>2, <2>4, RetryKeepsInv
  <2> QED BY <2>1, <2>3, <2>4
<1>4. ASSUME NEW pid \in Pids, ChildEnds(pid) PROVE EngineInv'
  BY <1>4, ChildEndsKeepsInv
<1>5. CASE UNCHANGED vars
  <2>1. SchedTypeOK'
    BY <1>5 DEF vars, schedVars, EngineInv, TypeOK, SchedTypeOK, Workers
  <2>2. TypeOK'
    BY <1>5, <2>1 DEF vars, engineVars, EngineInv, TypeOK, Children, Workers
  <2>3. TablesAgree'
    BY <1>5 DEF vars, schedVars, EngineInv, TablesAgree, BackwardOnly,
       DependenciesLeft, DroppedStaysOut, ReadyHasNoDependencies,
       CancelledByParent, QueueOfWaiting, Parents
  <2>4. ChildrenInOrder'
    BY <1>5 DEF vars, schedVars, engineVars, EngineInv, ChildrenInOrder, Children,
       WorkerOf, TaskOf, Workers
  <2> QED BY <2>2, <2>3, <2>4 DEF EngineInv
<1> QED BY <1>1, <1>2, <1>3, <1>4, <1>5 DEF Next, Master, Stopped

\* The tables of the master agree with each other and with its children after every
\* allocate, waitForAnyWorker and end of a child, whether or not fork() fails.
THEOREM EngineInvariant == Spec => []EngineInv
<1>1. EngineInv /\ [Next]_vars => EngineInv'
  BY StepKeepsEngine
<1> QED BY <1>1, InitEngineInv, PTL DEF Spec

-------------------------------------------------------------------------------
(* What follows                                                            *)

\* Every variable has its type: in particular wait() always leads back to a
\* worker and a task that exist, and no task is retried more than MaxRetries
\* times.
THEOREM TypeCorrect == Spec => []TypeOK
BY EngineInvariant, PTL DEF EngineInv

\* allocate is never called for a task before every task it depends on has
\* completed.
THEOREM DependenciesRespected == Spec => []ParentsFirst
<1>1. EngineInv => ParentsFirst
  <2> SUFFICES ASSUME EngineInv, NEW t \in validTasks,
                      taskState[t] \in {"running", "completed", "failed"},
                      NEW p \in Parents(t)
               PROVE  taskState[p] = "completed"
    BY DEF ParentsFirst
  <2>1. dependencies[t] = {}
    BY DEF EngineInv, TablesAgree, ReadyHasNoDependencies
  <2>2. dependencies[t] = { q \in Parents(t) : taskState[q] # "completed" }
    BY DEF EngineInv, TablesAgree, DependenciesLeft
  <2> QED BY <2>1, <2>2
<1> QED BY <1>1, EngineInvariant, PTL

\* A step only gives a verdict to a task that was waiting, blocked or running.
LEMMA StepKeepsVerdicts ==
  ASSUME EngineInv, [Next]_vars,
         NEW t \in TaskId, taskState[t] \in FinalStates
  PROVE  taskState'[t] = taskState[t]
<1>1. SchedTypeOK /\ TablesAgree /\ taskState \in [ TaskId -> TaskStates ]
  BY DEF EngineInv, TypeOK, SchedTypeOK
<1>2. taskState[t] \notin {"waiting", "running", "blocked", "invalid"}
  BY DEF FinalStates
<1>3. ASSUME NEW s \in validTasks, taskState[s] \in {"waiting", "running"},
             NEW free, NEW procs,
             Fork(s, free, procs) \/ ForkFails(s, free, procs)
      PROVE  taskState'[t] = taskState[t]
  <2>1. s # t
    BY <1>2, <1>3
  <2> QED BY <1>1, <1>3, <2>1 DEF Fork, ForkFails
<1>4. CASE Allocate
  <2>1. Head(taskQueue) \in Range(taskQueue)
    BY <1>1, <1>4, PopHead DEF Allocate, MustAllocate, SchedTypeOK, TablesAgree,
       QueueOfWaiting
  <2>2. Head(taskQueue) \in validTasks /\ taskState[Head(taskQueue)] = "waiting"
    BY <1>1, <2>1 DEF TablesAgree, QueueOfWaiting
  <2> QED BY <1>3, <1>4, <2>2 DEF Allocate
<1>5. CASE WaitForAnyWorker
  <2>1. PICK pid \in zombies : \/ EpilogueSuccess(pid)
                               \/ EpilogueFailure(pid)
                               \/ EpilogueRetry(pid)
    BY <1>5 DEF WaitForAnyWorker
  <2>2. TaskOf(pid) \in validTasks /\ taskState[TaskOf(pid)] = "running"
    BY ReapedChild
  <2>3. pc' # "start" /\ UNCHANGED << validTasks, revDepMap >>
    BY <1>5 DEF WaitForAnyWorker, MustWait
  <2>4. CASE EpilogueSuccess(pid)
    BY <1>1, <1>2, <2>2, <2>3, <2>4, CompleteAgrees DEF EpilogueSuccess
  <2>5. CASE EpilogueFailure(pid)
    BY <1>1, <1>2, <2>2, <2>3, <2>5, FailAgrees DEF EpilogueFailure
  <2>6. CASE EpilogueRetry(pid)
    BY <1>3, <2>2, <2>6 DEF EpilogueRetry
  <2> QED BY <2>1, <2>4, <2>5, <2>6
<1>6. CASE FillQueue \/ LeaveLoop \/ Return \/ WaitWithoutChild
  BY <1>6 DEF FillQueue, LeaveLoop, Return, WaitWithoutChild
<1>7. ASSUME NEW pid \in Pids, ChildEnds(pid) PROVE taskState' = taskState
  BY <1>7 DEF ChildEnds, CommandReturns, ChildKilled, schedVars
<1>8. CASE UNCHANGED vars
  BY <1>8 DEF vars, schedVars
<1> QED BY <1>4, <1>5, <1>6, <1>7, <1>8 DEF Next, Master, Stopped

\* A verdict is never taken back, by updateDependencies or by another epilogue.
THEOREM VerdictsAreFinal == Spec => VerdictsStand
<1>1. EngineInv /\ [Next]_vars =>
        [ \A t \in TaskId :
            taskState[t] \in FinalStates => taskState'[t] = taskState[t] ]_tableVars
  BY StepKeepsVerdicts
<1> QED BY <1>1, EngineInvariant, PTL DEF Spec, VerdictsStand

-------------------------------------------------------------------------------
(* The verdict of a task is that of its command                            *)

\* wait() reports the exit code of the child that returned, and none for a child
\* that died of a signal.
LEMMA ExitCodeSurvives ==
  /\ \A status \in Int : /\ WIFEXITED(ExitWith(WEXITSTATUS(status)))
                         /\ WEXITSTATUS(ExitWith(WEXITSTATUS(status))) = WEXITSTATUS(status)
  /\ WEXITSTATUS(0) = 0
  /\ \A signal \in KillSignals : ~ WIFEXITED(signal)
<1>1. \A status \in Int : WEXITSTATUS(status) \in 0..255
  BY DEF WEXITSTATUS
<1>2. \A code \in 0..255 : /\ WIFEXITED(ExitWith(code))
                           /\ WEXITSTATUS(ExitWith(code)) = code
  BY DEF WIFEXITED, WEXITSTATUS, ExitWith
<1>3. \A signal \in 1..127 : ~ WIFEXITED(signal)
  BY DEF WIFEXITED
<1>4. WEXITSTATUS(0) = 0
  BY DEF WEXITSTATUS
<1> QED BY <1>1, <1>2, <1>3, <1>4, StatusAssumption

\* What VerdictInv says beyond EngineInv.
VerdictsTell ==
  /\ StatusesTell
  /\ TruthfulStatuses => CompletedFine
  /\ ~ ForkMayFail => \A t \in TaskId : taskState[t] = "failed" => retries[t] = MaxRetries

\* The end of a child: what wait() will report is what became of its command.
LEMMA ChildEndsTells ==
  ASSUME EngineInv, VerdictsTell, NEW pid \in Pids, ChildEnds(pid)
  PROVE  VerdictsTell'
<1> DEFINE t == child[pid]
<1>1. /\ pid \in Children /\ pid \notin zombies
      /\ zombies' = zombies \cup {pid}
      /\ UNCHANGED << schedVars, child, pidToWorker >>
  BY DEF ChildEnds, CommandReturns, ChildKilled, Running
<1>2. /\ t \in TaskId /\ taskState[t] = "running"
      /\ \A p \in Children : p # pid => child[p] # t
      /\ zombies \subseteq Children
      /\ waitStatus \in [ Pids -> Nat ]
      /\ commandOk \in [ TaskId -> BOOLEAN ]
  BY <1>1 DEF EngineInv, TypeOK, SchedTypeOK, ChildrenInOrder
<1>3. /\ UNCHANGED << taskState, retries, child >>
      /\ \A p \in Pids \ {pid} : waitStatus'[p] = waitStatus[p]
      /\ \A s \in TaskId \ {t} : commandOk'[s] = commandOk[s]
  BY <1>1, <1>2 DEF schedVars, ChildEnds, CommandReturns, ChildKilled
<1>4. /\ commandOk'[t] => ReturnCode(pid)' = 0
      /\ TruthfulStatuses /\ ReturnCode(pid)' = 0 => commandOk'[t]
  <2>1. CASE CommandReturns(pid)
    <3>1. PICK status \in SystemStatus :
            /\ waitStatus' = [ waitStatus EXCEPT ![pid] = ExitWith(WEXITSTATUS(status)) ]
            /\ commandOk' = [ commandOk EXCEPT ![t] = (status = 0) ]
      BY <2>1 DEF CommandReturns
    <3>2. /\ waitStatus'[pid] = ExitWith(WEXITSTATUS(status))
          /\ commandOk'[t] <=> status = 0
      <4>1. waitStatus'[pid] = ExitWith(WEXITSTATUS(status))
        BY <1>2, <3>1
      <4>2. commandOk'[t] = (status = 0)
        BY <1>2, <3>1, Zenon
      <4> QED BY <4>1, <4>2
    <3>3. status \in Int
      BY StatusAssumption
    <3>4. ReturnCode(pid)' = WEXITSTATUS(status)
      BY <3>2, <3>3, ExitCodeSurvives DEF ReturnCode
    <3> QED BY <3>2, <3>4, ExitCodeSurvives DEF TruthfulStatuses
  <2>2. CASE ChildKilled(pid)
    <3>1. /\ \E signal \in KillSignals : waitStatus'[pid] = signal
          /\ commandOk'[t] = FALSE
      BY <1>2, <2>2 DEF ChildKilled
    <3>2. ReturnCode(pid)' = -1
      BY <3>1, ExitCodeSurvives DEF ReturnCode
    <3> QED BY <3>1, <3>2
  <2> QED BY <2>1, <2>2 DEF ChildEnds
<1> HIDE DEF t
<1>5. \A p \in zombies : p \in Pids /\ p # pid /\ child[p] # t /\ child[p] \in TaskId
  BY <1>1, <1>2 DEF EngineInv, TypeOK, Children
<1>6. \A p \in zombies : ReturnCode(p)' = ReturnCode(p)
  BY <1>3, <1>5 DEF ReturnCode
<1>7. StatusesTell'
  <2>1. \A s \in TaskId : commandOk'[s] =>
          taskState'[s] = "completed" \/
            \E p \in zombies' : child'[p] = s /\ ReturnCode(p)' = 0
    BY <1>1, <1>3, <1>4, <1>6 DEF VerdictsTell, StatusesTell, t
  <2>2. TruthfulStatuses => \A p \in zombies' : ReturnCode(p)' = 0 => commandOk'[child'[p]]
    BY <1>1, <1>3, <1>4, <1>5, <1>6 DEF VerdictsTell, StatusesTell, t
  <2> QED BY <2>1, <2>2 DEF StatusesTell
<1>8. CompletedFine => CompletedFine'
  BY <1>2, <1>3 DEF CompletedFine
<1> QED BY <1>3, <1>7, <1>8 DEF VerdictsTell

\* Starting a task, or failing to: the task has not succeeded so far.
LEMMA StartTells ==
  ASSUME EngineInv, VerdictsTell, NEW t \in validTasks,
         taskState[t] \in {"waiting", "running"}, ~ commandOk[t],
         NEW free, NEW procs \in [ Pids -> TaskId \cup {0} ],
         Fork(t, free, procs) \/ ForkFails(t, free, procs),
         zombies' \subseteq zombies,
         \A p \in zombies : p \in zombies' \/ child[p] = t,
         \A p \in zombies' : procs[p] = child[p] /\ waitStatus'[p] = waitStatus[p],
         \A s \in TaskId \ {t} : retries'[s] = retries[s],
         UNCHANGED commandOk
  PROVE  VerdictsTell'
<1>1. /\ zombies \subseteq Children /\ t \in TaskId
      /\ taskState \in [ TaskId -> TaskStates ]
      /\ \A p \in zombies : p \in Pids /\ child[p] # 0 /\ child[p] \in TaskId
  BY DEF EngineInv, TypeOK, SchedTypeOK, Children
<1>2. /\ \A s \in TaskId \ {t} : taskState'[s] = taskState[s]
      /\ taskState'[t] = "running" \/ (taskState'[t] = "failed" /\ ForkMayFail)
  BY <1>1 DEF Fork, ForkFails
<1>3. \A p \in zombies' : child'[p] = child[p] /\ ReturnCode(p)' = ReturnCode(p)
  <2>1. \A p \in zombies' : child'[p] = procs[p]
    BY <1>1 DEF Fork, ForkFails
  <2> QED BY <2>1 DEF ReturnCode
<1>4. StatusesTell'
  <2>1. ASSUME NEW s \in TaskId, commandOk[s]
        PROVE  taskState'[s] = "completed" \/
                 \E p \in zombies' : child'[p] = s /\ ReturnCode(p)' = 0
    <3>1. s # t
      BY <2>1
    <3> QED BY <1>2, <1>3, <2>1, <3>1 DEF VerdictsTell, StatusesTell
  <2>2. TruthfulStatuses => \A p \in zombies' : ReturnCode(p)' = 0 => commandOk[child'[p]]
    BY <1>3 DEF VerdictsTell, StatusesTell
  <2> QED BY <2>1, <2>2 DEF StatusesTell
<1>5. CompletedFine => CompletedFine'
  BY <1>1, <1>2 DEF CompletedFine
<1>6. ~ ForkMayFail => \A s \in TaskId : taskState'[s] = "failed" => retries'[s] = MaxRetries
  BY <1>1, <1>2 DEF VerdictsTell
<1> QED BY <1>4, <1>5, <1>6 DEF VerdictsTell

\* The end of a task: its command succeeded or not as wait() reported.
LEMMA ReapTells ==
  ASSUME EngineInv, VerdictsTell, MustWait, NEW pid \in zombies,
         EpilogueSuccess(pid) \/ EpilogueFailure(pid) \/ EpilogueRetry(pid),
         zombies' = zombies \ {pid},
         waitStatus' = [ waitStatus EXCEPT ![pid] = 0 ],
         UNCHANGED << pc, validTasks, revDepMap, commandOk >>
  PROVE  VerdictsTell'
<1> DEFINE t == TaskOf(pid)
<1>1. /\ SchedTypeOK /\ TablesAgree
      /\ t \in validTasks /\ t \in TaskId /\ taskState[t] = "running" /\ t = child[pid]
      /\ \A p \in zombies : p \in Pids /\ child[p] \in TaskId /\ (p # pid => child[p] # t)
      /\ Reaped(pid) \in [ Pids -> TaskId \cup {0} ]
      /\ \A p \in Pids : Reaped(pid)[p] = IF p = pid THEN 0 ELSE child[p]
      /\ retries \in [ TaskId -> 0..MaxRetries ]
  BY ReapedChild DEF EngineInv, TypeOK, SchedTypeOK, ChildrenInOrder, Children
<1>2. /\ commandOk[t] => ReturnCode(pid) = 0
      /\ TruthfulStatuses /\ ReturnCode(pid) = 0 => commandOk[t]
  BY <1>1 DEF VerdictsTell, StatusesTell
<1>3. \A p \in zombies' : p \in zombies /\ p # pid /\ waitStatus'[p] = waitStatus[p]
  BY <1>1 DEF EngineInv, TypeOK
<1>4. CASE EpilogueRetry(pid)
  <2>1. /\ ~ commandOk[t]
        /\ Fork(t, Freed(pid), Reaped(pid)) \/ ForkFails(t, Freed(pid), Reaped(pid))
        /\ retries' = [ retries EXCEPT ![t] = @ + 1 ]
    BY <1>2, <1>4 DEF EpilogueRetry
  <2>2. \A p \in zombies' : Reaped(pid)[p] = child[p]
    BY <1>1, <1>3
  <2>3. \A s \in TaskId \ {t} : retries'[s] = retries[s]
    BY <1>1, <2>1
  <2>4. \A p \in zombies : p \in zombies' \/ child[p] = t
    BY <1>1
  <2> HIDE DEF t
  <2> QED BY <1>1, <1>3, <2>1, <2>2, <2>3, <2>4, StartTells
<1>5. CASE EpilogueSuccess(pid) \/ EpilogueFailure(pid)
  <2>1. /\ child' = Reaped(pid)
        /\ retries' = retries
        /\ \/ ReturnCode(pid) = 0 /\ Complete(t)
           \/ ReturnCode(pid) # 0 /\ retries[t] = MaxRetries /\ Fail(t)
    <3>1. ~ CanRetry(t) => retries[t] = MaxRetries
      BY <1>1, MaxRetriesAssumption DEF CanRetry
    <3> QED BY <1>5, <3>1 DEF EpilogueSuccess, EpilogueFailure
  <2>2. /\ \A s \in TaskId \ {t} :
             \/ taskState'[s] = taskState[s]
             \/ /\ taskState[s] \in {"blocked", "invalid"}
                /\ taskState'[s] \in {"waiting", "cancelled"}
        /\ ReturnCode(pid) = 0 => taskState'[t] = "completed"
        /\ ReturnCode(pid) # 0 => taskState'[t] = "failed" /\ retries[t] = MaxRetries
    BY <1>1, <2>1, SettleElsewhere
  <2> HIDE DEF t
  <2>3. \A p \in zombies' : child'[p] = child[p] /\ child[p] # t /\ ReturnCode(p)' = ReturnCode(p)
    BY <1>1, <1>3, <2>1 DEF ReturnCode
  <2>4. StatusesTell'
    <3>1. ASSUME NEW s \in TaskId, commandOk[s]
          PROVE  taskState'[s] = "completed" \/
                   \E p \in zombies' : child'[p] = s /\ ReturnCode(p)' = 0
      <4>1. CASE s = t
        BY <1>2, <2>2, <3>1, <4>1
      <4>2. CASE s # t
        <5>1. CASE taskState[s] = "completed"
          BY <2>2, <4>2, <5>1
        <5>2. ASSUME NEW p \in zombies, child[p] = s, ReturnCode(p) = 0
              PROVE  p \in zombies' /\ child'[p] = s /\ ReturnCode(p)' = 0
          BY <1>1, <2>3, <4>2, <5>2
        <5> QED BY <3>1, <5>1, <5>2 DEF VerdictsTell, StatusesTell
      <4> QED BY <4>1, <4>2
    <3>2. TruthfulStatuses =>
            \A p \in zombies' : ReturnCode(p)' = 0 => commandOk[child'[p]]
      BY <1>3, <2>3 DEF VerdictsTell, StatusesTell
    <3> QED BY <3>1, <3>2 DEF StatusesTell
  <2>5. TruthfulStatuses => CompletedFine'
    BY <1>2, <2>2 DEF VerdictsTell, CompletedFine
  <2>6. ~ ForkMayFail => \A s \in TaskId : taskState'[s] = "failed" => retries'[s] = MaxRetries
    BY <2>1, <2>2 DEF VerdictsTell
  <2> QED BY <2>4, <2>5, <2>6 DEF VerdictsTell
<1> QED BY <1>4, <1>5

\* What wait() reports of a child, and taskEpilogue makes of it, goes back to the
\* status system() had for the command (executeTask), whatever fork() does.
THEOREM VerdictInvariant == Spec => []VerdictInv
<1>1. VerdictInv <=> EngineInv /\ VerdictsTell
  BY DEF VerdictInv, VerdictsTell
<1>2. Init => VerdictsTell
  <2> SUFFICES ASSUME Init PROVE VerdictsTell
    OBVIOUS
  <2>1. /\ zombies = {} /\ \A t \in TaskId : ~ commandOk[t]
    BY DEF Init
  <2>2. PICK file \in Files : Load(file)
    BY DEF Init, SchedInit, TableInit
  <2>3. \A t \in TaskId : taskState[t] \notin {"completed", "failed"}
    BY <2>2, FilesAssumption DEF Load, ParsedTask
  <2> QED BY <2>1, <2>3 DEF VerdictsTell, StatusesTell, CompletedFine
<1>3. EngineInv /\ EngineInv' /\ VerdictsTell /\ [Next]_vars => VerdictsTell'
  <2> SUFFICES ASSUME EngineInv, VerdictsTell, [Next]_vars PROVE VerdictsTell'
    OBVIOUS
  <2>1. CASE (FillQueue \/ LeaveLoop \/ Return \/ WaitWithoutChild \/ UNCHANGED vars)
             /\ UNCHANGED engineVars
    <3>1. UNCHANGED << taskState, retries, child, zombies, waitStatus, commandOk >>
      BY <2>1 DEF FillQueue, LeaveLoop, Return, WaitWithoutChild, vars, schedVars, engineVars
    <3> QED BY <3>1 DEF VerdictsTell, StatusesTell, CompletedFine, ReturnCode
  <2>2. CASE Allocate
    <3> DEFINE t == Head(taskQueue)
    <3>1. t \in Range(taskQueue)
      BY <2>2, PopHead DEF Allocate, MustAllocate, EngineInv, TypeOK, SchedTypeOK,
         TablesAgree, QueueOfWaiting
    <3>2. t \in validTasks /\ taskState[t] = "waiting" /\ t \in TaskId
      BY <3>1 DEF EngineInv, TypeOK, SchedTypeOK, TablesAgree, QueueOfWaiting
    <3>3. /\ Fork(t, freeWorkers, child) \/ ForkFails(t, freeWorkers, child)
          /\ UNCHANGED << retries, zombies, waitStatus, commandOk >>
      BY <2>2 DEF Allocate
    <3> HIDE DEF t
    <3>4. ~ commandOk[t]
      BY <3>2 DEF VerdictsTell, StatusesTell, EngineInv, TypeOK, ChildrenInOrder
    <3> QED BY <3>2, <3>3, <3>4, StartTells DEF EngineInv, TypeOK
  <2>3. CASE WaitForAnyWorker
    BY <2>3, ReapTells DEF WaitForAnyWorker
  <2>4. ASSUME NEW pid \in Pids, ChildEnds(pid) PROVE VerdictsTell'
    BY <2>4, ChildEndsTells
  <2> QED BY <2>1, <2>2, <2>3, <2>4 DEF Next, Master, Stopped, WaitWithoutChild, vars
<1> QED BY <1>1, <1>2, <1>3, EngineInvariant, PTL DEF Spec

\* Where fork() does not fail and no command dies of a signal, a completed task is
\* one whose command succeeded, and a failed one failed on its last run, after
\* every retry it was entitled to.
THEOREM VerdictsAreTrue ==
  ASSUME ~ ForkMayFail, TruthfulStatuses
  PROVE  Spec => []VerdictOfCommand
<1>1. VerdictInv => VerdictOfCommand
  <2> SUFFICES ASSUME VerdictInv PROVE VerdictOfCommand
    OBVIOUS
  <2>1. ASSUME NEW t \in TaskId, taskState[t] = "failed" PROVE ~ commandOk[t]
    BY <2>1 DEF VerdictInv, StatusesTell, EngineInv, TypeOK, ChildrenInOrder
  <2> QED BY <2>1 DEF VerdictInv, VerdictOfCommand
<1> QED BY <1>1, VerdictInvariant, PTL
-------------------------------------------------------------------------------
(* WorkInv is an inductive invariant: nothing the master has to come back  *)
(* to is lost from its tables.  From it follow the accounting of workers,  *)
(* that no task is left behind, how far a cancellation reaches, when the   *)
(* master may wait for a child that does not exist, and that the engine    *)
(* implements Workflow.                                                    *)

-------------------------------------------------------------------------------
(* The queue of free workers                                               *)

\* Without a child every worker is free.
LEMMA NoChildAllFree ==
  ASSUME EngineInv, EveryoneKnown, Children = {}
  PROVE  Len(freeWorkers) = NWorkers /\ Range(freeWorkers) = Workers
<1>1. freeWorkers \in Seq(Workers) /\ IsInjective(freeWorkers)
  BY DEF EngineInv, TypeOK, SchedTypeOK, ChildrenInOrder
<1>2. Range(freeWorkers) \subseteq Workers
  BY <1>1 DEF Range
<1>3. Workers \subseteq Range(freeWorkers)
  BY DEF EveryoneKnown
<1> QED BY <1>1, <1>2, <1>3, AllWorkersFree

\* With every worker free there is no child.
LEMMA AllFreeNoChild ==
  ASSUME EngineInv, Len(freeWorkers) = NWorkers
  PROVE  Children = {}
<1>1. freeWorkers \in Seq(Workers) /\ IsInjective(freeWorkers)
  BY DEF EngineInv, TypeOK, SchedTypeOK, ChildrenInOrder
<1>2. Range(freeWorkers) = Workers
  BY <1>1, AllWorkersFree
<1> QED BY <1>2 DEF EngineInv, ChildrenInOrder

-------------------------------------------------------------------------------
(* allocate                                                                *)

\* allocate loses no worker and no running task but the one it is called for,
\* which is running in a child of its own or has failed.
LEMMA AllocateKeepsPlaces ==
  ASSUME SchedTypeOK,
         pidToWorker \in [ Pids -> Workers \cup {0} ],
         NEW t \in TaskId,
         NEW free \in Seq(Workers), free # << >>, IsInjective(free),
         NEW procs \in [ Pids -> TaskId \cup {0} ],
         \A w \in Workers :
           w \in Range(free) \/ \E p \in Pids : procs[p] # 0 /\ WorkerOf(p) = w,
         \A s \in validTasks \ {t} :
           taskState[s] = "running" => \E p \in Pids : procs[p] = s,
         Fork(t, free, procs) \/ ForkFails(t, free, procs),
         UNCHANGED validTasks
  PROVE  /\ \A w \in Workers :
              w \in Range(freeWorkers') \/ \E p \in Children' : WorkerOf(p)' = w
         /\ \A s \in validTasks :
              taskState'[s] = "running" => \E p \in Children' : child'[p] = s
         /\ \A s \in TaskId \ {t} : taskState'[s] = taskState[s]
         /\ taskState'[t] = "running" \/ (taskState'[t] = "failed" /\ ForkMayFail)
<1> DEFINE w == Head(free)
<1>1. /\ w \in Workers
      /\ Tail(free) \in Seq(Workers)
      /\ IsInjective(Tail(free))
      /\ Range(Tail(free)) = Range(free) \ {w}
  BY PopHead
<1>2. 0 \notin TaskId /\ t # 0 /\ validTasks \subseteq TaskId
      /\ taskState \in [ TaskId -> TaskStates ]
  BY TaskIdAssumption DEF SchedTypeOK
<1> HIDE DEF w
<1>3. CASE Fork(t, free, procs)
  <2>1. PICK pid \in Pids :
          /\ procs[pid] = 0
          /\ child' = [ procs EXCEPT ![pid] = t ]
          /\ pidToWorker' = [ pidToWorker EXCEPT ![pid] = w ]
          /\ taskState' = [ taskState EXCEPT ![t] = "running" ]
          /\ freeWorkers' = Tail(free)
    BY <1>3 DEF Fork, w
  <2>2. \A p \in Pids :
          /\ child'[p] = IF p = pid THEN t ELSE procs[p]
          /\ WorkerOf(p)' = IF p = pid THEN w ELSE WorkerOf(p)
    BY <2>1 DEF WorkerOf
  <2>3. \A p \in Pids : procs[p] # 0 => p # pid /\ p \in Children'
    BY <2>1, <2>2 DEF Children
  <2>4. pid \in Children'
    BY <1>2, <2>2 DEF Children
  <2>5. \A x \in Workers : x \in Range(freeWorkers') \/ \E p \in Children' : WorkerOf(p)' = x
    BY <1>1, <2>1, <2>2, <2>3, <2>4
  <2>6. \A s \in TaskId : taskState'[s] = IF s = t THEN "running" ELSE taskState[s]
    BY <1>2, <2>1
  <2>7. \A s \in validTasks : taskState'[s] = "running" => \E p \in Children' : child'[p] = s
    BY <1>2, <2>2, <2>3, <2>4, <2>6
  <2> QED BY <2>5, <2>6, <2>7
<1>4. CASE ForkFails(t, free, procs)
  <2>1. /\ ForkMayFail
        /\ child' = procs
        /\ pidToWorker' = pidToWorker
        /\ taskState' = [ taskState EXCEPT ![t] = "failed" ]
        /\ freeWorkers' = Append(Tail(free), w)
    BY <1>4 DEF ForkFails, w
  <2>2. \A p \in Pids : child'[p] = procs[p] /\ WorkerOf(p)' = WorkerOf(p)
    BY <2>1 DEF WorkerOf
  <2>3. Range(free) \subseteq Range(freeWorkers')
    <3> DEFINE rest == Tail(free)
    <3>1. rest \in Seq(Workers) /\ IsInjective(rest) /\ w \notin Range(rest)
          /\ Range(free) \subseteq Range(rest) \cup {w}
      BY <1>1
    <3> HIDE DEF rest
    <3>2. Range(Append(rest, w)) = Range(rest) \cup {w}
      BY <1>1, <3>1, PushFresh
    <3> QED BY <2>1, <3>1, <3>2 DEF rest
  <2>4. \A s \in TaskId : taskState'[s] = IF s = t THEN "failed" ELSE taskState[s]
    BY <1>2, <2>1
  <2>5. \A p \in Pids : procs[p] # 0 => p \in Children'
    BY <2>1 DEF Children
  <2>6. \A x \in Workers : x \in Range(freeWorkers') \/ \E p \in Children' : WorkerOf(p)' = x
    BY <2>2, <2>3, <2>5
  <2>7. \A s \in validTasks : taskState'[s] = "running" => \E p \in Children' : child'[p] = s
    <3> SUFFICES ASSUME NEW s \in validTasks, taskState'[s] = "running"
                 PROVE  \E p \in Children' : child'[p] = s
      OBVIOUS
    <3>1. s \in TaskId /\ s # 0 /\ s # t /\ taskState[s] = "running"
      BY <1>2, <2>4
    <3>2. PICK p \in Pids : procs[p] = s
      BY <3>1
    <3> QED BY <2>2, <2>5, <3>1, <3>2
  <2> QED BY <2>1, <2>4, <2>6, <2>7
<1> QED BY <1>3, <1>4

-------------------------------------------------------------------------------
(* WorkInv is inductive                                                    *)

\* The initial states satisfy it.
LEMMA InitWorkInv == Init => WorkInv
<1> SUFFICES ASSUME Init PROVE WorkInv
  OBVIOUS
<1>1. EngineInv
  BY InitEngineInv
<1>2. PICK file \in Files : Load(file)
  BY DEF Init, SchedInit, TableInit
<1>3. \A t \in TaskId : file[t].state \in {"waiting", "blocked", "invalid"}
  BY <1>2, FilesAssumption DEF ParsedTask
<1>4. \A t \in validTasks : /\ t \in TaskId
                            /\ taskState[t] = file[t].state
                            /\ dependencies[t] = file[t].deps
  BY <1>2 DEF Load
<1>5. Range(freeWorkers) = Workers
  BY DEF Init, SchedInit, Range
<1>6. EveryoneKnown
  BY <1>3, <1>4, <1>5 DEF Init, SchedInit, EveryoneKnown, QueuesComplete
<1>7. NobodyForgotten
  BY <1>2, <1>3, <1>4 DEF NobodyForgotten, LossSpreads, SoundFiles
<1> QED BY <1>1, <1>6, <1>7 DEF WorkInv

\* The steps of the master that touch neither the tasks nor the workers.
LEMMA ControlKeepsWork ==
  ASSUME WorkInv,
         ((FillQueue \/ LeaveLoop \/ Return) /\ UNCHANGED engineVars) \/ WaitWithoutChild
  PROVE  EveryoneKnown' /\ NobodyForgotten'
<1>1. UNCHANGED << child, pidToWorker, taskState, dependencies, validTasks, revDepMap,
                   freeWorkers >>
  BY DEF FillQueue, LeaveLoop, Return, WaitWithoutChild, engineVars
<1>2. NobodyForgotten'
  BY <1>1 DEF WorkInv, NobodyForgotten, LossSpreads
<1>3. /\ \A w \in Workers' : w \in Range(freeWorkers') \/ \E p \in Children' : WorkerOf(p)' = w
      /\ \A t \in validTasks' :
           taskState'[t] = "running" => \E p \in Children' : child'[p] = t
      /\ Children' = Children
  BY <1>1 DEF WorkInv, EveryoneKnown, Children, WorkerOf, Workers
<1>4. QueuesComplete' /\ (pc' = "done" => Children = {})
  <2>1. SchedTypeOK /\ QueuesComplete
    BY DEF WorkInv, EngineInv, TypeOK, EveryoneKnown
  <2>2. CASE FillQueue \/ LeaveLoop
    BY <2>1, <2>2, ControlKeepsQueues DEF FillQueue, LeaveLoop
  <2>3. CASE Return
    BY <2>1, <2>3, ControlKeepsQueues, AllFreeNoChild DEF WorkInv, Return
  <2>4. CASE WaitWithoutChild
    BY <2>4 DEF WaitWithoutChild, QueuesComplete
  <2> QED BY <2>2, <2>3, <2>4
<1> QED BY <1>2, <1>3, <1>4 DEF EveryoneKnown

\* Starting a ready task, or failing to, leaves nothing forgotten: only a task
\* whose fork() failed fails without its dependants.
LEMMA StartKeepsMemory ==
  ASSUME WorkInv, NEW t \in validTasks, taskState[t] \in {"waiting", "running"},
         \A s \in TaskId \ {t} : taskState'[s] = taskState[s],
         taskState'[t] = "running" \/ (taskState'[t] = "failed" /\ ForkMayFail),
         UNCHANGED << dependencies, validTasks, revDepMap >>
  PROVE  NobodyForgotten'
<1>1. SchedTypeOK /\ validTasks \subseteq TaskId
  BY DEF WorkInv, EngineInv, TypeOK, SchedTypeOK
<1>2. LossSpreads({"cancelled"})'
  BY <1>1, StartKeepsLoss DEF WorkInv, NobodyForgotten
<1>3. ~ ForkMayFail => LossSpreads({"failed"})'
  BY <1>1, StartKeepsLoss DEF WorkInv, NobodyForgotten
<1>4. \A s \in validTasks : taskState'[s] = "blocked" => taskState[s] = "blocked"
  BY <1>1
<1> QED BY <1>2, <1>3, <1>4 DEF WorkInv, NobodyForgotten

\* The allocation of the task at the head of the queue.
LEMMA AllocateKeepsWork ==
  ASSUME WorkInv, Allocate
  PROVE  EveryoneKnown' /\ NobodyForgotten'
<1> DEFINE t == Head(taskQueue)
<1>1. /\ SchedTypeOK /\ TablesAgree /\ ChildrenInOrder
      /\ pc = "schedule" /\ taskQueue # << >> /\ freeWorkers # << >>
      /\ pidToWorker \in [ Pids -> Workers \cup {0} ]
      /\ child \in [ Pids -> TaskId \cup {0} ]
      /\ freeWorkers \in Seq(Workers)
      /\ validTasks \subseteq TaskId
  BY DEF WorkInv, EngineInv, TypeOK, SchedTypeOK, Allocate, MustAllocate
<1>2. /\ t \in Range(taskQueue)
      /\ Range(Tail(taskQueue)) = Range(taskQueue) \ {t}
  BY <1>1, PopHead DEF SchedTypeOK, TablesAgree, QueueOfWaiting
<1>3. t \in validTasks /\ t \in TaskId /\ taskState[t] = "waiting"
  BY <1>1, <1>2 DEF TablesAgree, QueueOfWaiting
<1> HIDE DEF t
<1>4. /\ Fork(t, freeWorkers, child) \/ ForkFails(t, freeWorkers, child)
      /\ taskQueue' = Tail(taskQueue)
      /\ UNCHANGED << pc, dependencies, retries, validTasks, revDepMap, blockedTasks >>
  BY DEF Allocate, t
<1>5. /\ \A w \in Workers :
           w \in Range(freeWorkers) \/ \E p \in Pids : child[p] # 0 /\ WorkerOf(p) = w
      /\ \A s \in validTasks \ {t} :
           taskState[s] = "running" => \E p \in Pids : child[p] = s
      /\ IsInjective(freeWorkers)
  BY <1>1 DEF WorkInv, EveryoneKnown, Children, ChildrenInOrder
<1>6. /\ \A w \in Workers :
           w \in Range(freeWorkers') \/ \E p \in Children' : WorkerOf(p)' = w
      /\ \A s \in validTasks :
           taskState'[s] = "running" => \E p \in Children' : child'[p] = s
      /\ \A s \in TaskId \ {t} : taskState'[s] = taskState[s]
      /\ taskState'[t] = "running" \/ (taskState'[t] = "failed" /\ ForkMayFail)
  BY <1>1, <1>3, <1>4, <1>5, AllocateKeepsPlaces
<1>7. NobodyForgotten'
  BY <1>3, <1>4, <1>6, StartKeepsMemory
<1>8. QueuesComplete'
  <2>1. Range(taskQueue) \ {t} \subseteq Range(taskQueue')
    BY <1>2, <1>4
  <2>2. QueuesComplete /\ taskState'[t] \in {"running", "failed"}
    BY <1>6 DEF WorkInv, EveryoneKnown
  <2> QED BY <1>1, <1>3, <1>4, <1>6, <2>1, <2>2, StartKeepsQueues
<1> QED BY <1>1, <1>4, <1>6, <1>7, <1>8 DEF EveryoneKnown, Workers

\* Reaping a child takes its worker and its task, and no other, from the children.
LEMMA ReapedWorker ==
  ASSUME WorkInv, NEW pid \in zombies
  PROVE  /\ \A w \in Workers :
              w \in Range(Freed(pid)) \/ \E p \in Pids : Reaped(pid)[p] # 0 /\ WorkerOf(p) = w
         /\ \A s \in validTasks \ {TaskOf(pid)} :
              taskState[s] = "running" => \E p \in Pids : Reaped(pid)[p] = s
<1>1. /\ pid \in Children
      /\ WorkerOf(pid) \in Workers \ Range(freeWorkers)
      /\ freeWorkers \in Seq(Workers)
      /\ IsInjective(freeWorkers)
      /\ TaskOf(pid) = child[pid]
  BY DEF WorkInv, EngineInv, TypeOK, SchedTypeOK, ChildrenInOrder
<1>2. Range(Freed(pid)) = Range(freeWorkers) \cup {WorkerOf(pid)}
  BY <1>1, PushFresh DEF Freed
<1>3. \A p \in Pids : Reaped(pid)[p] = IF p = pid THEN 0 ELSE child[p]
  BY ReapedChild DEF WorkInv
<1>4. \A p \in Children \ {pid} : p \in Pids /\ Reaped(pid)[p] = child[p] /\ child[p] # 0
  BY <1>3 DEF Children
<1>5. \A w \in Workers :
        w \in Range(Freed(pid)) \/ \E p \in Pids : Reaped(pid)[p] # 0 /\ WorkerOf(p) = w
  BY <1>2, <1>4 DEF WorkInv, EveryoneKnown
<1>6. \A s \in validTasks \ {TaskOf(pid)} :
        taskState[s] = "running" => \E p \in Pids : Reaped(pid)[p] = s
  BY <1>1, <1>4 DEF WorkInv, EveryoneKnown
<1> QED BY <1>5, <1>6

\* The new run of a task that failed.
LEMMA RetryKeepsWork ==
  ASSUME WorkInv, MustWait, NEW pid \in zombies, EpilogueRetry(pid),
         UNCHANGED << pc, validTasks, revDepMap >>
  PROVE  EveryoneKnown' /\ NobodyForgotten'
<1> DEFINE t == TaskOf(pid)
<1>1. /\ SchedTypeOK /\ EngineInv
      /\ pidToWorker \in [ Pids -> Workers \cup {0} ]
      /\ validTasks \subseteq TaskId
      /\ pc \in {"schedule", "drain"}
  BY DEF WorkInv, EngineInv, TypeOK, SchedTypeOK, MustWait
<1>2. /\ t \in validTasks /\ t \in TaskId /\ taskState[t] = "running"
      /\ t = child[pid]
      /\ Freed(pid) \in Seq(Workers) /\ Freed(pid) # << >> /\ IsInjective(Freed(pid))
      /\ Reaped(pid) \in [ Pids -> TaskId \cup {0} ]
      /\ \A p \in Pids : Reaped(pid)[p] = IF p = pid THEN 0 ELSE child[p]
  BY <1>1, ReapedChild DEF OrderOf
<1>3. /\ Fork(t, Freed(pid), Reaped(pid)) \/ ForkFails(t, Freed(pid), Reaped(pid))
      /\ UNCHANGED << dependencies, blockedTasks, taskQueue >>
  BY DEF EpilogueRetry
<1> HIDE DEF t
<1>4. /\ \A w \in Workers :
           w \in Range(Freed(pid)) \/ \E p \in Pids : Reaped(pid)[p] # 0 /\ WorkerOf(p) = w
      /\ \A s \in validTasks \ {t} :
           taskState[s] = "running" => \E p \in Pids : Reaped(pid)[p] = s
  BY ReapedWorker DEF t
<1>5. /\ \A w \in Workers :
           w \in Range(freeWorkers') \/ \E p \in Children' : WorkerOf(p)' = w
      /\ \A s \in validTasks :
           taskState'[s] = "running" => \E p \in Children' : child'[p] = s
      /\ \A s \in TaskId \ {t} : taskState'[s] = taskState[s]
      /\ taskState'[t] = "running" \/ (taskState'[t] = "failed" /\ ForkMayFail)
  BY <1>1, <1>2, <1>3, <1>4, AllocateKeepsPlaces
<1>6. NobodyForgotten'
  BY <1>2, <1>3, <1>5, StartKeepsMemory
<1>7. QueuesComplete'
  <2>1. QueuesComplete /\ taskState'[t] \in {"running", "failed"}
    BY <1>5 DEF WorkInv, EveryoneKnown
  <2> QED BY <1>1, <1>2, <1>3, <1>5, <2>1, StartKeepsQueues
<1> QED BY <1>1, <1>5, <1>6, <1>7 DEF EveryoneKnown, Workers

\* The end of a task that is not run again.
LEMMA SettleKeepsWork ==
  ASSUME WorkInv, MustWait, NEW pid \in zombies,
         EpilogueSuccess(pid) \/ EpilogueFailure(pid),
         UNCHANGED << pc, validTasks, revDepMap >>
  PROVE  EveryoneKnown' /\ NobodyForgotten'
<1> DEFINE t == TaskOf(pid)
<1>1. /\ SchedTypeOK /\ TablesAgree /\ EngineInv
      /\ validTasks \subseteq TaskId
      /\ revDepMap \in [ TaskId -> SUBSET TaskId ]
      /\ pc \in {"schedule", "drain"}
  BY DEF WorkInv, EngineInv, TypeOK, SchedTypeOK, MustWait
<1>2. /\ pid \in Pids
      /\ t \in validTasks /\ t \in TaskId /\ taskState[t] = "running"
      /\ t = child[pid]
      /\ \A p \in Pids : Reaped(pid)[p] = IF p = pid THEN 0 ELSE child[p]
  BY <1>1, ReapedChild
<1>3. /\ freeWorkers' = Freed(pid)
      /\ child' = Reaped(pid)
      /\ UNCHANGED pidToWorker
      /\ Complete(t) \/ Fail(t)
  BY DEF EpilogueSuccess, EpilogueFailure
<1> HIDE DEF t
<1>4. /\ \A w \in Workers :
           w \in Range(freeWorkers') \/ \E p \in Children' : WorkerOf(p)' = w
      /\ \A s \in validTasks \ {t} :
           taskState[s] = "running" => \E p \in Children' : child'[p] = s
  <2>1. \A p \in Pids : Reaped(pid)[p] # 0 => p \in Children'
    BY <1>3 DEF Children
  <2>2. \A p \in Pids : WorkerOf(p)' = WorkerOf(p)
    BY <1>3 DEF WorkerOf
  <2>3. 0 \notin validTasks
    BY <1>1, TaskIdAssumption
  <2>4. /\ \A w \in Workers :
             w \in Range(Freed(pid)) \/ \E p \in Pids : Reaped(pid)[p] # 0 /\ WorkerOf(p) = w
        /\ \A s \in validTasks \ {t} :
             taskState[s] = "running" => \E p \in Pids : Reaped(pid)[p] = s
    BY ReapedWorker DEF t
  <2> QED BY <1>3, <2>1, <2>2, <2>3, <2>4
<1>5. /\ QueuesComplete'
      /\ \A s \in validTasks : taskState'[s] = "running" => taskState[s] = "running" /\ s # t
      /\ \A lost \in SUBSET {"failed", "cancelled"} :
           LossSpreads(lost) => LossSpreads(lost)'
  <2>1. QueuesComplete
    BY DEF WorkInv, EveryoneKnown
  <2> QED BY <1>1, <1>2, <1>3, <2>1, SettleKeepsQueues, SettleElsewhere
<1>6. \A s \in validTasks :
        taskState'[s] = "blocked" => taskState[s] = "blocked" /\
          (dependencies[s] # {} => dependencies'[s] # {})
  <2>1. CASE Complete(t)
    BY <1>1, <1>2, <2>1, CompleteReleases
  <2>2. CASE Fail(t)
    BY <1>1, <1>2, <2>2, FailCancels
  <2> QED BY <1>3, <2>1, <2>2
<1>7. NobodyForgotten'
  <2>1. /\ LossSpreads({"cancelled"})'
        /\ ~ ForkMayFail => LossSpreads({"failed"})'
    BY <1>5 DEF WorkInv, NobodyForgotten
  <2> QED BY <1>6, <2>1 DEF WorkInv, NobodyForgotten
<1> QED BY <1>1, <1>4, <1>5, <1>7 DEF EveryoneKnown, Workers

\* The end of a child changes neither the tasks nor the workers the master knows.
LEMMA QuietKeepsWork ==
  ASSUME WorkInv, UNCHANGED << schedVars, child, pidToWorker >>
  PROVE  EveryoneKnown' /\ NobodyForgotten'
<1>1. UNCHANGED << pc, taskState, dependencies, validTasks, revDepMap, freeWorkers,
                   taskQueue, blockedTasks, child, pidToWorker >>
  BY DEF schedVars
<1>2. EveryoneKnown'
  BY <1>1 DEF WorkInv, EveryoneKnown, QueuesComplete, Children, WorkerOf, Workers
<1>3. NobodyForgotten'
  BY <1>1 DEF WorkInv, NobodyForgotten, LossSpreads
<1> QED BY <1>2, <1>3

\* No handler of the master, and no end of a child, loses any work that is left.
LEMMA StepKeepsWork ==
  ASSUME WorkInv, [Next]_vars
  PROVE  WorkInv'
<1> SUFFICES EveryoneKnown' /\ NobodyForgotten'
  BY StepKeepsEngine DEF WorkInv
<1>1. CASE ((FillQueue \/ LeaveLoop \/ Return) /\ UNCHANGED engineVars) \/ WaitWithoutChild
  BY <1>1, ControlKeepsWork
<1>2. CASE Allocate
  BY <1>2, AllocateKeepsWork
<1>3. CASE WaitForAnyWorker
  <2>1. PICK pid \in zombies : \/ EpilogueSuccess(pid)
                               \/ EpilogueFailure(pid)
                               \/ EpilogueRetry(pid)
    BY <1>3 DEF WaitForAnyWorker
  <2>2. MustWait /\ UNCHANGED << pc, validTasks, revDepMap >>
    BY <1>3 DEF WaitForAnyWorker
  <2>3. CASE EpilogueSuccess(pid) \/ EpilogueFailure(pid)
    BY <2>1, <2>2, <2>3, SettleKeepsWork
  <2>4. CASE EpilogueRetry(pid)
    BY <2>1, <2>2, <2>4, RetryKeepsWork
  <2> QED BY <2>1, <2>3, <2>4
<1>4. ASSUME NEW pid \in Pids, ChildEnds(pid) PROVE EveryoneKnown' /\ NobodyForgotten'
  BY <1>4, QuietKeepsWork DEF ChildEnds, CommandReturns, ChildKilled
<1>5. CASE UNCHANGED vars
  BY <1>5, QuietKeepsWork DEF vars, engineVars
<1> QED BY <1>1, <1>2, <1>3, <1>4, <1>5 DEF Next, Master, Stopped

\* taskQueue, blockedTasks, freeWorkers and the children hold all the work that is
\* left, and updateDependencies has told every dependant of a failure.
THEOREM WorkInvariant == Spec => []WorkInv
<1>1. WorkInv /\ [Next]_vars => WorkInv'
  BY StepKeepsWork
<1> QED BY <1>1, InitWorkInv, PTL DEF Spec

-------------------------------------------------------------------------------
(* What follows                                                            *)

\* A worker is free exactly when it has no child, a task is running exactly when
\* one child runs it, and pidToWorker and taskAssignation lead from the child
\* back to both, however process ids and workers are reused.
THEOREM WorkersAccountedFor == Spec => []WorkerAccounting
<1>1. WorkInv => WorkerAccounting
  <2> SUFFICES ASSUME WorkInv PROVE WorkerAccounting
    OBVIOUS
  <2>1. /\ ChildrenInOrder
        /\ freeWorkers \in Seq(Workers)
        /\ validTasks \subseteq TaskId
        /\ TablesAgree
    BY DEF WorkInv, EngineInv, TypeOK, SchedTypeOK
  <2>2. Range(freeWorkers) = Workers \ { WorkerOf(p) : p \in Children }
    <3>1. Range(freeWorkers) \subseteq Workers
      BY <2>1 DEF Range
    <3>2. \A p \in Children : WorkerOf(p) \notin Range(freeWorkers)
      BY <2>1 DEF ChildrenInOrder
    <3> QED BY <3>1, <3>2 DEF WorkInv, EveryoneKnown
  <2>3. ASSUME NEW t \in TaskId
        PROVE  (taskState[t] = "running") <=> (\E p \in Children : child[p] = t)
    <3>1. taskState[t] = "running" => t \in validTasks
      BY <2>1 DEF TablesAgree, DroppedStaysOut
    <3> QED BY <2>1, <3>1 DEF WorkInv, EveryoneKnown, ChildrenInOrder
  <2> QED BY <2>1, <2>2, <2>3 DEF WorkerAccounting, ChildrenInOrder
<1> QED BY <1>1, WorkInvariant, PTL

\* A task without a verdict is where the master will look for it, and when
\* runScheduler returns every task it has kept has one.
THEOREM NoTaskLeftBehind == Spec => []NothingLeftBehind
<1>1. WorkInv => NothingLeftBehind
  <2> SUFFICES ASSUME WorkInv, pc \in {"schedule", "drain", "done"}
               PROVE  /\ IsInjective(taskQueue)
                      /\ Range(taskQueue) = { t \in validTasks : taskState[t] = "waiting" }
                      /\ blockedTasks = { t \in validTasks : taskState[t] = "blocked" }
                      /\ pc = "done" => \A t \in validTasks : taskState[t] \in FinalStates
    BY DEF NothingLeftBehind
  <2>1. /\ IsInjective(taskQueue)
        /\ Range(taskQueue) = { t \in validTasks : taskState[t] = "waiting" }
        /\ blockedTasks = { t \in validTasks : taskState[t] = "blocked" }
    BY DEF WorkInv, EngineInv, TablesAgree, QueueOfWaiting, EveryoneKnown, QueuesComplete
  <2>2. ASSUME pc = "done", NEW t \in validTasks PROVE taskState[t] \in FinalStates
    <3>1. taskState[t] \in TaskStates /\ taskState[t] # "invalid"
      BY DEF WorkInv, EngineInv, TypeOK, SchedTypeOK, TablesAgree, ReadyHasNoDependencies
    <3>2. taskState[t] # "waiting" /\ taskState[t] # "blocked"
      BY <2>1, <2>2 DEF WorkInv, EveryoneKnown, QueuesComplete, Range
    <3>3. taskState[t] # "running"
      BY <2>2 DEF WorkInv, EveryoneKnown
    <3> QED BY <3>1, <3>2, <3>3 DEF TaskStates, FinalStates
  <2> QED BY <2>1, <2>2
<1> QED BY <1>1, WorkInvariant, PTL

\* Where fork() does not fail, the tasks that are cancelled are exactly those that
\* depend on a task that failed or was cancelled.
THEOREM CancellationIsExact ==
  ASSUME ~ ForkMayFail
  PROVE  Spec => []CancelledWithAncestor
<1>1. WorkInv => CancelledWithAncestor
  BY DEF WorkInv, EngineInv, TypeOK, SchedTypeOK, TablesAgree, CancelledByParent,
     NobodyForgotten, LossSpreads, CancelledWithAncestor, Parents
<1> QED BY <1>1, WorkInvariant, PTL

\* Among some tasks there is a first one in the file.
LEMMA FirstOf ==
  ASSUME NEW S \in SUBSET TaskId, S # {}
  PROVE  \E first \in S : \A t \in S : ~ (t < first)
<1> DEFINE n == Cardinality(S)
           order == Ascending(S)
<1>1. S \in SUBSET Nat /\ IsFiniteSet(S) /\ n \in Nat /\ n # 0
  BY TaskIdAssumption, FS_Subset, FS_CardinalityType, FS_EmptySet
<1>2. order \in Bijection(1..n, S) /\ \A i, j \in 1..n : i < j => order[i] < order[j]
  BY <1>1, AscendingExists
<1>3. /\ \A i \in 1..n : order[i] \in S /\ order[i] \in Nat
      /\ \A t \in S : \E i \in 1..n : order[i] = t
  BY <1>1, <1>2 DEF Bijection, Injection, Surjection
<1> HIDE DEF n, order
<1>4. 1 \in 1..n /\ \A i \in 1..n : i = 1 \/ 1 < i
  BY <1>1
<1>5. \A i \in 1..n : ~ (order[i] < order[1])
  BY <1>2, <1>3, <1>4
<1> QED BY <1>3, <1>4, <1>5

\* When the master is about to wait without a child, only blocked tasks are left.
LEMMA BlindWaitState ==
  ASSUME WorkInv, MustWait, Children = {}
  PROVE  /\ pc = "schedule" /\ taskQueue = << >> /\ blockedTasks # {}
         /\ \A t \in validTasks :
              taskState[t] \in {"completed", "failed", "cancelled"} \/ t \in blockedTasks
<1>1. Len(freeWorkers) = NWorkers /\ Range(freeWorkers) = Workers
  BY NoChildAllFree DEF WorkInv
<1>2. freeWorkers # << >>
  BY <1>1, NWorkersAssumption
<1>3. pc = "schedule" /\ taskQueue = << >> /\ blockedTasks # {}
  BY <1>1, <1>2 DEF MustWait
<1>4. ASSUME NEW t \in validTasks
      PROVE  taskState[t] \in {"completed", "failed", "cancelled"} \/ t \in blockedTasks
  <2>1. taskState[t] \in TaskStates /\ taskState[t] # "invalid"
    BY DEF WorkInv, EngineInv, TypeOK, SchedTypeOK, TablesAgree, ReadyHasNoDependencies
  <2>2. taskState[t] # "waiting"
    BY <1>3 DEF WorkInv, EveryoneKnown, QueuesComplete, Range
  <2>3. taskState[t] # "running"
    BY DEF WorkInv, EveryoneKnown
  <2>4. taskState[t] = "blocked" => t \in blockedTasks
    BY <1>3 DEF WorkInv, EveryoneKnown, QueuesComplete
  <2> QED BY <2>1, <2>2, <2>3, <2>4 DEF TaskStates
<1> QED BY <1>3, <1>4

\* A blocked task still waits for a parent that is blocked too, or that failed
\* when fork() did, unless it waits for nothing at all.
LEMMA WhyBlocked ==
  ASSUME WorkInv, MustWait, Children = {}, NEW t \in blockedTasks, dependencies[t] # {}
  PROVE  \E p \in Parents(t) :
           /\ p < t
           /\ p \in blockedTasks \/ (taskState[p] = "failed" /\ ForkMayFail)
<1>1. pc = "schedule" /\ t \in validTasks /\ t \in TaskId /\ taskState[t] = "blocked"
  BY BlindWaitState DEF WorkInv, EngineInv, TypeOK, SchedTypeOK, EveryoneKnown, QueuesComplete
<1>2. PICK p \in Parents(t) : taskState[p] # "completed"
  BY <1>1 DEF WorkInv, EngineInv, TablesAgree, DependenciesLeft
<1>3. p \in validTasks /\ t \in revDepMap[p] /\ p \in TaskId /\ p < t
  BY <1>2 DEF Parents, WorkInv, EngineInv, TypeOK, SchedTypeOK, TablesAgree, BackwardOnly
<1>4. taskState[p] # "cancelled" /\ (taskState[p] = "failed" => ForkMayFail)
  BY <1>1, <1>3 DEF WorkInv, NobodyForgotten, LossSpreads
<1> QED BY <1>2, <1>3, <1>4, BlindWaitState

\* waitForAnyWorker is called without a child only for a task blocked on nothing or
\* one that waits for a task whose fork() failed.
THEOREM BlindWaitHasCause == Spec => []BlindWaitExplained
<1>1. WorkInv => BlindWaitExplained
  BY BlindWaitState, WhyBlocked DEF BlindWaitExplained
<1> QED BY <1>1, WorkInvariant, PTL

\* Where fork() does not fail and no task is blocked on nothing, the master never
\* waits without a child: of the blocked tasks, the first in the file waits for a
\* task that is not blocked, and so is running or about to be.
THEOREM MasterNeverWaitsBlind ==
  ASSUME ~ ForkMayFail, SoundFiles
  PROVE  Spec => []NoBlindWait
<1>1. WorkInv => NoBlindWait
  <2> SUFFICES ASSUME WorkInv, MustWait, Children = {} PROVE FALSE
    BY DEF NoBlindWait
  <2>1. blockedTasks # {} /\ pc = "schedule"
    BY BlindWaitState
  <2>2. blockedTasks \in SUBSET TaskId
    BY DEF WorkInv, EngineInv, TypeOK, SchedTypeOK
  <2>3. PICK first \in blockedTasks : \A t \in blockedTasks : ~ (t < first)
    BY <2>1, <2>2, FirstOf
  <2>4. dependencies[first] # {}
    BY <2>1 DEF WorkInv, EveryoneKnown, QueuesComplete, NobodyForgotten
  <2>5. PICK p \in Parents(first) : p < first /\ p \in blockedTasks
    BY <2>4, WhyBlocked
  <2> QED BY <2>3, <2>5
<1> QED BY <1>1, WorkInvariant, PTL

-------------------------------------------------------------------------------
(* BasicEngine implements Workflow                                         *)

\* A step of the engine is a step of the workflow, or none the user can see.
LEMMA StepImplements ==
  ASSUME ~ ForkMayFail, WorkInv, WorkInv', [Next]_vars
  PROVE  [Promise!Next]_(Promise!wfVars)
<1>0. /\ SchedTypeOK /\ TablesAgree /\ SchedTypeOK' /\ TablesAgree'
      /\ LossSpreads({"failed", "cancelled"})'
  BY DEF WorkInv, EngineInv, TypeOK, NobodyForgotten, LossSpreads
<1>1. CASE Allocate
  <2> DEFINE t == Head(taskQueue)
  <2>1. t \in Range(taskQueue)
    BY <1>1, PopHead DEF Allocate, MustAllocate, WorkInv, EngineInv, TypeOK, SchedTypeOK,
       TablesAgree, QueueOfWaiting
  <2>2. t \in validTasks /\ taskState[t] = "waiting"
    BY <2>1 DEF WorkInv, EngineInv, TablesAgree, QueueOfWaiting
  <2>3. /\ taskState' = [ taskState EXCEPT ![t] = "running" ]
        /\ UNCHANGED << validTasks, revDepMap >>
    BY <1>1 DEF Allocate, Fork, ForkFails
  <2> HIDE DEF t
  <2>4. Promise!Start(t) /\ t \in TaskId
    BY <2>2, <2>3, <1>0, StartStep, StatusOfValid DEF StatusesMean
  <2> QED BY <2>4 DEF Promise!Next
<1>2. CASE WaitForAnyWorker
  <2>1. PICK pid \in zombies : \/ EpilogueSuccess(pid)
                               \/ EpilogueFailure(pid)
                               \/ EpilogueRetry(pid)
    BY <1>2 DEF WaitForAnyWorker
  <2>2. UNCHANGED << validTasks, revDepMap >>
    BY <1>2 DEF WaitForAnyWorker
  <2>3. TaskOf(pid) \in validTasks /\ TaskOf(pid) \in TaskId
        /\ taskState[TaskOf(pid)] = "running"
    BY <1>0, ReapedChild, StatusOfValid DEF StatusesMean, WorkInv
  <2>4. CASE EpilogueSuccess(pid)
    <3>1. Promise!Finish(TaskOf(pid))
      BY <2>2, <2>3, <2>4, <1>0, FinishStep DEF EpilogueSuccess
    <3> QED BY <2>3, <3>1 DEF Promise!Next
  <2>5. CASE EpilogueFailure(pid)
    <3>1. Promise!Abandon(TaskOf(pid))
      BY <2>2, <2>3, <2>5, <1>0, AbandonStep DEF EpilogueFailure
    <3> QED BY <2>3, <3>1 DEF Promise!Next
  <2>6. CASE EpilogueRetry(pid)
    <3>1. taskState' = [ taskState EXCEPT ![TaskOf(pid)] = "running" ]
      BY <2>6 DEF EpilogueRetry, Fork, ForkFails
    <3>2. UNCHANGED Promise!wfVars
      BY <2>2, <2>3, <1>0, <3>1, RestartStep
    <3> QED BY <3>2
  <2> QED BY <2>1, <2>4, <2>5, <2>6
<1>3. CASE FillQueue \/ LeaveLoop \/ Return \/ WaitWithoutChild
  BY <1>3, UnseenStep DEF FillQueue, LeaveLoop, Return, WaitWithoutChild
<1>4. ASSUME NEW pid \in Pids, ChildEnds(pid) PROVE UNCHANGED Promise!wfVars
  BY <1>4, UnseenStep DEF ChildEnds, CommandReturns, ChildKilled, schedVars
<1>5. CASE UNCHANGED vars
  BY <1>5, UnseenStep DEF vars, schedVars
<1> QED BY <1>1, <1>2, <1>3, <1>4, <1>5 DEF Next, Master, Stopped

\* The initial states are initial states of the workflow.
LEMMA InitImplements == Init => Promise!Init
BY SchedInitImplements DEF Init

\* Where fork() does not fail, BasicEngine implements the abstract workflow, for
\* any number of tasks, workers, process ids and retries.
THEOREM EngineImplementsWorkflow ==
  ASSUME ~ ForkMayFail
  PROVE  Spec => ImplementsWorkflow
<1>1. WorkInv /\ WorkInv' /\ [Next]_vars => [Promise!Next]_(Promise!wfVars)
  BY StepImplements
<1> QED BY <1>1, InitImplements, WorkInvariant, PTL DEF Spec, ImplementsWorkflow, Promise!Spec
===============================================================================
