------------------------------ MODULE ThreadEngine ------------------------------
(***************************************************************************)
(* ThreadEngine (src/src/threadengine.cpp): the tasks are run by the       *)
(* threads of TBB.  parallel_do applies one function to every task that is *)
(* ready at the start and to every task the function itself adds; each     *)
(* thread carries out one application at a time, from the command to the   *)
(* update of the tasks that depend on it.                                  *)
(*                                                                         *)
(* The threads share the tasks without a lock, so a step is one access to  *)
(* what they share.  The race of two removals from one std::list is        *)
(* undefined; what is modelled is that of two removals at once either may  *)
(* be lost, and that the list can be read at any time.                     *)
(***************************************************************************)
EXTENDS TaskTable

CONSTANTS
  ThreadCounts,  \* values nworkers, the number of threads, may have
  SystemStatus   \* values system() can return for a command

\* AbstractEngine::init leaves the engine not ready without a worker.
ASSUME ThreadAssumption ==
  ThreadCounts \subseteq Nat \ {0} /\ IsFiniteSet(ThreadCounts) /\ SystemStatus \subseteq Int

VARIABLES
  nworkers,    \* nworkers
  returnCode,  \* taskMap[t]->returnCode
  started,     \* whether parallel_do has been called
  pool,        \* tasks of parallel_do nobody has taken yet: how often each is there
  where,       \* what each thread does next
  item,        \* the task each thread was given (NoTask: none)
  calls,       \* the calls of updateDependencies each thread is in, the last first
  copy,        \* the list of dependencies a thread removes an id from
  met          \* tasks that two threads were releasing at once

threadVars == << nworkers, returnCode, started, pool, where, item, calls, copy, met >>
vars == << tableVars, threadVars >>

Threads == UNION { 1..n : n \in ThreadCounts }

NoTask == 0

ThreadInit ==
  /\ nworkers \in ThreadCounts
  /\ returnCode = [ t \in TaskId |-> 0 ]
  /\ started = FALSE
  /\ pool = [ t \in TaskId |-> 0 ]
  /\ where = [ th \in Threads |-> "idle" ]
  /\ item = [ th \in Threads |-> NoTask ]
  /\ calls = [ th \in Threads |-> << >> ]
  /\ copy = [ th \in Threads |-> {} ]
  /\ met = {}

Init == TableInit /\ ThreadInit

-------------------------------------------------------------------------------
(* runScheduler                                                            *)

\* The waiting tasks are handed to parallel_do.
RunScheduler ==
  /\ ~ started
  /\ started' = TRUE
  /\ pool' = [ t \in TaskId |->
                 IF t \in validTasks /\ taskState[t] = "waiting" THEN 1 ELSE 0 ]
  /\ UNCHANGED << tableVars, nworkers, returnCode, where, item, calls, copy, met >>

\* feeder.add: parallel_do has one more task to do.
Feed(t) == pool' = [ pool EXCEPT ![t] = @ + 1 ]

GoTo(th, place) == where' = [ where EXCEPT ![th] = place ]

SetState(t, state) == taskState' = [ taskState EXCEPT ![t] = state ]

-------------------------------------------------------------------------------
(* The function applied to a task                                          *)

\* A thread takes a task, in any order, and starts its command.
Take(th) ==
  /\ th <= nworkers
  /\ where[th] = "idle"
  /\ \E t \in TaskId :
       /\ pool[t] > 0
       /\ pool' = [ pool EXCEPT ![t] = @ - 1 ]
       /\ item' = [ item EXCEPT ![th] = t ]
       /\ SetState(t, "running")
  /\ GoTo(th, "command")
  /\ UNCHANGED << dependencies, retries, returnCode, calls, copy >>

\* The command ends.
CommandEnds(th) ==
  /\ where[th] = "command"
  /\ \E status \in SystemStatus : returnCode' = [ returnCode EXCEPT ![item[th]] = status ]
  /\ GoTo(th, "epilogue")
  /\ UNCHANGED << taskState, dependencies, retries, pool, item, calls, copy >>

\* taskEpilogue of a task that failed and has a retry left ...
EpilogueRetry(th) ==
  /\ where[th] = "epilogue"
  /\ returnCode[item[th]] # 0
  /\ CanRetry(item[th])
  /\ GoTo(th, "retry")
  /\ UNCHANGED << taskState, dependencies, retries, returnCode, pool, item, calls, copy >>

\* ... it is handed to parallel_do again, and the thread looks for other work.
Retry(th) ==
  /\ where[th] = "retry"
  /\ retries' = [ retries EXCEPT ![item[th]] = @ + 1 ]
  /\ Feed(item[th])
  /\ item' = [ item EXCEPT ![th] = NoTask ]
  /\ GoTo(th, "idle")
  /\ UNCHANGED << taskState, dependencies, returnCode, calls, copy >>

\* taskEpilogue of any other task: the verdict.
EpilogueVerdict(th) ==
  /\ where[th] = "epilogue"
  /\ \/ returnCode[item[th]] = 0 /\ SetState(item[th], "completed")
     \/ /\ returnCode[item[th]] # 0
        /\ ~ CanRetry(item[th])
        /\ SetState(item[th], "failed")
  /\ GoTo(th, "call")
  /\ UNCHANGED << dependencies, retries, returnCode, pool, item, calls, copy >>

-------------------------------------------------------------------------------
(* updateDependencies, a loop over the dependants in increasing order      *)

\* The dependant the last call of the thread has come to.
Dependant(th) == NextOf(calls[th])

\* The task a call is about to be made for: the one the thread has run, or the
\* dependant it has cancelled.
Subject(th) == IF calls[th] = << >> THEN item[th] ELSE Dependant(th)

\* updateDependencies is called, and reads the state of the task.
Call(th) ==
  /\ where[th] = "call"
  /\ calls' = [ calls EXCEPT ![th] =
                  << [ task |-> Subject(th), state |-> taskState[Subject(th)],
                       left |-> revDepMap[Subject(th)] ] >> \o @ ]
  /\ GoTo(th, "loop")
  /\ UNCHANGED << taskState, dependencies, retries, returnCode, pool, item, copy >>

InLoop(th) == where[th] = "loop" /\ Head(calls[th]).left # {}

\* removeDependency starts on the list of the dependant of a completed task ...
RemoveReads(th) ==
  /\ InLoop(th)
  /\ Head(calls[th]).state = "completed"
  /\ copy' = [ copy EXCEPT ![th] = dependencies[Dependant(th)] ]
  /\ GoTo(th, "remove")
  /\ UNCHANGED << taskState, dependencies, retries, returnCode, pool, item, calls >>

\* ... and leaves it without the id.
RemoveWrites(th) ==
  /\ where[th] = "remove"
  /\ dependencies' = [ dependencies EXCEPT ![Dependant(th)] =
                         DepsAfterRemove(copy[th], Head(calls[th]).task) ]
  /\ copy' = [ copy EXCEPT ![th] = {} ]
  /\ GoTo(th, "unblock")
  /\ UNCHANGED << taskState, retries, returnCode, pool, item, calls >>

\* removeDependency tests the list and the state ...
TestBlocked(th) ==
  LET d == Dependant(th)
  IN  /\ where[th] = "unblock"
      /\ GoTo(th, IF StateAfterRemove(taskState[d], dependencies[d]) # taskState[d]
                  THEN "ready" ELSE "release")
      /\ UNCHANGED << taskState, dependencies, retries, returnCode, pool, item, calls,
                      copy >>

\* ... and sets the state to waiting.
Unblock(th) ==
  /\ where[th] = "ready"
  /\ SetState(Dependant(th), "waiting")
  /\ GoTo(th, "release")
  /\ UNCHANGED << dependencies, retries, returnCode, pool, item, calls, copy >>

\* Wrong: a dependant is fed whether or not its last dependency is gone.
FeedAlways(d) == TRUE

\* The test for a dependant that can be fed.
Releasable(d) == dependencies[d] = {} /\ taskState[d] = "waiting"

\* Back in updateDependencies, a waiting dependant without dependencies is fed.
Release(th) ==
  LET d == Dependant(th)
  IN  /\ where[th] = "release"
      /\ \/ Releasable(d) /\ Feed(d)
         \/ ~ Releasable(d) /\ UNCHANGED pool
      /\ calls' = [ calls EXCEPT ![th] = Advanced(@) ]
      /\ GoTo(th, "loop")
      /\ UNCHANGED << taskState, dependencies, retries, returnCode, item, copy >>

\* Wrong: the dependants of a cancelled task are not told.
CancelOnly(th) ==
  /\ InLoop(th)
  /\ Head(calls[th]).state \in {"failed", "cancelled"}
  /\ SetState(Dependant(th), "cancelled")
  /\ calls' = [ calls EXCEPT ![th] = Advanced(@) ]
  /\ UNCHANGED << dependencies, retries, returnCode, pool, item, copy, where >>

\* The dependant of a task that failed or was cancelled is cancelled, and
\* updateDependencies is called for it.
Cancel(th) ==
  /\ InLoop(th)
  /\ Head(calls[th]).state \in {"failed", "cancelled"}
  /\ SetState(Dependant(th), "cancelled")
  /\ GoTo(th, "call")
  /\ UNCHANGED << dependencies, retries, returnCode, pool, item, calls, copy >>

\* A task that another thread has started again in the meantime has another
\* state: its dependants are passed over.
PassOver(th) ==
  /\ InLoop(th)
  /\ Head(calls[th]).state \notin {"completed", "failed", "cancelled"}
  /\ calls' = [ calls EXCEPT ![th] = Advanced(@) ]
  /\ UNCHANGED << taskState, dependencies, retries, returnCode, pool, item, copy, where >>

\* Wrong: the call it returns to does not go on to its next dependant.
ReturnInPlace(th) ==
  /\ where[th] = "loop"
  /\ Head(calls[th]).left = {}
  /\ calls' = [ calls EXCEPT ![th] = Tail(@) ]
  /\ item' = [ item EXCEPT ![th] = IF Len(calls[th]) = 1 THEN NoTask ELSE @ ]
  /\ GoTo(th, IF Len(calls[th]) = 1 THEN "idle" ELSE "loop")
  /\ UNCHANGED << taskState, dependencies, retries, returnCode, pool, copy >>

\* updateDependencies returns, to the call it was made from or to TBB.
Return(th) ==
  /\ where[th] = "loop"
  /\ Head(calls[th]).left = {}
  /\ \/ /\ Len(calls[th]) > 1
        /\ calls' = [ calls EXCEPT ![th] = Advanced(Tail(@)) ]
        /\ UNCHANGED << item, where >>
     \/ /\ Len(calls[th]) = 1
        /\ calls' = [ calls EXCEPT ![th] = << >> ]
        /\ item' = [ item EXCEPT ![th] = NoTask ]
        /\ GoTo(th, "idle")
  /\ UNCHANGED << taskState, dependencies, retries, returnCode, pool, copy >>

\* A thread is between the call of removeDependency for task t and the end of
\* the turn of the loop that may feed it; two of them are, of the same task.
Releasing(th, t) ==
  where[th] \in {"remove", "unblock", "ready", "release"} /\ Dependant(th) = t

Meeting ==
  { t \in TaskId :
      \E th, other \in Threads : th # other /\ Releasing(th, t) /\ Releasing(other, t) }

\* One access of a thread; met is told for the properties.
Thread(th) ==
  /\ \/ Take(th) \/ CommandEnds(th) \/ EpilogueRetry(th) \/ Retry(th)
     \/ EpilogueVerdict(th) \/ Call(th) \/ RemoveReads(th) \/ RemoveWrites(th)
     \/ TestBlocked(th) \/ Unblock(th) \/ Release(th) \/ Cancel(th) \/ PassOver(th)
     \/ Return(th)
  /\ met' = met \cup Meeting'
  /\ UNCHANGED << validTasks, revDepMap, nworkers, started >>

\* parallel_do returns when there is nothing left to do.
Done ==
  /\ started
  /\ \A t \in TaskId : pool[t] = 0
  /\ \A th \in Threads : where[th] = "idle"

Returned == Done /\ UNCHANGED vars

Next == RunScheduler \/ (\E th \in Threads : Thread(th)) \/ Returned

Spec == Init /\ [][Next]_vars

\* TBB gives every task to a thread as long as there is one without work, the
\* threads run, and the users' commands terminate.
Fairness == WF_vars(RunScheduler) /\ \A th \in Threads : WF_vars(Thread(th))

FairSpec == Spec /\ Fairness

-------------------------------------------------------------------------------
(* Properties                                                              *)

Places ==
  {"idle", "command", "epilogue", "retry", "call", "loop", "remove", "unblock", "ready",
   "release"}

ThreadTypeOK ==
  /\ nworkers \in ThreadCounts
  /\ taskState \in [ TaskId -> TaskStates ]
  /\ dependencies \in [ TaskId -> SUBSET (Nat \ {0}) ]
  /\ retries \in [ TaskId -> 0..(MaxRetries + Cardinality(Threads) - 1) ]
  /\ returnCode \in [ TaskId -> SystemStatus \cup {0} ]
  /\ started \in BOOLEAN
  /\ pool \in [ TaskId -> Nat ]
  /\ where \in [ Threads -> Places ]
  /\ item \in [ Threads -> TaskId \cup {NoTask} ]
  /\ calls \in [ Threads -> Seq([ task : TaskId, state : TaskStates, left : SUBSET TaskId ]) ]
  /\ copy \in [ Threads -> SUBSET (Nat \ {0}) ]
  /\ met \in SUBSET TaskId

\* No two threads can update the same dependant: there is a single thread, or no
\* task has two parents.
Apart == nworkers = 1 \/ \A t \in TaskId : \A p, q \in Parents(t) : p = q

\* No two threads have been releasing the same task at once.  The parents of a
\* task may have ended on different threads, as long as one of these was done
\* with the task before the other came to it, and one thread may have released a
\* task while others cancelled it.
Calm == met = {}

\* How often a task is waiting to be run or being run.
InHand(t) ==
  pool[t] + Cardinality({ th \in Threads :
                            item[th] = t /\ where[th] \in {"command", "epilogue", "retry"} })

\* A task is never given to two threads, nor twice to parallel_do: its command
\* does not run beside itself.
NeverTwice == \A t \in TaskId : InHand(t) <= 1

\* As long as no two threads are releasing one task at once, a task is run by one
\* thread at a time, only after everything it depends on has completed, and not
\* again once it has a verdict, cancelled included: its parents may end on any
\* threads, whoever takes its last dependency away feeds it, and a thread that
\* releases a task while another one cancels it never gets to feed it.
RunsAsPromised ==
  Calm =>
    /\ NeverTwice
    /\ \A t \in TaskId :
         /\ InHand(t) = 1 =>
              /\ taskState[t] \in {"waiting", "running"}
              /\ \A p \in Parents(t) : taskState[p] = "completed"
         /\ taskState[t] = "running" => InHand(t) = 1
         /\ retries[t] <= MaxRetries

\* As long as no two threads are releasing one task at once, no removal is lost:
\* parallel_do only returns when every task has its verdict and every cancelled
\* task a parent that explains it, but for tasks blocked on nothing and those that
\* wait for them.
AllAccounted ==
  Calm /\ Done =>
    /\ CancelledWithAncestor
    /\ \A t \in validTasks :
         \/ taskState[t] \in FinalStates
         \/ /\ taskState[t] = "blocked"
            /\ Parents(t) = {} \/ \E p \in Parents(t) : taskState[p] = "blocked"

\* A task is lost from the moment one of the tasks it depends on has failed,
\* though the thread that tells it may not have come to it yet.
Doomed(t) == \E p \in TaskId : taskState[p] = "failed" /\ t \in Descendants(p)

\* What the threads have done, step by step, as the user sees it; where threads
\* may meet nothing is promised.
ThreadStatus ==
  [ t \in TaskId |->
      IF ~ Apart THEN "ignored"
      ELSE IF WorkflowStatus[t] = "pending" /\ Doomed(t) THEN "cancelled"
      ELSE WorkflowStatus[t] ]

ThreadPromise == INSTANCE Workflow WITH
  Task <- TaskId,
  status <- ThreadStatus,
  parents <- [ t \in TaskId |->
                 IF Apart /\ t \in validTasks THEN Parents(t) ELSE {} ]

\* Where no two threads update the same task, every step of a thread is a step of
\* the workflow or changes nothing of it, although a failure takes many steps to
\* reach the tasks it cancels and other threads go on meanwhile: none of these
\* tasks is ever released and run.
ThreadsImplementWorkflow == ThreadPromise!Spec

\* parallel_do returns, whatever the threads do to each other's tables.
Returns == <>[]Done
===============================================================================
