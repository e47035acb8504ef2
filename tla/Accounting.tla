------------------------------- MODULE Accounting -------------------------------
(***************************************************************************)
(* What the basic engine reports at the end: the time every task took, the *)
(* time of the run, how busy the workers were and how many tasks ended how *)
(* (buildFinalSummary, src/src/abstractengine.cpp).  The steps are those   *)
(* of BasicEngine, with the timers they start and stop; between any two of *)
(* them the clock may advance.                                             *)
(***************************************************************************)
EXTENDS BasicEngine, GreasyTimer, FiniteSetsExt

CONSTANT MaxTime   \* bound on the clock

ASSUME MaxTimeAssumption == MaxTime \in Nat

VARIABLES
  now,          \* the clock
  workerTimers, \* workerTimers[w] of BasicEngine
  globalTimer,
  elapsedAcc,   \* taskMap[t]->elapsedAcc
  summary,      \* what buildFinalSummary computed, << >> before
  ranFor,       \* how long children of the task existed
  lasted        \* how long runScheduler was running

clockVars == << now, ranFor, lasted >>
timeVars == << clockVars, workerTimers, globalTimer, elapsedAcc, summary >>

AccountInit ==
  /\ Init
  /\ now = 1
  /\ workerTimers = [ w \in Workers |-> NewTimer ]
  /\ globalTimer = NewTimer
  /\ elapsedAcc = [ t \in TaskId |-> 0 ]
  /\ summary = << >>
  /\ ranFor = [ t \in TaskId |-> 0 ]
  /\ lasted = 0

-------------------------------------------------------------------------------

\* Wrong: the timer of the worker is not reset for its next task.
StartOnly(timers, w) == [ timers EXCEPT ![w] = Start(@, now) ]

\* allocate: the timer of the worker, once the task runs.
Timed(timers, w) == [ timers EXCEPT ![w] = Start(Reset(@), now) ]

StartRun ==
  /\ FillQueue
  /\ globalTimer' = Start(globalTimer, now)
  /\ UNCHANGED << engineVars, clockVars, workerTimers, elapsedAcc, summary >>

AllocateTimed ==
  /\ Allocate
  /\ workerTimers' = IF taskState'[Head(taskQueue)] = "running"
                     THEN Timed(workerTimers, Head(freeWorkers)) ELSE workerTimers
  /\ UNCHANGED << clockVars, globalTimer, elapsedAcc, summary >>

\* waitForAnyWorker stops the timer of the worker and charges its seconds to the
\* task before the epilogue, which may allocate the task again.
WaitTimed ==
  /\ WaitForAnyWorker
  /\ \E pid \in zombies \ zombies' :
       LET w       == WorkerOf(pid)
           t       == TaskOf(pid)
           stopped == [ workerTimers EXCEPT ![w] = Stop(@, now) ]
       IN  /\ elapsedAcc' = [ elapsedAcc EXCEPT ![t] = @ + SecsElapsed(stopped[w]) ]
           /\ workerTimers' = IF taskState'[t] = "running"
                              THEN Timed(stopped, Head(Freed(pid))) ELSE stopped
  /\ UNCHANGED << clockVars, globalTimer, summary >>

EndRun ==
  /\ Return
  /\ globalTimer' = Stop(globalTimer, now)
  /\ UNCHANGED << engineVars, clockVars, workerTimers, elapsedAcc, summary >>

Count(state) == Cardinality({ t \in TaskId : taskState[t] = state })

\* usedTime of buildFinalSummary.
UsedTime == MapThenSumSet(LAMBDA t : elapsedAcc[t], TaskId)

\* finalize: the timer is stopped once more, and the summary is made.
Summarise ==
  /\ pc = "done"
  /\ summary = << >>
  /\ globalTimer' = Stop(globalTimer, now)
  /\ summary' = [ completed |-> Count("completed"), failed |-> Count("failed"),
                  cancelled |-> Count("cancelled"), invalid |-> Count("invalid"),
                  total |-> Cardinality(TaskId), time |-> globalTimer'.elapsed,
                  usedTime |-> UsedTime, secs |-> SecsElapsed(globalTimer') ]
  /\ UNCHANGED << vars, clockVars, workerTimers, elapsedAcc >>

Untimed ==
  /\ \/ WaitWithoutChild
     \/ LeaveLoop /\ UNCHANGED engineVars
     \/ \E pid \in Pids : ChildEnds(pid)
  /\ UNCHANGED timeVars

\* Time passes; ranFor and lasted are told for the properties.
Tick ==
  /\ now < MaxTime
  /\ now' = now + 1
  /\ ranFor' = [ t \in TaskId |->
                   ranFor[t] + Cardinality({ p \in Children : child[p] = t }) ]
  /\ lasted' = lasted + (IF pc \in {"schedule", "drain"} THEN 1 ELSE 0)
  /\ UNCHANGED << vars, workerTimers, globalTimer, elapsedAcc, summary >>

Reported ==
  /\ summary # << >> \/ pc = "crashed"
  /\ UNCHANGED << vars, timeVars >>

AccountNext ==
  \/ StartRun \/ AllocateTimed \/ WaitTimed \/ EndRun \/ Summarise
  \/ Untimed \/ Tick \/ Reported

AccountSpec == AccountInit /\ [][AccountNext]_<< vars, timeVars >>

-------------------------------------------------------------------------------
(* Properties                                                              *)

\* The task is charged these ticks, but for less than a second in each of its runs.
Charged(t, ticks, runs) ==
  /\ elapsedAcc[t] * Second <= ticks
  /\ ticks <= elapsedAcc[t] * Second + runs * (Second - 1)

\* The time charged to a task that does not run is the time its children lived,
\* over all its retries, with less than a second lost for each: no run is
\* charged twice, to another task, or not at all, although the timer belongs to
\* the worker and is used again by whatever runs there next.
ElapsedTruthful ==
  \A t \in TaskId : taskState[t] # "running" => Charged(t, ranFor[t], retries[t] + 1)

\* The workers were not busy for longer than the run lasted: the utilisation is
\* at most 100%, for all the rounding, and the int it is computed in can hold it.
UtilisationBounded ==
  summary # << >> => summary.usedTime <= summary.secs * NWorkers

\* The total time that is reported is that of runScheduler, however long after
\* its end the summary is made, although finalize stops the timer again.
TotalTimeIsRun == summary # << >> => summary.time = lasted

\* The four counts of the summary add up: no task ends outside of them.
SummaryComplete ==
  summary # << >> =>
    summary.completed + summary.failed + summary.cancelled + summary.invalid = summary.total

-------------------------------------------------------------------------------
(* The inductive invariant behind ElapsedTruthful, TotalTimeIsRun and      *)
(* SummaryComplete                                                         *)

Timer == [ startTime : Nat, endTime : Nat, elapsed : Nat, on : BOOLEAN ]

TimesTypeOK ==
  /\ now \in Nat \ {0}
  /\ lasted \in Nat
  /\ globalTimer \in Timer
  /\ workerTimers \in [ Workers -> Timer ]
  /\ elapsedAcc \in [ TaskId -> Nat ]
  /\ ranFor \in [ TaskId -> Nat ]

\* A timer that is on has measured nothing yet, and started when it was reset last.
Measures(timer, ticks) ==
  timer.on /\ timer.elapsed = 0 /\ timer.startTime \in 1..now /\ ticks = now - timer.startTime

\* The worker of a child has measured the child since it was forked; the runs of
\* its task before this one are charged, and a task that was never run is not.
RunsMeasured ==
  /\ \A p \in Children : \E ticks \in 0..ranFor[child[p]] :
       /\ Measures(workerTimers[WorkerOf(p)], ticks)
       /\ Charged(child[p], ranFor[child[p]] - ticks, retries[child[p]])
  /\ \A t \in TaskId :
       taskState[t] \in {"waiting", "blocked", "invalid", "cancelled"} =>
         ranFor[t] = 0 /\ elapsedAcc[t] = 0

\* globalTimer measures runScheduler, and is off once it has returned.
RunMeasured ==
  /\ pc = "start" => globalTimer = NewTimer /\ lasted = 0
  /\ pc \in {"schedule", "drain"} => Measures(globalTimer, lasted)
  /\ pc = "done" => ~ globalTimer.on /\ globalTimer.elapsed = lasted
  /\ summary # << >> => pc = "done"

\* The timers measure what the tables of the master say they measure.
AccountInv ==
  /\ WorkInv
  /\ TimesTypeOK
  /\ RunsMeasured
  /\ ElapsedTruthful
  /\ RunMeasured
  /\ TotalTimeIsRun
  /\ SummaryComplete
===============================================================================
