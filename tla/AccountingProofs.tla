---------------------------- MODULE AccountingProofs ----------------------------
(***************************************************************************)
(* AccountInv is an invariant of Accounting, for any number of tasks,      *)
(* workers and retries and however long anything takes: what the engine    *)
(* reports as the time of a task and of the run is what they took.         *)
(***************************************************************************)
EXTENDS Accounting, BasicEngineProofs

-------------------------------------------------------------------------------
(* The timers                                                              *)

\* The whole seconds of a number of ticks lose less than a second of them.
LEMMA WholeSeconds ==
  ASSUME NEW ticks \in Nat, NEW runs \in Nat, NEW secs \in Nat, NEW before \in Nat,
         secs * Second <= before, before <= secs * Second + runs * (Second - 1)
  PROVE  LET all == secs + (ticks \div Second)
         IN  /\ ticks \div Second \in Nat
             /\ all * Second <= before + ticks
             /\ before + ticks <= all * Second + (runs + 1) * (Second - 1)
<1> DEFINE q == ticks \div Second
<1>1. Second \in Nat /\ Second > 0
  BY SecondAssumption
<1>2. q \in Nat /\ q * Second <= ticks /\ ticks <= q * Second + (Second - 1)
  BY <1>1, SMTT(60)
<1> HIDE DEF q
<1>3. /\ (secs + q) * Second = secs * Second + q * Second
      /\ (runs + 1) * (Second - 1) = runs * (Second - 1) + (Second - 1)
  BY <1>1, <1>2, SMTT(60)
<1>4. /\ secs * Second \in Nat /\ q * Second \in Nat
      /\ runs * (Second - 1) \in Nat
  BY <1>1, <1>2, SMTT(60)
<1> DEFINE a == secs * Second
           b == q * Second
           c == runs * (Second - 1)
<1>5. a \in Nat /\ b \in Nat /\ c \in Nat /\ a <= before /\ before <= a + c
      /\ b <= ticks /\ ticks <= b + (Second - 1)
  BY <1>2, <1>4
<1>6. (secs + q) * Second = a + b /\ (runs + 1) * (Second - 1) = c + (Second - 1)
  BY <1>3
<1> HIDE DEF a, b, c
<1>7. a + b <= before + ticks /\ before + ticks <= a + b + (c + (Second - 1))
  BY <1>1, <1>5
<1> QED BY <1>2, <1>6, <1>7 DEF q

\* A timer that is reset and started is on and has measured nothing yet.
LEMMA StartedTimer ==
  ASSUME NEW timer \in Timer, now \in Nat \ {0}
  PROVE  /\ Start(Reset(timer), now) \in Timer
         /\ Measures(Start(Reset(timer), now), 0)
<1> DEFINE cleared == Reset(timer)
<1>1. cleared \in Timer /\ cleared.startTime = 0 /\ cleared.elapsed = 0
  BY DEF Timer, Reset
<1> HIDE DEF cleared
<1>2. Start(cleared, now) = [ cleared EXCEPT !.startTime = now, !.on = TRUE ]
  BY <1>1 DEF Start
<1> DEFINE begun == [ cleared EXCEPT !.startTime = now, !.on = TRUE ]
<1>3. /\ begun \in Timer
      /\ begun.on /\ begun.elapsed = 0 /\ begun.startTime = now
  BY <1>1 DEF Timer
<1> HIDE DEF begun
<1>4. Measures(begun, 0)
  BY <1>3 DEF Measures
<1> QED BY <1>2, <1>3, <1>4 DEF cleared, begun

\* Stopping a timer that is on adds what it measures.
LEMMA StoppedTimer ==
  ASSUME NEW timer \in Timer, now \in Nat \ {0}, NEW ticks \in Nat, Measures(timer, ticks)
  PROVE  /\ Stop(timer, now) \in Timer
         /\ Stop(timer, now).elapsed = ticks
         /\ ~ Stop(timer, now).on
BY DEF Timer, Stop, Measures

-------------------------------------------------------------------------------
(* The engine                                                              *)

\* A step of Accounting is a step of the engine, or leaves it alone.
LEMMA StepOfEngine == [AccountNext]_<< vars, timeVars >> => [Next]_vars
<1> SUFFICES ASSUME [AccountNext]_<< vars, timeVars >> PROVE [Next]_vars
  OBVIOUS
<1>1. CASE StartRun \/ EndRun
  BY <1>1 DEF StartRun, EndRun, Next, Master
<1>2. CASE AllocateTimed \/ WaitTimed
  BY <1>2 DEF AllocateTimed, WaitTimed, Next, Master
<1>3. CASE Untimed
  BY <1>3 DEF Untimed, Next, Master
<1>4. CASE Summarise \/ Tick \/ Reported \/ UNCHANGED << vars, timeVars >>
  BY <1>4 DEF Summarise, Tick, Reported
<1> QED BY <1>1, <1>2, <1>3, <1>4 DEF AccountNext

\* The timers do not influence the engine: what holds of BasicEngine holds of
\* Accounting.
THEOREM AccountsForEngine == AccountSpec => Spec
<1>1. AccountInit => Init
  BY DEF AccountInit
<1> QED BY <1>1, StepOfEngine, PTL DEF AccountSpec, Spec

-------------------------------------------------------------------------------
(* The steps that do not touch the timers of the workers                   *)

\* RunsMeasured and ElapsedTruthful depend on these variables only.
LEMMA SameRuns ==
  ASSUME RunsMeasured, ElapsedTruthful,
         UNCHANGED << taskState, retries, child, pidToWorker, now, ranFor,
                      workerTimers, elapsedAcc >>
  PROVE  RunsMeasured' /\ ElapsedTruthful'
BY DEF RunsMeasured, ElapsedTruthful, Charged, Measures, Children, WorkerOf

\* What is said of globalTimer and of the summary depends on these only.
LEMMA SameRun ==
  ASSUME RunMeasured, TotalTimeIsRun, SummaryComplete,
         UNCHANGED << pc, now, lasted, globalTimer, summary >>
  PROVE  RunMeasured' /\ TotalTimeIsRun' /\ SummaryComplete'
BY DEF RunMeasured, TotalTimeIsRun, SummaryComplete, Measures

\* The timer of the run is started before the main loop, and stopped after it.
LEMMA RunKeepsAccounts ==
  ASSUME AccountInv, StartRun \/ EndRun
  PROVE  /\ TimesTypeOK' /\ RunsMeasured' /\ ElapsedTruthful'
         /\ RunMeasured' /\ TotalTimeIsRun' /\ SummaryComplete'
<1>1. /\ now \in Nat \ {0} /\ lasted \in Nat /\ globalTimer \in Timer
      /\ RunsMeasured /\ ElapsedTruthful /\ RunMeasured
  BY DEF AccountInv, TimesTypeOK
<1>2. /\ UNCHANGED << now, ranFor, lasted, workerTimers, elapsedAcc, summary >>
      /\ UNCHANGED << taskState, retries, child, pidToWorker >>
  BY DEF StartRun, EndRun, FillQueue, Return, clockVars, engineVars
<1>3. RunsMeasured' /\ ElapsedTruthful'
  BY <1>1, <1>2, SameRuns
<1>4. summary = << >> /\ summary' = << >>
  BY <1>1, <1>2 DEF RunMeasured, StartRun, EndRun, FillQueue, Return
<1>5. globalTimer' \in Timer /\ RunMeasured'
  <2>1. CASE StartRun
    <3>1. pc = "start" /\ pc' = "schedule" /\ globalTimer' = Start(globalTimer, now)
      BY <2>1 DEF StartRun, FillQueue
    <3>2. globalTimer = NewTimer /\ lasted = 0
      BY <1>1, <3>1 DEF RunMeasured
    <3>3. globalTimer' = [ NewTimer EXCEPT !.startTime = now, !.on = TRUE ]
      BY <3>1, <3>2 DEF Start, NewTimer
    <3>4. /\ globalTimer' \in Timer /\ globalTimer'.on
          /\ globalTimer'.elapsed = 0 /\ globalTimer'.startTime = now
      BY <1>1, <3>3 DEF NewTimer, Timer
    <3>5. Measures(globalTimer, lasted)'
      BY <1>1, <1>2, <3>2, <3>4 DEF Measures
    <3> QED BY <1>4, <3>1, <3>4, <3>5 DEF RunMeasured
  <2>2. CASE EndRun
    <3>1. pc = "drain" /\ pc' = "done" /\ globalTimer' = Stop(globalTimer, now)
      BY <2>2 DEF EndRun, Return
    <3>2. Measures(globalTimer, lasted)
      BY <1>1, <3>1 DEF RunMeasured
    <3>3. globalTimer' \in Timer /\ ~ globalTimer'.on /\ globalTimer'.elapsed = lasted
      BY <1>1, <3>1, <3>2, StoppedTimer
    <3> QED BY <1>2, <1>4, <3>1, <3>3 DEF RunMeasured
  <2> QED BY <2>1, <2>2
<1>6. TimesTypeOK'
  BY <1>2, <1>5 DEF AccountInv, TimesTypeOK, Workers
<1>7. TotalTimeIsRun' /\ SummaryComplete'
  BY <1>4 DEF TotalTimeIsRun, SummaryComplete
<1> QED BY <1>3, <1>5, <1>6, <1>7

\* A child that ends, the end of the main loop, and the crash of the master.
LEMMA UntimedKeepsAccounts ==
  ASSUME AccountInv, Untimed \/ Reported \/ UNCHANGED << vars, timeVars >>
  PROVE  /\ TimesTypeOK' /\ RunsMeasured' /\ ElapsedTruthful'
         /\ RunMeasured' /\ TotalTimeIsRun' /\ SummaryComplete'
<1>1. RunsMeasured /\ ElapsedTruthful /\ RunMeasured /\ TotalTimeIsRun /\ SummaryComplete
  BY DEF AccountInv
<1>2. UNCHANGED << now, ranFor, lasted, workerTimers, globalTimer, elapsedAcc, summary >>
  BY DEF Untimed, Reported, timeVars, clockVars
<1>3. UNCHANGED << taskState, retries, child, pidToWorker >>
  BY DEF Untimed, Reported, WaitWithoutChild, LeaveLoop, ChildEnds, CommandReturns,
     ChildKilled, vars, schedVars, engineVars
<1>4. TimesTypeOK'
  BY <1>2 DEF AccountInv, TimesTypeOK, Workers
<1>5. RunsMeasured' /\ ElapsedTruthful'
  BY <1>1, <1>2, <1>3, SameRuns
<1>6. \/ pc' = pc
      \/ pc = "schedule" /\ pc' = "drain"
      \/ pc \in {"schedule", "drain"} /\ pc' = "crashed"
  BY DEF Untimed, Reported, WaitWithoutChild, MustWait, LeaveLoop, ChildEnds,
     CommandReturns, ChildKilled, vars, schedVars
<1>7. RunMeasured' /\ TotalTimeIsRun' /\ SummaryComplete'
  <2>1. CASE pc' = pc
    BY <1>1, <1>2, <2>1, SameRun
  <2>2. CASE pc' # pc
    <3>1. pc \in {"schedule", "drain"} /\ pc' \in {"drain", "crashed"}
      BY <1>6, <2>2
    <3>2. summary' = << >>
      BY <1>1, <1>2, <3>1 DEF RunMeasured
    <3>3. Measures(globalTimer, lasted)'
      BY <1>1, <1>2, <3>1 DEF RunMeasured, Measures
    <3> QED BY <3>1, <3>2, <3>3 DEF RunMeasured, TotalTimeIsRun, SummaryComplete
  <2> QED BY <2>1, <2>2
<1> QED BY <1>4, <1>5, <1>7

-------------------------------------------------------------------------------
(* The clock and the summary                                               *)

\* While the clock advances every task has one child more or less to pay for: a
\* task that is running has one, any other none.
LEMMA ChildrenOfTask ==
  ASSUME WorkInv, NEW t \in TaskId
  PROVE  Cardinality({ p \in Children : child[p] = t }) =
           IF taskState[t] = "running" THEN 1 ELSE 0
<1> DEFINE C == { p \in Children : child[p] = t }
<1>1. /\ ChildrenInOrder
      /\ taskState[t] = "running" => t \in validTasks
      /\ t \in validTasks /\ taskState[t] = "running" => \E p \in Children : child[p] = t
  BY DEF WorkInv, EngineInv, TablesAgree, DroppedStaysOut, EveryoneKnown
<1>2. CASE taskState[t] = "running"
  <2>1. PICK p \in Children : child[p] = t
    BY <1>1, <1>2
  <2>2. C = {p}
    BY <1>1, <2>1 DEF ChildrenInOrder
  <2> QED BY <1>2, <2>2, FS_Singleton
<1>3. CASE taskState[t] # "running"
  <2>1. C = {}
    BY <1>1, <1>3 DEF ChildrenInOrder
  <2> QED BY <1>3, <2>1, FS_EmptySet
<1> QED BY <1>2, <1>3

\* The timers keep up with the clock.
LEMMA TickKeepsAccounts ==
  ASSUME AccountInv, Tick
  PROVE  /\ TimesTypeOK' /\ RunsMeasured' /\ ElapsedTruthful'
         /\ RunMeasured' /\ TotalTimeIsRun' /\ SummaryComplete'
<1>1. /\ now \in Nat \ {0} /\ lasted \in Nat /\ ranFor \in [ TaskId -> Nat ]
      /\ now' = now + 1
      /\ lasted' = lasted + (IF pc \in {"schedule", "drain"} THEN 1 ELSE 0)
      /\ UNCHANGED << workerTimers, globalTimer, elapsedAcc, summary >>
      /\ UNCHANGED << pc, taskState, retries, child, pidToWorker >>
  BY DEF AccountInv, TimesTypeOK, Tick, vars, schedVars, engineVars
<1>2. \A t \in TaskId :
        ranFor'[t] = ranFor[t] + (IF taskState[t] = "running" THEN 1 ELSE 0)
  BY ChildrenOfTask DEF AccountInv, Tick
<1>3. TimesTypeOK'
  <2>1. ranFor' = [ t \in TaskId |->
                      ranFor[t] + Cardinality({ p \in Children : child[p] = t }) ]
    BY DEF Tick
  <2>2. ranFor' \in [ TaskId -> Nat ]
    BY <1>1, <2>1, ChildrenOfTask DEF AccountInv
  <2> QED BY <1>1, <2>2 DEF AccountInv, TimesTypeOK, Workers
<1>4. \A timer \in Timer : \A ticks \in Nat :
        Measures(timer, ticks) => Measures(timer, ticks + 1)'
  BY <1>1 DEF Measures, Timer
<1>5. RunsMeasured'
  <2>1. ASSUME NEW p \in Children'
        PROVE  \E ticks \in 0..ranFor'[child'[p]] :
                 /\ Measures(workerTimers[WorkerOf(p)], ticks)'
                 /\ Charged(child[p], ranFor[child[p]] - ticks, retries[child[p]])'
    <3> DEFINE t == child[p]
    <3>1. p \in Children /\ p \in Pids /\ child'[p] = t /\ WorkerOf(p)' = WorkerOf(p)
      BY <1>1 DEF Children, WorkerOf
    <3>2. t \in TaskId /\ taskState[t] = "running" /\ WorkerOf(p) \in Workers
      BY <3>1 DEF AccountInv, WorkInv, EngineInv, TypeOK, SchedTypeOK, ChildrenInOrder
    <3>3. PICK ticks \in 0..ranFor[t] :
            /\ Measures(workerTimers[WorkerOf(p)], ticks)
            /\ Charged(t, ranFor[t] - ticks, retries[t])
      BY <3>1 DEF AccountInv, RunsMeasured
    <3> HIDE DEF t
    <3>4. workerTimers[WorkerOf(p)] \in Timer
      BY <3>2 DEF AccountInv, TimesTypeOK
    <3>5. Measures(workerTimers[WorkerOf(p)], ticks + 1)'
      <4>1. ticks \in Nat
        BY <1>1, <3>2
      <4> QED BY <1>1, <1>4, <3>1, <3>3, <3>4, <4>1 DEF Measures
    <3>6. ranFor'[t] = ranFor[t] + 1 /\ ranFor[t] \in Nat
      BY <1>1, <1>2, <3>2
    <3>7. ticks + 1 \in 0..ranFor'[t] /\ ranFor'[t] - (ticks + 1) = ranFor[t] - ticks
      BY <3>6
    <3>8. Charged(t, ranFor[t] - (ticks + 1), retries[t])'
      BY <1>1, <3>1, <3>3, <3>7 DEF Charged, t
    <3> QED BY <3>1, <3>5, <3>7, <3>8 DEF t
  <2>2. \A t \in TaskId :
          taskState'[t] \in {"waiting", "blocked", "invalid", "cancelled"} =>
            ranFor'[t] = 0 /\ elapsedAcc'[t] = 0
    BY <1>1, <1>2 DEF AccountInv, RunsMeasured
  <2> QED BY <2>1, <2>2 DEF RunsMeasured
<1>6. ElapsedTruthful'
  BY <1>1, <1>2 DEF AccountInv, ElapsedTruthful, Charged
<1>7. RunMeasured'
  <2>1. CASE pc \in {"schedule", "drain"}
    <3>1. /\ globalTimer.on /\ globalTimer.elapsed = 0
          /\ globalTimer.startTime \in 1..now /\ lasted = now - globalTimer.startTime
      BY <2>1 DEF AccountInv, RunMeasured, Measures
    <3>2. lasted' = lasted + 1 /\ globalTimer' = globalTimer
      BY <1>1, <2>1
    <3>3. globalTimer.startTime \in 1..now' /\ lasted' = now' - globalTimer.startTime
      BY <1>1, <3>1, <3>2
    <3>4. Measures(globalTimer, lasted)'
      BY <3>1, <3>2, <3>3 DEF Measures
    <3> QED BY <1>1, <2>1, <3>4 DEF AccountInv, RunMeasured
  <2>2. CASE pc \notin {"schedule", "drain"}
    BY <1>1, <2>2 DEF AccountInv, RunMeasured
  <2> QED BY <2>1, <2>2
<1>8. TotalTimeIsRun' /\ SummaryComplete'
  <2>1. summary # << >> => pc = "done" /\ lasted' = lasted
    BY <1>1 DEF AccountInv, RunMeasured
  <2> QED BY <1>1, <2>1 DEF AccountInv, TotalTimeIsRun, SummaryComplete
<1> QED BY <1>3, <1>5, <1>6, <1>7, <1>8

\* Two finite sets without a common element.
LEMMA DisjointUnion ==
  ASSUME NEW S, IsFiniteSet(S), NEW T, IsFiniteSet(T), S \cap T = {}
  PROVE  IsFiniteSet(S \cup T) /\ Cardinality(S \cup T) = Cardinality(S) + Cardinality(T)
<1>1. Cardinality(S \cap T) = 0
  BY FS_EmptySet
<1>2. Cardinality(S) \in Nat /\ Cardinality(T) \in Nat
  BY FS_CardinalityType
<1>3. /\ IsFiniteSet(S \cup T)
      /\ Cardinality(S \cup T) = Cardinality(S) + Cardinality(T) - Cardinality(S \cap T)
  BY FS_Union, Zenon
<1> QED BY <1>1, <1>2, <1>3

\* At the end every task is in one of the four states the summary counts.
LEMMA FourStates ==
  ASSUME WorkInv, pc = "done"
  PROVE  Count("completed") + Count("failed") + Count("cancelled") + Count("invalid") =
           Cardinality(TaskId)
<1> DEFINE In(state) == { t \in TaskId : taskState[t] = state }
<1>1. \A t \in TaskId : taskState[t] \in {"completed", "failed", "cancelled", "invalid"}
  <2>1. ASSUME NEW t \in validTasks
        PROVE  taskState[t] \in {"completed", "failed", "cancelled"}
    <3>1. taskState[t] \in TaskStates /\ taskState[t] # "invalid"
      BY DEF WorkInv, EngineInv, TypeOK, SchedTypeOK, TablesAgree, ReadyHasNoDependencies
    <3>2. taskState[t] # "waiting" /\ taskState[t] # "blocked" /\ taskState[t] # "running"
      BY DEF WorkInv, EveryoneKnown, QueuesComplete, Range
    <3> QED BY <3>1, <3>2 DEF TaskStates
  <2>2. \A t \in TaskId \ validTasks : taskState[t] \in {"invalid", "cancelled"}
    BY DEF WorkInv, EngineInv, TablesAgree, DroppedStaysOut
  <2> QED BY <2>1, <2>2
<1>2. \A state : IsFiniteSet(In(state)) /\ Cardinality(In(state)) \in Nat
  BY TaskIdAssumption, FS_Subset, FS_CardinalityType
<1>3. TaskId = ((In("completed") \cup In("failed")) \cup In("cancelled")) \cup In("invalid")
  BY <1>1
<1>4. /\ In("completed") \cap In("failed") = {}
      /\ (In("completed") \cup In("failed")) \cap In("cancelled") = {}
      /\ ((In("completed") \cup In("failed")) \cup In("cancelled")) \cap In("invalid") = {}
  OBVIOUS
<1> DEFINE A == In("completed")
           B == In("failed")
           C == In("cancelled")
           D == In("invalid")
<1>5. /\ IsFiniteSet(A) /\ IsFiniteSet(B) /\ IsFiniteSet(C) /\ IsFiniteSet(D)
      /\ Cardinality(A) \in Nat /\ Cardinality(B) \in Nat
      /\ Cardinality(C) \in Nat /\ Cardinality(D) \in Nat
      /\ TaskId = ((A \cup B) \cup C) \cup D
      /\ A \cap B = {} /\ (A \cup B) \cap C = {} /\ ((A \cup B) \cup C) \cap D = {}
  BY <1>2, <1>3, <1>4
<1>6. /\ Count("completed") = Cardinality(A) /\ Count("failed") = Cardinality(B)
      /\ Count("cancelled") = Cardinality(C) /\ Count("invalid") = Cardinality(D)
  BY DEF Count
<1> HIDE DEF A, B, C, D
<1>7. IsFiniteSet(A \cup B) /\ Cardinality(A \cup B) = Cardinality(A) + Cardinality(B)
  BY <1>5, DisjointUnion, Zenon
<1>8. /\ IsFiniteSet((A \cup B) \cup C)
      /\ Cardinality((A \cup B) \cup C) = Cardinality(A \cup B) + Cardinality(C)
  BY <1>5, <1>7, DisjointUnion, Zenon
<1>9. Cardinality(TaskId) = Cardinality((A \cup B) \cup C) + Cardinality(D)
  BY <1>5, <1>8, DisjointUnion, Zenon
<1> QED BY <1>5, <1>6, <1>7, <1>8, <1>9

\* buildFinalSummary counts every task once and reports the time of the run.
LEMMA SummaryKeepsAccounts ==
  ASSUME AccountInv, Summarise
  PROVE  /\ TimesTypeOK' /\ RunsMeasured' /\ ElapsedTruthful'
         /\ RunMeasured' /\ TotalTimeIsRun' /\ SummaryComplete'
<1>1. /\ pc = "done" /\ globalTimer' = Stop(globalTimer, now)
      /\ UNCHANGED << now, ranFor, lasted, workerTimers, elapsedAcc >>
      /\ UNCHANGED << pc, taskState, retries, child, pidToWorker >>
  BY DEF Summarise, clockVars, vars, schedVars, engineVars
<1>2. ~ globalTimer.on /\ globalTimer.elapsed = lasted
  BY <1>1 DEF AccountInv, RunMeasured
<1>3. globalTimer' = globalTimer
  BY <1>1, <1>2 DEF Stop
<1>4. TimesTypeOK'
  BY <1>1, <1>3 DEF AccountInv, TimesTypeOK, Workers
<1>5. RunsMeasured' /\ ElapsedTruthful'
  BY <1>1, SameRuns DEF AccountInv
<1>6. RunMeasured'
  BY <1>1, <1>2, <1>3 DEF RunMeasured
<1>7. /\ summary'.time = globalTimer'.elapsed
      /\ summary'.completed = Count("completed") /\ summary'.failed = Count("failed")
      /\ summary'.cancelled = Count("cancelled") /\ summary'.invalid = Count("invalid")
      /\ summary'.total = Cardinality(TaskId)
  BY DEF Summarise
<1>8. TotalTimeIsRun'
  BY <1>1, <1>2, <1>3, <1>7 DEF TotalTimeIsRun
<1>9. SummaryComplete'
  BY <1>1, <1>7, FourStates DEF AccountInv, SummaryComplete
<1> QED BY <1>4, <1>5, <1>6, <1>8, <1>9

-------------------------------------------------------------------------------
(* The timers of the workers                                               *)

\* The part of RunsMeasured about the children, of a given table of processes and
\* given timers.
MeasuredIn(procs, timers) ==
  \A p \in Pids : procs[p] # 0 =>
    \E ticks \in 0..ranFor[procs[p]] :
      /\ Measures(timers[WorkerOf(p)], ticks)
      /\ Charged(procs[p], ranFor[procs[p]] - ticks, retries[procs[p]])

\* allocate measures the new child with the timer of its worker, which no other
\* child has; a task whose fork() failed was charged for its earlier runs.
LEMMA StartMeasured ==
  ASSUME SchedTypeOK, TimesTypeOK,
         pidToWorker \in [ Pids -> Workers \cup {0} ],
         NEW t \in TaskId, NEW free \in Seq(Workers), free # << >>,
         NEW procs \in [ Pids -> TaskId \cup {0} ],
         NEW timers \in [ Workers -> Timer ],
         OrderOf(procs, free),
         MeasuredIn(procs, timers),
         \A p \in Pids : procs[p] # t,
         Fork(t, free, procs) \/ ForkFails(t, free, procs),
         workerTimers' = IF taskState'[t] = "running" THEN Timed(timers, Head(free))
                         ELSE timers,
         retries' \in [ TaskId -> Nat ], elapsedAcc' \in [ TaskId -> Nat ],
         Charged(t, ranFor[t], retries[t])',
         \A s \in TaskId \ {t} : retries'[s] = retries[s] /\ elapsedAcc'[s] = elapsedAcc[s],
         \A s \in TaskId \ {t} :
           /\ taskState[s] # "running" => Charged(s, ranFor[s], retries[s] + 1)
           /\ taskState[s] \in {"waiting", "blocked", "invalid", "cancelled"} =>
                ranFor[s] = 0 /\ elapsedAcc[s] = 0,
         UNCHANGED << now, ranFor >>
  PROVE  RunsMeasured' /\ ElapsedTruthful' /\ workerTimers' \in [ Workers -> Timer ]
<1> DEFINE w == Head(free)
<1>1. w \in Workers /\ w \in Range(free)
  BY PopHead DEF OrderOf
<1> HIDE DEF w
<1>2. /\ now \in Nat \ {0} /\ ranFor \in [ TaskId -> Nat ]
      /\ taskState \in [ TaskId -> TaskStates ]
  BY DEF TimesTypeOK, SchedTypeOK
<1>3. \A p \in Pids : procs[p] # 0 =>
        /\ procs[p] \in TaskId \ {t}
        /\ WorkerOf(p) \in Workers /\ WorkerOf(p) # w
  BY <1>1 DEF OrderOf
<1>4. \A p \in Pids : procs[p] # 0 =>
        \E ticks \in 0..ranFor'[procs[p]] :
          /\ Measures(timers[WorkerOf(p)], ticks)
          /\ (Charged(procs[p], ranFor[procs[p]] - ticks, retries[procs[p]]))'
  <2> SUFFICES ASSUME NEW p \in Pids, procs[p] # 0
               PROVE  \E ticks \in 0..ranFor'[procs[p]] :
                        /\ Measures(timers[WorkerOf(p)], ticks)
                        /\ (Charged(procs[p], ranFor[procs[p]] - ticks, retries[procs[p]]))'
    OBVIOUS
  <2>1. PICK ticks \in 0..ranFor[procs[p]] :
          /\ Measures(timers[WorkerOf(p)], ticks)
          /\ Charged(procs[p], ranFor[procs[p]] - ticks, retries[procs[p]])
    BY DEF MeasuredIn
  <2>2. (Charged(procs[p], ranFor[procs[p]] - ticks, retries[procs[p]]))'
    BY <1>3, <2>1 DEF Charged
  <2> QED BY <2>1, <2>2
<1>5. \A s \in TaskId \ {t} :
        /\ taskState[s] # "running" => (Charged(s, ranFor[s], retries[s] + 1))'
        /\ taskState[s] \in {"waiting", "blocked", "invalid", "cancelled"} =>
             ranFor'[s] = 0 /\ elapsedAcc'[s] = 0
  BY DEF Charged
<1>6. CASE Fork(t, free, procs)
  <2>1. PICK pid \in Pids :
          /\ procs[pid] = 0
          /\ child' = [ procs EXCEPT ![pid] = t ]
          /\ pidToWorker' = [ pidToWorker EXCEPT ![pid] = w ]
          /\ taskState' = [ taskState EXCEPT ![t] = "running" ]
    BY <1>6 DEF Fork, w
  <2>2. workerTimers' = [ timers EXCEPT ![w] = Start(Reset(timers[w]), now) ]
    BY <1>1, <1>2, <2>1 DEF Timed, w
  <2>3. /\ Start(Reset(timers[w]), now) \in Timer
        /\ Measures(Start(Reset(timers[w]), now), 0)
    BY <1>1, <1>2, StartedTimer
  <2>4. /\ workerTimers' \in [ Workers -> Timer ]
        /\ Measures(workerTimers[w], 0)'
        /\ \A v \in Workers : v # w => workerTimers'[v] = timers[v]
    BY <1>1, <2>2, <2>3 DEF Measures
  <2>5. \A p \in Pids :
          /\ child'[p] = IF p = pid THEN t ELSE procs[p]
          /\ WorkerOf(p)' = IF p = pid THEN w ELSE WorkerOf(p)
    BY <2>1 DEF WorkerOf
  <2>6. ASSUME NEW p \in Pids, child'[p] # 0
        PROVE  \E ticks \in 0..ranFor'[child'[p]] :
                 /\ Measures(workerTimers[WorkerOf(p)], ticks)'
                 /\ (Charged(child[p], ranFor[child[p]] - ticks, retries[child[p]]))'
    <3>1. CASE p = pid
      <4>1. child'[p] = t /\ WorkerOf(p)' = w
        BY <2>5, <3>1
      <4>2. 0 \in 0..ranFor'[t] /\ ranFor'[t] - 0 = ranFor'[t]
        BY <1>2
      <4> QED BY <2>4, <4>1, <4>2 DEF Charged
    <3>2. CASE p # pid
      <4>1. child'[p] = procs[p] /\ procs[p] # 0 /\ WorkerOf(p)' = WorkerOf(p)
        BY <2>5, <2>6, <3>2
      <4>2. workerTimers'[WorkerOf(p)'] = timers[WorkerOf(p)]
        BY <1>3, <2>4, <4>1
      <4>3. PICK ticks \in 0..ranFor'[procs[p]] :
              /\ Measures(timers[WorkerOf(p)], ticks)
              /\ (Charged(procs[p], ranFor[procs[p]] - ticks, retries[procs[p]]))'
        BY <1>4, <4>1
      <4>4. Measures(workerTimers[WorkerOf(p)], ticks)'
        BY <4>2, <4>3 DEF Measures
      <4>5. (Charged(child[p], ranFor[child[p]] - ticks, retries[child[p]]))'
        BY <4>1, <4>3 DEF Charged
      <4> QED BY <4>1, <4>3, <4>4, <4>5
    <3> QED BY <3>1, <3>2
  <2>7. RunsMeasured'
    BY <1>2, <1>5, <2>1, <2>6 DEF RunsMeasured, Children
  <2>8. ElapsedTruthful'
    BY <1>2, <1>5, <2>1 DEF ElapsedTruthful
  <2> QED BY <2>4, <2>7, <2>8
<1>7. CASE ForkFails(t, free, procs)
  <2>1. /\ child' = procs
        /\ pidToWorker' = pidToWorker
        /\ taskState' = [ taskState EXCEPT ![t] = "failed" ]
    BY <1>7 DEF ForkFails
  <2>2. workerTimers' = timers
    BY <1>2, <2>1
  <2>3. RunsMeasured'
    BY <1>2, <1>4, <1>5, <2>1, <2>2 DEF RunsMeasured, Children, WorkerOf, Measures, Charged
  <2>4. (Charged(t, ranFor[t], retries[t] + 1))'
    <3> DEFINE secs == elapsedAcc'[t] * Second
               loss == retries'[t] * (Second - 1)
    <3>1. secs \in Nat /\ loss \in Nat /\ Second - 1 \in Nat
      <4>1. elapsedAcc'[t] \in Nat /\ retries'[t] \in Nat /\ Second \in Nat /\ Second - 1 \in Nat
        BY SecondAssumption
      <4> QED BY <4>1, SMTT(60)
    <3>2. (retries'[t] + 1) * (Second - 1) = loss + (Second - 1)
      BY SecondAssumption
    <3>3. secs <= ranFor'[t] /\ ranFor'[t] <= secs + loss
      BY DEF Charged
    <3> HIDE DEF secs, loss
    <3>4. ranFor'[t] <= secs + (loss + (Second - 1))
      BY <1>2, <3>1, <3>3
    <3> QED BY <3>2, <3>3, <3>4 DEF Charged, secs, loss
  <2>5. ElapsedTruthful'
    BY <1>2, <1>5, <2>1, <2>4 DEF ElapsedTruthful
  <2> QED BY <2>2, <2>3, <2>5
<1> QED BY <1>6, <1>7

\* The allocation of a task from the queue, which was never run before.
LEMMA AllocateKeepsAccounts ==
  ASSUME AccountInv, AllocateTimed
  PROVE  /\ TimesTypeOK' /\ RunsMeasured' /\ ElapsedTruthful'
         /\ RunMeasured' /\ TotalTimeIsRun' /\ SummaryComplete'
<1>1. /\ SchedTypeOK /\ TimesTypeOK /\ ChildrenInOrder /\ TablesAgree
      /\ RunsMeasured /\ ElapsedTruthful
      /\ pidToWorker \in [ Pids -> Workers \cup {0} ]
      /\ child \in [ Pids -> TaskId \cup {0} ]
      /\ taskQueue \in Seq(TaskId) /\ taskQueue # << >>
      /\ freeWorkers \in Seq(Workers) /\ freeWorkers # << >>
  BY DEF AccountInv, WorkInv, EngineInv, TypeOK, SchedTypeOK, AllocateTimed, Allocate,
     MustAllocate
<1>2. /\ Fork(Head(taskQueue), freeWorkers, child) \/ ForkFails(Head(taskQueue), freeWorkers, child)
      /\ workerTimers' = IF taskState'[Head(taskQueue)] = "running"
                         THEN Timed(workerTimers, Head(freeWorkers)) ELSE workerTimers
      /\ UNCHANGED << now, ranFor, lasted, globalTimer, elapsedAcc, summary, pc, retries >>
  BY DEF AllocateTimed, Allocate, clockVars
<1>3. PICK t : t = Head(taskQueue)
  OBVIOUS
<1>4. t \in TaskId /\ t # 0 /\ t \in validTasks /\ taskState[t] = "waiting"
  <2>1. t \in Range(taskQueue)
    BY <1>1, <1>3, PopHead DEF TablesAgree, QueueOfWaiting
  <2> QED BY <1>1, <2>1, TaskIdAssumption DEF TablesAgree, QueueOfWaiting, SchedTypeOK
<1>5. OrderOf(child, freeWorkers) /\ MeasuredIn(child, workerTimers)
  BY <1>1 DEF OrderOf, MeasuredIn, ChildrenInOrder, Children, RunsMeasured
<1>6. \A p \in Pids : child[p] # t
  BY <1>1, <1>4 DEF ChildrenInOrder, Children
<1>7. ranFor'[t] = 0 /\ elapsedAcc'[t] = 0 /\ retries'[t] = retries[t] /\ retries[t] \in Nat
  BY <1>1, <1>2, <1>4, MaxRetriesAssumption DEF RunsMeasured, SchedTypeOK
<1>8. (Charged(t, ranFor[t], retries[t]))'
  <2>1. retries[t] * (Second - 1) \in Nat
    <3>1. Second - 1 \in Nat
      BY SecondAssumption
    <3> QED BY <1>7, <3>1, SMTT(60)
  <2>2. 0 * Second = 0
    BY SecondAssumption
  <2> QED BY <1>7, <2>1, <2>2 DEF Charged
<1>9. /\ retries' \in [ TaskId -> Nat ] /\ elapsedAcc' \in [ TaskId -> Nat ]
      /\ workerTimers \in [ Workers -> Timer ]
  BY <1>1, <1>2, MaxRetriesAssumption DEF SchedTypeOK, TimesTypeOK
<1>10. \A s \in TaskId \ {t} :
         /\ retries'[s] = retries[s] /\ elapsedAcc'[s] = elapsedAcc[s]
         /\ taskState[s] # "running" => Charged(s, ranFor[s], retries[s] + 1)
         /\ taskState[s] \in {"waiting", "blocked", "invalid", "cancelled"} =>
              ranFor[s] = 0 /\ elapsedAcc[s] = 0
  BY <1>1, <1>2 DEF RunsMeasured, ElapsedTruthful
<1>11. /\ Fork(t, freeWorkers, child) \/ ForkFails(t, freeWorkers, child)
       /\ workerTimers' = IF taskState'[t] = "running"
                          THEN Timed(workerTimers, Head(freeWorkers)) ELSE workerTimers
       /\ UNCHANGED << now, ranFor >>
  BY <1>2, <1>3
<1>12. RunsMeasured' /\ ElapsedTruthful' /\ workerTimers' \in [ Workers -> Timer ]
  BY <1>1, <1>4, <1>5, <1>6, <1>8, <1>9, <1>10, <1>11, StartMeasured
<1>13. TimesTypeOK'
  BY <1>1, <1>2, <1>12 DEF TimesTypeOK, Workers
<1> QED BY <1>2, <1>12, <1>13, SameRun DEF AccountInv

\* waitForAnyWorker charges the task of the child it reaps with what the timer of
\* its worker has measured; the timers of the other children go on.
LEMMA ReapMeasured ==
  ASSUME AccountInv, NEW pid \in zombies,
         elapsedAcc' = [ elapsedAcc EXCEPT ![TaskOf(pid)] =
                           @ + SecsElapsed(Stop(workerTimers[WorkerOf(pid)], now)) ]
  PROVE  LET stopped == [ workerTimers EXCEPT ![WorkerOf(pid)] = Stop(@, now) ]
         IN  /\ stopped \in [ Workers -> Timer ]
             /\ MeasuredIn(Reaped(pid), stopped)
             /\ elapsedAcc' \in [ TaskId -> Nat ]
             /\ \A s \in TaskId : s # TaskOf(pid) => elapsedAcc'[s] = elapsedAcc[s]
             /\ LET t == TaskOf(pid)
                IN  /\ elapsedAcc'[t] * Second <= ranFor[t]
                    /\ ranFor[t] <= elapsedAcc'[t] * Second + (retries[t] + 1) * (Second - 1)
<1> DEFINE stopped == [ workerTimers EXCEPT ![WorkerOf(pid)] = Stop(@, now) ]
<1>1. PICK t : t = TaskOf(pid)
  OBVIOUS
<1>2. PICK w : w = WorkerOf(pid)
  OBVIOUS
<1>3. /\ pid \in Children /\ pid \in Pids /\ child[pid] = t /\ t \in TaskId
      /\ w \in Workers /\ retries[t] \in Nat
  BY <1>1, <1>2, ReapedChild, MaxRetriesAssumption
     DEF AccountInv, WorkInv, EngineInv, TypeOK, SchedTypeOK, ChildrenInOrder
<1>4. /\ now \in Nat \ {0} /\ ranFor[t] \in Nat /\ elapsedAcc[t] \in Nat
      /\ workerTimers \in [ Workers -> Timer ] /\ elapsedAcc \in [ TaskId -> Nat ]
  BY <1>3 DEF AccountInv, TimesTypeOK
<1>5. PICK ticks \in 0..ranFor[t] :
        /\ Measures(workerTimers[w], ticks)
        /\ Charged(t, ranFor[t] - ticks, retries[t])
  BY <1>2, <1>3 DEF AccountInv, RunsMeasured
<1>6. ticks \in Nat /\ ranFor[t] - ticks \in Nat
  BY <1>4
<1>7. /\ Stop(workerTimers[w], now) \in Timer
      /\ Stop(workerTimers[w], now).elapsed = ticks
  BY <1>3, <1>4, <1>5, <1>6, StoppedTimer
<1>8. elapsedAcc' = [ elapsedAcc EXCEPT ![t] = @ + (ticks \div Second) ]
  BY <1>1, <1>2, <1>7 DEF SecsElapsed
<1>9. elapsedAcc'[t] = elapsedAcc[t] + (ticks \div Second)
  BY <1>3, <1>4, <1>8
<1>10. /\ ticks \div Second \in Nat
       /\ elapsedAcc'[t] * Second <= ranFor[t]
       /\ ranFor[t] <= elapsedAcc'[t] * Second + (retries[t] + 1) * (Second - 1)
  <2> DEFINE before == ranFor[t] - ticks
             secs == elapsedAcc[t]
             runs == retries[t]
  <2>1. /\ secs \in Nat /\ before \in Nat /\ runs \in Nat
        /\ secs * Second <= before /\ before <= secs * Second + runs * (Second - 1)
    BY <1>3, <1>4, <1>5, <1>6 DEF Charged
  <2>2. before + ticks = ranFor[t]
    BY <1>4, <1>6
  <2> HIDE DEF before, secs, runs
  <2>3. /\ ticks \div Second \in Nat
        /\ (secs + (ticks \div Second)) * Second <= before + ticks
        /\ before + ticks <= (secs + (ticks \div Second)) * Second + (runs + 1) * (Second - 1)
    BY <1>6, <2>1, WholeSeconds
  <2> QED BY <1>9, <2>2, <2>3 DEF secs, runs
<1>11. /\ elapsedAcc' \in [ TaskId -> Nat ]
       /\ \A s \in TaskId : s # t => elapsedAcc'[s] = elapsedAcc[s]
  <2> DEFINE sum == elapsedAcc[t] + (ticks \div Second)
  <2>1. sum \in Nat
    BY <1>4, <1>10
  <2>2. elapsedAcc' = [ elapsedAcc EXCEPT ![t] = sum ]
    BY <1>8
  <2> HIDE DEF sum
  <2> QED BY <1>3, <1>4, <2>1, <2>2
<1>12. /\ stopped \in [ Workers -> Timer ]
       /\ \A v \in Workers : v # w => stopped[v] = workerTimers[v]
  BY <1>2, <1>3, <1>4, <1>7
<1> HIDE DEF stopped
<1>13. MeasuredIn(Reaped(pid), stopped)
  <2>1. \A p \in Pids : Reaped(pid)[p] = IF p = pid THEN 0 ELSE child[p]
    BY ReapedChild DEF AccountInv, WorkInv
  <2>2. ASSUME NEW p \in Pids, p # pid, child[p] # 0
        PROVE  stopped[WorkerOf(p)] = workerTimers[WorkerOf(p)]
    <3>1. WorkerOf(p) \in Workers /\ WorkerOf(p) # w
      BY <1>2, <1>3, <2>2 DEF AccountInv, WorkInv, EngineInv, ChildrenInOrder, Children
    <3> QED BY <1>12, <3>1
  <2>3. \A p \in Pids : child[p] # 0 =>
          \E n \in 0..ranFor[child[p]] :
            /\ Measures(workerTimers[WorkerOf(p)], n)
            /\ Charged(child[p], ranFor[child[p]] - n, retries[child[p]])
    BY DEF AccountInv, RunsMeasured, Children
  <2> QED BY <2>1, <2>2, <2>3 DEF MeasuredIn
<1> QED BY <1>1, <1>10, <1>11, <1>12, <1>13 DEF stopped

\* The end of a child: its task ends, or is allocated again with what it took so
\* far.
LEMMA WaitKeepsAccounts ==
  ASSUME AccountInv, WaitTimed
  PROVE  /\ TimesTypeOK' /\ RunsMeasured' /\ ElapsedTruthful'
         /\ RunMeasured' /\ TotalTimeIsRun' /\ SummaryComplete'
<1>1. PICK pid \in zombies \ zombies' :
        LET w       == WorkerOf(pid)
            t       == TaskOf(pid)
            stopped == [ workerTimers EXCEPT ![w] = Stop(@, now) ]
        IN  /\ elapsedAcc' = [ elapsedAcc EXCEPT ![t] = @ + SecsElapsed(stopped[w]) ]
            /\ workerTimers' = IF taskState'[t] = "running"
                               THEN Timed(stopped, Head(Freed(pid))) ELSE stopped
  BY DEF WaitTimed
<1>2. /\ EpilogueSuccess(pid) \/ EpilogueFailure(pid) \/ EpilogueRetry(pid)
      /\ UNCHANGED << now, ranFor, lasted, globalTimer, summary, pc, validTasks >>
  <2>1. PICK q \in zombies :
          /\ EpilogueSuccess(q) \/ EpilogueFailure(q) \/ EpilogueRetry(q)
          /\ zombies' = zombies \ {q}
    BY DEF WaitTimed, WaitForAnyWorker
  <2>2. pid = q
    BY <1>1, <2>1
  <2> QED BY <2>1, <2>2 DEF WaitTimed, WaitForAnyWorker, clockVars
<1>3. /\ SchedTypeOK /\ TimesTypeOK /\ ChildrenInOrder /\ TablesAgree
      /\ RunsMeasured /\ ElapsedTruthful /\ EngineInv
      /\ pidToWorker \in [ Pids -> Workers \cup {0} ]
  BY DEF AccountInv, WorkInv, EngineInv, TypeOK
<1>4. PICK t : t = TaskOf(pid)
  OBVIOUS
<1>5. PICK free : free = Freed(pid)
  OBVIOUS
<1>6. PICK procs : procs = Reaped(pid)
  OBVIOUS
<1>7. PICK timers : timers = [ workerTimers EXCEPT ![WorkerOf(pid)] = Stop(@, now) ]
  OBVIOUS
<1>8. /\ t \in validTasks /\ t \in TaskId /\ taskState[t] = "running"
      /\ free \in Seq(Workers) /\ free # << >>
      /\ procs \in [ Pids -> TaskId \cup {0} ]
      /\ OrderOf(procs, free)
      /\ \A p \in Pids : procs[p] # t
      /\ \A p \in Pids : procs[p] = IF p = pid THEN 0 ELSE child[p]
  BY <1>3, <1>4, <1>5, <1>6, ReapedChild DEF SchedTypeOK
<1>9. SecsElapsed(timers[WorkerOf(pid)]) =
        SecsElapsed(Stop(workerTimers[WorkerOf(pid)], now))
  <2>1. WorkerOf(pid) \in Workers
    BY <1>3 DEF ChildrenInOrder, EngineInv, TypeOK
  <2>2. timers[WorkerOf(pid)] = Stop(workerTimers[WorkerOf(pid)], now)
    BY <1>3, <1>7, <2>1 DEF TimesTypeOK
  <2> QED BY <2>2
<1>10. elapsedAcc' = [ elapsedAcc EXCEPT ![TaskOf(pid)] =
                         @ + SecsElapsed(Stop(workerTimers[WorkerOf(pid)], now)) ]
  BY <1>1, <1>7, <1>9
<1>11. /\ timers \in [ Workers -> Timer ]
       /\ MeasuredIn(procs, timers)
       /\ elapsedAcc' \in [ TaskId -> Nat ]
       /\ \A s \in TaskId \ {t} : elapsedAcc'[s] = elapsedAcc[s]
       /\ elapsedAcc'[t] * Second <= ranFor[t]
       /\ ranFor[t] <= elapsedAcc'[t] * Second + (retries[t] + 1) * (Second - 1)
  BY <1>4, <1>6, <1>7, <1>10, ReapMeasured
<1>12. workerTimers' = IF taskState'[t] = "running" THEN Timed(timers, Head(free))
                       ELSE timers
  BY <1>1, <1>4, <1>5, <1>7
<1>13. \A s \in TaskId \ {t} :
         /\ taskState[s] # "running" => Charged(s, ranFor[s], retries[s] + 1)
         /\ taskState[s] \in {"waiting", "blocked", "invalid", "cancelled"} =>
              ranFor[s] = 0 /\ elapsedAcc[s] = 0
  BY <1>3 DEF RunsMeasured, ElapsedTruthful
<1>14. RunsMeasured' /\ ElapsedTruthful' /\ workerTimers' \in [ Workers -> Timer ]
  <2>1. CASE EpilogueRetry(pid)
    <3>1. /\ retries' = [ retries EXCEPT ![t] = @ + 1 ]
          /\ Fork(t, free, procs) \/ ForkFails(t, free, procs)
      BY <1>4, <1>5, <1>6, <2>1 DEF EpilogueRetry
    <3>2. /\ retries' \in [ TaskId -> Nat ] /\ retries'[t] = retries[t] + 1
          /\ \A s \in TaskId \ {t} : retries'[s] = retries[s]
      BY <1>3, <1>8, <3>1, MaxRetriesAssumption DEF SchedTypeOK
    <3>3. (Charged(t, ranFor[t], retries[t]))'
      BY <1>2, <1>11, <3>2 DEF Charged
    <3> QED BY <1>2, <1>3, <1>8, <1>11, <1>12, <1>13, <3>1, <3>2, <3>3, StartMeasured
  <2>2. CASE EpilogueSuccess(pid) \/ EpilogueFailure(pid)
    <3>1. /\ Complete(t) \/ Fail(t)
          /\ child' = procs /\ UNCHANGED << retries, pidToWorker >>
      BY <1>4, <1>6, <2>2 DEF EpilogueSuccess, EpilogueFailure
    <3>2. /\ taskState'[t] \in {"completed", "failed"}
          /\ \A s \in TaskId \ {t} :
               \/ taskState'[s] = taskState[s]
               \/ taskState[s] \in {"blocked", "invalid"} /\ taskState'[s] \in {"waiting", "cancelled"}
      BY <1>3, <1>8, <3>1, SettleElsewhere
    <3>3. workerTimers' = timers
      BY <1>12, <3>2
    <3>4. ASSUME NEW p \in Pids, child'[p] # 0
          PROVE  \E ticks \in 0..ranFor'[child'[p]] :
                   /\ Measures(workerTimers[WorkerOf(p)], ticks)'
                   /\ (Charged(child[p], ranFor[child[p]] - ticks, retries[child[p]]))'
      <4>1. procs[p] # 0 /\ procs[p] \in TaskId \ {t} /\ child'[p] = procs[p]
        BY <1>8, <3>1, <3>4
      <4>2. PICK ticks \in 0..ranFor[procs[p]] :
              /\ Measures(timers[WorkerOf(p)], ticks)
              /\ Charged(procs[p], ranFor[procs[p]] - ticks, retries[procs[p]])
        BY <1>11, <4>1 DEF MeasuredIn
      <4>3. Measures(workerTimers[WorkerOf(p)], ticks)'
        BY <1>2, <3>1, <3>3, <4>2 DEF Measures, WorkerOf
      <4>4. (Charged(child[p], ranFor[child[p]] - ticks, retries[child[p]]))'
        BY <1>2, <1>11, <3>1, <4>1, <4>2 DEF Charged
      <4> QED BY <1>2, <4>1, <4>2, <4>3, <4>4
    <3>5. RunsMeasured'
      BY <1>2, <1>11, <1>13, <3>2, <3>4 DEF RunsMeasured, Children
    <3>6. ElapsedTruthful'
      <4>1. (Charged(t, ranFor[t], retries[t] + 1))'
        BY <1>2, <1>11, <3>1 DEF Charged
      <4>2. ASSUME NEW s \in TaskId \ {t}, taskState'[s] # "running"
            PROVE  (Charged(s, ranFor[s], retries[s] + 1))'
        <5>1. taskState[s] # "running"
          BY <3>2, <4>2
        <5> QED BY <1>2, <1>11, <1>13, <3>1, <5>1 DEF Charged
      <4> QED BY <4>1, <4>2 DEF ElapsedTruthful
    <3> QED BY <1>11, <3>3, <3>5, <3>6
  <2> QED BY <1>2, <2>1, <2>2
<1>15. TimesTypeOK'
  BY <1>2, <1>3, <1>11, <1>14 DEF TimesTypeOK, Workers
<1> QED BY <1>2, <1>14, <1>15, SameRun DEF AccountInv

-------------------------------------------------------------------------------
(* AccountInv is an invariant                                              *)

\* The timers are new before the run.
LEMMA InitAccounts == AccountInit /\ WorkInv => AccountInv
<1> SUFFICES ASSUME AccountInit, WorkInv PROVE AccountInv
  OBVIOUS
<1>1. Children = {} /\ pc = "start"
  BY DEF AccountInit, Init, Children, SchedInit
<1>2. NewTimer \in Timer
  BY DEF NewTimer, Timer
<1>3. TimesTypeOK /\ RunsMeasured /\ RunMeasured /\ TotalTimeIsRun /\ SummaryComplete
  BY <1>1, <1>2 DEF AccountInit, TimesTypeOK, RunsMeasured, RunMeasured, TotalTimeIsRun,
     SummaryComplete
<1>4. ElapsedTruthful
  <2> SUFFICES ASSUME NEW t \in TaskId PROVE Charged(t, ranFor[t], retries[t] + 1)
    BY DEF ElapsedTruthful
  <2>1. ranFor[t] = 0 /\ elapsedAcc[t] = 0 /\ retries[t] = 0
    BY DEF AccountInit, Init, SchedInit, TableInit
  <2> QED BY <2>1, SecondAssumption DEF Charged
<1> QED BY <1>3, <1>4 DEF AccountInv

\* workerTimers and globalTimer measure what pidToWorker, taskAssignation and pc
\* say they measure, through every reuse of a worker and every retry.
THEOREM AccountInvariant == AccountSpec => []AccountInv
<1>1. AccountInv /\ WorkInv' /\ [AccountNext]_<< vars, timeVars >> => AccountInv'
  <2> SUFFICES ASSUME AccountInv, WorkInv', [AccountNext]_<< vars, timeVars >>
               PROVE  /\ TimesTypeOK' /\ RunsMeasured' /\ ElapsedTruthful'
                      /\ RunMeasured' /\ TotalTimeIsRun' /\ SummaryComplete'
    BY DEF AccountInv
  <2>1. CASE StartRun \/ EndRun
    BY <2>1, RunKeepsAccounts
  <2>2. CASE AllocateTimed
    BY <2>2, AllocateKeepsAccounts
  <2>3. CASE WaitTimed
    BY <2>3, WaitKeepsAccounts
  <2>4. CASE Summarise
    BY <2>4, SummaryKeepsAccounts
  <2>5. CASE Tick
    BY <2>5, TickKeepsAccounts
  <2>6. CASE Untimed \/ Reported \/ UNCHANGED << vars, timeVars >>
    BY <2>6, UntimedKeepsAccounts
  <2> QED BY <2>1, <2>2, <2>3, <2>4, <2>5, <2>6 DEF AccountNext
<1> QED BY <1>1, InitAccounts, AccountsForEngine, WorkInvariant, PTL DEF AccountSpec

\* setElapsedTime charges a task what its children took, over all its retries and
\* although the timer belongs to the worker, with less than a second lost for each
\* run.
THEOREM TimesAreTrue == AccountSpec => []ElapsedTruthful
<1>1. AccountInv => ElapsedTruthful
  BY DEF AccountInv
<1> QED BY <1>1, AccountInvariant, PTL

\* The total time of buildFinalSummary is that of runScheduler, although finalize
\* stops globalTimer a second time.
THEOREM TotalTimeIsTrue == AccountSpec => []TotalTimeIsRun
<1>1. AccountInv => TotalTimeIsRun
  BY DEF AccountInv
<1> QED BY <1>1, AccountInvariant, PTL

\* buildFinalSummary counts every task exactly once.
THEOREM SummaryIsComplete == AccountSpec => []SummaryComplete
<1>1. AccountInv => SummaryComplete
  BY DEF AccountInv
<1> QED BY <1>1, AccountInvariant, PTL
===============================================================================
