# A verification project for GREASY

GREASY runs a file of shell commands, one per line, on a set of workers. A line may
name lines it depends on. A task that fails is retried, then given up together with
everything that depends on it, and what did not complete is written to a restart
file. The code is in `src/src/`; paths below are relative to it.

## The system

| Component | State | Operations | Talks to |
|---|---|---|---|
| `GreasyTask` | id, command, dependency list, state, retries, return code | `addDependencies`, `addDependency`, `removeDependency`, `dumpDependencies`, setters | owned by the engine's `taskMap` |
| `AbstractEngine` | `taskMap`, `validTasks`, `revDepMap`, `fileErrors`, `ready`, `nworkers` | `init` (`parseTaskFile`, `checkDependencies`), `finalize` (`buildFinalSummary`), `writeRestartFile` | task file, restart file, configuration |
| `AbstractSchedulerEngine` | `taskQueue`, `blockedTasks`, `freeWorkers`, `taskAssignation` | `runScheduler`, `taskEpilogue`, `updateDependencies` | calls the virtual `allocate` and `waitForAnyWorker` |
| `BasicEngine` | `pidToWorker`, timers, nodes of the workers | `allocate` (fork), `waitForAnyWorker` (wait), `executeTask` (system) | child processes |
| `MPIEngine` | rank, `taskAssignation` | `allocate` (send), `waitForAnyWorker` (receive), `fireWorkers`, `runWorker` | MPI ranks |
| `ThreadEngine` | none of its own; the tables are shared by threads | `runScheduler` (`parallel_do`), `operator()`, `taskEpilogue`, `updateDependencies` | TBB feeder |
| `SlurmEngine` | none (a constructor) | none | |
| `main`, `termHandler` | the engine | init, run, finalize; on SIGTERM and SIGINT write the restart file and exit | engine |
| `GreasyConfig`, `GreasyLog`, `GreasyTimer`, `GreasyRegex`, utilities | keys; file; intervals | read, record, start/stop, match | all |

What is hard in it: children end in any order while the master allocates, retries and
waits; a task is reached by `updateDependencies` along several paths; process ids and
workers are reused; exit codes go through four conversions; a signal handler writes the
restart file from whatever the tables hold at that moment, also in the middle of
`updateDependencies`, and renumbers the tables it reads; in `ThreadEngine` the tables are
changed by several threads without a lock; in `MPIEngine` a worker may leave while the
master counts on it; the configuration of an engine is read in five places. `PROJECT.json`
lists the hazards line by line, with the properties that cover them or the reason there is
none.

What makes each component correct:

* start: an engine that says it is ready has loaded its file and can run a task on each of
  its workers; the environment overrides the configuration files;
* loading: a task is kept exactly if its dependencies are earlier tasks that are kept;
  in strict mode any error stops the program;
* dependency lists: what is written is read back to the same dependencies;
* scheduler: no task starts before what it depends on has completed; every task gets
  one verdict, which stands; a failure cancels all that depends on it and nothing else;
  no worker or task is lost; the scheduler never waits for nobody and terminates;
* basic engine: a result is charged to the task that produced it, and is the result of
  the command; so is the time it took;
* thread engine: the same promises, although nothing orders the accesses of two threads
  to a task; no task is run by two of them;
* restart file: it holds exactly the work that is left, in an order Greasy accepts, with
  dependencies that name the new lines, wherever the run was interrupted;
* summary: the times and counts are those of the run.

## Modules

| Module | Models | Extends |
|---|---|---|
| `GreasyTask` | task states, `addDependency`, `removeDependency` as operators | |
| `DependencyList` | tokens of a dependency list and `addDependencies` | `GreasyTask` |
| `DumpDependencies` | the loop of `dumpDependencies` | `DependencyList` |
| `TaskTable` | the tables every engine shares and what loading leaves in them (`Load`); the tasks a failure reaches (`Descendants`); the invariants of the tables and the properties every engine has to have | `GreasyTask` |
| `TaskFile` | `parseTaskFile` and `checkDependencies`, line by line, task by task | `TaskTable`, `DependencyList` |
| `Startup` | `main` up to `run`: `readConfig`, the factory, constructors and `init` of every engine around the load of the file | `TaskFile` |
| `Scheduler` | queues of the master, control of `runScheduler`, `taskEpilogue` and `updateDependencies` (`Complete`, `Fail`) | `TaskTable` |
| `BasicEngine` | `allocate`, `waitForAnyWorker`, `executeTask` and the child processes | `Scheduler` |
| `MPIEngine` | master and worker ranks: `allocate`, `waitForAnyWorker`, `fireWorkers`, `runWorker` and the channels between them | `Scheduler` |
| `ThreadEngine` | `runScheduler`, `operator()`, `taskEpilogue` and `updateDependencies`, run by several threads on the same tables | `TaskTable` |
| `Workflow` | abstract: tasks with dependencies that end done, failed or cancelled | |
| `RestartFile` | `writeRestartFile`, one turn of its loop at a time | `Scheduler` |
| `BasicRun` | `main`, `finalize`, `termHandler` around `BasicEngine`, with `updateDependencies` one dependant at a time | `BasicEngine`, `RestartFile` |
| `GreasyTimer` | an interval timer as operators | |
| `Accounting` | the timers of run and workers, the time of each task and `buildFinalSummary`, over the steps of `BasicEngine` and a clock | `BasicEngine`, `GreasyTimer` |
| `MC*` | instances for TLC | the module after `MC` |
| `ThreadInvariant` | the inductive invariant of `ThreadEngine` | `ThreadEngine` |
| `RunInvariant` | the inductive invariants of `BasicRun` | `BasicRun` |
| `TaskTableProofs` | lemmas on the tables and the operators every engine uses | `TaskTable` |
| `SchedulerProofs` | what the handlers of a master do to its tables, whatever the engine | `Scheduler`, `TaskTableProofs` |
| `BasicEngineProofs` | invariants of `BasicEngine` and its refinement of `Workflow` | `BasicEngine`, `SchedulerProofs` |
| `MPIEngineProofs` | invariants of `MPIEngine` and its refinement of `Workflow` | `MPIEngine`, `SchedulerProofs` |
| `ThreadEngineProofs` | the invariant of `ThreadEngine`, step by step, and its refinement of `Workflow` | `ThreadInvariant`, `TaskTableProofs` |
| `AccountingProofs` | what the timers measure and the summary reports | `Accounting`, `BasicEngineProofs` |
| `BasicRunProofs` | the invariants of `BasicRun`, step by step, what they say of the restart file, and that the run implements `BasicEngine` | `RunInvariant`, `BasicEngineProofs` |
| `StartupProofs` | the load of the file and the stages of `main`; `dumpDependencies` | `Startup`, `DumpDependencies` |

Correspondence with the code:

* Variables have the names of the members they stand for. `taskMap[t]->x` is a function
  over `TaskId` (`taskState`, `dependencies`, `retries`). Queues are sequences. A
  `revDepMap` list and a dependency list are sets: the code sorts them and drops
  duplicates, or walks them in increasing order.
* `pc` is the place of the master in `runScheduler`: before the loop, in the loop,
  waiting for the last workers, returned, or dead. `MustAllocate` and `MustWait` are the
  conditions under which its control flow comes to a call of `allocate` or
  `waitForAnyWorker`.
* In the engines with a master one action is one handler with everything it calls:
  `WaitForAnyWorker` includes the release of the worker, `taskEpilogue`, the whole
  recursion of `updateDependencies` and the `allocate` of a retry. This is exact for the
  basic engine: the master is one thread and the children share no memory with it. The
  recursion is the least set closed under `revDepMap` (`Descendants`), a form without
  recursive operators that can be reasoned about. `BasicRun` takes the same handler apart:
  `calls` is the stack of calls of `updateDependencies`, each with the dependants its loop
  has left, and `ImplementsEngine` states that the parts add up to the handler. The
  mapping shows the tables from before the child was reaped (`before`) until the last call
  returns.
* A child process is `child[pid]`, the task it runs; it ends with a status for `wait()`,
  computed from what `system()` returned as `executeTask` and `exit` do. `commandOk`
  records, for the properties only, what really became of the command.
* In `MPIEngine` a worker rank is a sequential process of its own (`workerPc`), with one
  channel from the master and one to it; MPI keeps the order of messages between two
  ranks, and the master receives from any of them. A report names no task in the code:
  the field `task` of `Report` is read by the properties only. The two `Send`s of a
  command are one step, since nobody else sends on that channel; a receive finds either.
  A worker without memory for a command (`GiveUp`) reports and leaves its loop with the
  command still in its channel, and the master goes on as if nothing had happened.
* In `ThreadEngine` a step is one access to what the threads share. `where` is the place
  of a thread in the function, `calls` its stack of calls of `updateDependencies`, `pool`
  what `parallel_do` has still to hand out. Two threads in the same `std::list` at once
  are undefined behaviour; the model reads the list in one step and writes it back
  without the id in another (`copy`), so that either removal may be lost, and lets it be
  read at any time. Anything worse that a broken list could do is not modelled. The
  promises hold under two conditions, which have names: `Apart` (no two threads can ever
  update one task, for there is one thread or no task has two parents) and `Calm` (no two
  threads have been releasing one task at once, that is, removing their dependencies from
  it, looking at its list or feeding it). Under `Calm` the parents of a task may end on as
  many threads as there are, as long as they do not come to the task together. `met`
  records the tasks where threads came together, for the properties only.
* `TaskFile` takes the kind of each line (blank, command, broken, list) and the tokens of
  the list as given; the regular expressions that tell them apart are not modelled. Its
  `TaskId` is every line number, and a line without a task reads as invalid, which is how
  `Load` treats it. `Load` is the definition the engines start from; the property
  `LoadedTable` connects the two.
* In `Startup` a configuration is a partial function from keys to values, the merge of a
  file and the environment; what is read from it, where and in which order is that of the
  code. The engines the program was built with are a constant (`Built`).
* `RestartFile` changes `dependencies` and `taskState` of the engine itself, as the code
  does; `termHandler` may start it again in the middle. `nindex` counts header lines and
  tasks as the code does, `printed` what is really in the file; the new number of a task
  is right when they agree.
* In `Accounting` a step of the engine takes no time and the clock (`now`) may advance
  between any two steps. `ranFor` and `lasted` are kept for the properties only.

## Runs

| Run | Question | Bounds |
|---|---|---|
| `Startup_load` | does the single pass of `checkDependencies` leave the table the engines expect, and what does a strict run accept? Is an engine that is ready one that can run? | 3 lines with lists of up to 2 tokens of 7 sorts, strict or not; and one file with any of some 960 configurations in user's file, system file and environment, 1 or 3 ranks, 2 or 8 cores |
| `DumpDependencies` | does `addDependencies` read what `dumpDependencies` writes? | all subsets of 7 lines |
| `Basic_safety` | are the master's tables right in every interleaving, is `Workflow` implemented, and does `runScheduler` return? | all files of 3 tasks over 4 line numbers, 2 workers, 3 process ids, 1 retry, statuses 0, 1, 255, -1, signal deaths of children, fairness |
| `Basic_adverse` | what survives failing forks, signals and tasks blocked on nothing? | 3 tasks, 2 workers, 2 process ids, 1 retry |
| `MPI_safety` | the same over MPI, with tasks reached along several paths; do all ranks leave? | all acyclic files of 4 tasks, 2 workers, 1 retry, statuses 0, 256, 9, workers that may give up, fairness |
| `BasicRun_restart` | is the restart file right wherever the run is interrupted, does every run end with a result or a restart file, and do the loops of `updateDependencies` add up to the handler of `BasicEngine`? | files on lines 1 to 3, 2 workers, 1 retry, up to 2 signals, fairness |
| `Thread_safety` | what do threads without a lock leave of the promises, and do they return? | all files of 3 tasks and all trees of 4, 1 or 2 threads, 1 retry, fairness |
| `Accounting` | are the times and counts of the summary right? | 3 tasks in 4 shapes, 2 workers, 1 retry, failing forks, a clock of 6 values, so five ticks, 2 to a second |

Three tasks give chains, forks, joins and a task that is dropped between two that are
kept; the fourth task of `MPI_safety` gives two paths to one task, and that of
`Thread_safety` a dependant of a dependant beside another. Two workers give
children that end in either order with a third task queued, and the third process id lets
ids be reused out of step with workers. Two threads are enough for each race of the
table, which is between two accesses to one task. Five ticks let a task be run twice, with a
fraction of a second each time. Process ids are symmetric in `Basic_adverse`,
`BasicRun_renumber` and `Accounting`; the runs with liveness properties use no symmetry.
Statuses are those the conversions treat differently. `MaxHandlers` is the number of
handlers that can be entered, one per signal.

Runs that show a disagreement between the code and what it says of itself (each checks one
property and fails):

| Run | What the code does |
|---|---|
| `Basic_signal` | `system()` returns 9 for a command killed by SIGKILL; `WEXITSTATUS(9)` is 0, and the task is completed |
| `Basic_selfdep` | a task whose list names only itself is blocked on nothing, is never released, and the master ends up waiting with no child and then uses `taskMap[0]` |
| `BasicRun_renumber` | with tasks on line 7 or later new line numbers collide with old ones in the dependency lists |
| `Thread_twice` | two threads that complete the two parents of a task both find it ready, and its command runs twice |

Other things the code does that its user may not expect are not runs of their own, but are
named as exceptions in properties that pass:

| Property | Exception |
|---|---|
| `StrictRefuses` | a list with a token such as `0` does not stop a strict run |
| `ReadyMeansServed` | an MPI world of one rank falls back to a number of workers nobody serves |
| `BlindWaitExplained` | after a failed `fork` the dependants stay blocked, and the master waits with no child |
| `DroppedExplained` | a dropped task whose valid parent fails becomes cancelled, and is written to the restart file as a task |
| `HandlerFaithful` | interrupted while it releases the dependants of a completed task, the handler writes those it has not come to with the old id of that task |
| `EveryoneLeaves` | after a worker has given up the master may wait for ever |
| `RunsAsPromised` | a task that two threads are releasing at once may be run twice (`Thread_twice`), and what depends on it run early |
| `AllAccounted` | with two threads that are releasing one task at once a removal may be lost: the task stays blocked, `parallel_do` returns, and if nothing failed there is no restart file |

`Basic_safety` leaves out failing forks, statuses of killed commands and tasks blocked on
nothing, which is what makes `NoBlindWait`, `CancelledWithAncestor`, `VerdictOfCommand`
and termination hold; `Basic_adverse` puts them back and checks what holds nevertheless.
`BasicRun_restart` keeps to ids below 7, where the renumbering is sound. `MPI_safety` does
not check for deadlock, for the worker that gives up; every other property holds in that
case too.

Fairness: weak fairness of the master, a sequential program that is never blocked but in
`wait()`, and of each child, which amounts to the assumption that the users' commands end.
Over MPI: weak fairness of the master and of each worker, sequential programs that are only
blocked in a receive, which again assumes that commands end and that MPI delivers. Giving
up is part of a worker's step and is never forced. In `ThreadEngine`: weak fairness of each
thread, whose steps never wait for another thread, and of the start; this is TBB's promise
that a task is taken as long as there is a thread without one. In `BasicRun`: weak fairness
of the process as a whole and of each child. Nothing is assumed of signals.

Each property is also tried against a plausible mistake in the code: the operators whose
comment begins with "Wrong:" stand for it, and `PROJECT.json` says which definition each
one replaces. They are used nowhere else.

## Proofs

Everything below holds for every set of tasks, number of workers or threads and of
retries, and every loaded file; for `BasicEngine` and `BasicRun` also for every set of
process ids, statuses and signals; for `StartupSpec` for every file and configuration.

| Theorem | States | Assumes |
|---|---|---|
| `EngineInvariant` | `EngineInv` of `BasicEngine` | |
| `TypeCorrect`, `DependenciesRespected`, `VerdictsAreFinal` | `TypeOK`, `ParentsFirst`, `VerdictsStand` | |
| `VerdictInvariant` | `VerdictInv` | |
| `VerdictsAreTrue` | `VerdictOfCommand` | `fork()` does not fail, no command dies of a signal (`TruthfulStatuses`) |
| `WorkInvariant` | `WorkInv` | |
| `WorkersAccountedFor`, `NoTaskLeftBehind`, `BlindWaitHasCause` | `WorkerAccounting`, `NothingLeftBehind`, `BlindWaitExplained` | |
| `CancellationIsExact` | `CancelledWithAncestor` | `fork()` does not fail |
| `MasterNeverWaitsBlind` | `NoBlindWait` | `fork()` does not fail, no task is blocked on nothing |
| `EngineImplementsWorkflow` | `ImplementsWorkflow` | `fork()` does not fail |
| `AccountsForEngine` | every behaviour of `Accounting` is one of `BasicEngine` | |
| `AccountInvariant` | `AccountInv` of `Accounting` | |
| `TimesAreTrue`, `TotalTimeIsTrue`, `SummaryIsComplete` | `ElapsedTruthful`, `TotalTimeIsRun`, `SummaryComplete` | |
| `RunInvariant` | `RunInv` of `BasicRun` | |
| `StepInvariant` | `StepInv` of `BasicRun` | |
| `RunImplementsEngine` | `ImplementsEngine`: every behaviour of `BasicRun` is one of `BasicEngine` | |
| `RestartTyped` | `RestartTypeOK` | |
| `RestartIsFaithful` | `HandlerFaithful` | ids end before the lines of the restart file begin (`ShortFile`) |
| `DroppedAreExplained`, `SilenceIsSuccess` | `DroppedExplained`, `SilentSuccess` | |
| `MPIInvariant` | `MPIInv` of `MPIEngine` | |
| `MPIVerdictsAreTrue`, `MPIWorkersAccounted` | `VerdictOfCommand`, `WorkersAccounted` | |
| `MPIKeepsOrder` | `ParentsFirst`, `CancelledWithAncestor`, `NothingLeftBehind` over MPI | |
| `MPIImplementsWorkflow` | `ImplementsWorkflow` over MPI | |
| `ThreadInvariant` | `ThreadInv` of `ThreadEngine` | |
| `ThreadsRunAsPromised`, `ThreadsAccountForAll` | `RunsAsPromised`, `AllAccounted` | |
| `ThreadsKeepThePromise` | `ThreadsImplementWorkflow` | |
| `StartupInvariant` | `StartupInv` of `Startup` | |
| `LoadsTable`, `StrictIsStrict` | `LoadedTable`, `StrictRefuses` of `TaskFile` | |
| `ReadyIsServed`, `EnvironmentDecides` | `ReadyMeansServed`, `EnvironmentWins` | |
| `DumpInvariant`, `DumpReadsBack` | `DumpInv`, `RoundTrip` | |

The assumptions of the third column are the ones the runs show to be needed: a failed
`fork` tells nobody, `Basic_selfdep` is a file with a task that is blocked on nothing, and
`Basic_signal` a status that is not truthful. `Basic_safety` is an instance of all three.
Without `ShortFile` new line numbers collide with old ids, as `BasicRun_renumber` shows;
`BasicRun_restart` is an instance of it.

### The basic engine

`ParentsFirst` is not inductive: that a queued task has no unfinished parent rests on
`dependencies` being the parents that have not completed (`DependenciesLeft`), on the
queue holding only waiting tasks, each once (`QueueOfWaiting`), on a cancelled task
keeping a parent that will never complete, so that it is never queued again
(`CancelledByParent`), on dropped tasks keeping the dependency they were dropped for
(`DroppedStaysOut`), and on the chain from a child to its worker and its task
(`ChildrenInOrder`), without which a result could be charged to a task that is not
running. `EngineInv` is the conjunction of these with the types. `VerdictsAreFinal` needs
the last two to show that `Complete` and `Fail` only touch tasks without a verdict.

`VerdictInv` adds where a success is between the command and its verdict: a task whose
command succeeded is completed, or is the task of a zombie that exits with 0
(`StatusesTell`). Without truthful statuses only that half holds, and no task fails whose
command succeeded; with them a zombie that exits with 0 ran a command that succeeded.

`EngineInv` says that nothing in the tables is wrong; `WorkInv` adds that nothing is
missing. `EveryoneKnown`: the queue and the blocked set hold every task that has to come
back (`QueuesComplete`), a worker is free or has a child, a running task has one, and none
is left when `runScheduler` returns. This last needs counting: the queue of free workers
has no repetition, so it is as long as there are workers exactly when all are in it
(`AllWorkersFree`). `NobodyForgotten`: a failure has taken its dependants along
(`LossSpreads`), which is `DescendantsClosed` after the step and `DescendantsNotStarted`
before it, and what is blocked waits for something. `MasterNeverWaitsBlind` then takes the
first blocked task of the file: with no child and an empty queue it could only wait for a
blocked task before it.

`EngineImplementsWorkflow` maps the initial states to initial states, `Allocate` to `Start`,
the epilogues to `Finish` and `Abandon`, a retry and everything else to a stutter. That
`Abandon` cancels the tasks it has to and no other is read off `CancelledByParent` and
`LossSpreads` in the state after the step.

### Times and summary

A timer belongs to a worker and its ticks to a task, and a worker serves many. `AccountInv`
adds to `WorkInv` that the timer of the worker of every child is on and has measured that
child since it was forked (`Measures`), that the runs of the task before this one are
charged already, and that a task that was never run is charged nothing (`RunsMeasured`).
Each reaping rounds down to seconds, which is where `ElapsedTruthful` gets its bound of a
second for each run (`WholeSeconds`); that a timer is reset for its next child is what a
retry on another worker rests on (`StartMeasured`). `RunMeasured` says that `globalTimer` is
off once `runScheduler` has returned, so that the second stop in `finalize` counts nothing.
The clock advances for a running task exactly once a tick, because exactly one child runs
it (`ChildrenOfTask`, from `WorkInv`). `SummaryComplete` follows from `WorkInv`, in which
every task has a verdict or was never accepted once the master is done. The run checks it
as a part of `AccountInv`.

### The run and the restart file

A handler may start to write the restart file in the middle of `updateDependencies`, and
again in the middle of the file. `RunInv` therefore says three things. `TablesKept` holds
always: the calls of `updateDependencies` fit each other, each for a dependant the call
below has come to and cancelled (`CallsFit`); what is cancelled has a parent that failed or
was cancelled, tasks that had been dropped included (`CancelledBelow`, which is all that
`DroppedExplained` needs besides the file).

`TablesAtWork` holds while nobody writes. It is `WorkInv` with what the calls have still to
do allowed for: the dependencies of a task are the parents that did not complete, and the
one that just did until the loop comes to the task (`DependenciesOwed`); a task that is
lost has its dependants cancelled, or a call that has still to come to them
(`LossIsSpreading`). With no call in progress the two are the same (`IdleIsWork`,
`WorkIsIdle`), and a step of the master outside `updateDependencies` is one of
`BasicEngine`, whose lemmas are used as they stand; the loop has lemmas of its own, one for
each step (`ReapKeeps`, `ReleaseKeeps`, `CancelKeeps`, `ReturnKeeps`).

`LoopOfWriter` says of the file that each line is where `Number` puts it, which counts the
lines and warnings of the tasks before. `Number` looks at the verdicts only, so a second
pass, of a handler that interrupts the first, gives the same numbers. But it finds in the
tables some of the new numbers of the first: `NumbersOfWriter` speaks of a set of tasks
that were renumbered by either, which holds at least those this pass has visited. With
`ShortFile` no number is an id, so that to renumber a task twice changes nothing
(`RenumberOne`, `RenumberedAll`), and what is written of a task has the new numbers of all
its parents, since they come before it. `HandlerFaithful` is read off at the end, numbers
of different tasks being different (`NumbersIncrease`).

`RunImplementsEngine` justifies what every other result on the basic engine takes for
granted: that the end of a child is one step. `BasicEngine` is shown the tables from
before the child was reaped (`before`) until the last call of `updateDependencies`
returns; then it must see `Complete` or `Fail` done at once. `StepInv` adds to `RunInv`
what that needs in between. Of a completed task (`Releasing`) the dependants the loop has
passed are released and no other, and the queue is the old one with those that were left
without dependencies, in increasing order: each is greater than those before, and the
greatest is pushed last (`AscendingGrows`, `PushInOrder`; `Ascending` is a choice, and
`AscendingUnique` shows there is only one). Of a failed task (`Cancelling`) some of its
descendants are cancelled and no other task, and a dependant of one of those that is not
cancelled itself is in what a call has left; so when no call has anything left the set is
closed under `revDepMap`, and is all of `Descendants`, the least such set
(`CancelledAll`). A child that ends meanwhile is another than the one that was reaped,
and is seen to end at once (`EndIsSeen`). The handler and the writer of the restart file
change nothing `BasicEngine` is shown (`WritingIsUnseen`), whatever was interrupted.

### The engine over MPI

`SchedulerProofs` holds what is common to the engines with a master: `Complete` and `Fail`
keep `TablesAgree` (`CompleteAgrees`, `FailAgrees`), `QueuesComplete` and `LossSpreads`;
the steps of the tables map to those of `Workflow`; facts on queues. `MPIEngine` needs only
its own half besides, `RanksAgree`: a busy worker has one running task, which is the one
of its channel, of its place or of its report (`AtWork`); a free one has nothing on its
channels (`AtRest`); one that has given up has at most the one report that says so, of
the task it is still assigned (`OutOfReach`). Without the last the report of a worker that
gave up could be charged to the next task it is sent. `VerdictOfCommand` is inductive with
it, and needs nothing of `SystemStatus`: over MPI the status reaches the master as it is.

### The thread engine

Nothing orders the accesses of two threads, and the promises are not kept once two of
them are releasing one task at once. `ThreadInv` therefore has two parts. `ThreadsAgree`
holds always: a thread is at a place that fits its stack of calls (`StackFits`), each of
which but the last is for a dependant the call below has come to, and the retries of a
task exceed their limit by less than the number of threads (`RetryBudget`). `InOrder(t)`
holds of every task up to the first in the file that two threads were releasing at once
(`Clean`, the tasks before the first of `met`). Dependencies lead backward, so a task
and its ancestors are clean together, and the damage a double release does stays below
it in the file; that is what makes the invariant inductive although the engine goes
wrong elsewhere. When no two threads can update one task they cannot meet at one (`Apart
=> Calm`, by `ApartStep`).

What a task may rely on is who has still to tell it of a parent: `Tells(th, p, c)` says
that thread th is about to, or is in a call of `updateDependencies` for p whose loop has c
left. Only a parent with a verdict is told of (`Teller`), of one that completed only by the
thread that ran it (`OneTeller`). Several threads may each have a parent to tell a task of,
but a clean task is released by one of them at a time (`Meeting`, `Alone`). So the list
of a task holds its parents that have not completed or that somebody has still to tell it
of (`ListFits`, `Remaining`); a removal between its read and its write is not disturbed
(`copy` in `ListFits`, `Alone`); whoever empties the list will find it blocked and feed it
(`ReleaseFits`); a lost parent has its dependants cancelled or a thread that is going to
(`CancelFits`); a task that was given to a thread has only completed parents nobody tells
it of (`StateFits`), so a cancellation never meets it, and is in one place only
(`OnePlace`). There is a lemma for each kind of step of a thread (`TakeStep` to
`ReturnStep`), over what the step changes of `Tells` (`VerdictTells` to `ReturnTells`).

`Calm` makes every task clean, and `RunsAsPromised` follows at once. For `AllAccounted` no
thread tells anything any more when parallel_do returns; a task without a verdict is then
blocked on parents that are blocked too. `Calm` is a state predicate: when it is lost it is
lost for good, and both theorems say what held before.

For `ThreadsKeepThePromise` a failure has to take effect at once, while the threads take
many steps to spread it: `ThreadStatus` shows a task as cancelled from the moment an
ancestor has failed (`Doomed`). The proof shows that this is safe and that it ends well: no
doomed task is given to a thread (`DoomedNotRun`, from the least-set reading of
`Descendants`), every cancelled task is doomed (`CancelledIsDoomed`, by the first in the
file that is not), so that cancelling one is a stutter (`CancelUnseen`), and the verdict
of a task is `Finish` or `Abandon` of `Workflow`.

### The start

`FileInv` says of each line before `next` that the tables hold what its text says, and of
each task before `next` in the second loop that it was kept exactly if its dependencies
are accepted. This second half speaks of `validTasks` while it changes: it is inductive
because a dependency that is accepted comes earlier in the file, so its fate is settled.
`LoadedTable` is `FileInv` where the loop ends, for chains of any length. `StartupInv` adds
what each stage of `main` leaves for the next (`AsConfigured`, `AsCounted`, `AsPlaced`).

`StartupProofs` also proves the loop invariant of `dumpDependencies` and `RoundTrip`,
for every finite set of line numbers. `TaskTableProofs` has what is common to all engines:
the table as it is loaded, `Descendants` as the least set closed under `revDepMap`
(`DescendantsClosed`, `DescendantsLeast`, `DescendantsReached`), the first element of a set
of lines, the stack of calls.

### Assumptions and limits

The assumptions on constants are the named `ASSUME`s: ids are positive, there is a worker,
process ids suffice for the workers, files are what `parseTaskFile` can leave (which
`LoadedTable` proves of it), lines are numbered from one without gaps
(`LinesAssumption`), and the values of a configuration are of the sort the code reads them
as (`StartsAssumption`: `NWorkers` a number, `NodeList` a list). TLC evaluates all of them.

Each inductive invariant is also an invariant of a run: `VerdictInv` (with `EngineInv`) and
`WorkInv` in `Basic_adverse`, `StepInv` (with `RunInv`) in `BasicRun_restart`, `MPIInv` in
`MPI_safety`, `ThreadInv` in `Thread_safety`, `StartupInv` in `Startup_load`, `DumpInv` in
`DumpDependencies`, `AccountInv` in `Accounting`.

Only model-checked: `UtilisationBounded`, whose sum over the tasks is a fold: what a fold
computes for every input needs induction over data, which the proof system's installed
provers do not have. `Termination`, `EveryoneLeaves`, `Returns` and `EndsWithRestart` are
liveness under fairness, which they do not do either.

## Not modelled

* Signals while the task file is being read (the restart file would hold the lines read so
  far), and after `finalize` has deleted the tasks, where the handler would read freed
  memory; a child that is signalled before it has reset its handlers.
* MPI errors (the default handler of `MPI::COMM_WORLD` ends the program, so the `catch`
  branches of the worker are not reached), and sends that block for want of buffers.
* A read error in the middle of the task file, a restart file that cannot be created, a
  clock that is set back.
* The syntax of configuration files, regular expressions and the conversion of numbers,
  abstracted to keys, kinds of lines and tokens; integer width in dependency lists.
* `run()` and `finalize()` of an engine that `init` left not ready: `main` calls both all
  the same (`greasy.cpp:61-69`). `run()` does nothing, but `finalize` goes by the states of
  the tasks (`abstractengine.cpp:448`) and may write a restart file. `BasicRun` starts from
  an engine that is ready.
* A signal in the middle of a turn of the loop of `writeRestartFile`, which is one step of
  `RestartFile`: the handler writes the file again from the start and does not return.
* The log, and the formatting of times and of the summary.
* The wrapper script; TBB, vendored; `SlurmEngine`, a stub.

## Plan

1. `GreasyTask`, `Scheduler`, `BasicEngine`, `Workflow`; first invariant proved. Done.
2. `RestartFile`, `BasicRun`. Done.
3. `DependencyList`, `DumpDependencies`, `TaskFile`. Done.
4. `MPIEngine`: ranks, channels, `fireWorkers`, a worker that gives up. Done.
5. `ThreadEngine`: `updateDependencies` access by access under several threads. Done.
6. `updateDependencies` in steps with the signal handler between them (`BasicRun`). Done.
7. `Startup`; `GreasyTimer` and the summary (`Accounting`). Done.
8. Theorems on what the basic engine never loses, and its refinement of `Workflow`. Done.
9. Restart and reload: the file `RestartFile` writes, read by `TaskFile`, gives the same
   work in the same order.
10. Theorems on the load and the start, on `MPIEngine` and on `ThreadEngine` with their
    refinements of `Workflow`, and `VerdictOfCommand`. Done.
11. Theorems on `BasicRun`: `RunInv`, `DroppedExplained`, `SilentSuccess`,
    `HandlerFaithful` for ids below 7, and `ImplementsEngine`. Done.
12. Theorems on `Accounting` that need no fold. Done.
