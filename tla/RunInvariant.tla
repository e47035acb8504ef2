----------------------------- MODULE RunInvariant ------------------------------
(***************************************************************************)
(* What a run of Greasy relies on from one step to the next: the inductive *)
(* invariant behind HandlerFaithful, DroppedExplained and SilentSuccess.   *)
(* While nobody writes the restart file, the tables of the master agree    *)
(* but for what the calls of updateDependencies in progress have still to  *)
(* do.  While it is written, they say no more than the file needs, and the *)
(* part of it that is there has the numbers a second pass, of a handler,   *)
(* would give to the tasks again.  Behind ImplementsEngine, besides: how   *)
(* far the calls in progress have come with the step BasicEngine makes of  *)
(* them.                                                                   *)
(***************************************************************************)
EXTENDS BasicRun

-------------------------------------------------------------------------------
(* The calls of updateDependencies                                         *)

\* The master is in one call for the task it has reaped and one for each dependant
\* the call below has come to and cancelled.
CallsFit ==
  /\ calls \in Seq([ task : TaskId, left : SUBSET TaskId ])
  /\ calls # << >> => pc \in {"schedule", "drain"}
  /\ \A i \in 1..Len(calls) :
       /\ calls[i].left \subseteq revDepMap[calls[i].task]
       /\ taskState[calls[i].task] \in {"completed", "failed", "cancelled"}
       /\ Len(calls) > 1 => taskState[calls[i].task] # "completed"
  /\ \A i \in 2..Len(calls) :
       /\ taskState[calls[i - 1].task] = "cancelled"
       /\ calls[i - 1].task \in calls[i].left
       /\ \A s \in calls[i].left : calls[i - 1].task <= s

\* Whatever was cancelled, even a task that had been dropped, is below a task that
\* failed or was cancelled.
CancelledBelow ==
  \A t \in TaskId :
    taskState[t] = "cancelled" =>
      \E p \in Parents(t) : taskState[p] \in {"failed", "cancelled"}

\* What the tables of the master say at any time.
TablesKept ==
  /\ TypeOK
  /\ CallsFit
  /\ BackwardOnly
  /\ \A t \in validTasks : taskState[t] # "invalid"
  /\ \A t \in TaskId \ validTasks : taskState[t] \in {"invalid", "cancelled"}
  /\ CancelledBelow
  /\ pc = "done" => \A t \in TaskId : taskState[t] \in FinalStates \cup {"invalid"}

-------------------------------------------------------------------------------
(* While nobody writes the restart file                                    *)

\* The dependencies of a task are the parents that have not completed, with the one
\* that just did until the loop comes to the task.
DependenciesOwed ==
  \A c \in validTasks : dependencies[c] = Owed(c) \cup NotReleased[c]

\* The dependant is one a call in progress has still to come to.
StillToTell(t, c) ==
  \E i \in 1..Len(calls) : calls[i].task = t /\ c \in calls[i].left

\* A task in one of these states has taken its dependants along, or is about to.
LossIsSpreading(lost) ==
  \A t \in validTasks :
    taskState[t] \in lost =>
      \A c \in revDepMap[t] : taskState[c] = "cancelled" \/ StillToTell(t, c)

TablesAtWork ==
  /\ DependenciesOwed
  /\ DroppedStaysOut
  /\ ReadyHasNoDependencies
  /\ QueueOfWaiting
  /\ ChildrenInOrder
  /\ EveryoneKnown
  /\ LossIsSpreading({"cancelled"})
  /\ ~ ForkMayFail => LossIsSpreading({"failed"})
  /\ SoundFiles =>
       \A t \in validTasks : taskState[t] = "blocked" => dependencies[t] # {}

-------------------------------------------------------------------------------
(* While the restart file is written                                       *)

Skipped(t) == taskState[t] \in {"completed", "invalid"}
Visited == TaskId \ rstLeft

\* The lines written for the tasks of a set, and the warnings above them.
Written(S) == { t \in S : ~ Skipped(t) }
Warnings(S) == { t \in S : Warned(t) }
LinesFor(S) == Cardinality(Written(S)) + Cardinality(Warnings(S))

Before(t) == { s \in TaskId : s < t }

\* The line a pass of the loop gives to a task, the same in every pass.
Number(t) ==
  FirstLine + LinesFor(Before(t)) + IF Warned(t) THEN 1 ELSE 0

\* The loop has visited the tasks in order, and the file has their lines.
LoopOfWriter ==
  /\ rstLeft \subseteq TaskId
  /\ \A s \in Visited, t \in rstLeft : s < t
  /\ nindex = FirstLine + LinesFor(Visited)
  /\ printed = nindex - 1
  /\ lineOf = [ t \in TaskId |-> IF t \in Visited /\ ~ Skipped(t) THEN Number(t) ELSE 0 ]
  /\ invalidTasks = { t \in Visited : taskState[t] = "invalid" }
  /\ written \in [ TaskId -> SUBSET (Nat \ {0}) ]
  /\ rstPhase = "closed" => rstLeft = {}

\* The dependencies of a task once the tasks of T are renumbered.
Renumbered(c, T) ==
  { IF p \in T THEN Number(p) ELSE p : p \in Owed(c) } \cup NotReleased[c]

\* The tables hold the new numbers of the tasks this pass or an earlier one has
\* visited, and what is written of a task has the new numbers of all its parents.
NumbersOfWriter ==
  /\ \E T \in SUBSET TaskId :
       /\ Visited \subseteq T
       /\ \A c \in validTasks :
            taskState[c] # "completed" => dependencies[c] = Renumbered(c, T)
  /\ \A c \in validTasks \cap Visited :
       taskState[c] # "completed" => written[c] = Renumbered(c, TaskId)

\* Line numbers start where the ids of the tasks end: no new number is an old id.
ShortFile == \A t \in TaskId : t < FirstLine

-------------------------------------------------------------------------------

\* The inductive invariant of a run.
RunInv ==
  /\ TablesKept
  /\ RestartTypeOK
  /\ rstPhase = "off" => TablesAtWork
  /\ rstPhase # "off" => LoopOfWriter
  /\ rstPhase # "off" /\ ShortFile => NumbersOfWriter

-------------------------------------------------------------------------------
(* What was before the child was reaped                                    *)

\* Complete(t), as far as the loop has come: to the dependants in D.
ReleasedSoFar(t, D) ==
  LET deps  == [ c \in TaskId |-> IF c \in D THEN DepsAfterRemove(before.deps[c], t)
                                  ELSE before.deps[c] ]
      ready == ReadyOf(D, deps)
  IN  /\ dependencies = deps
      /\ taskState = [ c \in TaskId |->
                         IF c = t THEN "completed"
                         ELSE IF c \in D THEN StateAfterRemove(before.state[c], deps[c])
                              ELSE before.state[c] ]
      /\ blockedTasks = before.blocked \ ready
      /\ taskQueue = before.queue \o Ascending(ready)

\* Fail(t), as far as the recursion has come: to the tasks in gone.
CancelledSoFar(t, gone) ==
  /\ taskState = [ c \in TaskId |->
                     IF c \in gone THEN "cancelled"
                     ELSE IF c = t THEN "failed" ELSE before.state[c] ]
  /\ blockedTasks = before.blocked \ gone
  /\ dependencies = before.deps
  /\ taskQueue = before.queue

\* The task completed, and one loop walks its dependants by increasing id.
Releasing(t) ==
  LET told == revDepMap[t] \ calls[1].left
  IN  /\ Len(calls) = 1
      /\ \A d \in told, c \in calls[1].left : d < c
      /\ ReleasedSoFar(t, told)

\* The task failed, and what the recursion has not cancelled of its descendants is
\* below a dependant a call has still to come to.
Cancelling(t) ==
  \E gone \in SUBSET Descendants(t) :
    /\ CancelledSoFar(t, gone)
    /\ \A i \in 1..(Len(calls) - 1) : calls[i].task \in gone
    /\ \A s \in gone \cup {t} : \A c \in revDepMap[s] : c \in gone \/ StillToTell(s, c)

\* The child is gone and its worker is free, with the status it left and the tables
\* it found in before.
ReapedBefore ==
  /\ before \in [ state : [ TaskId -> TaskStates ], deps : [ TaskId -> SUBSET (Nat \ {0}) ],
                  queue : Seq(TaskId), blocked : SUBSET TaskId, free : Seq(Workers),
                  pid : Pids, status : Nat, task : TaskId ]
  /\ Atomic!MustWait
  /\ before.pid \notin zombies /\ child[before.pid] = 0 /\ waitStatus[before.pid] = 0
  /\ freeWorkers = Append(before.free, WorkerOf(before.pid))
  /\ calls[Len(calls)].task = TaskOf(before.pid)

\* What the handler has done of the step of BasicEngine it is in.
PartOfStep ==
  LET t == TaskOf(before.pid)
  IN  IF Atomic!ReturnCode(before.pid) = 0 THEN Releasing(t)
      ELSE ~ CanRetry(t) /\ Cancelling(t)

\* The tables from before a step are remembered exactly as long as it takes.
BeforeFits ==
  /\ rstPhase = "off" /\ calls = << >> => before = Nothing
  /\ rstPhase = "off" /\ calls # << >> => ReapedBefore /\ PartOfStep
  /\ rstPhase # "off" => before # Nothing

\* The inductive invariant behind ImplementsEngine.
StepInv ==
  /\ RunInv
  /\ BeforeFits
===============================================================================
