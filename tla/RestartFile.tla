------------------------------ MODULE RestartFile ------------------------------
(***************************************************************************)
(* AbstractEngine::writeRestartFile and the end of buildFinalSummary       *)
(* (src/src/abstractengine.cpp).  The writer walks the table of tasks by   *)
(* increasing id, writes one line for each task that is not completed, and *)
(* replaces, in the tables of the engine itself, the id of that task by    *)
(* its line number in the dependencies of its dependants.                  *)
(***************************************************************************)
EXTENDS Scheduler

VARIABLES
  rstPhase,     \* "off", "writing", or "closed" once the file is complete
  rstLeft,      \* tasks the loop has still to visit
  nindex,       \* nindex: the number the loop gives to the next line
  printed,      \* lines the file has so far
  lineOf,       \* line of the file on which each task is (0: not written)
  written,      \* dependencies written on that line
  invalidTasks  \* tasks listed in the comment that ends the file

rstVars == << rstPhase, rstLeft, nindex, printed, lineOf, written, invalidTasks >>

\* The header of the file, and where nindex starts.
HeaderLines == 6
FirstLine == 7

RestartInit ==
  /\ rstPhase = "off"
  /\ rstLeft = {}
  /\ nindex = FirstLine
  /\ printed = 0
  /\ lineOf = [ t \in TaskId |-> 0 ]
  /\ written = [ t \in TaskId |-> {} ]
  /\ invalidTasks = {}

\* Wrong: invalid tasks are not worth a restart file.
NeedsRestartIfRun == \E t \in TaskId : taskState[t] \in {"failed", "cancelled"}

\* buildFinalSummary writes a restart file if it counted any of these.
NeedsRestart ==
  \E t \in TaskId : taskState[t] \in {"failed", "cancelled", "invalid"}

\* Wrong: the line number goes on where an earlier call left it.
ReopenRestart ==
  /\ rstPhase' = "writing"
  /\ rstLeft' = TaskId
  /\ printed' = HeaderLines
  /\ lineOf' = [ t \in TaskId |-> 0 ]
  /\ written' = [ t \in TaskId |-> {} ]
  /\ invalidTasks' = {}
  /\ UNCHANGED nindex

\* The file is opened, and truncated if there was one.
OpenRestart ==
  /\ rstPhase' = "writing"
  /\ rstLeft' = TaskId
  /\ nindex' = FirstLine
  /\ printed' = HeaderLines
  /\ lineOf' = [ t \in TaskId |-> 0 ]
  /\ written' = [ t \in TaskId |-> {} ]
  /\ invalidTasks' = {}

\* The task the loop visits next.
IsNext(t) == t \in rstLeft /\ \A s \in rstLeft : t <= s

\* Wrong: the invalid tasks are not remembered.
SkipQuietly(t) ==
  /\ taskState[t] \in {"completed", "invalid"}
  /\ UNCHANGED << taskState, dependencies, nindex, printed, lineOf, written, invalidTasks >>

\* Completed tasks are left out, and invalid tasks are kept for the end.
SkipTask(t) ==
  /\ taskState[t] \in {"completed", "invalid"}
  /\ invalidTasks' =
       IF taskState[t] = "invalid" THEN invalidTasks \cup {t} ELSE invalidTasks
  /\ UNCHANGED << taskState, dependencies, nindex, printed, lineOf, written >>

\* A task that failed or was cancelled is written below a warning.
Warned(t) == taskState[t] \in {"failed", "cancelled"}

\* Wrong: the warning is not counted.
LineWithoutWarning(t) == nindex

\* The number the loop gives to the line of the task.
LineFor(t) == IF Warned(t) THEN nindex + 1 ELSE nindex

\* removeDependency(t) and addDependency(line) on the dependant c of t.
Renumber(deps, c, t, line) == DepsAfterAdd(c, DepsAfterRemove(deps, t), line)

\* The task is written with the dependencies it has now, and its dependants are
\* told its new number.
WriteTask(t) ==
  /\ taskState[t] \notin {"completed", "invalid"}
  /\ printed' = printed + IF Warned(t) THEN 2 ELSE 1
  /\ lineOf' = [ lineOf EXCEPT ![t] = printed' ]
  /\ written' = [ written EXCEPT ![t] = dependencies[t] ]
  /\ nindex' = LineFor(t) + 1
  /\ dependencies' =
       [ c \in TaskId |-> IF c \in revDepMap[t]
                          THEN Renumber(dependencies[c], c, t, LineFor(t))
                          ELSE dependencies[c] ]
  /\ taskState' =
       [ c \in TaskId |->
           IF c \in revDepMap[t]
           THEN StateAfterAdd(StateAfterRemove(taskState[c],
                                               DepsAfterRemove(dependencies[c], t)))
           ELSE taskState[c] ]
  /\ UNCHANGED invalidTasks

\* One turn of the loop.
VisitTask ==
  /\ rstPhase = "writing"
  /\ \E t \in TaskId :
       /\ IsNext(t)
       /\ SkipTask(t) \/ WriteTask(t)
       /\ rstLeft' = rstLeft \ {t}
  /\ UNCHANGED << rstPhase, pc, retries, validTasks, revDepMap, freeWorkers, taskQueue,
                  blockedTasks, taskAssignation >>

\* The list of invalid tasks and the last comment are written.
CloseRestart ==
  /\ rstPhase = "writing"
  /\ rstLeft = {}
  /\ rstPhase' = "closed"
  /\ UNCHANGED << schedVars, rstLeft, nindex, printed, lineOf, written, invalidTasks >>

-------------------------------------------------------------------------------
(* Properties                                                              *)

RestartTypeOK ==
  /\ rstPhase \in {"off", "writing", "closed"}
  /\ rstLeft \in SUBSET TaskId
  /\ nindex \in FirstLine..(FirstLine + 2 * Cardinality(TaskId))
  /\ printed \in Nat
  /\ lineOf \in [ TaskId -> Nat ]
  /\ written \in [ TaskId -> SUBSET (Nat \ {0}) ]
  /\ invalidTasks \in SUBSET TaskId

\* The parents a task still has to wait for.
Owed(t) == { p \in Parents(t) : taskState[p] # "completed" }

\* Greasy can go on from the restart file where it stopped: every task it had
\* accepted and that did not complete is there, below the tasks it depends on,
\* and its dependencies are the lines of exactly the parents that did not
\* complete either, but for the ids in stale[t].  Nothing it had accepted is
\* listed as invalid.
WorkIsThere(stale) ==
  /\ \A t \in validTasks :
       IF taskState[t] = "completed"
       THEN lineOf[t] = 0
       ELSE /\ lineOf[t] >= FirstLine
            /\ written[t] = { lineOf[p] : p \in Owed(t) } \cup stale[t]
            /\ \A p \in Owed(t) : lineOf[p] \in FirstLine..(lineOf[t] - 1)
  /\ \A t \in TaskId : lineOf[t] = 0 \/ \A s \in TaskId : lineOf[s] = lineOf[t] => s = t
  /\ invalidTasks \subseteq TaskId \ validTasks

\* A task that was not accepted is listed as invalid and not written, unless a
\* task it depends on was accepted and then failed or was cancelled, which made
\* a cancelled task of it.
DroppedExplained ==
  rstPhase = "closed" =>
    \A t \in TaskId \ validTasks :
      \/ lineOf[t] = 0 /\ t \in invalidTasks
      \/ /\ lineOf[t] # 0
         /\ taskState[t] = "cancelled"
         /\ \E p \in Parents(t) : taskState[p] \in {"failed", "cancelled"}
===============================================================================
