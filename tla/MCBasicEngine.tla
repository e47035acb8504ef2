----------------------------- MODULE MCBasicEngine -----------------------------
(***************************************************************************)
(* Instances of BasicEngine for TLC: the task files the runs start from.   *)
(***************************************************************************)
EXTENDS BasicEngine, TLC

MCTaskId == 1..3

\* A line number that holds no task (a comment of the file, or past its end).
NoTaskLine == 4

\* One line of the file: a command, a line Greasy rejects, or a command with
\* dependencies.  A dependency list that names only the task itself leaves the
\* task blocked on nothing.
Line(t, lines) ==
  { [ state |-> "waiting", deps |-> {} ], [ state |-> "invalid", deps |-> {} ] }
  \cup { [ state |-> "blocked", deps |-> d ] : d \in SUBSET (lines \ {t}) }

FilesOver(lines) ==
  { f \in [ MCTaskId -> UNION { Line(t, lines) : t \in MCTaskId } ] :
      \A t \in MCTaskId : f[t] \in Line(t, lines) }

\* Every file of three tasks, with forward and missing dependencies.
AnyFile == FilesOver(MCTaskId \cup {NoTaskLine})

\* The same without a task that is blocked on nothing.
SoundFile ==
  { f \in AnyFile : \A t \in MCTaskId : f[t].state = "blocked" => f[t].deps # {} }

\* The smallest file with a task that depends on itself: "true" on line 1 and
\* "[# 2 #] true" on line 2, and nothing on line 3 that Greasy accepts.
SelfDependentFile ==
  { << [ state |-> "waiting", deps |-> {} ],
       [ state |-> "blocked", deps |-> {} ],
       [ state |-> "invalid", deps |-> {} ] >> }

\* Process ids are interchangeable.
PidSymmetry == Permutations(Pids)

\* What system() returns: success, the exit codes 1 and 255, and -1 when it
\* could not start a shell.
ExitStatus == {0, 256, 65280, -1}

\* The same with a command that dies of SIGKILL.
AnyStatus == ExitStatus \cup {9}
===============================================================================
