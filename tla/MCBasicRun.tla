------------------------------- MODULE MCBasicRun ------------------------------
(***************************************************************************)
(* Instances of BasicRun for TLC.  The lines of a file that hold no task   *)
(* are comments: the ids of the tasks need not be consecutive.             *)
(***************************************************************************)
EXTENDS RunInvariant, TLC

\* Files of three short lines, and files of ten lines of which three hold tasks.
ShortFileIds == 1..3
LongFileIds == {1, 7, 8}

Line(t) ==
  { [ state |-> "waiting", deps |-> {} ], [ state |-> "invalid", deps |-> {} ] }
  \cup { [ state |-> "blocked", deps |-> d ] : d \in (SUBSET (TaskId \ {t})) \ {{}} }

AnyFile == { f \in [ TaskId -> UNION { Line(t) : t \in TaskId } ] :
               \A t \in TaskId : f[t] \in Line(t) }

PidSymmetry == Permutations(Pids)
===============================================================================
