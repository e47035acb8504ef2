----------------------------- MODULE MCThreadEngine -----------------------------
(***************************************************************************)
(* Instances of ThreadEngine for TLC.                                      *)
(***************************************************************************)
EXTENDS ThreadInvariant

MCTaskId == 1..4

\* One line of the file: a command, a line Greasy rejects, or a command with
\* dependencies; with none the task is blocked on nothing.
Line(t) ==
  { [ state |-> "waiting", deps |-> {} ], [ state |-> "invalid", deps |-> {} ] }
  \cup { [ state |-> "blocked", deps |-> d ] : d \in SUBSET (1..(t - 1)) }

AnyFile ==
  { f \in [ TaskId -> UNION { Line(t) : t \in TaskId } ] : \A t \in TaskId : f[t] \in Line(t) }

\* Any three tasks, and four of which each but the first waits for one other.
SomeFile ==
  { f \in AnyFile :
      \/ f[4].state = "invalid"
      \/ /\ f[1].state = "waiting"
         /\ \A t \in TaskId \ {1} : Cardinality(f[t].deps) = 1 }
===============================================================================
