------------------------------ MODULE MCMPIEngine ------------------------------
(***************************************************************************)
(* Instances of MPIEngine for TLC.                                         *)
(***************************************************************************)
EXTENDS MPIEngine

FourTaskId == 1..4

\* Every acyclic set of dependencies between the tasks.
AcyclicFile ==
  { f \in [ TaskId -> [ state : {"waiting", "blocked"}, deps : SUBSET TaskId ] ] :
      \A t \in TaskId :
        /\ f[t].deps \subseteq 1..(t - 1)
        /\ (f[t].state = "waiting") <=> (f[t].deps = {}) }
===============================================================================
