------------------------------ MODULE GreasyTask ------------------------------
(***************************************************************************)
(* The value operations of class GreasyTask (src/src/greasytask.cpp): the  *)
(* states of a task and what adding or removing a dependency does to its   *)
(* state and to its dependency list.                                       *)
(*                                                                         *)
(* The list of dependencies is modelled as a set.  The code sorts the list *)
(* and drops duplicates when it has parsed it and again before it prints   *)
(* it, list::remove removes every copy of a value, and nothing else looks  *)
(* at its order or multiplicity.                                           *)
(***************************************************************************)
EXTENDS Integers, FiniteSets

TaskStates ==
  {"invalid", "blocked", "waiting", "running", "completed", "failed", "cancelled"}

\* The states a task never leaves once it has been given its verdict.
FinalStates == {"completed", "failed", "cancelled"}

\* addDependency: the list ignores the task itself and non-positive ids ...
DepsAfterAdd(id, deps, parent) ==
  IF parent # id /\ parent > 0 THEN deps \cup {parent} ELSE deps

\* ... but a waiting task becomes blocked whether or not an id was added.
StateAfterAdd(state) == IF state = "waiting" THEN "blocked" ELSE state

\* removeDependency: a blocked task left without dependencies becomes waiting.
DepsAfterRemove(deps, parent) == deps \ {parent}

StateAfterRemove(state, deps) ==
  IF deps = {} /\ state = "blocked" THEN "waiting" ELSE state
===============================================================================
