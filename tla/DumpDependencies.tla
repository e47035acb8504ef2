--------------------------- MODULE DumpDependencies ---------------------------
(***************************************************************************)
(* GreasyTask::dumpDependencies (src/src/greasytask.cpp), which writes the *)
(* dependencies of a task into the restart file: a walk over the sorted    *)
(* list that joins consecutive ids into ranges.  left and last are the     *)
(* ends of the interval that was not written yet.                          *)
(***************************************************************************)
EXTENDS DependencyList

CONSTANT Id   \* line numbers a dependency may have

ASSUME IdAssumption == Id \subseteq Nat \ {0}

VARIABLES
  task,   \* the task the list belongs to
  deps,   \* its dependencies
  todo,   \* those the loop has still to visit
  left,
  last,
  out,    \* the tokens written so far
  dumped  \* whether the loop is over

vars == << task, deps, todo, left, last, out, dumped >>

Init ==
  /\ task \in Id
  /\ deps \in SUBSET (Id \ {task})
  /\ IsFiniteSet(deps)
  /\ todo = deps
  /\ left = 1
  /\ last = 0
  /\ out = << >>
  /\ dumped = FALSE

\* Wrong: an interval of two ids is written as its last one.
EndOnly(a, b) ==
  IF a + 1 >= b THEN << IdToken(b) >> ELSE << RangeToken(a, b) >>

\* How the interval a..b is written.
Interval(a, b) ==
  IF a = b THEN << IdToken(b) >>
  ELSE IF a + 1 = b THEN << IdToken(a), IdToken(b) >>
  ELSE << RangeToken(a, b) >>

\* What was joined so far is added to the output, if there is anything.
Flush == out' = IF last > 0 THEN out \o Interval(left, last) ELSE out

\* The loop visits the least id left: either it is next to the interval ...
Extend(d) ==
  /\ d = last + 1
  /\ last' = d
  /\ UNCHANGED << left, out >>

\* ... or the interval is written and a new one begins.
StartInterval(d) ==
  /\ d # last + 1
  /\ Flush
  /\ left' = d
  /\ last' = d

Visit ==
  /\ \E d \in todo :
       /\ \A e \in todo : d <= e
       /\ Extend(d) \/ StartInterval(d)
       /\ todo' = todo \ {d}
  /\ UNCHANGED << task, deps, dumped >>

\* The last interval is written.
Finish ==
  /\ todo = {}
  /\ ~ dumped
  /\ Flush
  /\ dumped' = TRUE
  /\ UNCHANGED << task, deps, todo, left, last >>

Returned == dumped /\ UNCHANGED vars

Next == Visit \/ Finish \/ Returned

Spec == Init /\ [][Next]_vars

-------------------------------------------------------------------------------

DumpTypeOK ==
  /\ task \in Nat \ {0}
  /\ deps \in SUBSET (Nat \ {0})
  /\ todo \in SUBSET deps
  /\ left \in Nat \ {0}
  /\ last \in Nat
  /\ out \in Seq(Token)
  /\ dumped \in BOOLEAN

\* The ids of what was written so far.
Written == ListedIds(task, out)

\* The loop invariant of dumpDependencies: what was written, the interval that is
\* open and the ids to come make up the list of dependencies, in this order.
DumpInv ==
  /\ DumpTypeOK
  /\ task \notin deps
  /\ \A i \in DOMAIN out : out[i].kind \in {"id", "range"}
  /\ \A d \in todo : d > last
  /\ left <= last \/ (left = 1 /\ last = 0)
  /\ IF dumped
     THEN todo = {} /\ Written = deps
     ELSE Written \cup (left..last) \cup todo = deps

\* The list dumpDependencies writes is one addDependencies reads back to the same
\* dependencies: the two functions agree on ranges, pairs and single lines.
RoundTrip == dumped => Readable(out) /\ DepsOf(task, out) = deps
===============================================================================
