------------------------------ MODULE MCAccounting ------------------------------
(***************************************************************************)
(* Instances of Accounting for TLC.                                        *)
(***************************************************************************)
EXTENDS Accounting, TLC

MCTaskId == 1..3

Free == [ state |-> "waiting", deps |-> {} ]
After(d) == [ state |-> "blocked", deps |-> {d} ]
Rejected == [ state |-> "invalid", deps |-> {} ]

\* Three tasks in any order, in a chain, or with one of them dropped.
SomeFiles ==
  { << Free, Free, Free >>, << Free, After(1), After(2) >>, << Free, After(1), Free >>,
    << Free, Rejected, After(2) >> }

\* Process ids are interchangeable.
PidSymmetry == Permutations(Pids)

\* Success and failure of a command.
EitherStatus == {0, 256}
===============================================================================
