------------------------------ MODULE GreasyTimer ------------------------------
(***************************************************************************)
(* GreasyTimer (src/src/greasytimer.cpp): an interval timer over the clock *)
(* of the system, which is never 0 and is taken not to step back.          *)
(***************************************************************************)
EXTENDS Integers

CONSTANT Second   \* ticks of the clock in a second

ASSUME SecondAssumption == Second \in Nat \ {0}

NewTimer == [ startTime |-> 0, endTime |-> 0, elapsed |-> 0, on |-> FALSE ]

\* start() does nothing on a timer that was started before and not reset since.
Start(timer, now) ==
  IF timer.startTime = 0 THEN [ timer EXCEPT !.startTime = now, !.on = TRUE ] ELSE timer

\* Wrong: stop() of a timer that is not on.
StopAnyway(timer, now) ==
  [ startTime |-> now, endTime |-> now, on |-> FALSE,
    elapsed |-> timer.elapsed + now - timer.startTime ]

\* stop() adds the interval since start(), once.
Stop(timer, now) ==
  IF timer.on /\ timer.startTime > 0
  THEN [ startTime |-> now, endTime |-> now, on |-> FALSE,
         elapsed |-> timer.elapsed + now - timer.startTime ]
  ELSE timer

\* Wrong: the intervals measured so far are kept.
ResetTimesOnly(timer) == [ timer EXCEPT !.startTime = 0, !.endTime = 0 ]

\* reset() does not turn the timer off.
Reset(timer) == [ timer EXCEPT !.startTime = 0, !.endTime = 0, !.elapsed = 0 ]

SecsElapsed(timer) == timer.elapsed \div Second
===============================================================================
