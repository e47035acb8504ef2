------------------------------- MODULE Workflow -------------------------------
(***************************************************************************)
(* What Greasy promises its user, with no engine in sight: a set of tasks  *)
(* ordered by dependencies, each of which ends done, failed or cancelled.  *)
(* A task is started only when the tasks it depends on are done, and a     *)
(* failure cancels exactly the tasks that depend on it.                    *)
(*                                                                         *)
(* The schedulers are shown to implement this specification.               *)
(***************************************************************************)
EXTENDS Integers

CONSTANT Task

VARIABLES
  status,   \* what has become of each task
  parents   \* the tasks each task depends on

wfVars == << status, parents >>

Statuses == {"ignored", "pending", "active", "done", "failed", "cancelled"}

Init ==
  /\ status \in [ Task -> {"ignored", "pending"} ]
  /\ parents \in [ Task -> SUBSET Task ]
  /\ \A t \in Task : \A p \in parents[t] : p < t /\ status[p] = "pending"

\* A task is started once everything it depends on is done.
Start(t) ==
  /\ status[t] = "pending"
  /\ \A p \in parents[t] : status[p] = "done"
  /\ status' = [ status EXCEPT ![t] = "active" ]
  /\ UNCHANGED parents

Finish(t) ==
  /\ status[t] = "active"
  /\ status' = [ status EXCEPT ![t] = "done" ]
  /\ UNCHANGED parents

Lost(st, p) == st[p] \in {"failed", "cancelled"}

\* A task fails, and with it go the pending tasks that depend on it, directly
\* or not, and no other.
Abandon(t) ==
  /\ status[t] = "active"
  /\ status' \in [ Task -> Statuses ]
  /\ status'[t] = "failed"
  /\ \A c \in Task \ {t} :
       \/ /\ status'[c] = status[c]
          /\ status[c] = "pending" => \A p \in parents[c] : ~ Lost(status', p)
       \/ /\ status[c] = "pending"
          /\ status'[c] = "cancelled"
          /\ \E p \in parents[c] : Lost(status', p)
  /\ UNCHANGED parents

Next == \E t \in Task : Start(t) \/ Finish(t) \/ Abandon(t)

Spec == Init /\ [][Next]_wfVars
===============================================================================
