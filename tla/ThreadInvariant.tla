---------------------------- MODULE ThreadInvariant ----------------------------
(***************************************************************************)
(* What the threads of ThreadEngine rely on from one step to the next: the *)
(* inductive invariant behind RunsAsPromised and AllAccounted.  A thread   *)
(* that has run a task has to tell its dependants, one after the other;    *)
(* the tables and the threads' calls agree at every step of it, for every  *)
(* task up to the first that two threads were releasing at once.           *)
(***************************************************************************)
EXTENDS ThreadEngine

Executing == {"command", "epilogue", "retry"}
Visiting == {"loop", "remove", "unblock", "ready", "release"}
Lost == {"failed", "cancelled"}

-------------------------------------------------------------------------------
(* The threads                                                             *)

\* A thread is at a place that fits the task and the calls it has: the calls of
\* updateDependencies are one for the task it has run and one for each dependant
\* the call below has come to and cancelled.
StackFits(th) ==
  LET stack == calls[th]
      place == where[th]
  IN  /\ place # "idle" => started /\ th <= nworkers
      /\ place = "idle" <=> item[th] = NoTask
      /\ place \in {"idle"} \cup Executing => stack = << >>
      /\ place \in Visiting => stack # << >>
      /\ place \in Visiting \ {"loop"} =>
           stack[1].left # {} /\ stack[1].state = "completed"
      /\ place = "call" /\ stack # << >> => stack[1].left # {} /\ stack[1].state \in Lost
      /\ \A i \in 1..Len(stack) :
           /\ stack[i].left \subseteq revDepMap[stack[i].task]
           /\ i = Len(stack) => stack[i].task = item[th]
           /\ i < Len(stack) =>
                /\ stack[i + 1].left # {}
                /\ stack[i + 1].state \in Lost
                /\ stack[i].task = NextOf(<< stack[i + 1] >>)

\* The retries of a task, with those threads are about to start.
RetryBudget ==
  \A t \in TaskId :
    retries[t] + Cardinality({ th \in Threads : item[th] = t /\ where[th] = "retry" })
      <= MaxRetries + Cardinality(Threads) - 1

\* Nothing is in the pool before parallel_do is called.
NothingFed == ~ started => \A t \in TaskId : pool[t] = 0

ThreadsAgree ==
  /\ ThreadTypeOK
  /\ validTasks \subseteq TaskId
  /\ revDepMap \in [ TaskId -> SUBSET TaskId ]
  /\ BackwardOnly
  /\ \A th \in Threads : StackFits(th)
  /\ RetryBudget
  /\ NothingFed
  /\ Meeting \subseteq met

-------------------------------------------------------------------------------
(* The tables                                                              *)

\* Up to task t in the file no two threads were releasing a task at once.
Clean(t) == \A s \in met : s > t

\* Thread th has still to tell task c of the end of p: it is about to call
\* updateDependencies for p, or in the call and not done with c.
Tells(th, p, c) ==
  \/ where[th] = "call" /\ Subject(th) = p /\ c \in revDepMap[p]
  \/ \E i \in 1..Len(calls[th]) : calls[th][i].task = p /\ c \in calls[th][i].left

\* Thread th is at one of these places with the dependant c.
At(th, places, c) == where[th] \in places /\ Dependant(th) = c

\* The parents that have not been removed from the dependencies of c.
Remaining(c) ==
  { p \in Parents(c) :
      \/ taskState[p] # "completed"
      \/ \E th \in Threads : Tells(th, p, c) /\ ~ At(th, {"unblock", "ready", "release"}, c) }

\* The task waits for a thread, or a thread runs its command.
Given(t) == pool[t] > 0 \/ \E th \in Threads : item[th] = t /\ where[th] \in Executing

\* A task is in the pool or with one thread, not both.
OnePlace(t) ==
  /\ pool[t] <= 1
  /\ pool[t] = 1 => \A th \in Threads : item[th] # t
  /\ \A th, other \in Threads : item[th] = t /\ item[other] = t => th = other

\* Its state goes with its place; what has been given to a thread has parents that
\* completed, and nobody is about to tell it of one.
StateFits(t) ==
  /\ taskState[t] = "running" => Given(t)
  /\ pool[t] > 0 => taskState[t] \in {"waiting", "running"}
  /\ \A th \in Threads : item[th] = t /\ where[th] \in Executing => taskState[t] = "running"
  /\ Given(t) \/ taskState[t] \in {"completed", "failed"} =>
       /\ t \in validTasks
       /\ \A p \in Parents(t) : /\ taskState[p] = "completed"
                                /\ \A th \in Threads : ~ Tells(th, p, t)
  /\ t \in validTasks => taskState[t] # "invalid"
  /\ t \notin validTasks => taskState[t] \in {"invalid", "cancelled"}

\* A retry that is about to start is one the task has left.
RetriesFit(t) ==
  /\ retries[t] <= MaxRetries
  /\ \A th \in Threads : item[th] = t /\ where[th] = "retry" => CanRetry(t)

\* The list of a task that was kept has the parents that are left; a task that was
\* dropped also has the id it was dropped for.
ListFits(t) ==
  /\ dependencies[t] \cap Parents(t) = Remaining(t)
  /\ t \in validTasks => dependencies[t] \subseteq Parents(t)
  /\ t \notin validTasks /\ Parents(t) # {} => ~ (dependencies[t] \subseteq Parents(t))
  /\ \A th \in Threads : At(th, {"remove"}, t) => copy[th] = dependencies[t]

\* A task whose last parent is gone is on its way to the pool.
ReleaseFits(t) ==
  /\ \A th \in Threads :
       At(th, {"ready"}, t) => dependencies[t] = {} /\ taskState[t] = "blocked"
  /\ taskState[t] = "waiting" =>
       IF started THEN \/ Given(t)
                       \/ \E th \in Threads : At(th, {"release"}, t) /\ dependencies[t] = {}
                  ELSE Parents(t) = {}
  /\ taskState[t] = "blocked" /\ dependencies[t] = {} /\ Parents(t) # {} =>
       \E th \in Threads : At(th, {"unblock", "ready"}, t)

\* A task is cancelled for a parent that is lost, and a lost parent has its
\* dependants cancelled or a thread that is going to.
CancelFits(t) ==
  /\ taskState[t] = "cancelled" => \E p \in Parents(t) : taskState[p] \in Lost
  /\ \A p \in Parents(t) :
       taskState[p] \in Lost /\ taskState[t] # "cancelled" =>
         \E th \in Threads : Tells(th, p, t)

\* A call of updateDependencies for the task has found the state it still has: a
\* verdict of its own if the thread has run it, else that it was cancelled.
CallsFit(t) ==
  \A th \in Threads :
    /\ \A i \in 1..Len(calls[th]) :
         calls[th][i].task = t =>
           /\ calls[th][i].state = taskState[t]
           /\ IF i = Len(calls[th]) THEN taskState[t] \in {"completed", "failed"}
                                    ELSE taskState[t] = "cancelled"
    /\ where[th] = "call" /\ Subject(th) = t =>
         IF calls[th] = << >> THEN taskState[t] \in {"completed", "failed"}
                              ELSE taskState[t] = "cancelled"

InOrder(t) ==
  /\ OnePlace(t) /\ StateFits(t) /\ RetriesFit(t) /\ ListFits(t)
  /\ ReleaseFits(t) /\ CancelFits(t) /\ CallsFit(t)

ThreadInv ==
  /\ ThreadsAgree
  /\ Apart => Calm
  /\ \A t \in TaskId : Clean(t) => InOrder(t)
===============================================================================
