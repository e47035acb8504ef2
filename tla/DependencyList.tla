---------------------------- MODULE DependencyList ----------------------------
(***************************************************************************)
(* The text of a dependency list, "[# 1, 3-5, -2 #]", as a sequence of     *)
(* tokens, and what GreasyTask::addDependencies (src/src/greasytask.cpp)   *)
(* makes of it.  A token is one of the patterns the code knows: a line     *)
(* number, a number of lines to go back, a range, or anything else.        *)
(***************************************************************************)
EXTENDS GreasyTask, Sequences

\* A line number and a relative number have from = to.
Token == [ kind : {"id", "back", "range", "bad"}, from : Nat, to : Nat ]

IdToken(n) == [ kind |-> "id", from |-> n, to |-> n ]
BackToken(n) == [ kind |-> "back", from |-> n, to |-> n ]
RangeToken(a, b) == [ kind |-> "range", from |-> a, to |-> b ]
BadToken == [ kind |-> "bad", from |-> 0, to |-> 0 ]

\* The ids a token of the list of this task stands for; a range may be given
\* either way round.
TokenIds(task, tok) ==
  IF tok.kind = "back" THEN { task - tok.from }
                       ELSE (tok.from..tok.to) \cup (tok.to..tok.from)

\* The ids all tokens of a list stand for.
ListedIds(task, tokens) == UNION { TokenIds(task, tokens[i]) : i \in DOMAIN tokens }

Readable(tokens) == \A i \in DOMAIN tokens : tokens[i].kind # "bad"

\* addDependencies stops at the first token it does not know; what it read
\* before stays in the list.
ReadTokens(tokens) ==
  { tokens[i] : i \in { k \in DOMAIN tokens : \A j \in 1..k : tokens[j].kind # "bad" } }

\* Wrong: the ids are not tested.
AnyDeps(task, tokens) == UNION { TokenIds(task, tok) : tok \in ReadTokens(tokens) }

\* addDependency ignores the task itself and what is not a line number.
DepsOf(task, tokens) ==
  { d \in UNION { TokenIds(task, tok) : tok \in ReadTokens(tokens) } :
      d # task /\ d > 0 }

\* The state of a new task once its list was read: every token that is read
\* blocks it, even if its ids are ignored.
StateOf(tokens) ==
  IF ~ Readable(tokens) THEN "invalid"
  ELSE IF tokens = << >> THEN "waiting" ELSE "blocked"
===============================================================================
