---------------------------- MODULE TaskTableProofs ----------------------------
(***************************************************************************)
(* What checkDependencies leaves in the table of tasks, and the tasks the  *)
(* recursion of updateDependencies reaches, whatever the engine.           *)
(***************************************************************************)
EXTENDS TaskTable, TLAPS, SequenceTheorems, FunctionTheorems, FiniteSetTheorems,
        WellFoundedInduction

-------------------------------------------------------------------------------
(* checkDependencies                                                       *)

\* The table as it is loaded from a file, one entry at a time.
TableLoaded(file) ==
  /\ validTasks \in SUBSET TaskId
  /\ \A t \in TaskId :
       t \in validTasks <=> /\ file[t].state # "invalid"
                            /\ \A d \in file[t].deps : d \in validTasks /\ d < t
  /\ revDepMap \in [ TaskId -> SUBSET TaskId ]
  /\ \A p \in TaskId : \A t \in TaskId :
       t \in revDepMap[p] <=> /\ file[t].state # "invalid"
                              /\ p \in file[t].deps
                              /\ p \in validTasks
                              /\ p < t
  /\ taskState = [ t \in TaskId |->
                     IF t \in validTasks THEN file[t].state ELSE "invalid" ]
  /\ dependencies = [ t \in TaskId |-> file[t].deps ]

LEMMA LoadedEntries ==
  ASSUME TableInit
  PROVE  \E file \in Files :
           /\ \A t \in TaskId : /\ file[t].state \in {"waiting", "blocked", "invalid"}
                                /\ file[t].deps \in SUBSET (Nat \ {0})
                                /\ file[t].state = "waiting" => file[t].deps = {}
           /\ TableLoaded(file)
<1>1. PICK file \in Files : Load(file)
  BY DEF TableInit
<1>2. \A t \in TaskId : file[t] \in ParsedTask /\ t \notin file[t].deps
  BY FilesAssumption
<1>3. \A t \in TaskId : /\ file[t].state \in {"waiting", "blocked", "invalid"}
                        /\ file[t].deps \in SUBSET (Nat \ {0})
                        /\ file[t].state = "waiting" => file[t].deps = {}
  BY <1>2 DEF ParsedTask
<1>4. TableLoaded(file)
  BY <1>1, <1>3 DEF Load, Accepted, TableLoaded
<1> QED BY <1>3, <1>4

-------------------------------------------------------------------------------
(* The recursion of updateDependencies                                     *)

\* The set the recursion reaches is closed, and each of its members was reached
\* from the task that failed or from another member.
LEMMA DescendantsClosed ==
  ASSUME revDepMap \in [ TaskId -> SUBSET TaskId ], NEW t \in TaskId
  PROVE  /\ Descendants(t) \subseteq TaskId
         /\ revDepMap[t] \subseteq Descendants(t)
         /\ \A s \in Descendants(t) : revDepMap[s] \subseteq Descendants(t)
<1>1. \A s \in Descendants(t) : revDepMap[s] \subseteq Descendants(t)
  <2> SUFFICES ASSUME NEW s \in Descendants(t), NEW c \in revDepMap[s],
                      NEW S \in SUBSET TaskId,
                      revDepMap[t] \subseteq S, \A r \in S : revDepMap[r] \subseteq S
               PROVE  c \in S
    BY DEF Descendants
  <2>1. s \in S
    BY DEF Descendants
  <2> QED BY <2>1
<1> QED BY <1>1 DEF Descendants

\* Whatever is closed under having dependants holds all of them.
LEMMA DescendantsLeast ==
  ASSUME NEW t \in TaskId, NEW S \in SUBSET TaskId,
         revDepMap[t] \subseteq S, \A s \in S : revDepMap[s] \subseteq S
  PROVE  Descendants(t) \subseteq S
BY DEF Descendants

\* A task is only reached through a task it depends on.
LEMMA DescendantsReached ==
  ASSUME revDepMap \in [ TaskId -> SUBSET TaskId ], NEW t \in TaskId,
         NEW c \in Descendants(t)
  PROVE  \E p \in Descendants(t) \cup {t} : c \in revDepMap[p]
<1> DEFINE S == { d \in TaskId : \E p \in Descendants(t) \cup {t} : d \in revDepMap[p] }
<1>1. S \in SUBSET TaskId /\ revDepMap[t] \subseteq S
  OBVIOUS
<1>2. \A s \in S : s \in Descendants(t)
  BY DescendantsClosed
<1>3. \A s \in S : revDepMap[s] \subseteq S
  BY <1>2
<1> HIDE DEF S
<1>4. Descendants(t) \subseteq S
  BY <1>1, <1>3, DescendantsLeast
<1> QED BY <1>4 DEF S

-------------------------------------------------------------------------------
(* The calls of updateDependencies in progress                             *)

LEMMA LeastElement ==
  ASSUME NEW S \in SUBSET Nat, S # {}
  PROVE  \E m \in S : \A k \in S : m <= k
<1> DEFINE less == OpToRel(<, Nat)
<1>1. IsWellFoundedOn(less, Nat)
  BY NatLessThanWellFounded
<1>2. \A x, y \in Nat : << y, x >> \in less <=> y < x
  BY DEF OpToRel
<1> HIDE DEF less
<1>3. PICK m \in S : \A k \in S : ~ (<< k, m >> \in less)
  BY <1>1, WFMin
<1>4. \A k \in S : ~ (k < m)
  BY <1>2, <1>3, Zenon
<1> QED BY <1>4

\* The loop of a call comes to one of the dependants it has left.
LEMMA NextIsLeft ==
  ASSUME NEW stack, Head(stack).left \in SUBSET TaskId, Head(stack).left # {}
  PROVE  NextOf(stack) \in Head(stack).left
<1>1. \E t \in Head(stack).left : \A s \in Head(stack).left : t <= s
  BY LeastElement, TaskIdAssumption
<1> QED BY <1>1 DEF NextOf

\* A call is made: it comes before the others.
LEMMA CallPushed ==
  ASSUME NEW S, NEW stack \in Seq(S), NEW c \in S
  PROVE  /\ << c >> \o stack \in Seq(S)
         /\ Len(<< c >> \o stack) = Len(stack) + 1
         /\ << c >> \o stack # << >>
         /\ (<< c >> \o stack)[1] = c
         /\ \A i \in 1..Len(stack) : (<< c >> \o stack)[i + 1] = stack[i]
OBVIOUS

\* The last call goes on to its next dependant, the others stay.
LEMMA CallAdvanced ==
  ASSUME NEW S, NEW stack \in Seq(S), stack # << >>,
         NEW c \in S, c = [ Head(stack) EXCEPT !.left = @ \ {NextOf(stack)} ]
  PROVE  /\ Advanced(stack) \in Seq(S)
         /\ Len(Advanced(stack)) = Len(stack)
         /\ Advanced(stack) # << >>
         /\ Advanced(stack)[1] = c
         /\ \A i \in 2..Len(stack) : Advanced(stack)[i] = stack[i]
<1>1. Advanced(stack) = << c >> \o Tail(stack)
  BY DEF Advanced
<1>2. /\ Tail(stack) \in Seq(S) /\ Len(Tail(stack)) = Len(stack) - 1 /\ Len(stack) \in Nat \ {0}
      /\ \A i \in 1..Len(Tail(stack)) : Tail(stack)[i] = stack[i + 1]
  BY HeadTailProperties, EmptySeq, LenProperties
<1>3. /\ << c >> \o Tail(stack) \in Seq(S)
      /\ Len(<< c >> \o Tail(stack)) = Len(stack)
      /\ << c >> \o Tail(stack) # << >>
      /\ (<< c >> \o Tail(stack))[1] = c
      /\ \A i \in 1..Len(Tail(stack)) : (<< c >> \o Tail(stack))[i + 1] = Tail(stack)[i]
  BY <1>2, CallPushed
<1>4. ASSUME NEW i \in 2..Len(stack) PROVE (<< c >> \o Tail(stack))[i] = stack[i]
  <2>1. i - 1 \in 1..Len(Tail(stack)) /\ (i - 1) + 1 = i
    BY <1>2
  <2> QED BY <1>2, <1>3, <2>1
<1> QED BY <1>1, <1>3, <1>4
===============================================================================
