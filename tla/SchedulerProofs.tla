---------------------------- MODULE SchedulerProofs ----------------------------
(***************************************************************************)
(* What the handlers of the master do to its tables, whatever the engine:  *)
(* each of them keeps TablesAgree and the queues complete, and is a step   *)
(* of the workflow.                                                        *)
(***************************************************************************)
EXTENDS Scheduler, TaskTableProofs

-------------------------------------------------------------------------------
(* Queues without repetition, and Ascending                                *)

\* Append of a new element: the push of a queue.
LEMMA PushFresh ==
  ASSUME NEW S, NEW q \in Seq(S), NEW e \in S, IsInjective(q), e \notin Range(q)
  PROVE  /\ Append(q, e) \in Seq(S)
         /\ IsInjective(Append(q, e))
         /\ Range(Append(q, e)) = Range(q) \cup {e}
<1>1. /\ Append(q, e) \in Seq(S)
      /\ DOMAIN Append(q, e) = 1..(Len(q) + 1)
      /\ DOMAIN q = 1..Len(q)
      /\ Len(q) \in Nat
      /\ \A i \in 1..(Len(q) + 1) :
           Append(q, e)[i] = IF i <= Len(q) THEN q[i] ELSE e
  OBVIOUS
<1>2. IsInjective(Append(q, e))
  BY <1>1 DEF IsInjective, Range
<1>3. Range(Append(q, e)) = Range(q) \cup {e}
  <2>1. \A i \in 1..Len(q) : i \in DOMAIN Append(q, e) /\ Append(q, e)[i] = q[i]
    BY <1>1
  <2>2. /\ Len(q) + 1 \in DOMAIN Append(q, e)
        /\ Append(q, e)[Len(q) + 1] = e
    BY <1>1
  <2>3. Range(Append(q, e)) \subseteq Range(q) \cup {e}
    BY <1>1 DEF Range
  <2>4. Range(q) \cup {e} \subseteq Range(Append(q, e))
    BY <1>1, <2>1, <2>2 DEF Range
  <2> QED BY <2>3, <2>4
<1> QED BY <1>1, <1>2, <1>3

\* Tail: the pop of a queue.
LEMMA PopHead ==
  ASSUME NEW S, NEW q \in Seq(S), q # << >>, IsInjective(q)
  PROVE  /\ Head(q) \in S
         /\ Head(q) \in Range(q)
         /\ Tail(q) \in Seq(S)
         /\ IsInjective(Tail(q))
         /\ Range(Tail(q)) = Range(q) \ {Head(q)}
<1>1. /\ Head(q) \in S
      /\ Head(q) = q[1]
      /\ Tail(q) \in Seq(S)
      /\ Len(q) \in Nat \ {0}
      /\ DOMAIN q = 1..Len(q)
      /\ DOMAIN Tail(q) = 1..(Len(q) - 1)
      /\ \A i \in 1..(Len(q) - 1) : Tail(q)[i] = q[i + 1]
  BY HeadTailProperties, EmptySeq, LenProperties
<1>2. IsInjective(Tail(q))
  BY <1>1 DEF IsInjective
<1>3. Range(Tail(q)) \subseteq Range(q) \ {Head(q)}
  BY <1>1 DEF IsInjective, Range
<1>4. ASSUME NEW x \in Range(q) \ {Head(q)} PROVE x \in Range(Tail(q))
  <2>1. PICK i \in 1..Len(q) : q[i] = x
    BY <1>1 DEF Range
  <2>2. i # 1 /\ i - 1 \in 1..(Len(q) - 1) /\ Tail(q)[i - 1] = x
    BY <1>1, <1>4, <2>1
  <2> QED BY <1>1, <2>2 DEF Range
<1>5. Head(q) \in Range(q)
  BY <1>1 DEF Range
<1> QED BY <1>1, <1>2, <1>3, <1>4, <1>5

\* Pushing the elements of another queue, one after the other.
LEMMA PushAll ==
  ASSUME NEW S, NEW q \in Seq(S), NEW r \in Seq(S), IsInjective(q), IsInjective(r),
         Range(q) \cap Range(r) = {}
  PROVE  /\ q \o r \in Seq(S)
         /\ IsInjective(q \o r)
         /\ Range(q \o r) = Range(q) \cup Range(r)
<1>1. /\ q \o r \in Seq(S)
      /\ Len(q) \in Nat
      /\ Len(r) \in Nat
      /\ DOMAIN q = 1..Len(q)
      /\ DOMAIN r = 1..Len(r)
      /\ DOMAIN (q \o r) = 1..(Len(q) + Len(r))
      /\ \A i \in 1..(Len(q) + Len(r)) :
           (q \o r)[i] = IF i <= Len(q) THEN q[i] ELSE r[i - Len(q)]
  BY ConcatProperties, LenProperties
<1>2. \A i \in 1..Len(q) : (q \o r)[i] = q[i]
  BY <1>1
<1>3. \A i \in 1..Len(r) : i + Len(q) \in DOMAIN (q \o r) /\ (q \o r)[i + Len(q)] = r[i]
  BY <1>1
<1>4. Range(q \o r) = Range(q) \cup Range(r)
  BY <1>1, <1>2, <1>3 DEF Range
<1>5. IsInjective(q \o r)
  <2> SUFFICES ASSUME NEW i \in DOMAIN (q \o r), NEW j \in DOMAIN (q \o r),
                      (q \o r)[i] = (q \o r)[j]
               PROVE  i = j
    BY DEF IsInjective
  <2>1. CASE i <= Len(q) /\ j <= Len(q)
    BY <1>1, <2>1 DEF IsInjective
  <2>2. CASE i > Len(q) /\ j > Len(q)
    <3>1. i - Len(q) \in DOMAIN r /\ j - Len(q) \in DOMAIN r
      BY <1>1, <2>2
    <3>2. r[i - Len(q)] = r[j - Len(q)]
      BY <1>1, <2>2
    <3> QED BY <1>1, <3>1, <3>2 DEF IsInjective
  <2>3. CASE i <= Len(q) /\ j > Len(q)
    <3>1. (q \o r)[i] \in Range(q) /\ (q \o r)[j] \in Range(r)
      BY <1>1, <2>3 DEF Range
    <3> QED BY <3>1
  <2>4. CASE i > Len(q) /\ j <= Len(q)
    <3>1. (q \o r)[i] \in Range(r) /\ (q \o r)[j] \in Range(q)
      BY <1>1, <2>4 DEF Range
    <3> QED BY <3>1
  <2> QED BY <1>1, <2>1, <2>2, <2>3, <2>4
<1> QED BY <1>1, <1>4, <1>5

\* A finite set of ids can be put in order: the rank of an id in the set is an
\* injection into the positions, so it is a bijection, and its inverse is the
\* order.
LEMMA AscendingExists ==
  ASSUME NEW S \in SUBSET Nat, IsFiniteSet(S)
  PROVE  /\ Ascending(S) \in Bijection(1..Cardinality(S), S)
         /\ \A i, j \in 1..Cardinality(S) : i < j => Ascending(S)[i] < Ascending(S)[j]
<1> DEFINE n == Cardinality(S)
           upTo(x) == { y \in S : y <= x }
           rank == [ x \in S |-> Cardinality(upTo(x)) ]
<1>1. n \in Nat
  BY FS_CardinalityType
<1>2. ASSUME NEW x \in S
      PROVE  /\ IsFiniteSet(upTo(x))
             /\ Cardinality(upTo(x)) \in 1..n
  <2>1. upTo(x) \in SUBSET S /\ upTo(x) # {}
    OBVIOUS
  <2>2. IsFiniteSet(upTo(x)) /\ Cardinality(upTo(x)) <= n
    BY <2>1, FS_Subset
  <2>3. Cardinality(upTo(x)) \in Nat /\ Cardinality(upTo(x)) # 0
    BY <2>1, <2>2, FS_CardinalityType, FS_EmptySet
  <2> QED BY <1>1, <2>2, <2>3
<1>3. ASSUME NEW x \in S, NEW y \in S, x < y
      PROVE  Cardinality(upTo(x)) < Cardinality(upTo(y))
  <2>1. upTo(x) \in SUBSET upTo(y) /\ upTo(x) # upTo(y)
    <3>1. x \in Nat /\ y \in Nat
      OBVIOUS
    <3>2. \A z \in S : z \in Nat /\ (z <= x => z <= y)
      BY <1>3, <3>1
    <3>3. upTo(x) \subseteq upTo(y)
      BY <3>2
    <3>4. y \in upTo(y) /\ y \notin upTo(x)
      BY <1>3, <3>1
    <3> QED BY <3>3, <3>4
  <2>2. /\ Cardinality(upTo(x)) <= Cardinality(upTo(y))
        /\ Cardinality(upTo(x)) # Cardinality(upTo(y))
    BY <1>2, <2>1, FS_Subset
  <2> QED BY <1>1, <1>2, <2>2
<1>4. rank \in Injection(S, 1..n)
  <2>1. rank \in [ S -> 1..n ]
    BY <1>2
  <2>2. ASSUME NEW x \in S, NEW y \in S, rank[x] = rank[y] PROVE x = y
    <3>1. x < y \/ y < x \/ x = y
      OBVIOUS
    <3> QED BY <1>1, <1>2, <1>3, <2>2, <3>1
  <2> QED BY <2>1, <2>2, Fun_IsInj
<1>5. rank \in Bijection(S, 1..n)
  <2>1. IsFiniteSet(1..n) /\ Cardinality(1..n) = n
    BY <1>1, FS_Interval
  <2>2. rank \in Surjection(S, 1..n)
    BY <1>4, <2>1, FS_Injection
  <2> QED BY <1>4, <2>2 DEF Bijection
<1> DEFINE order == Inverse(rank, S, 1..n)
<1>6. /\ order \in Bijection(1..n, S)
      /\ \A i \in 1..n : rank[order[i]] = i
  <2>1. rank \in Surjection(S, 1..n)
    BY <1>5 DEF Bijection
  <2>2. \A i \in 1..n : \E x \in S : rank[x] = i
    BY <2>1 DEF Surjection
  <2>3. \A i \in 1..n : i \in Range(rank)
    BY <2>2 DEF Range
  <2>4. \A i \in 1..n : rank[order[i]] = i
    BY <2>2, <2>3 DEF Inverse
  <2> QED BY <1>5, <2>4, Fun_BijInverse
<1>7. \A x \in S : rank[x] = Cardinality(upTo(x))
  OBVIOUS
<1> HIDE DEF order, rank
<1>8. \A i \in 1..n : order[i] \in S /\ order[i] \in Nat
  <2>1. order \in [ 1..n -> S ]
    BY <1>6 DEF Bijection, Injection
  <2> QED BY <2>1
<1>9. ASSUME NEW i \in 1..n, NEW j \in 1..n, i < j PROVE order[i] < order[j]
  <2>1. /\ Cardinality(upTo(order[i])) = i
        /\ Cardinality(upTo(order[j])) = j
    BY <1>6, <1>7, <1>8
  <2>2. ~ (order[j] < order[i])
    <3>1. SUFFICES ASSUME order[j] < order[i] PROVE FALSE
      OBVIOUS
    <3>2. Cardinality(upTo(order[j])) < Cardinality(upTo(order[i]))
      BY <1>3, <1>8, <3>1
    <3> QED BY <1>1, <1>9, <2>1, <3>2
  <2>3. order[j] # order[i]
    BY <1>1, <1>6, <1>9
  <2> QED BY <1>8, <2>2, <2>3
<1>10. \E s \in Bijection(1..n, S) : \A i, j \in 1..n : i < j => s[i] < s[j]
  BY <1>6, <1>9
<1> QED BY <1>10 DEF Ascending

\* Ascending returns a queue of exactly the elements of the set, each once.
LEMMA AscendingQueue ==
  ASSUME NEW S \in SUBSET TaskId
  PROVE  /\ Ascending(S) \in Seq(S)
         /\ Ascending(S) \in Seq(TaskId)
         /\ IsInjective(Ascending(S))
         /\ Range(Ascending(S)) = S
<1>1. S \in SUBSET Nat /\ IsFiniteSet(S) /\ Cardinality(S) \in Nat
  BY TaskIdAssumption, FS_Subset, FS_CardinalityType
<1>2. Ascending(S) \in Bijection(1..Cardinality(S), S)
  BY <1>1, AscendingExists
<1>3. /\ Ascending(S) \in [ 1..Cardinality(S) -> S ]
      /\ \A i, j \in 1..Cardinality(S) : Ascending(S)[i] = Ascending(S)[j] => i = j
      /\ \A x \in S : \E i \in 1..Cardinality(S) : Ascending(S)[i] = x
  BY <1>2 DEF Bijection, Injection, Surjection, IsInjective
<1>4. Ascending(S) \in Seq(S)
  BY <1>1, <1>3, SeqDef
<1> QED BY <1>3, <1>4, SeqMonotonic DEF IsInjective, Range

\* There is one order only.
LEMMA AscendingUnique ==
  ASSUME NEW S \in SUBSET TaskId, NEW s \in Bijection(1..Cardinality(S), S),
         \A i, j \in 1..Cardinality(S) : i < j => s[i] < s[j]
  PROVE  s = Ascending(S)
<1> DEFINE n == Cardinality(S)
           u == Ascending(S)
<1>1. S \in SUBSET Nat /\ IsFiniteSet(S) /\ n \in Nat
  BY TaskIdAssumption, FS_Subset, FS_CardinalityType
<1>2. /\ u \in Bijection(1..n, S)
      /\ \A i, j \in 1..n : i < j => u[i] < u[j]
  BY <1>1, AscendingExists
<1>3. /\ s \in [ 1..n -> S ] /\ u \in [ 1..n -> S ]
      /\ \A x \in S : (\E i \in 1..n : s[i] = x) /\ (\E i \in 1..n : u[i] = x)
  BY <1>2 DEF Bijection, Injection, Surjection
<1> HIDE DEF n, u
<1>4. ASSUME NEW i \in 1..n, s[i] # u[i] PROVE FALSE
  <2> DEFINE D == { k \in 1..n : s[k] # u[k] }
  <2>1. D \in SUBSET Nat /\ D # {}
    BY <1>1, <1>4
  <2>2. PICK m \in D : \A k \in D : m <= k
    BY <2>1, LeastElement
  <2>3. m \in 1..n /\ s[m] \in Nat /\ u[m] \in Nat /\ s[m] # u[m]
    BY <1>1, <1>3, <2>2
  <2>4. \A k \in 1..n : k < m => s[k] = u[k]
    BY <1>1, <2>2
  <2>5. PICK j \in 1..n : u[j] = s[m]
    BY <1>3, <2>3
  <2>6. PICK k \in 1..n : s[k] = u[m]
    BY <1>3, <2>3
  <2>7. CASE s[m] < u[m]
    <3>1. j # m /\ ~ (m < j)
      BY <1>2, <2>3, <2>5, <2>7 DEF n, u
    <3>2. j < m
      BY <1>1, <2>3, <3>1
    <3>3. s[j] = s[m] /\ s[j] < s[m]
      BY <2>3, <2>4, <2>5, <3>2 DEF n
    <3> QED BY <2>3, <3>3
  <2>8. CASE u[m] < s[m]
    <3>1. k # m /\ ~ (m < k)
      BY <2>3, <2>6, <2>8 DEF n
    <3>2. k < m
      BY <1>1, <2>3, <3>1
    <3>3. u[k] = u[m] /\ u[k] < u[m]
      BY <1>2, <2>3, <2>4, <2>6, <3>2 DEF n, u
    <3> QED BY <2>3, <3>3
  <2> QED BY <2>3, <2>7, <2>8
<1>5. s = u
  <2>1. \A i \in 1..n : s[i] = u[i]
    BY <1>4
  <2>2. s \in [ 1..n -> S ] /\ u \in [ 1..n -> S ]
    BY <1>3
  <2>3. /\ s = [ i \in 1..n |-> s[i] ]
       /\ u = [ i \in 1..n |-> u[i] ]
    BY <2>2
  <2>4. [ i \in 1..n |-> s[i] ] = [ i \in 1..n |-> u[i] ]
    BY <2>1
  <2> QED BY <2>3, <2>4
<1> QED BY <1>5 DEF u

\* A greater element comes last.
LEMMA AscendingGrows ==
  ASSUME NEW S \in SUBSET TaskId, NEW d \in TaskId, \A x \in S : x < d
  PROVE  Ascending(S \cup {d}) = Append(Ascending(S), d)
<1> DEFINE n == Cardinality(S)
           u == Ascending(S)
           R == S \cup {d}
           s == Append(u, d)
<1>1. /\ S \in SUBSET Nat /\ IsFiniteSet(S) /\ n \in Nat /\ d \in Nat
      /\ d \notin S
  <2>1. TaskId \subseteq Nat /\ IsFiniteSet(TaskId)
    BY TaskIdAssumption
  <2>2. S \in SUBSET Nat /\ IsFiniteSet(S) /\ d \in Nat
    BY <2>1, FS_Subset
  <2>3. n \in Nat
    BY <2>2, FS_CardinalityType
  <2> QED BY <2>2, <2>3
<1>2. Cardinality(R) = n + 1
  BY <1>1, FS_AddElement
<1>3. /\ u \in [ 1..n -> S ]
      /\ \A i, j \in 1..n : i < j => u[i] < u[j]
      /\ \A x \in S : \E i \in 1..n : u[i] = x
  BY <1>1, AscendingExists DEF Bijection, Injection, Surjection
<1>4. u \in Seq(S) /\ u \in Seq(TaskId) /\ Len(u) = n
  BY <1>1, <1>3, AscendingQueue
<1> HIDE DEF n, u
<1>5. /\ s \in [ 1..(n + 1) -> R ]
      /\ \A i \in 1..(n + 1) : s[i] = IF i = n + 1 THEN d ELSE u[i]
  <2> HIDE DEF R
  <2>1. u \in Seq(R) /\ d \in R
    <3>1. S \subseteq R /\ d \in R
      BY DEF R
    <3> QED BY <1>4, <3>1, SeqMonotonic
  <2>2. /\ s \in Seq(R) /\ Len(s) = n + 1
        /\ \A i \in 1..(n + 1) : s[i] = IF i = n + 1 THEN d ELSE u[i]
    BY <1>1, <1>4, <2>1, AppendProperties
  <2>3. s \in [ 1..(n + 1) -> R ]
    BY <2>2, LenProperties
  <2> QED BY <2>2, <2>3
<1>6. ASSUME NEW i \in 1..(n + 1), NEW j \in 1..(n + 1), i < j PROVE s[i] < s[j]
  <2>1. i \in 1..n /\ i # n + 1
    BY <1>1, <1>6
  <2>4. u[i] \in S /\ s[i] = u[i]
    BY <1>3, <1>5, <2>1
  <2>5. u[i] < d
    BY <2>4
  <2>2. CASE j = n + 1
    BY <1>5, <2>2, <2>4, <2>5
  <2>3. CASE j # n + 1
    BY <1>1, <1>3, <1>5, <1>6, <2>1, <2>3, <2>4
  <2> QED BY <2>2, <2>3
<1>7. \A x \in R : \E i \in 1..(n + 1) : s[i] = x
  <2>1. n + 1 \in 1..(n + 1) /\ s[n + 1] = d
    BY <1>1, <1>5
  <2>2. ASSUME NEW x \in S PROVE \E i \in 1..(n + 1) : s[i] = x
    <3>1. PICK i \in 1..n : u[i] = x
      BY <1>3
    <3>2. i \in 1..(n + 1) /\ i # n + 1
      BY <1>1
    <3> QED BY <1>5, <3>1, <3>2
  <2> QED BY <2>1, <2>2
<1> HIDE DEF s
<1>8. \A i, j \in 1..(n + 1) : s[i] = s[j] => i = j
  <2> SUFFICES ASSUME NEW i \in 1..(n + 1), NEW j \in 1..(n + 1), s[i] = s[j], i # j
               PROVE  FALSE
    OBVIOUS
  <2>1. \A k \in 1..(n + 1) : s[k] \in Nat
    BY <1>1, <1>5
  <2>2. i < j \/ j < i
    BY <1>1
  <2> QED BY <1>6, <2>1, <2>2
<1>9. s \in Bijection(1..(n + 1), R)
  BY <1>5, <1>7, <1>8 DEF Bijection, Injection, Surjection, IsInjective
<1>10. R \in SUBSET TaskId
  OBVIOUS
<1> HIDE DEF R
<1>11. s = Ascending(R)
  BY <1>2, <1>6, <1>9, <1>10, AscendingUnique
<1> QED BY <1>11 DEF s, u, R

\* The empty queue.
LEMMA AscendingNone == Ascending({}) = << >>
<1>1. {} \in SUBSET TaskId
  OBVIOUS
<1>2. Ascending({}) \in Seq({})
  BY <1>1, AscendingQueue
<1>3. Len(Ascending({})) = 0
  <2>1. Len(Ascending({})) \in Nat /\ \A i \in 1..Len(Ascending({})) : Ascending({})[i] \in {}
    BY <1>2, ElementOfSeq, LenProperties
  <2> QED BY <2>1
<1> QED BY <1>2, <1>3, EmptySeq

\* Pushing the elements of a set in order, or the greatest of them after the others.
LEMMA PushInOrder ==
  ASSUME NEW q \in Seq(TaskId), NEW S \in SUBSET TaskId, NEW d \in TaskId, \A x \in S : x < d
  PROVE  Append(q \o Ascending(S), d) = q \o Ascending(S \cup {d})
<1>1. PICK r \in Seq(TaskId) : r = Ascending(S)
  BY AscendingQueue
<1>2. Ascending(S \cup {d}) = Append(r, d)
  BY <1>1, AscendingGrows
<1>3. q \o r \in Seq(TaskId) /\ << d >> \in Seq(TaskId)
  OBVIOUS
<1>4. Append(q \o r, d) = (q \o r) \o << d >> /\ Append(r, d) = r \o << d >>
  BY <1>3, AppendIsConcat
<1>5. (q \o r) \o << d >> = q \o (r \o << d >>)
  BY <1>3, ConcatAssociative
<1> QED BY <1>1, <1>2, <1>4, <1>5

-------------------------------------------------------------------------------
(* The recursion of updateDependencies                                     *)

\* What depends on a task that has not completed has not been started, and is
\* not in the queue: it is blocked, cancelled already, or was dropped.
LEMMA DescendantsNotStarted ==
  ASSUME SchedTypeOK, TablesAgree, NEW t \in TaskId, taskState[t] # "completed"
  PROVE  \A c \in Descendants(t) : taskState[c] \in {"blocked", "cancelled", "invalid"}
<1> DEFINE S == { c \in TaskId : taskState[c] \in {"blocked", "cancelled", "invalid"} }
<1>1. ASSUME NEW p \in TaskId, taskState[p] # "completed", NEW c \in revDepMap[p]
      PROVE  c \in S
  <2>1. c \in TaskId /\ p \in Parents(c)
    BY DEF SchedTypeOK, TablesAgree, BackwardOnly, Parents
  <2>2. CASE c \in validTasks
    <3>1. p \in dependencies[c]
      BY <1>1, <2>1, <2>2 DEF TablesAgree, DependenciesLeft
    <3> QED BY <2>1, <2>2, <3>1 DEF SchedTypeOK, TaskStates, TablesAgree,
               ReadyHasNoDependencies
  <2>3. CASE c \notin validTasks
    BY <2>1, <2>3 DEF TablesAgree, DroppedStaysOut
  <2> QED BY <2>2, <2>3
<1>2. revDepMap[t] \subseteq S
  BY <1>1
<1>3. \A s \in S : revDepMap[s] \subseteq S
  BY <1>1
<1> HIDE DEF S
<1>4. S \in SUBSET TaskId
  BY DEF S
<1>5. Descendants(t) \subseteq S
  BY <1>2, <1>3, <1>4, DescendantsLeast
<1> QED BY <1>5 DEF S

-------------------------------------------------------------------------------
(* TablesAgree is established by the load and kept by the handlers         *)

\* checkDependencies leaves the tables in agreement.
LEMMA LoadAgrees == SchedInit => SchedTypeOK /\ TablesAgree
<1> SUFFICES ASSUME SchedInit PROVE SchedTypeOK /\ TablesAgree
  OBVIOUS
<1>1. PICK file \in Files :
        /\ \A t \in TaskId : /\ file[t].state \in {"waiting", "blocked", "invalid"}
                             /\ file[t].deps \in SUBSET (Nat \ {0})
                             /\ file[t].state = "waiting" => file[t].deps = {}
        /\ TableLoaded(file)
  BY LoadedEntries DEF SchedInit
<1>3. \A t \in TaskId : /\ file[t].state \in {"waiting", "blocked", "invalid"}
                        /\ file[t].deps \in SUBSET (Nat \ {0})
                        /\ file[t].state = "waiting" => file[t].deps = {}
  BY <1>1
<1>4. TableLoaded(file)
  BY <1>1
<1> USE DEF TableLoaded
<1>5. SchedTypeOK
  <2>1. freeWorkers \in Seq(Workers)
    <3>1. Workers = 1..NWorkers /\ NWorkers \in Nat
      BY NWorkersAssumption DEF Workers
    <3>2. freeWorkers \in [ 1..NWorkers -> Workers ]
      BY <3>1 DEF SchedInit
    <3> QED BY <3>1, <3>2, SeqDef
  <2>2. /\ taskState \in [ TaskId -> TaskStates ]
        /\ dependencies \in [ TaskId -> SUBSET (Nat \ {0}) ]
    BY <1>3, <1>4 DEF TaskStates
  <2> QED BY <1>4, <2>1, <2>2, MaxRetriesAssumption DEF SchedInit, TableInit, SchedTypeOK
<1>6. BackwardOnly
  BY <1>4 DEF BackwardOnly
<1>7. \A c \in validTasks : dependencies[c] = Parents(c)
  BY <1>4 DEF Parents
<1>8. DependenciesLeft
  BY <1>3, <1>4, <1>7 DEF DependenciesLeft, Parents
<1>9. DroppedStaysOut
  BY <1>4 DEF DroppedStaysOut, Parents
<1>10. ReadyHasNoDependencies
  BY <1>3, <1>4 DEF ReadyHasNoDependencies
<1>11. CancelledByParent
  BY <1>3, <1>4 DEF CancelledByParent
<1>12. QueueOfWaiting
  BY DEF SchedInit, QueueOfWaiting, Range, IsInjective
<1> QED BY <1>5, <1>6, <1>8, <1>9, <1>10, <1>11, <1>12 DEF TablesAgree

\* The initial queue holds the waiting tasks, each once.
LEMMA FillQueueAgrees ==
  ASSUME SchedTypeOK, TablesAgree, FillQueue
  PROVE  SchedTypeOK' /\ TablesAgree'
<1> DEFINE W == { t \in validTasks : taskState[t] = "waiting" }
<1>1. W \in SUBSET TaskId /\ taskQueue' = Ascending(W)
  BY DEF SchedTypeOK, FillQueue
<1>2. /\ taskQueue' \in Seq(TaskId)
      /\ IsInjective(taskQueue')
      /\ Range(taskQueue') = W
  BY <1>1, AscendingQueue
<1>3. SchedTypeOK'
  BY <1>2 DEF SchedTypeOK, FillQueue, Workers
<1>4. QueueOfWaiting'
  BY <1>2 DEF FillQueue, QueueOfWaiting
<1> QED BY <1>3, <1>4 DEF FillQueue, TablesAgree, BackwardOnly, DependenciesLeft,
       DroppedStaysOut, ReadyHasNoDependencies, CancelledByParent, Parents

\* Starting a task that is ready, or failing to, leaves the tables in agreement
\* once it is out of the queue.
LEMMA StartAgrees ==
  ASSUME SchedTypeOK, TablesAgree,
         NEW t \in validTasks, taskState[t] \in {"waiting", "running"},
         NEW state \in {"running", "failed"},
         taskState' = [ taskState EXCEPT ![t] = state ],
         Range(taskQueue') \subseteq Range(taskQueue) \ {t},
         IsInjective(taskQueue'),
         pc' # "start",
         UNCHANGED << dependencies, validTasks, revDepMap >>
  PROVE  TablesAgree' /\ taskState' \in [ TaskId -> TaskStates ]
<1>1. t \in TaskId /\ \A c \in TaskId : Parents(c)' = Parents(c)
  BY DEF SchedTypeOK, Parents
<1>2. \A c \in TaskId : taskState'[c] = IF c = t THEN state ELSE taskState[c]
  BY DEF SchedTypeOK
<1>3. taskState' \in [ TaskId -> TaskStates ]
  BY DEF SchedTypeOK, TaskStates
<1>4. BackwardOnly'
  BY DEF TablesAgree, BackwardOnly
<1>5. DependenciesLeft'
  BY <1>1, <1>2 DEF SchedTypeOK, TablesAgree, DependenciesLeft, Parents
<1>6. DroppedStaysOut'
  BY <1>1, <1>2 DEF TablesAgree, DroppedStaysOut
<1>7. ReadyHasNoDependencies'
  BY <1>1, <1>2 DEF SchedTypeOK, TablesAgree, ReadyHasNoDependencies
<1>8. CancelledByParent'
  BY <1>1, <1>2 DEF SchedTypeOK, TablesAgree, CancelledByParent, Parents
<1>9. QueueOfWaiting'
  BY <1>1, <1>2 DEF SchedTypeOK, TablesAgree, QueueOfWaiting
<1> QED BY <1>3, <1>4, <1>5, <1>6, <1>7, <1>8, <1>9 DEF TablesAgree

\* What a dependant looks like while the task it waits for is running.
LEMMA DependantOfRunning ==
  ASSUME SchedTypeOK, TablesAgree, NEW t \in validTasks, taskState[t] = "running",
         NEW c \in revDepMap[t]
  PROVE  /\ c \in TaskId
         /\ c # t
         /\ taskState[c] \in {"blocked", "cancelled", "invalid"}
         /\ dependencies[c] \ {t} = {} => c \in validTasks /\ taskState[c] = "blocked"
<1>1. t \in TaskId /\ c \in TaskId /\ t \in Parents(c)
  BY DEF SchedTypeOK, Parents
<1>2. taskState[c] \in {"blocked", "cancelled", "invalid"}
  BY <1>1, DescendantsNotStarted, DescendantsClosed DEF SchedTypeOK
<1>3. ASSUME dependencies[c] \ {t} = {} PROVE c \in validTasks /\ taskState[c] = "blocked"
  <2>1. c \in validTasks
    BY <1>1, <1>3 DEF TablesAgree, DroppedStaysOut
  <2>2. taskState[c] # "cancelled"
    <3>1. SUFFICES ASSUME taskState[c] = "cancelled" PROVE FALSE
      OBVIOUS
    <3>2. PICK p \in Parents(c) : taskState[p] \in {"failed", "cancelled"}
      BY <2>1, <3>1 DEF TablesAgree, CancelledByParent
    <3>3. p \in dependencies[c] /\ p # t
      BY <2>1, <3>2 DEF TablesAgree, DependenciesLeft
    <3> QED BY <1>3, <3>3
  <2> QED BY <1>2, <2>1, <2>2 DEF TablesAgree, ReadyHasNoDependencies
<1> QED BY <1>1, <1>2, <1>3

\* The completion of a running task releases exactly blocked tasks it was the
\* last to hold back.
LEMMA CompleteAgrees ==
  ASSUME SchedTypeOK, TablesAgree, NEW t \in validTasks, taskState[t] = "running",
         Complete(t), pc' # "start", UNCHANGED << validTasks, revDepMap >>
  PROVE  /\ TablesAgree'
         /\ taskState' \in [ TaskId -> TaskStates ]
         /\ dependencies' \in [ TaskId -> SUBSET (Nat \ {0}) ]
         /\ taskQueue' \in Seq(TaskId)
         /\ blockedTasks' \in SUBSET TaskId
         /\ \A c \in TaskId \ {t} :
              taskState'[c] # taskState[c] => taskState[c] = "blocked"
         /\ taskState'[t] = "completed"
<1> DEFINE kids  == revDepMap[t]
           deps  == [ c \in TaskId |-> IF c \in kids THEN dependencies[c] \ {t}
                                       ELSE dependencies[c] ]
           ready == { c \in kids : deps[c] = {} }
<1>1. /\ t \in TaskId
      /\ kids \in SUBSET TaskId
      /\ ready \in SUBSET TaskId
      /\ \A c \in TaskId : Parents(c)' = Parents(c)
  BY DEF SchedTypeOK, Parents
<1>2. /\ dependencies' = deps
      /\ taskQueue' = taskQueue \o Ascending(ready)
      /\ blockedTasks' = blockedTasks \ ready
  BY DEF Complete, ReadyOf, DepsAfterRemove
<1>3. \A c \in kids : /\ c # t
                      /\ taskState[c] \in {"blocked", "cancelled", "invalid"}
                      /\ c \in ready => c \in validTasks /\ taskState[c] = "blocked"
  BY <1>1, DependantOfRunning
<1>4. \A c \in TaskId :
        taskState'[c] = IF c = t THEN "completed"
                        ELSE IF c \in ready THEN "waiting" ELSE taskState[c]
  <2>1. taskState' = [ c \in TaskId |->
                         IF c = t THEN "completed"
                         ELSE IF c \in kids
                              THEN StateAfterRemove(taskState[c], deps[c])
                              ELSE taskState[c] ]
    BY DEF Complete, DepsAfterRemove
  <2> QED BY <1>1, <1>3, <2>1 DEF StateAfterRemove
<1>5. taskState' \in [ TaskId -> TaskStates ]
  <2>1. \A c \in TaskId : taskState'[c] \in TaskStates
    BY <1>4 DEF SchedTypeOK, TaskStates
  <2>2. taskState' = [ c \in TaskId |-> taskState'[c] ]
    BY DEF Complete
  <2> QED BY <2>1, <2>2
<1>6. dependencies' \in [ TaskId -> SUBSET (Nat \ {0}) ]
  BY <1>2 DEF SchedTypeOK
<1>7. /\ taskQueue' \in Seq(TaskId)
      /\ IsInjective(taskQueue')
      /\ Range(taskQueue') = Range(taskQueue) \cup ready
  <2>1. /\ Ascending(ready) \in Seq(TaskId)
        /\ IsInjective(Ascending(ready))
        /\ Range(Ascending(ready)) = ready
    BY <1>1, AscendingQueue
  <2>2. Range(taskQueue) \cap ready = {}
    BY <1>3 DEF TablesAgree, QueueOfWaiting
  <2>3. taskQueue \in Seq(TaskId) /\ IsInjective(taskQueue)
    BY DEF SchedTypeOK, TablesAgree, QueueOfWaiting
  <2> HIDE DEF ready
  <2> QED BY <1>2, <2>1, <2>2, <2>3, PushAll
<1> HIDE DEF ready
<1>8. BackwardOnly'
  BY DEF TablesAgree, BackwardOnly
<1>9. DependenciesLeft'
  <2> SUFFICES ASSUME NEW c \in validTasks
               PROVE  dependencies'[c] = { p \in Parents(c) : taskState'[p] # "completed" }
    BY <1>1 DEF SchedTypeOK, DependenciesLeft
  <2>1. /\ c \in TaskId
        /\ dependencies[c] = { p \in Parents(c) : taskState[p] # "completed" }
    BY DEF SchedTypeOK, TablesAgree, DependenciesLeft
  <2>2. c \in kids <=> t \in Parents(c)
    BY DEF Parents
  <2>3. \A p \in Parents(c) : (taskState'[p] # "completed") <=> (taskState[p] # "completed" /\ p # t)
    <3>1. Parents(c) \subseteq TaskId
      BY DEF Parents, SchedTypeOK
    <3>2. \A p \in ready : taskState[p] = "blocked"
      BY <1>3 DEF ready
    <3> QED BY <1>4, <3>1, <3>2
  <2>4. dependencies'[c] = dependencies[c] \ {t}
    BY <1>2, <2>1, <2>2
  <2> QED BY <2>1, <2>3, <2>4
<1>10. DroppedStaysOut'
  <2> SUFFICES ASSUME NEW c \in TaskId, c \notin validTasks
               PROVE  /\ taskState'[c] \in {"invalid", "cancelled"}
                      /\ Parents(c) # {} => \E d \in dependencies'[c] : d \notin Parents(c)
    BY <1>1 DEF DroppedStaysOut
  <2>1. /\ taskState[c] \in {"invalid", "cancelled"}
        /\ Parents(c) # {} => \E d \in dependencies[c] : d \notin Parents(c)
    BY DEF TablesAgree, DroppedStaysOut
  <2>2. c # t /\ c \notin ready
    BY <1>3 DEF ready
  <2>3. c \in kids => t \in Parents(c)
    BY DEF Parents
  <2> QED BY <1>2, <1>4, <2>1, <2>2, <2>3
<1>11. ReadyHasNoDependencies'
  <2> SUFFICES ASSUME NEW c \in validTasks
               PROVE  /\ taskState'[c] # "invalid"
                      /\ taskState'[c] \in {"waiting", "running", "completed", "failed"} =>
                           dependencies'[c] = {}
    BY DEF ReadyHasNoDependencies
  <2>1. /\ c \in TaskId
        /\ taskState[c] # "invalid"
        /\ taskState[c] \in {"waiting", "running", "completed", "failed"} =>
             dependencies[c] = {}
    BY DEF SchedTypeOK, TablesAgree, ReadyHasNoDependencies
  <2>2. dependencies'[c] \subseteq dependencies[c]
    BY <1>2, <2>1
  <2>3. c \in ready => dependencies'[c] = {}
    BY <1>2, <2>1 DEF ready
  <2> QED BY <1>4, <2>1, <2>2, <2>3
<1>12. CancelledByParent'
  <2> SUFFICES ASSUME NEW c \in validTasks, taskState'[c] = "cancelled"
               PROVE  \E p \in Parents(c) : taskState'[p] \in {"failed", "cancelled"}
    BY <1>1 DEF SchedTypeOK, CancelledByParent
  <2>1. c \in TaskId /\ taskState[c] = "cancelled"
    BY <1>4 DEF SchedTypeOK
  <2>2. PICK p \in Parents(c) : taskState[p] \in {"failed", "cancelled"}
    BY <2>1 DEF TablesAgree, CancelledByParent
  <2>3. p \in TaskId /\ p # t /\ p \notin ready
    BY <1>3, <2>2 DEF SchedTypeOK, Parents, ready
  <2> QED BY <1>4, <2>2, <2>3
<1>13. QueueOfWaiting'
  <2>1. \A c \in Range(taskQueue) : c \in validTasks /\ taskState[c] = "waiting"
    BY DEF TablesAgree, QueueOfWaiting
  <2>2. \A c \in ready : c \in validTasks /\ c # t
    BY <1>3 DEF ready
  <2>3. \A c \in Range(taskQueue) \cup ready : c \in validTasks /\ taskState'[c] = "waiting"
    BY <1>1, <1>4, <2>1, <2>2 DEF SchedTypeOK
  <2> QED BY <1>7, <2>3 DEF QueueOfWaiting
<1>14. \A c \in TaskId \ {t} : taskState'[c] # taskState[c] => taskState[c] = "blocked"
  BY <1>3, <1>4 DEF ready
<1>15. blockedTasks' \in SUBSET TaskId
  BY <1>2 DEF SchedTypeOK
<1> QED BY <1>1, <1>4, <1>5, <1>6, <1>7, <1>8, <1>9, <1>10, <1>11, <1>12, <1>13,
       <1>14, <1>15 DEF TablesAgree

\* The failure of a running task cancels tasks that were blocked, and keeps the
\* cancellation of those that were cancelled already.
LEMMA FailAgrees ==
  ASSUME SchedTypeOK, TablesAgree, NEW t \in validTasks, taskState[t] = "running",
         Fail(t), pc' # "start", UNCHANGED << validTasks, revDepMap >>
  PROVE  /\ TablesAgree'
         /\ taskState' \in [ TaskId -> TaskStates ]
         /\ dependencies' = dependencies
         /\ taskQueue' = taskQueue
         /\ blockedTasks' \in SUBSET TaskId
         /\ \A c \in TaskId \ {t} :
              taskState'[c] # taskState[c] => taskState[c] \in {"blocked", "invalid"}
         /\ taskState'[t] = "failed"
<1> DEFINE gone == Descendants(t)
<1>1. /\ t \in TaskId
      /\ gone \in SUBSET TaskId
      /\ \A c \in TaskId : Parents(c)' = Parents(c)
  BY DEF SchedTypeOK, Parents, Descendants
<1>2. \A c \in gone : c # t /\ taskState[c] \in {"blocked", "cancelled", "invalid"}
  BY <1>1, DescendantsNotStarted
<1>3. /\ taskState' = [ c \in TaskId |-> IF c \in gone THEN "cancelled"
                                         ELSE IF c = t THEN "failed" ELSE taskState[c] ]
      /\ blockedTasks' = blockedTasks \ gone
      /\ dependencies' = dependencies
      /\ taskQueue' = taskQueue
  BY DEF Fail
<1>4. \A c \in gone : \E p \in gone \cup {t} : p \in Parents(c)
  <2> SUFFICES ASSUME NEW c \in gone PROVE \E p \in gone \cup {t} : p \in Parents(c)
    OBVIOUS
  <2>1. PICK p \in gone \cup {t} : c \in revDepMap[p]
    BY <1>1, DescendantsReached DEF SchedTypeOK
  <2>2. p \in validTasks
    BY <1>1, <2>1 DEF TablesAgree, BackwardOnly
  <2> QED BY <2>1, <2>2 DEF Parents
<1> HIDE DEF gone
<1>5. \A c \in TaskId :
        taskState'[c] = IF c \in gone THEN "cancelled"
                        ELSE IF c = t THEN "failed" ELSE taskState[c]
  BY <1>3
<1>6. taskState' \in [ TaskId -> TaskStates ]
  BY <1>3 DEF SchedTypeOK, TaskStates
<1>7. BackwardOnly'
  BY DEF TablesAgree, BackwardOnly
<1>8. DependenciesLeft'
  <2>1. \A p \in TaskId : (taskState'[p] # "completed") <=> (taskState[p] # "completed")
    BY <1>2, <1>5
  <2>2. \A c \in TaskId : Parents(c) \subseteq TaskId
    BY DEF SchedTypeOK, Parents
  <2> QED BY <1>1, <1>3, <2>1, <2>2 DEF SchedTypeOK, TablesAgree, DependenciesLeft
<1>9. DroppedStaysOut'
  BY <1>1, <1>3, <1>5 DEF TablesAgree, DroppedStaysOut
<1>10. ReadyHasNoDependencies'
  BY <1>3, <1>5 DEF SchedTypeOK, TablesAgree, ReadyHasNoDependencies
<1>11. CancelledByParent'
  <2> SUFFICES ASSUME NEW c \in validTasks, taskState'[c] = "cancelled"
               PROVE  \E p \in Parents(c) : taskState'[p] \in {"failed", "cancelled"}
    BY <1>1 DEF SchedTypeOK, CancelledByParent
  <2>1. CASE c \in gone
    <3>1. PICK p \in gone \cup {t} : p \in Parents(c)
      BY <1>4, <2>1
    <3> QED BY <1>1, <1>2, <1>5, <3>1
  <2>2. CASE c \notin gone
    <3>1. c \in TaskId /\ taskState[c] = "cancelled"
      BY <1>5, <2>2 DEF SchedTypeOK
    <3>2. PICK p \in Parents(c) : taskState[p] \in {"failed", "cancelled"}
      BY <3>1 DEF TablesAgree, CancelledByParent
    <3>3. p \in TaskId /\ p # t
      BY <3>2 DEF SchedTypeOK, Parents
    <3> QED BY <1>5, <3>2, <3>3
  <2> QED BY <2>1, <2>2
<1>12. QueueOfWaiting'
  <2>1. \A c \in Range(taskQueue) :
          c \in validTasks /\ taskState[c] = "waiting" /\ c # t /\ c \notin gone
    BY <1>2 DEF TablesAgree, QueueOfWaiting
  <2> QED BY <1>3, <1>5, <2>1 DEF SchedTypeOK, TablesAgree, QueueOfWaiting
<1>13. \A c \in TaskId \ {t} :
         taskState'[c] # taskState[c] => taskState[c] \in {"blocked", "invalid"}
  BY <1>2, <1>5
<1>14. blockedTasks' \in SUBSET TaskId /\ taskState'[t] = "failed"
  BY <1>1, <1>2, <1>3, <1>5 DEF SchedTypeOK
<1> QED BY <1>3, <1>6, <1>7, <1>8, <1>9, <1>10, <1>11, <1>12, <1>13, <1>14
       DEF TablesAgree

-------------------------------------------------------------------------------
(* The queues of the master and the tasks that are lost                    *)

\* The queue of free workers is as long as there are workers exactly when they
\* all are in it.
LEMMA AllWorkersFree ==
  ASSUME NEW q \in Seq(Workers), IsInjective(q)
  PROVE  Len(q) = NWorkers <=> Range(q) = Workers
<1>1. /\ Len(q) \in Nat /\ DOMAIN q = 1..Len(q)
      /\ q \in [ 1..Len(q) -> Workers ]
      /\ NWorkers \in Nat
  BY NWorkersAssumption
<1>2. q \in Injection(1..Len(q), Workers)
  BY <1>1 DEF Injection
<1>3. \A n \in Nat : IsFiniteSet(1..n) /\ Cardinality(1..n) = n
  BY FS_Interval
<1>4. Len(q) = NWorkers <=> q \in Surjection(1..Len(q), Workers)
  <2>1. IsFiniteSet(Workers) /\ Cardinality(Workers) = NWorkers
    BY <1>1, <1>3 DEF Workers
  <2>2. Cardinality(1..Len(q)) = Len(q)
    BY <1>1, <1>3
  <2> QED BY <1>2, <2>1, <2>2, FS_Injection
<1>5. q \in Surjection(1..Len(q), Workers) <=> Range(q) = Workers
  BY <1>1 DEF Surjection, Range
<1> QED BY <1>4, <1>5

\* What completion does to the tasks: those it releases were blocked, lose their
\* last dependency, and leave the blocked set for the queue.
LEMMA CompleteReleases ==
  ASSUME SchedTypeOK, TablesAgree, NEW t \in validTasks, taskState[t] = "running",
         Complete(t)
  PROVE  \E ready \in SUBSET validTasks :
           /\ \A c \in ready : taskState[c] = "blocked" /\ c # t
           /\ \A c \in TaskId :
                /\ taskState'[c] = IF c = t THEN "completed"
                                   ELSE IF c \in ready THEN "waiting" ELSE taskState[c]
                /\ taskState[c] = "blocked" /\ dependencies[c] # {} /\ c \notin ready =>
                     dependencies'[c] # {}
           /\ blockedTasks' = blockedTasks \ ready
           /\ Range(taskQueue') = Range(taskQueue) \cup ready
<1> DEFINE kids  == revDepMap[t]
           deps  == [ c \in TaskId |-> IF c \in kids THEN dependencies[c] \ {t}
                                       ELSE dependencies[c] ]
           ready == { c \in kids : deps[c] = {} }
<1>1. /\ t \in TaskId
      /\ kids \in SUBSET TaskId
      /\ ready \in SUBSET TaskId
  BY DEF SchedTypeOK
<1>2. /\ dependencies' = deps
      /\ taskQueue' = taskQueue \o Ascending(ready)
      /\ blockedTasks' = blockedTasks \ ready
  BY DEF Complete, ReadyOf, DepsAfterRemove
<1>3. \A c \in kids : /\ c # t
                      /\ taskState[c] \in {"blocked", "cancelled", "invalid"}
                      /\ c \in ready => c \in validTasks /\ taskState[c] = "blocked"
  BY <1>1, DependantOfRunning
<1>4. \A c \in TaskId :
        taskState'[c] = IF c = t THEN "completed"
                        ELSE IF c \in ready THEN "waiting" ELSE taskState[c]
  <2>1. taskState' = [ c \in TaskId |->
                         IF c = t THEN "completed"
                         ELSE IF c \in kids
                              THEN StateAfterRemove(taskState[c], deps[c])
                              ELSE taskState[c] ]
    BY DEF Complete, DepsAfterRemove
  <2> QED BY <1>1, <1>3, <2>1 DEF StateAfterRemove
<1>5. \A c \in TaskId \ ready : dependencies[c] # {} => dependencies'[c] # {}
  BY <1>1, <1>2
<1>6. Range(taskQueue') = Range(taskQueue) \cup ready
  <2>1. /\ Ascending(ready) \in Seq(TaskId)
        /\ IsInjective(Ascending(ready))
        /\ Range(Ascending(ready)) = ready
    BY <1>1, AscendingQueue
  <2>2. Range(taskQueue) \cap ready = {}
    BY <1>3 DEF TablesAgree, QueueOfWaiting
  <2>3. taskQueue \in Seq(TaskId) /\ IsInjective(taskQueue)
    BY DEF SchedTypeOK, TablesAgree, QueueOfWaiting
  <2> HIDE DEF ready
  <2> QED BY <1>2, <2>1, <2>2, <2>3, PushAll
<1>7. \A c \in ready : c \in validTasks /\ taskState[c] = "blocked" /\ c # t
  BY <1>3
<1> HIDE DEF ready
<1> QED BY <1>2, <1>4, <1>5, <1>6, <1>7

\* What failure does to the tasks: those it cancels were not in the queue, and
\* with each of them all its dependants are cancelled.
LEMMA FailCancels ==
  ASSUME SchedTypeOK, TablesAgree, NEW t \in validTasks, taskState[t] = "running",
         Fail(t)
  PROVE  \E gone \in SUBSET TaskId :
           /\ revDepMap[t] \subseteq gone
           /\ \A c \in gone : /\ taskState[c] \in {"blocked", "cancelled", "invalid"}
                              /\ c # t
                              /\ revDepMap[c] \subseteq gone
           /\ \A c \in TaskId :
                taskState'[c] = IF c \in gone THEN "cancelled"
                                ELSE IF c = t THEN "failed" ELSE taskState[c]
           /\ blockedTasks' = blockedTasks \ gone
           /\ UNCHANGED << dependencies, taskQueue >>
<1> DEFINE gone == Descendants(t)
<1>1. t \in TaskId /\ taskState[t] # "completed"
  BY DEF SchedTypeOK
<1>2. /\ gone \in SUBSET TaskId
      /\ revDepMap[t] \subseteq gone
      /\ \A c \in gone : revDepMap[c] \subseteq gone
  BY <1>1, DescendantsClosed DEF SchedTypeOK
<1>3. \A c \in gone : taskState[c] \in {"blocked", "cancelled", "invalid"} /\ c # t
  BY <1>1, DescendantsNotStarted
<1>4. /\ taskState' = [ c \in TaskId |-> IF c \in gone THEN "cancelled"
                                         ELSE IF c = t THEN "failed" ELSE taskState[c] ]
      /\ blockedTasks' = blockedTasks \ gone
      /\ UNCHANGED << dependencies, taskQueue >>
  BY DEF Fail
<1> HIDE DEF gone
<1> QED BY <1>2, <1>3, <1>4

\* The steps that change no task leave nothing out of the queues.
LEMMA ControlKeepsQueues ==
  ASSUME SchedTypeOK, QueuesComplete, FillQueue \/ LeaveLoop \/ Return
  PROVE  QueuesComplete'
<1>1. CASE FillQueue
  <2>1. { t \in validTasks : taskState[t] = "waiting" } \in SUBSET TaskId
    BY DEF SchedTypeOK
  <2>2. Range(taskQueue') = { t \in validTasks : taskState[t] = "waiting" }
    BY <1>1, <2>1, AscendingQueue DEF FillQueue
  <2> QED BY <1>1, <2>2 DEF FillQueue, QueuesComplete
<1>2. CASE LeaveLoop
  BY <1>2 DEF LeaveLoop, QueuesComplete
<1>3. CASE Return
  BY <1>3 DEF Return, QueuesComplete
<1> QED BY <1>1, <1>2, <1>3

\* Starting a task, or failing to, takes at most that task out of the queue.
LEMMA StartKeepsQueues ==
  ASSUME SchedTypeOK, QueuesComplete, pc \in {"schedule", "drain"},
         NEW t \in validTasks, taskState[t] \in {"waiting", "running"},
         \A s \in TaskId \ {t} : taskState'[s] = taskState[s],
         taskState'[t] \in {"running", "failed"},
         UNCHANGED taskQueue \/
           (pc = "schedule" /\ Range(taskQueue) \ {t} \subseteq Range(taskQueue')),
         UNCHANGED << pc, validTasks, blockedTasks >>
  PROVE  QueuesComplete'
<1>1. validTasks \subseteq TaskId
  BY DEF SchedTypeOK
<1>2. \A s \in validTasks :
        /\ taskState'[s] = "waiting" => taskState[s] = "waiting" /\ s # t
        /\ taskState'[s] = "blocked" <=> taskState[s] = "blocked"
  BY <1>1
<1> QED BY <1>2 DEF QueuesComplete

\* Only a task that fails without its dependants can break what has been lost.
LEMMA StartKeepsLoss ==
  ASSUME SchedTypeOK,
         NEW lost \in SUBSET {"failed", "cancelled"}, LossSpreads(lost),
         NEW t \in validTasks, taskState[t] \in {"waiting", "running"},
         \A s \in TaskId \ {t} : taskState'[s] = taskState[s],
         taskState'[t] \in {"running", "failed"}, taskState'[t] \notin lost,
         UNCHANGED << validTasks, revDepMap >>
  PROVE  LossSpreads(lost)'
<1>1. validTasks \subseteq TaskId /\ revDepMap \in [ TaskId -> SUBSET TaskId ]
  BY DEF SchedTypeOK
<1>2. ASSUME NEW s \in validTasks, taskState'[s] \in lost, NEW c \in revDepMap[s]
      PROVE  taskState'[c] = "cancelled"
  <2>1. s # t /\ taskState[s] \in lost
    BY <1>1, <1>2
  <2>2. c \in TaskId /\ taskState[c] = "cancelled"
    BY <1>1, <2>1 DEF LossSpreads
  <2> QED BY <2>2
<1> QED BY <1>2 DEF LossSpreads

\* The end of a task changes no other task that was started or settled.
LEMMA SettleElsewhere ==
  ASSUME SchedTypeOK, TablesAgree, NEW t \in validTasks, taskState[t] = "running",
         Complete(t) \/ Fail(t)
  PROVE  /\ \A s \in TaskId \ {t} :
              \/ taskState'[s] = taskState[s]
              \/ /\ taskState[s] \in {"blocked", "invalid"}
                 /\ taskState'[s] \in {"waiting", "cancelled"}
         /\ Complete(t) => taskState'[t] = "completed"
         /\ Fail(t) => taskState'[t] = "failed"
<1>1. t \in TaskId
  BY DEF SchedTypeOK
<1>2. Complete(t) =>
        /\ taskState'[t] = "completed"
        /\ \A s \in TaskId \ {t} :
             \/ taskState'[s] = taskState[s]
             \/ taskState[s] = "blocked" /\ taskState'[s] = "waiting"
  BY <1>1, CompleteReleases
<1>3. Fail(t) =>
        /\ taskState'[t] = "failed"
        /\ \A s \in TaskId \ {t} :
             \/ taskState'[s] = taskState[s]
             \/ taskState[s] \in {"blocked", "invalid"} /\ taskState'[s] = "cancelled"
  BY <1>1, FailCancels
<1> QED BY <1>2, <1>3

\* The end of a task leaves nothing out of the queues and takes along what is lost.
LEMMA SettleKeepsQueues ==
  ASSUME SchedTypeOK, TablesAgree, QueuesComplete, pc \in {"schedule", "drain"},
         NEW t \in validTasks, taskState[t] = "running",
         Complete(t) \/ Fail(t), UNCHANGED << pc, validTasks, revDepMap >>
  PROVE  /\ QueuesComplete'
         /\ \A lost \in SUBSET {"failed", "cancelled"} :
              LossSpreads(lost) => LossSpreads(lost)'
<1>1. t \in TaskId /\ validTasks \subseteq TaskId /\ revDepMap \in [ TaskId -> SUBSET TaskId ]
  BY DEF SchedTypeOK
<1>2. CASE Complete(t)
  <2>1. PICK ready \in SUBSET validTasks :
           /\ \A c \in ready : taskState[c] = "blocked" /\ c # t
           /\ \A c \in TaskId :
                taskState'[c] = IF c = t THEN "completed"
                                ELSE IF c \in ready THEN "waiting" ELSE taskState[c]
           /\ blockedTasks' = blockedTasks \ ready
           /\ Range(taskQueue') = Range(taskQueue) \cup ready
    BY <1>2, CompleteReleases
  <2>2. ASSUME pc = "drain" PROVE taskQueue' = << >> /\ blockedTasks' = {}
    <3>1. taskQueue = << >> /\ blockedTasks = {} /\ ready = {}
      BY <2>1, <2>2 DEF QueuesComplete
    <3>2. Range(taskQueue') = {}
      BY <2>1, <3>1 DEF Range
    <3>3. taskQueue' \in Seq(TaskId) /\ TablesAgree'
      BY <1>2, CompleteAgrees
    <3>4. taskQueue' = << >>
      BY <3>2, <3>3, PopHead DEF TablesAgree, QueueOfWaiting
    <3> QED BY <2>1, <3>1, <3>4
  <2>3. QueuesComplete'
    BY <1>1, <2>1, <2>2 DEF QueuesComplete
  <2>4. ASSUME NEW lost \in SUBSET {"failed", "cancelled"}, LossSpreads(lost)
        PROVE  LossSpreads(lost)'
    <3>1. \A s \in validTasks : taskState'[s] \in lost => taskState'[s] = taskState[s]
      BY <1>1, <2>1
    <3>2. \A s \in TaskId : taskState[s] = "cancelled" => taskState'[s] = "cancelled"
      BY <2>1
    <3> QED BY <1>1, <2>4, <3>1, <3>2 DEF LossSpreads
  <2> QED BY <2>3, <2>4
<1>3. CASE Fail(t)
  <2>1. PICK gone \in SUBSET TaskId :
           /\ revDepMap[t] \subseteq gone
           /\ \A c \in gone : /\ taskState[c] \in {"blocked", "cancelled", "invalid"}
                              /\ c # t
                              /\ revDepMap[c] \subseteq gone
           /\ \A c \in TaskId :
                taskState'[c] = IF c \in gone THEN "cancelled"
                                ELSE IF c = t THEN "failed" ELSE taskState[c]
           /\ blockedTasks' = blockedTasks \ gone
           /\ UNCHANGED << dependencies, taskQueue >>
    BY <1>3, FailCancels
  <2>2. QueuesComplete'
    BY <1>1, <2>1 DEF QueuesComplete
  <2>3. ASSUME NEW lost \in SUBSET {"failed", "cancelled"}, LossSpreads(lost)
        PROVE  LossSpreads(lost)'
    <3> SUFFICES ASSUME NEW s \in validTasks, taskState'[s] \in lost, NEW c \in revDepMap[s]
                 PROVE  taskState'[c] = "cancelled"
      BY DEF LossSpreads
    <3>1. CASE s \in gone \/ s = t
      BY <1>1, <2>1, <3>1
    <3>2. CASE s \notin gone /\ s # t
      <4>1. taskState[s] \in lost
        BY <1>1, <2>1, <3>2
      <4>2. c \in TaskId /\ taskState[c] = "cancelled"
        BY <1>1, <2>3, <4>1 DEF LossSpreads
      <4> QED BY <1>1, <2>1, <4>2
    <3> QED BY <3>1, <3>2
  <2> QED BY <2>2, <2>3
<1> QED BY <1>2, <1>3

-------------------------------------------------------------------------------
(* The steps of the master are steps of the workflow                       *)

\* The tasks a task that was kept depends on, as the workflow sees them.
WorkflowParents == [ t \in TaskId |-> IF t \in validTasks THEN Parents(t) ELSE {} ]

\* What the workflow sees of the tasks that were kept.
StatusesMean ==
  \A t \in validTasks :
    /\ t \in TaskId
    /\ WorkflowStatus[t] \in {"pending", "active", "done", "failed", "cancelled"}
    /\ WorkflowStatus[t] = "pending" <=> taskState[t] \in {"waiting", "blocked"}
    /\ WorkflowStatus[t] = "active" <=> taskState[t] = "running"
    /\ WorkflowStatus[t] = "done" <=> taskState[t] = "completed"
    /\ WorkflowStatus[t] = "failed" <=> taskState[t] = "failed"
    /\ WorkflowStatus[t] = "cancelled" <=> taskState[t] = "cancelled"

LEMMA StatusOfValid == SchedTypeOK /\ TablesAgree => StatusesMean
<1> SUFFICES ASSUME SchedTypeOK, TablesAgree, NEW t \in validTasks
             PROVE  /\ t \in TaskId
                    /\ WorkflowStatus[t] =
                         CASE taskState[t] \in {"waiting", "blocked"} -> "pending"
                           [] taskState[t] = "running" -> "active"
                           [] taskState[t] = "completed" -> "done"
                           [] OTHER -> taskState[t]
                    /\ taskState[t] \in TaskStates \ {"invalid"}
  BY DEF TaskStates, StatusesMean
<1>1. t \in TaskId /\ taskState[t] \in TaskStates /\ taskState[t] # "invalid"
  BY DEF SchedTypeOK, TablesAgree, ReadyHasNoDependencies
<1> QED BY <1>1 DEF WorkflowStatus

\* The tasks a task that was kept depends on were kept, and come before it.
LEMMA ParentsValid ==
  ASSUME SchedTypeOK, TablesAgree
  PROVE  /\ WorkflowParents \in [ TaskId -> SUBSET TaskId ]
         /\ \A t \in TaskId \ validTasks : WorkflowParents[t] = {}
         /\ \A t \in validTasks :
              /\ WorkflowParents[t] = Parents(t)
              /\ \A p \in Parents(t) : p \in validTasks /\ p \in TaskId /\ p < t
<1>1. validTasks \in SUBSET TaskId
  BY DEF SchedTypeOK
<1>2. \A t \in TaskId : \A p \in Parents(t) : p \in validTasks /\ p \in TaskId /\ p < t
  BY <1>1 DEF Parents, TablesAgree, BackwardOnly
<1> QED BY <1>1, <1>2 DEF WorkflowParents

\* The steps that change the state of tasks map to steps of the workflow, the
\* others to none.
LEMMA UnseenStep ==
  ASSUME UNCHANGED << taskState, validTasks, revDepMap >>
  PROVE  UNCHANGED Promise!wfVars
BY DEF Promise!wfVars, WorkflowStatus, Parents

\* A task that is ready is started.
LEMMA StartStep ==
  ASSUME SchedTypeOK, TablesAgree, NEW t \in validTasks, taskState[t] = "waiting",
         taskState' = [ taskState EXCEPT ![t] = "running" ],
         UNCHANGED << validTasks, revDepMap >>
  PROVE  Promise!Start(t)
<1>1. /\ t \in TaskId /\ taskState \in [ TaskId -> TaskStates ]
      /\ dependencies[t] = {}
      /\ dependencies[t] = { p \in Parents(t) : taskState[p] # "completed" }
  BY DEF SchedTypeOK, TablesAgree, ReadyHasNoDependencies,
     DependenciesLeft
<1>2. \A p \in WorkflowParents[t] : WorkflowStatus[p] = "done"
  BY <1>1, ParentsValid, StatusOfValid DEF StatusesMean
<1>3. WorkflowStatus[t] = "pending"
  BY StatusOfValid DEF StatusesMean
<1>4. WorkflowStatus' = [ WorkflowStatus EXCEPT ![t] = "active" ]
  <2>1. \A s \in TaskId : taskState'[s] = IF s = t THEN "running" ELSE taskState[s]
    BY <1>1
  <2>2. WorkflowStatus' = [ s \in TaskId |-> IF s = t THEN "active" ELSE WorkflowStatus[s] ]
    BY <2>1 DEF WorkflowStatus
  <2> QED BY <2>2 DEF WorkflowStatus
<1>5. UNCHANGED WorkflowParents
  BY DEF WorkflowParents, Parents
<1> QED BY <1>2, <1>3, <1>4, <1>5 DEF Promise!Start, WorkflowParents

\* A running task that is run again stays active.
LEMMA RestartStep ==
  ASSUME SchedTypeOK, TablesAgree, NEW t \in validTasks, taskState[t] = "running",
         taskState' = [ taskState EXCEPT ![t] = "running" ],
         UNCHANGED << validTasks, revDepMap >>
  PROVE  UNCHANGED Promise!wfVars
<1>1. taskState' = taskState
  BY DEF SchedTypeOK
<1> QED BY <1>1, UnseenStep

\* A running task completes: those it releases were pending and stay so.
LEMMA FinishStep ==
  ASSUME SchedTypeOK, TablesAgree, NEW t \in validTasks, taskState[t] = "running", Complete(t),
         UNCHANGED << validTasks, revDepMap >>
  PROVE  Promise!Finish(t)
<1>1. PICK ready \in SUBSET validTasks :
        /\ \A c \in ready : taskState[c] = "blocked" /\ c # t
        /\ \A c \in TaskId :
             taskState'[c] = IF c = t THEN "completed"
                             ELSE IF c \in ready THEN "waiting" ELSE taskState[c]
  BY CompleteReleases
<1>2. WorkflowStatus[t] = "active"
  BY StatusOfValid DEF StatusesMean
<1>3. WorkflowStatus' = [ WorkflowStatus EXCEPT ![t] = "done" ]
  <2>1. WorkflowStatus' = [ s \in TaskId |-> IF s = t THEN "done" ELSE WorkflowStatus[s] ]
    BY <1>1 DEF WorkflowStatus
  <2> QED BY <2>1 DEF WorkflowStatus
<1>4. UNCHANGED WorkflowParents
  BY DEF WorkflowParents, Parents
<1> QED BY <1>2, <1>3, <1>4 DEF Promise!Finish, WorkflowParents

\* A running task fails: those that are cancelled with it were pending, and
\* depend on it or on one another; those that stay pending depend on none.
LEMMA AbandonStep ==
  ASSUME SchedTypeOK, TablesAgree,
         SchedTypeOK', TablesAgree', LossSpreads({"failed", "cancelled"})',
         NEW t \in validTasks, taskState[t] = "running", Fail(t),
         UNCHANGED << validTasks, revDepMap >>
  PROVE  Promise!Abandon(t)
<1>1. PICK gone \in SUBSET TaskId :
        /\ \A c \in gone : taskState[c] \in {"blocked", "cancelled", "invalid"} /\ c # t
        /\ \A c \in TaskId :
             taskState'[c] = IF c \in gone THEN "cancelled"
                             ELSE IF c = t THEN "failed" ELSE taskState[c]
  BY FailCancels
<1>2. WorkflowStatus[t] = "active" /\ t \in TaskId
  BY StatusOfValid DEF StatusesMean
<1>3. /\ \A s \in validTasks :
           /\ s \in TaskId
           /\ WorkflowStatus'[s] \in {"pending", "active", "done", "failed", "cancelled"}
           /\ WorkflowStatus'[s] = "failed" <=> taskState'[s] = "failed"
           /\ WorkflowStatus'[s] = "cancelled" <=> taskState'[s] = "cancelled"
           /\ WorkflowStatus'[s] = "pending" <=> taskState'[s] \in {"waiting", "blocked"}
      /\ \A s \in TaskId \ validTasks :
           WorkflowStatus'[s] = "ignored" /\ WorkflowStatus[s] = "ignored"
  <2>1. StatusesMean'
    BY StatusOfValid, PTL
  <2> QED BY <2>1 DEF StatusesMean, WorkflowStatus
<1>4. WorkflowStatus' \in [ TaskId -> Promise!Statuses ]
  <2>1. \A s \in TaskId : WorkflowStatus'[s] \in Promise!Statuses
    BY <1>3 DEF Promise!Statuses
  <2> QED BY <2>1 DEF WorkflowStatus
<1>5. WorkflowStatus'[t] = "failed"
  BY <1>1, <1>2, <1>3
<1>6. UNCHANGED WorkflowParents
  BY DEF WorkflowParents, Parents
<1>7. ASSUME NEW c \in TaskId \ {t}
      PROVE  \/ /\ WorkflowStatus'[c] = WorkflowStatus[c]
                /\ WorkflowStatus[c] = "pending" =>
                     \A p \in WorkflowParents[c] :
                       WorkflowStatus'[p] \notin {"failed", "cancelled"}
             \/ /\ WorkflowStatus[c] = "pending"
                /\ WorkflowStatus'[c] = "cancelled"
                /\ \E p \in WorkflowParents[c] :
                     WorkflowStatus'[p] \in {"failed", "cancelled"}
  <2>1. CASE c \notin validTasks
    BY <1>3, <2>1
  <2>2. CASE c \in validTasks
    <3>1. WorkflowParents[c] = Parents(c) /\ \A p \in Parents(c) : p \in validTasks
      BY <2>2, ParentsValid
    <3>2. taskState'[c] = "cancelled" <=>
            \E p \in Parents(c) : taskState'[p] \in {"failed", "cancelled"}
      <4>1. /\ CancelledByParent' /\ Parents(c)' = Parents(c)
            /\ \A p \in Parents(c) : c \in revDepMap[p]
        BY DEF TablesAgree, Parents
      <4>2. taskState'[c] = "cancelled" =>
              \E p \in Parents(c) : taskState'[p] \in {"failed", "cancelled"}
        BY <2>2, <4>1 DEF CancelledByParent
      <4>3. ASSUME NEW p \in Parents(c), taskState'[p] \in {"failed", "cancelled"}
            PROVE  taskState'[c] = "cancelled"
        BY <3>1, <4>1, <4>3 DEF LossSpreads
      <4> QED BY <4>2, <4>3
    <3>3. \/ taskState'[c] = taskState[c]
          \/ taskState[c] = "blocked" /\ taskState'[c] = "cancelled"
      <4>1. taskState[c] # "invalid"
        BY <2>2 DEF TablesAgree, ReadyHasNoDependencies
      <4> QED BY <1>1, <4>1
    <3>4. \A p \in Parents(c) :
            WorkflowStatus'[p] \in {"failed", "cancelled"} <=>
              taskState'[p] \in {"failed", "cancelled"}
      BY <1>3, <3>1
    <3>5. CASE taskState'[c] = taskState[c]
      <4>1. WorkflowStatus'[c] = WorkflowStatus[c]
        BY <3>5 DEF WorkflowStatus
      <4>2. WorkflowStatus[c] = "pending" => taskState'[c] # "cancelled"
        BY <1>3, <2>2, <4>1
      <4> QED BY <3>1, <3>2, <3>4, <4>1, <4>2
    <3>6. CASE taskState[c] = "blocked" /\ taskState'[c] = "cancelled"
      <4>1. WorkflowStatus[c] = "pending" /\ WorkflowStatus'[c] = "cancelled"
        BY <1>3, <2>2, <3>6, StatusOfValid DEF StatusesMean
      <4> QED BY <3>1, <3>2, <3>4, <3>6, <4>1
    <3> QED BY <3>3, <3>5, <3>6
  <2> QED BY <2>1, <2>2
<1> QED BY <1>2, <1>4, <1>5, <1>6, <1>7 DEF Promise!Abandon, Promise!Lost, WorkflowParents

\* The initial states are initial states of the workflow.
LEMMA SchedInitImplements == SchedInit => Promise!Init
<1> SUFFICES ASSUME SchedInit PROVE Promise!Init
  OBVIOUS
<1>1. SchedTypeOK /\ TablesAgree
  BY LoadAgrees
<1>2. PICK file \in Files : Load(file)
  BY DEF SchedInit, TableInit
<1>3. \A t \in validTasks : taskState[t] \in {"waiting", "blocked"}
  BY <1>2, FilesAssumption DEF Load, ParsedTask
<1>4. /\ \A t \in TaskId : WorkflowStatus[t] \in {"ignored", "pending"}
      /\ \A t \in validTasks : WorkflowStatus[t] = "pending"
  <2>1. \A t \in TaskId \ validTasks : WorkflowStatus[t] = "ignored"
    BY DEF WorkflowStatus
  <2> QED BY <1>1, <1>3, <2>1, StatusOfValid DEF StatusesMean
<1>5. WorkflowStatus \in [ TaskId -> {"ignored", "pending"} ]
  BY <1>4 DEF WorkflowStatus
<1>6. \A t \in TaskId : \A p \in WorkflowParents[t] : p < t /\ WorkflowStatus[p] = "pending"
  BY <1>1, <1>4, ParentsValid
<1> QED BY <1>1, <1>5, <1>6, ParentsValid DEF Promise!Init, WorkflowParents
===============================================================================
