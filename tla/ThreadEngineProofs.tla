--------------------------- MODULE ThreadEngineProofs ---------------------------
(***************************************************************************)
(* ThreadEngine, proved for every task file, any number of threads and     *)
(* whatever the commands return: as long as no two threads are releasing   *)
(* one task at once, each task is run by one thread at a time, only after  *)
(* everything it depends on, and accounted for when parallel_do returns.   *)
(***************************************************************************)
EXTENDS ThreadInvariant, TaskTableProofs

-------------------------------------------------------------------------------
(* The threads and their calls                                             *)

Calls == [ task : TaskId, state : TaskStates, left : SUBSET TaskId ]

\* There is a thread, and there are finitely many.
LEMMA ThreadsFinite ==
  /\ Threads \subseteq Nat \ {0}
  /\ IsFiniteSet(Threads)
  /\ \A n \in ThreadCounts : n \in Threads /\ 1 \in Threads
<1>1. \A n \in ThreadCounts : n \in Nat \ {0}
  BY ThreadAssumption
<1>2. Threads \subseteq Nat \ {0} /\ \A n \in ThreadCounts : n \in Threads /\ 1 \in Threads
  BY <1>1 DEF Threads
<1>3. IsFiniteSet({ 1..n : n \in ThreadCounts })
  <2> DEFINE upTo == [ n \in ThreadCounts |-> 1..n ]
  <2>1. upTo \in Surjection(ThreadCounts, { 1..n : n \in ThreadCounts })
    BY DEF Surjection
  <2> QED BY <2>1, ThreadAssumption, FS_Surjection
<1>4. \A T \in { 1..n : n \in ThreadCounts } : IsFiniteSet(T)
  BY <1>1, FS_Interval
<1>5. IsFiniteSet(Threads)
  BY <1>3, <1>4, FS_UNION DEF Threads
<1> QED BY <1>2, <1>5

\* What a thread works on.
LEMMA Actor ==
  ASSUME ThreadsAgree, NEW th \in Threads
  PROVE  /\ calls[th] \in Seq(Calls) /\ Len(calls[th]) \in Nat
         /\ where[th] # "idle" => item[th] \in TaskId /\ started
         /\ \A i \in 1..Len(calls[th]) :
              /\ calls[th][i] \in Calls
              /\ calls[th][i].task \in TaskId
              /\ calls[th][i].left \in SUBSET TaskId
         /\ calls[th] # << >> =>
              /\ 1 \in 1..Len(calls[th])
              /\ Head(calls[th]) = calls[th][1]
         /\ calls[th] # << >> /\ calls[th][1].left # {} =>
              /\ Dependant(th) \in calls[th][1].left
              /\ Dependant(th) \in revDepMap[calls[th][1].task]
              /\ Dependant(th) \in TaskId
         /\ where[th] = "call" => Subject(th) \in TaskId
<1>1. /\ calls[th] \in Seq(Calls) /\ Len(calls[th]) \in Nat
      /\ where[th] # "idle" => item[th] \in TaskId /\ started
  <2>1. calls[th] \in Seq(Calls) /\ item[th] \in TaskId \cup {NoTask}
    BY DEF ThreadsAgree, ThreadTypeOK, Calls
  <2>2. where[th] # "idle" => item[th] # NoTask /\ started
    BY DEF ThreadsAgree, StackFits
  <2> QED BY <2>1, <2>2, LenProperties
<1>2. \A i \in 1..Len(calls[th]) : calls[th][i] \in Calls
  BY <1>1
<1>3. \A c \in Calls : c.task \in TaskId /\ c.left \in SUBSET TaskId
  BY DEF Calls
<1>4. calls[th] # << >> => 1 \in 1..Len(calls[th]) /\ Head(calls[th]) = calls[th][1]
  BY <1>1, EmptySeq, HeadTailProperties, LenProperties
<1>5. ASSUME calls[th] # << >>, calls[th][1].left # {}
      PROVE  /\ Dependant(th) \in calls[th][1].left
             /\ Dependant(th) \in revDepMap[calls[th][1].task]
             /\ Dependant(th) \in TaskId
  <2>1. Dependant(th) \in calls[th][1].left
    BY <1>2, <1>3, <1>4, <1>5, NextIsLeft DEF Dependant
  <2>2. calls[th][1].left \subseteq revDepMap[calls[th][1].task]
    BY <1>4, <1>5 DEF ThreadsAgree, StackFits
  <2> QED BY <1>2, <1>3, <1>4, <1>5, <2>1, <2>2
<1>6. where[th] = "call" => Subject(th) \in TaskId
  BY <1>1, <1>5 DEF ThreadsAgree, StackFits, Subject
<1> QED BY <1>1, <1>2, <1>3, <1>4, <1>5, <1>6

\* The other threads stay where they are.
OnlyThread(th) ==
  /\ \A x \in Threads \ {th} :
       where'[x] = where[x] /\ item'[x] = item[x] /\ calls'[x] = calls[x] /\ copy'[x] = copy[x]
  /\ UNCHANGED << validTasks, revDepMap, nworkers, started >>

LEMMA OthersStay ==
  ASSUME ThreadsAgree, NEW th \in Threads, Thread(th)
  PROVE  OnlyThread(th)
<1> USE DEF ThreadsAgree, ThreadTypeOK, GoTo
<1>1. UNCHANGED << validTasks, revDepMap, nworkers, started >>
  BY DEF Thread
<1>2. ASSUME NEW x \in Threads \ {th}
      PROVE  where'[x] = where[x] /\ item'[x] = item[x] /\ calls'[x] = calls[x]
             /\ copy'[x] = copy[x]
  <2>1. CASE Take(th)
    BY <2>1 DEF Take
  <2>2. CASE CommandEnds(th) \/ EpilogueRetry(th)
    BY <2>2 DEF CommandEnds, EpilogueRetry
  <2>3. CASE Retry(th)
    BY <2>3 DEF Retry
  <2>4. CASE EpilogueVerdict(th)
    BY <2>4 DEF EpilogueVerdict
  <2>5. CASE Call(th)
    BY <2>5 DEF Call
  <2>6. CASE RemoveReads(th)
    BY <2>6 DEF RemoveReads
  <2>7. CASE RemoveWrites(th)
    BY <2>7 DEF RemoveWrites
  <2>8. CASE TestBlocked(th) \/ Unblock(th)
    BY <2>8 DEF TestBlocked, Unblock
  <2>9. CASE Release(th)
    BY <2>9 DEF Release
  <2>10. CASE Cancel(th)
    BY <2>10 DEF Cancel
  <2>11. CASE PassOver(th)
    BY <2>11 DEF PassOver
  <2>12. CASE Return(th)
    BY <2>12 DEF Return
  <2> QED BY <2>1, <2>2, <2>3, <2>4, <2>5, <2>6, <2>7, <2>8, <2>9, <2>10, <2>11, <2>12
          DEF Thread
<1> QED BY <1>1, <1>2 DEF OnlyThread

\* The types, all but the bound on the retries.
TypesBut ==
  /\ nworkers \in ThreadCounts
  /\ taskState \in [ TaskId -> TaskStates ]
  /\ dependencies \in [ TaskId -> SUBSET (Nat \ {0}) ]
  /\ retries \in [ TaskId -> Nat ]
  /\ returnCode \in [ TaskId -> SystemStatus \cup {0} ]
  /\ started \in BOOLEAN
  /\ pool \in [ TaskId -> Nat ]
  /\ where \in [ Threads -> Places ]
  /\ item \in [ Threads -> TaskId \cup {NoTask} ]
  /\ calls \in [ Threads -> Seq(Calls) ]
  /\ copy \in [ Threads -> SUBSET (Nat \ {0}) ]

LEMMA TypesHold == ThreadsAgree => TypesBut
<1>1. 0..(MaxRetries + Cardinality(Threads) - 1) \subseteq Nat
  OBVIOUS
<1> QED BY <1>1 DEF ThreadsAgree, ThreadTypeOK, TypesBut, Calls

LEMMA TypesStay ==
  ASSUME ThreadsAgree, NEW th \in Threads, Thread(th)
  PROVE  TypesBut'
<1>0. TypesBut /\ UNCHANGED << validTasks, revDepMap, nworkers, started >>
  BY TypesHold DEF Thread
<1>a. /\ calls[th] \in Seq(Calls) /\ Len(calls[th]) \in Nat
      /\ where[th] # "idle" => item[th] \in TaskId
      /\ calls[th] # << >> =>
           /\ Head(calls[th]) = calls[th][1] /\ calls[th][1] \in Calls
           /\ calls[th][1].task \in TaskId /\ calls[th][1].left \in SUBSET TaskId
      /\ calls[th] # << >> /\ calls[th][1].left # {} => Dependant(th) \in TaskId
      /\ where[th] = "call" => Subject(th) \in TaskId
  BY Actor
<1>b. /\ where[th] \in Visiting => calls[th] # << >>
      /\ where[th] \in Visiting \ {"loop"} => calls[th][1].left # {}
      /\ revDepMap \in [ TaskId -> SUBSET TaskId ]
  BY DEF ThreadsAgree, StackFits
<1>c. \A place \in Places : GoTo(th, place) => where' \in [ Threads -> Places ]
  BY <1>0 DEF TypesBut, GoTo
<1>d. \A t \in TaskId, state \in TaskStates :
        SetState(t, state) => taskState' \in [ TaskId -> TaskStates ]
  BY <1>0 DEF TypesBut, SetState
<1>e. \A t \in TaskId : Feed(t) => pool' \in [ TaskId -> Nat ]
  BY <1>0 DEF TypesBut, Feed
<1>f. ASSUME NEW stack \in Seq(Calls), stack # << >>
      PROVE  Advanced(stack) \in Seq(Calls)
  <2>1. Head(stack) \in Calls
    BY <1>f, HeadTailProperties
  <2>2. [ Head(stack) EXCEPT !.left = @ \ {NextOf(stack)} ] \in Calls
    BY <2>1 DEF Calls
  <2> QED BY <1>f, <2>2, CallAdvanced
<1>1. CASE Take(th)
  <2>1. PICK t \in TaskId :
          /\ pool[t] > 0 /\ pool' = [ pool EXCEPT ![t] = @ - 1 ]
          /\ item' = [ item EXCEPT ![th] = t ] /\ SetState(t, "running")
    BY <1>1 DEF Take
  <2>2. pool' \in [ TaskId -> Nat ] /\ item' \in [ Threads -> TaskId \cup {NoTask} ]
    BY <1>0, <2>1 DEF TypesBut
  <2>3. taskState' \in [ TaskId -> TaskStates ] /\ where' \in [ Threads -> Places ]
    BY <1>1, <1>c, <1>d, <2>1 DEF Take, TaskStates, Places
  <2> QED BY <1>0, <1>1, <2>2, <2>3 DEF Take, TypesBut
<1>2. CASE CommandEnds(th)
  <2>1. returnCode' \in [ TaskId -> SystemStatus \cup {0} ] /\ where' \in [ Threads -> Places ]
    BY <1>0, <1>2, <1>c DEF CommandEnds, TypesBut, Places
  <2> QED BY <1>0, <1>2, <2>1 DEF CommandEnds, TypesBut
<1>3. CASE EpilogueRetry(th)
  BY <1>0, <1>3, <1>c DEF EpilogueRetry, TypesBut, Places
<1>4. CASE Retry(th)
  <2>1. item[th] \in TaskId
    BY <1>4, <1>a DEF Retry
  <2>2. /\ retries' \in [ TaskId -> Nat ]
        /\ item' \in [ Threads -> TaskId \cup {NoTask} ]
    BY <1>0, <1>4, <2>1 DEF Retry, TypesBut
  <2>3. pool' \in [ TaskId -> Nat ] /\ where' \in [ Threads -> Places ]
    BY <1>4, <1>c, <1>e, <2>1 DEF Retry, Places
  <2> QED BY <1>0, <1>4, <2>2, <2>3 DEF Retry, TypesBut
<1>5. CASE EpilogueVerdict(th)
  <2>1. taskState' \in [ TaskId -> TaskStates ] /\ where' \in [ Threads -> Places ]
    BY <1>5, <1>a, <1>c, <1>d DEF EpilogueVerdict, TaskStates, Places
  <2> QED BY <1>0, <1>5, <2>1 DEF EpilogueVerdict, TypesBut
<1>6. CASE Call(th)
  <2> DEFINE c == [ task |-> Subject(th), state |-> taskState[Subject(th)],
                    left |-> revDepMap[Subject(th)] ]
  <2>1. Subject(th) \in TaskId /\ calls' = [ calls EXCEPT ![th] = << c >> \o @ ]
    BY <1>6, <1>a DEF Call
  <2>2. c \in Calls
    BY <1>0, <1>b, <2>1 DEF Calls, TypesBut
  <2> HIDE DEF c
  <2>3. << c >> \o calls[th] \in Seq(Calls)
    BY <1>a, <2>2, CallPushed
  <2>4. calls' \in [ Threads -> Seq(Calls) ] /\ where' \in [ Threads -> Places ]
    BY <1>0, <1>6, <1>c, <2>1, <2>3 DEF Call, TypesBut, Places
  <2> QED BY <1>0, <1>6, <2>4 DEF Call, TypesBut
<1>7. CASE RemoveReads(th)
  <2>1. Dependant(th) \in TaskId
    BY <1>7, <1>a, <1>b DEF RemoveReads, InLoop, Visiting
  <2>2. /\ copy' \in [ Threads -> SUBSET (Nat \ {0}) ] /\ where' \in [ Threads -> Places ]
    BY <1>0, <1>7, <1>c, <2>1 DEF RemoveReads, TypesBut, Places
  <2> QED BY <1>0, <1>7, <2>2 DEF RemoveReads, TypesBut
<1>8. CASE RemoveWrites(th)
  <2>1. Dependant(th) \in TaskId
    BY <1>8, <1>a, <1>b DEF RemoveWrites, Visiting
  <2>2. /\ dependencies' \in [ TaskId -> SUBSET (Nat \ {0}) ]
        /\ copy' \in [ Threads -> SUBSET (Nat \ {0}) ] /\ where' \in [ Threads -> Places ]
    BY <1>0, <1>8, <1>c, <2>1 DEF RemoveWrites, DepsAfterRemove, TypesBut, Places
  <2> QED BY <1>0, <1>8, <2>2 DEF RemoveWrites, TypesBut
<1>9. CASE TestBlocked(th)
  <2>1. where' \in [ Threads -> Places ]
    BY <1>9, <1>c DEF TestBlocked, Places
  <2> QED BY <1>0, <1>9, <2>1 DEF TestBlocked, TypesBut
<1>10. CASE Unblock(th)
  <2>1. Dependant(th) \in TaskId
    BY <1>10, <1>a, <1>b DEF Unblock, Visiting
  <2>2. taskState' \in [ TaskId -> TaskStates ] /\ where' \in [ Threads -> Places ]
    BY <1>10, <1>c, <1>d, <2>1 DEF Unblock, TaskStates, Places
  <2> QED BY <1>0, <1>10, <2>2 DEF Unblock, TypesBut
<1>11. CASE Release(th)
  <2>1. Dependant(th) \in TaskId /\ Advanced(calls[th]) \in Seq(Calls)
    BY <1>11, <1>a, <1>b, <1>f DEF Release, Visiting
  <2>2. pool' \in [ TaskId -> Nat ]
    BY <1>0, <1>11, <1>e, <2>1 DEF Release, TypesBut
  <2>3. calls' \in [ Threads -> Seq(Calls) ] /\ where' \in [ Threads -> Places ]
    BY <1>0, <1>11, <1>c, <2>1 DEF Release, TypesBut, Places
  <2> QED BY <1>0, <1>11, <2>2, <2>3 DEF Release, TypesBut
<1>12. CASE Cancel(th)
  <2>1. Dependant(th) \in TaskId
    BY <1>12, <1>a, <1>b DEF Cancel, InLoop, Visiting
  <2>2. taskState' \in [ TaskId -> TaskStates ] /\ where' \in [ Threads -> Places ]
    BY <1>12, <1>c, <1>d, <2>1 DEF Cancel, TaskStates, Places
  <2> QED BY <1>0, <1>12, <2>2 DEF Cancel, TypesBut
<1>13. CASE PassOver(th)
  <2>1. Advanced(calls[th]) \in Seq(Calls)
    BY <1>13, <1>a, <1>b, <1>f DEF PassOver, InLoop, Visiting
  <2>2. calls' \in [ Threads -> Seq(Calls) ]
    BY <1>0, <1>13, <2>1 DEF PassOver, TypesBut
  <2> QED BY <1>0, <1>13, <2>2 DEF PassOver, TypesBut
<1>14. CASE Return(th)
  <2>1. CASE Len(calls[th]) > 1
    <3> DEFINE n == Len(calls[th])
    <3>0. n \in Nat /\ n > 1 /\ n # 1 /\ n - 1 # 0
      <4>1. n \in Nat /\ n > 1
        BY <1>a, <2>1
      <4> HIDE DEF n
      <4> QED BY <4>1
    <3>1. calls[th] # << >>
      BY <1>14, <1>b DEF Return, Visiting
    <3>2. Tail(calls[th]) \in Seq(Calls) /\ Len(Tail(calls[th])) = Len(calls[th]) - 1
      BY <1>a, <3>1, HeadTailProperties
    <3>3. Tail(calls[th]) # << >>
      BY <3>0, <3>2, Len(<< >>) = 0
    <3>4. Advanced(Tail(calls[th])) \in Seq(Calls)
      BY <1>f, <3>2, <3>3
    <3>5. calls' = [ calls EXCEPT ![th] = Advanced(Tail(@)) ] /\ UNCHANGED << item, where >>
      BY <1>14, <3>0 DEF Return
    <3>6. calls' \in [ Threads -> Seq(Calls) ]
      BY <1>0, <3>4, <3>5 DEF TypesBut
    <3> QED BY <1>0, <1>14, <3>5, <3>6 DEF Return, TypesBut
  <2>2. CASE ~ (Len(calls[th]) > 1)
    <3>1. /\ calls' = [ calls EXCEPT ![th] = << >> ]
          /\ item' = [ item EXCEPT ![th] = NoTask ]
          /\ GoTo(th, "idle")
      BY <1>14, <2>2 DEF Return
    <3>2. /\ calls' \in [ Threads -> Seq(Calls) ]
          /\ item' \in [ Threads -> TaskId \cup {NoTask} ] /\ where' \in [ Threads -> Places ]
      BY <1>0, <1>c, <3>1 DEF TypesBut, Places
    <3> QED BY <1>0, <1>14, <3>2 DEF Return, TypesBut
  <2> QED BY <2>1, <2>2
<1> QED BY <1>1, <1>2, <1>3, <1>4, <1>5, <1>6, <1>7, <1>8, <1>9, <1>10, <1>11, <1>12, <1>13,
           <1>14 DEF Thread

\* The shape of the calls of a thread, with the sequence and the task it has run
\* as parameters.
Shape(stack, task) ==
  \A i \in 1..Len(stack) :
    /\ stack[i].left \subseteq revDepMap[stack[i].task]
    /\ i = Len(stack) => stack[i].task = task
    /\ i < Len(stack) =>
         /\ stack[i + 1].left # {}
         /\ stack[i + 1].state \in Lost
         /\ stack[i].task = NextOf(<< stack[i + 1] >>)

\* Which dependant a call comes to depends on that call only.
LEMMA NextOfTop ==
  ASSUME NEW stack \in Seq(Calls), stack # << >>
  PROVE  NextOf(<< stack[1] >>) = NextOf(stack)
BY HeadTailProperties DEF NextOf

LEMMA ShapePushed ==
  ASSUME NEW stack \in Seq(Calls), NEW task, Shape(stack, task), NEW c \in Calls,
         c.left \subseteq revDepMap[c.task],
         stack = << >> => c.task = task,
         stack # << >> => /\ stack[1].left # {} /\ stack[1].state \in Lost
                          /\ c.task = NextOf(stack)
  PROVE  Shape(<< c >> \o stack, task)
<1> DEFINE new == << c >> \o stack
           n == Len(stack)
<1>1. /\ n \in Nat /\ Len(new) = n + 1 /\ new[1] = c
      /\ \A i \in 1..n : new[i + 1] = stack[i]
      /\ n = 0 <=> stack = << >>
  BY CallPushed, EmptySeq, LenProperties
<1> HIDE DEF new
<1>2. ASSUME NEW i \in 1..(n + 1)
      PROVE  /\ new[i].left \subseteq revDepMap[new[i].task]
             /\ i = n + 1 => new[i].task = task
             /\ i < n + 1 =>
                  /\ new[i + 1].left # {}
                  /\ new[i + 1].state \in Lost
                  /\ new[i].task = NextOf(<< new[i + 1] >>)
  <2>1. CASE i = 1
    <3>1. CASE n = 0
      BY <1>1, <2>1, <3>1
    <3>2. CASE n # 0
      <4>1. new[2] = stack[1]
        BY <1>1, <3>2
      <4>2. stack # << >> /\ NextOf(<< stack[1] >>) = NextOf(stack)
        BY <1>1, <3>2, NextOfTop
      <4> QED BY <1>1, <2>1, <3>2, <4>1, <4>2
    <3> QED BY <3>1, <3>2
  <2>2. CASE i # 1
    <3>1. PICK k \in 1..n : i = k + 1
      <4>1. i - 1 \in 1..n /\ i = (i - 1) + 1
        BY <1>1, <2>2
      <4> QED BY <4>1
    <3>2. new[i] = stack[k]
      BY <1>1, <3>1
    <3>3. i < n + 1 => k < n /\ new[i + 1] = stack[k + 1]
      BY <1>1, <3>1
    <3>4. i = n + 1 => k = n
      BY <1>1, <3>1
    <3> QED BY <3>2, <3>3, <3>4 DEF Shape
  <2> QED BY <2>1, <2>2
<1>3. Len(new) = n + 1
  BY <1>1
<1> HIDE DEF n
<1>4. Shape(new, task)
  BY <1>2, <1>3 DEF Shape
<1> QED BY <1>4 DEF new

LEMMA ShapeAdvanced ==
  ASSUME NEW stack \in Seq(Calls), NEW task, Shape(stack, task), stack # << >>
  PROVE  /\ Advanced(stack) \in Seq(Calls) /\ Advanced(stack) # << >>
         /\ Len(Advanced(stack)) = Len(stack)
         /\ Advanced(stack)[1] \in Calls
         /\ Advanced(stack)[1].task = stack[1].task
         /\ Advanced(stack)[1].state = stack[1].state
         /\ Advanced(stack)[1].left = stack[1].left \ {NextOf(stack)}
         /\ \A i \in 2..Len(stack) : Advanced(stack)[i] = stack[i]
         /\ Shape(Advanced(stack), task)
<1> DEFINE new == Advanced(stack)
           n == Len(stack)
           c == [ Head(stack) EXCEPT !.left = @ \ {NextOf(stack)} ]
<1>1. Head(stack) = stack[1] /\ stack[1] \in Calls /\ n \in Nat \ {0}
  BY HeadTailProperties, EmptySeq, LenProperties
<1>2. /\ c \in Calls /\ c.task = stack[1].task /\ c.state = stack[1].state
      /\ c.left = stack[1].left \ {NextOf(stack)}
  BY <1>1 DEF Calls
<1> HIDE DEF c
<1>3. /\ new \in Seq(Calls) /\ Len(new) = n /\ new # << >> /\ new[1] = c
      /\ \A i \in 2..n : new[i] = stack[i]
  BY <1>2, CallAdvanced DEF c
<1> HIDE DEF new
<1>4. ASSUME NEW i \in 1..n
      PROVE  /\ new[i].left \subseteq revDepMap[new[i].task]
             /\ i = n => new[i].task = task
             /\ i < n => /\ new[i + 1].left # {}
                         /\ new[i + 1].state \in Lost
                         /\ new[i].task = NextOf(<< new[i + 1] >>)
  <2>1. new[i].task = stack[i].task /\ new[i].left \subseteq stack[i].left
    BY <1>1, <1>2, <1>3
  <2>2. i < n => new[i + 1] = stack[i + 1]
    BY <1>1, <1>3
  <2> QED BY <2>1, <2>2 DEF Shape
<1>5. Len(new) = n
  BY <1>3
<1> HIDE DEF n
<1>6. Shape(new, task)
  BY <1>4, <1>5 DEF Shape
<1> QED BY <1>2, <1>3, <1>6 DEF new, n

\* The calls without the last one.
LEMMA ShapePopped ==
  ASSUME NEW stack \in Seq(Calls), NEW task, Shape(stack, task), Len(stack) > 1
  PROVE  /\ Tail(stack) \in Seq(Calls) /\ Tail(stack) # << >>
         /\ Len(Tail(stack)) = Len(stack) - 1
         /\ \A i \in 1..(Len(stack) - 1) : Tail(stack)[i] = stack[i + 1]
         /\ Shape(Tail(stack), task)
<1> DEFINE new == Tail(stack)
           n == Len(stack)
<1>1. n \in Nat /\ n > 1
  BY LenProperties
<1>2. stack # << >>
  BY <1>1
<1>3. /\ new \in Seq(Calls) /\ Len(new) = n - 1
      /\ \A i \in 1..Len(new) : new[i] = stack[i + 1]
  BY <1>2, HeadTailProperties
<1> HIDE DEF new
<1>4. ASSUME NEW i \in 1..(n - 1)
      PROVE  /\ new[i].left \subseteq revDepMap[new[i].task]
             /\ i = n - 1 => new[i].task = task
             /\ i < n - 1 => /\ new[i + 1].left # {}
                             /\ new[i + 1].state \in Lost
                             /\ new[i].task = NextOf(<< new[i + 1] >>)
  <2>1. PICK k \in 1..n : k = i + 1
    <3> HIDE DEF n
    <3> QED BY <1>1
  <2>2. new[i] = stack[k]
    BY <1>3, <2>1
  <2>3. i < n - 1 => k < n /\ new[i + 1] = stack[k + 1]
    <3>1. \A j \in 1..(n - 1) : new[j] = stack[j + 1]
      BY <1>3
    <3> HIDE DEF n
    <3> QED BY <1>1, <2>1, <3>1
  <2>4. i = n - 1 => k = n
    <3> HIDE DEF n
    <3> QED BY <1>1, <2>1
  <2> QED BY <2>2, <2>3, <2>4 DEF Shape
<1>5. new # << >>
  <2>1. Len(new) = n - 1 /\ Len(<< >>) = 0
    BY <1>3
  <2> HIDE DEF n
  <2> QED BY <1>1, <2>1
<1>6. Len(new) = n - 1
  BY <1>3
<1> HIDE DEF n
<1>7. Shape(new, task)
  BY <1>4, <1>6 DEF Shape
<1>8. \A i \in 1..(n - 1) : new[i] = stack[i + 1]
  BY <1>3, <1>6
<1> QED BY <1>3, <1>5, <1>6, <1>7, <1>8 DEF new, n

LEMMA OtherFits ==
  ASSUME NEW x, StackFits(x), where'[x] = where[x], item'[x] = item[x], calls'[x] = calls[x],
         UNCHANGED << revDepMap, nworkers >>, started => started'
  PROVE  StackFits(x)'
BY DEF StackFits, NextOf

\* A thread that moves to another place, with the same task and the same calls.
LEMMA MoveFits ==
  ASSUME ThreadsAgree, NEW th \in Threads, NEW place, where'[th] = place,
         where[th] # "idle", place # "idle",
         item'[th] = item[th], calls'[th] = calls[th],
         UNCHANGED << revDepMap, nworkers, started >>,
         place \in Executing => calls[th] = << >>,
         place \in Visiting => calls[th] # << >>,
         place \in Visiting \ {"loop"} =>
           calls[th][1].left # {} /\ calls[th][1].state = "completed",
         place = "call" /\ calls[th] # << >> =>
           calls[th][1].left # {} /\ calls[th][1].state \in Lost
  PROVE  StackFits(th)'
<1>1. StackFits(th)
  BY DEF ThreadsAgree
<1>2. \A i \in 1..Len(calls'[th]) :
        /\ calls'[th][i].left \subseteq revDepMap'[calls'[th][i].task]
        /\ i = Len(calls'[th]) => calls'[th][i].task = item'[th]
        /\ i < Len(calls'[th]) =>
             /\ calls'[th][i + 1].left # {}
             /\ calls'[th][i + 1].state \in Lost
             /\ calls'[th][i].task = NextOf(<< calls'[th][i + 1] >>)
  BY <1>1 DEF StackFits
<1>3. started' /\ th <= nworkers' /\ item'[th] # NoTask
  BY <1>1 DEF StackFits
<1> QED BY <1>2, <1>3 DEF StackFits, NextOf

LEMMA StackFitsStep ==
  ASSUME ThreadsAgree, NEW th \in Threads, Thread(th)
  PROVE  StackFits(th)'
<1> DEFINE stack == calls[th]
<1>0. /\ TypesBut /\ StackFits(th)
      /\ UNCHANGED << validTasks, revDepMap, nworkers, started >>
  BY TypesHold DEF Thread, ThreadsAgree
<1>a. /\ stack \in Seq(Calls) /\ Len(stack) \in Nat
      /\ where[th] # "idle" => item[th] \in TaskId
      /\ stack # << >> => Head(stack) = stack[1]
      /\ where[th] = "call" => Subject(th) \in TaskId
  BY Actor
<1>b. \A place : GoTo(th, place) => where'[th] = place
  BY <1>0 DEF TypesBut, GoTo
<1>c. Shape(stack, item[th])
  BY <1>0 DEF StackFits, Shape
<1>d. ASSUME calls'[th] \in Seq(Calls), calls'[th] # << >>, Shape(calls'[th], item[th]),
             item'[th] = item[th], where'[th] = "loop", where[th] # "idle"
      PROVE  StackFits(th)'
  <2>1. \A i \in 1..Len(calls'[th]) :
          /\ calls'[th][i].left \subseteq revDepMap'[calls'[th][i].task]
          /\ i = Len(calls'[th]) => calls'[th][i].task = item'[th]
          /\ i < Len(calls'[th]) =>
               /\ calls'[th][i + 1].left # {}
               /\ calls'[th][i + 1].state \in Lost
               /\ calls'[th][i].task = NextOf(<< calls'[th][i + 1] >>)
    BY <1>0, <1>d DEF Shape
  <2>2. item'[th] # NoTask /\ started' /\ th <= nworkers'
    BY <1>0, <1>a, <1>d, TaskIdAssumption DEF NoTask, StackFits
  <2> QED BY <1>d, <2>1, <2>2 DEF StackFits, Executing, Visiting, NextOf
<1>e. /\ NoTask \notin TaskId
      /\ where[th] \in Visiting \ {"loop"} => stack[1].left # {} /\ stack[1].state = "completed"
      /\ where[th] \in Visiting => stack # << >>
      /\ where[th] \in {"idle"} \cup Executing => stack = << >>
  BY <1>0, TaskIdAssumption DEF NoTask, StackFits
<1> HIDE DEF stack
<1> USE DEF Executing, Visiting
<1>1. CASE Take(th)
  <2>1. PICK t \in TaskId :
          /\ pool[t] > 0 /\ item' = [ item EXCEPT ![th] = t ]
          /\ where[th] = "idle" /\ th <= nworkers /\ calls' = calls
          /\ where'[th] = "command"
    BY <1>1, <1>b DEF Take
  <2>2. item'[th] = t /\ calls'[th] = << >> /\ t # NoTask
    BY <1>0, <1>e, <2>1 DEF TypesBut, stack
  <2>3. started
    BY <1>0, <2>1 DEF ThreadsAgree, NothingFed, TypesBut
  <2>4. Len(calls'[th]) = 0
    BY <2>2
  <2> QED BY <1>0, <2>1, <2>2, <2>3, <2>4 DEF StackFits
<1>2. CASE CommandEnds(th) \/ EpilogueRetry(th)
  <2>1. /\ where[th] \in Executing /\ where'[th] \in Executing /\ UNCHANGED << item, calls >>
    BY <1>2, <1>b DEF CommandEnds, EpilogueRetry
  <2> QED BY <1>0, <1>e, <2>1, MoveFits DEF stack
<1>3. CASE Retry(th)
  <2>1. /\ where'[th] = "idle" /\ item'[th] = NoTask /\ calls' = calls /\ where[th] = "retry"
    BY <1>0, <1>3, <1>b DEF Retry, TypesBut
  <2>2. calls'[th] = << >> /\ Len(calls'[th]) = 0
    BY <1>e, <2>1 DEF stack
  <2> QED BY <2>1, <2>2 DEF StackFits
<1>4. CASE EpilogueVerdict(th)
  <2>1. where[th] = "epilogue" /\ where'[th] = "call" /\ UNCHANGED << item, calls >>
    BY <1>4, <1>b DEF EpilogueVerdict
  <2> QED BY <1>0, <1>e, <2>1, MoveFits DEF stack
<1>5. CASE Call(th)
  <2> DEFINE c == [ task |-> Subject(th), state |-> taskState[Subject(th)],
                    left |-> revDepMap[Subject(th)] ]
  <2>1. /\ where[th] = "call" /\ where'[th] = "loop" /\ item' = item
        /\ calls' = [ calls EXCEPT ![th] = << c >> \o @ ]
    BY <1>5, <1>b DEF Call
  <2>2. c \in Calls /\ c.left \subseteq revDepMap[c.task] /\ c.task = Subject(th)
    BY <1>0, <1>a, <2>1 DEF Calls, TypesBut, ThreadsAgree
  <2> HIDE DEF c
  <2>3. calls'[th] = << c >> \o stack
    BY <1>0, <2>1 DEF TypesBut, stack
  <2>4. /\ stack = << >> => c.task = item[th]
        /\ stack # << >> => /\ stack[1].left # {} /\ stack[1].state \in Lost
                            /\ c.task = NextOf(stack)
    BY <1>0, <2>1, <2>2 DEF StackFits, Subject, Dependant, stack
  <2>5. Shape(<< c >> \o stack, item[th])
    BY <1>a, <1>c, <2>2, <2>4, ShapePushed
  <2>6. << c >> \o stack \in Seq(Calls) /\ << c >> \o stack # << >>
    BY <1>a, <2>2, CallPushed
  <2> QED BY <1>d, <2>1, <2>3, <2>5, <2>6
<1>6. CASE RemoveReads(th)
  <2>1. /\ where[th] = "loop" /\ where'[th] = "remove" /\ UNCHANGED << item, calls >>
        /\ Head(stack).left # {} /\ Head(stack).state = "completed"
    BY <1>6, <1>b DEF RemoveReads, InLoop, stack
  <2>2. stack # << >> /\ stack[1].left # {} /\ stack[1].state = "completed"
    BY <1>a, <1>e, <2>1
  <2> QED BY <1>0, <2>1, <2>2, MoveFits DEF stack
<1>7. CASE RemoveWrites(th) \/ TestBlocked(th) \/ Unblock(th)
  <2>1. /\ where[th] \in Visiting \ {"loop"} /\ where'[th] \in Visiting \ {"loop"}
        /\ UNCHANGED << item, calls >>
    BY <1>7, <1>b DEF RemoveWrites, TestBlocked, Unblock
  <2> QED BY <1>0, <1>e, <2>1, MoveFits DEF stack
<1>8. CASE Release(th) \/ PassOver(th)
  <2>1. /\ where[th] \in Visiting /\ where'[th] = "loop" /\ item' = item
        /\ calls' = [ calls EXCEPT ![th] = Advanced(@) ]
    BY <1>8, <1>b DEF Release, PassOver, InLoop
  <2>2. calls'[th] = Advanced(stack) /\ stack # << >>
    BY <1>0, <1>e, <2>1 DEF TypesBut, stack
  <2> QED BY <1>a, <1>c, <1>d, <2>1, <2>2, ShapeAdvanced
<1>9. CASE Cancel(th)
  <2>1. /\ where[th] = "loop" /\ where'[th] = "call" /\ UNCHANGED << item, calls >>
        /\ Head(stack).left # {} /\ Head(stack).state \in Lost
    BY <1>9, <1>b DEF Cancel, InLoop, stack, Lost
  <2>2. stack # << >> /\ stack[1].left # {} /\ stack[1].state \in Lost
    BY <1>a, <1>e, <2>1
  <2> QED BY <1>0, <2>1, <2>2, MoveFits DEF stack
<1>10. CASE Return(th)
  <2>1. where[th] = "loop" /\ stack # << >>
    BY <1>10, <1>e DEF Return
  <2>2. CASE Len(stack) > 1 /\ calls' = [ calls EXCEPT ![th] = Advanced(Tail(@)) ]
             /\ UNCHANGED << item, where >>
    <3>1. /\ Tail(stack) \in Seq(Calls) /\ Tail(stack) # << >> /\ Shape(Tail(stack), item[th])
      BY <1>a, <1>c, <2>2, ShapePopped
    <3>2. /\ Advanced(Tail(stack)) \in Seq(Calls) /\ Advanced(Tail(stack)) # << >>
          /\ Shape(Advanced(Tail(stack)), item[th])
      BY <3>1, ShapeAdvanced
    <3>3. calls'[th] = Advanced(Tail(stack))
      BY <1>0, <2>2 DEF TypesBut, stack
    <3> QED BY <1>d, <2>1, <2>2, <3>2, <3>3
  <2>3. CASE /\ calls' = [ calls EXCEPT ![th] = << >> ]
             /\ item' = [ item EXCEPT ![th] = NoTask ]
             /\ GoTo(th, "idle")
    <3>1. calls'[th] = << >> /\ item'[th] = NoTask /\ where'[th] = "idle"
      BY <1>0, <1>b, <2>3 DEF TypesBut
    <3>2. Len(calls'[th]) = 0
      BY <3>1
    <3> QED BY <3>1, <3>2 DEF StackFits
  <2> QED BY <1>10, <2>2, <2>3 DEF Return, stack
<1> QED BY <1>1, <1>2, <1>3, <1>4, <1>5, <1>6, <1>7, <1>8, <1>9, <1>10 DEF Thread

\* The threads that are about to hand a task to parallel_do again.
Retrying(t) == { th \in Threads : item[th] = t /\ where[th] = "retry" }

LEMMA RetryBudgetStep ==
  ASSUME ThreadsAgree, NEW th \in Threads, Thread(th)
  PROVE  RetryBudget'
<1>0. /\ TypesBut /\ TypesBut' /\ OnlyThread(th) /\ RetryBudget
      /\ where[th] # "idle" => item[th] \in TaskId
  BY TypesHold, TypesStay, OthersStay, Actor DEF ThreadsAgree
<1>a. \A place : GoTo(th, place) => where'[th] = place
  BY <1>0 DEF TypesBut, GoTo
<1>b. /\ \A t : IsFiniteSet(Retrying(t)) /\ Cardinality(Retrying(t)) \in Nat
      /\ \A t : IsFiniteSet(Retrying(t)') /\ Cardinality(Retrying(t)') \in Nat
                /\ Cardinality(Retrying(t)') <= Cardinality(Threads)
      /\ Cardinality(Threads) \in Nat
  <2>1. \A t : Retrying(t) \in SUBSET Threads /\ Retrying(t)' \in SUBSET Threads
    BY DEF Retrying
  <2> QED BY <2>1, ThreadsFinite, FS_Subset, FS_CardinalityType
<1>c. \A t \in TaskId : retries[t] \in Nat /\ retries'[t] \in Nat
  BY <1>0 DEF TypesBut
<1> SUFFICES ASSUME NEW t \in TaskId
             PROVE  retries'[t] + Cardinality(Retrying(t)')
                      <= MaxRetries + Cardinality(Threads) - 1
  BY DEF RetryBudget, Retrying
<1>d. retries[t] + Cardinality(Retrying(t)) <= MaxRetries + Cardinality(Threads) - 1
  BY <1>0 DEF RetryBudget, Retrying
<1>1. CASE EpilogueRetry(th)
  <2>1. where[th] = "epilogue" /\ where'[th] = "retry" /\ UNCHANGED << item, retries >>
        /\ retries[item[th]] < MaxRetries
    BY <1>1, <1>a DEF EpilogueRetry, CanRetry
  <2>2. CASE item[th] = t
    BY <1>b, <1>c, <2>1, <2>2, MaxRetriesAssumption
  <2>3. CASE item[th] # t
    <3>1. Retrying(t)' = Retrying(t)
      BY <1>0, <2>1, <2>3 DEF Retrying, OnlyThread
    <3> QED BY <1>d, <2>1, <3>1
  <2> QED BY <2>2, <2>3
<1>2. CASE Retry(th)
  <2>1. /\ where[th] = "retry" /\ where'[th] = "idle" /\ item'[th] = NoTask
        /\ item[th] \in TaskId /\ retries' = [ retries EXCEPT ![item[th]] = @ + 1 ]
    BY <1>0, <1>2, <1>a DEF Retry, TypesBut
  <2>2. CASE item[th] = t
    <3>1. Retrying(t)' = Retrying(t) \ {th} /\ th \in Retrying(t)
      BY <1>0, <2>1, <2>2 DEF Retrying, OnlyThread
    <3>2. Cardinality(Retrying(t)') = Cardinality(Retrying(t)) - 1
      BY <1>b, <3>1, FS_RemoveElement
    <3>3. retries'[t] = retries[t] + 1
      BY <1>0, <2>1, <2>2 DEF TypesBut
    <3> QED BY <1>b, <1>c, <1>d, <3>2, <3>3, MaxRetriesAssumption
  <2>3. CASE item[th] # t
    <3>1. Retrying(t)' = Retrying(t) /\ retries'[t] = retries[t]
      BY <1>0, <2>1, <2>3 DEF Retrying, OnlyThread, TypesBut
    <3> QED BY <1>d, <3>1
  <2> QED BY <2>2, <2>3
<1>3. CASE ~ (EpilogueRetry(th) \/ Retry(th))
  <2>1. retries' = retries /\ where[th] # "retry" /\ where'[th] # "retry"
    <3>1. CASE Take(th) \/ CommandEnds(th) \/ EpilogueVerdict(th) \/ Call(th)
      BY <1>a, <3>1 DEF Take, CommandEnds, EpilogueVerdict, Call
    <3>2. CASE RemoveReads(th) \/ RemoveWrites(th) \/ TestBlocked(th) \/ Unblock(th)
               \/ Release(th)
      BY <1>a, <3>2 DEF RemoveReads, InLoop, RemoveWrites, TestBlocked, Unblock, Release
    <3>3. CASE Cancel(th) \/ PassOver(th) \/ Return(th)
      BY <1>a, <3>3 DEF Cancel, InLoop, PassOver, Return
    <3> QED BY <1>3, <3>1, <3>2, <3>3 DEF Thread
  <2>2. Retrying(t)' = Retrying(t)
    BY <1>0, <2>1 DEF Retrying, OnlyThread
  <2> QED BY <1>d, <2>1, <2>2
<1> QED BY <1>1, <1>2, <1>3

LEMMA AgreeStep ==
  ASSUME ThreadsAgree, NEW th \in Threads, Thread(th)
  PROVE  ThreadsAgree'
<1>0. /\ TypesBut' /\ OnlyThread(th) /\ RetryBudget'
      /\ where[th] # "idle" => started
  BY TypesStay, OthersStay, RetryBudgetStep, Actor
<1>4. met' \in SUBSET TaskId /\ (Meeting \subseteq met)'
  <2>1. met' = met \cup Meeting' /\ met \in SUBSET TaskId
    BY DEF Thread, ThreadsAgree, ThreadTypeOK
  <2>2. Meeting' \subseteq TaskId
    BY DEF Meeting
  <2> QED BY <2>1, <2>2
<1>1. ThreadTypeOK'
  <2>1. ASSUME NEW t \in TaskId
        PROVE  retries'[t] \in 0..(MaxRetries + Cardinality(Threads) - 1)
    <3>1. Retrying(t)' \in SUBSET Threads
      BY DEF Retrying
    <3>2. Cardinality(Retrying(t)') \in Nat /\ Cardinality(Threads) \in Nat
      BY <3>1, ThreadsFinite, FS_Subset, FS_CardinalityType
    <3>3. retries'[t] + Cardinality(Retrying(t)') <= MaxRetries + Cardinality(Threads) - 1
      BY <1>0 DEF RetryBudget, Retrying
    <3>4. retries'[t] \in Nat
      BY <1>0 DEF TypesBut
    <3> QED BY <3>2, <3>3, <3>4, MaxRetriesAssumption
  <2>2. retries' \in [ TaskId -> 0..(MaxRetries + Cardinality(Threads) - 1) ]
    BY <1>0, <2>1 DEF TypesBut
  <2> QED BY <1>0, <1>4, <2>2 DEF ThreadTypeOK, TypesBut, Calls
<1>2. \A x \in Threads : StackFits(x)'
  <2>1. StackFits(th)'
    BY StackFitsStep
  <2>2. ASSUME NEW x \in Threads, x # th PROVE StackFits(x)'
    BY <1>0, <2>2, OtherFits DEF OnlyThread, ThreadsAgree
  <2> QED BY <2>1, <2>2
<1>3. started'
  <2>1. CASE Take(th)
    BY <2>1 DEF Take, ThreadsAgree, NothingFed, ThreadTypeOK, Thread
  <2>2. CASE where[th] # "idle"
    BY <1>0, <2>2 DEF OnlyThread
  <2>3. Take(th) \/ where[th] # "idle"
    BY DEF Thread, CommandEnds, EpilogueRetry, Retry, EpilogueVerdict, Call, RemoveReads,
           InLoop, RemoveWrites, TestBlocked, Unblock, Release, Cancel, PassOver, Return
  <2> QED BY <2>1, <2>2, <2>3
<1> QED BY <1>0, <1>1, <1>2, <1>3, <1>4 DEF ThreadsAgree, OnlyThread, BackwardOnly, NothingFed

\* Threads that stay where they are meet where they met.
LEMMA MeetingStays ==
  ASSUME UNCHANGED << where, calls >>
  PROVE  Meeting' = Meeting
BY DEF Meeting, Releasing, Dependant, NextOf

LEMMA AgreeScheduled ==
  ASSUME ThreadsAgree, RunScheduler
  PROVE  ThreadsAgree'
<1>1. pool' \in [ TaskId -> Nat ] /\ started' = TRUE
  BY DEF RunScheduler
<1>2. UNCHANGED << tableVars, nworkers, returnCode, where, item, calls, copy, met >>
  BY DEF RunScheduler
<1>3. ThreadTypeOK'
  BY <1>1, <1>2 DEF ThreadsAgree, ThreadTypeOK, tableVars
<1>4. \A x \in Threads : StackFits(x)'
  BY <1>1, <1>2, OtherFits DEF ThreadsAgree, tableVars
<1>5. (Meeting \subseteq met)'
  BY <1>2, MeetingStays DEF ThreadsAgree
<1> QED BY <1>1, <1>2, <1>3, <1>4, <1>5 DEF ThreadsAgree, BackwardOnly, NothingFed, RetryBudget,
          tableVars

LEMMA AgreeInit ==
  ASSUME Init
  PROVE  ThreadsAgree
<1>1. PICK file \in Files :
        /\ \A t \in TaskId : /\ file[t].state \in {"waiting", "blocked", "invalid"}
                             /\ file[t].deps \in SUBSET (Nat \ {0})
        /\ TableLoaded(file)
  BY LoadedEntries DEF Init
<1>2. /\ validTasks \subseteq TaskId
      /\ revDepMap \in [ TaskId -> SUBSET TaskId ]
      /\ BackwardOnly
  BY <1>1 DEF TableLoaded, BackwardOnly
<1>3. /\ taskState \in [ TaskId -> TaskStates ]
      /\ dependencies \in [ TaskId -> SUBSET (Nat \ {0}) ]
  BY <1>1 DEF TableLoaded, TaskStates
<1>4. /\ where = [ th \in Threads |-> "idle" ] /\ item = [ th \in Threads |-> NoTask ]
      /\ calls = [ th \in Threads |-> << >> ] /\ copy = [ th \in Threads |-> {} ]
      /\ pool = [ t \in TaskId |-> 0 ] /\ returnCode = [ t \in TaskId |-> 0 ]
      /\ retries = [ t \in TaskId |-> 0 ] /\ met = {}
  BY DEF Init, ThreadInit, TableInit
<1>5. nworkers \in ThreadCounts /\ started = FALSE
  BY Zenon DEF Init, ThreadInit
<1>6. Cardinality(Threads) \in Nat \ {0}
  BY <1>5, ThreadsFinite, FS_CardinalityType, FS_EmptySet
<1>7. 0 \in 0..(MaxRetries + Cardinality(Threads) - 1)
  BY <1>6, MaxRetriesAssumption
<1>8. ThreadTypeOK
  <2>1. << >> \in Seq([ task : TaskId, state : TaskStates, left : SUBSET TaskId ])
    OBVIOUS
  <2>2. /\ retries \in [ TaskId -> 0..(MaxRetries + Cardinality(Threads) - 1) ]
        /\ returnCode \in [ TaskId -> SystemStatus \cup {0} ]
        /\ pool \in [ TaskId -> Nat ]
        /\ where \in [ Threads -> Places ]
        /\ item \in [ Threads -> TaskId \cup {NoTask} ]
        /\ calls \in [ Threads ->
                         Seq([ task : TaskId, state : TaskStates, left : SUBSET TaskId ]) ]
        /\ copy \in [ Threads -> SUBSET (Nat \ {0}) ]
    BY <1>4, <1>7, <2>1 DEF Places
  <2>3. started \in BOOLEAN
    BY <1>5
  <2> QED BY <1>3, <1>4, <1>5, <2>2, <2>3 DEF ThreadTypeOK
<1>9. \A th \in Threads : StackFits(th)
  <2> TAKE th \in Threads
  <2>1. where[th] = "idle" /\ item[th] = NoTask /\ calls[th] = << >> /\ Len(calls[th]) = 0
    BY <1>4
  <2> QED BY <2>1 DEF StackFits, Executing, Visiting
<1>10. RetryBudget
  <2> USE DEF RetryBudget
  <2> TAKE t \in TaskId
  <2>1. Retrying(t) = {}
    BY <1>4 DEF Retrying
  <2>2. Cardinality(Retrying(t)) = 0
    BY <2>1, FS_EmptySet
  <2> QED BY <1>4, <1>6, <2>2, MaxRetriesAssumption DEF Retrying
<1>11. Meeting = {}
  BY <1>4 DEF Meeting, Releasing
<1> QED BY <1>2, <1>4, <1>8, <1>9, <1>10, <1>11 DEF ThreadsAgree, NothingFed

-------------------------------------------------------------------------------
(* Who tells whom                                                          *)

LEMMA CleanBelow ==
  ASSUME ThreadsAgree, NEW t \in TaskId, NEW s \in TaskId, s <= t, Clean(t)
  PROVE  Clean(s)
<1>1. met \subseteq TaskId
  BY DEF ThreadsAgree, ThreadTypeOK
<1> QED BY <1>1, TaskIdAssumption DEF Clean

\* A thread tells a task of one of its parents, which is earlier in the file.
LEMMA TellsParent ==
  ASSUME ThreadsAgree, NEW x \in Threads, NEW p, NEW c, Tells(x, p, c)
  PROVE  /\ c \in TaskId /\ p \in Parents(c) /\ p \in TaskId /\ p < c
         /\ where[x] # "idle" /\ x <= nworkers
<1>1. p \in TaskId /\ c \in revDepMap[p]
  <2>1. CASE where[x] = "call" /\ Subject(x) = p /\ c \in revDepMap[p]
    BY <2>1, Actor
  <2>2. CASE \E i \in 1..Len(calls[x]) : calls[x][i].task = p /\ c \in calls[x][i].left
    <3>1. PICK i \in 1..Len(calls[x]) : calls[x][i].task = p /\ c \in calls[x][i].left
      BY <2>2
    <3>2. calls[x][i].left \subseteq revDepMap[calls[x][i].task]
      BY DEF ThreadsAgree, StackFits
    <3> QED BY <3>1, <3>2, Actor
  <2> QED BY <2>1, <2>2 DEF Tells
<1>2. where[x] # "idle"
  <2>1. where[x] = "idle" => Len(calls[x]) = 0
    BY DEF ThreadsAgree, StackFits
  <2> QED BY <2>1 DEF Tells
<1> QED BY <1>1, <1>2 DEF ThreadsAgree, BackwardOnly, Parents, StackFits

\* What a task is told of is the verdict of a parent: of the one the thread has
\* run itself unless the parent was cancelled.
LEMMA Teller ==
  ASSUME ThreadInv, NEW t \in TaskId, Clean(t), NEW x \in Threads, NEW p, Tells(x, p, t)
  PROVE  /\ p \in Parents(t) /\ p \in TaskId /\ p < t /\ Clean(p) /\ InOrder(p)
         /\ taskState[p] \in FinalStates
         /\ taskState[p] # "cancelled" => item[x] = p
         /\ where[x] # "idle" /\ x <= nworkers
<1>1. /\ p \in Parents(t) /\ p \in TaskId /\ p < t
      /\ where[x] # "idle" /\ x <= nworkers
  BY TellsParent DEF ThreadInv
<1>2. Clean(p) /\ InOrder(p)
  BY <1>1, CleanBelow, TaskIdAssumption DEF ThreadInv
<1>3. CASE where[x] = "call" /\ Subject(x) = p
  BY <1>1, <1>2, <1>3 DEF InOrder, CallsFit, Subject, FinalStates
<1>4. CASE \E i \in 1..Len(calls[x]) : calls[x][i].task = p
  <2>1. PICK i \in 1..Len(calls[x]) : calls[x][i].task = p
    BY <1>4
  <2>2. IF i = Len(calls[x]) THEN taskState[p] \in {"completed", "failed"}
                             ELSE taskState[p] = "cancelled"
    BY <1>2, <2>1 DEF InOrder, CallsFit
  <2>3. i = Len(calls[x]) => p = item[x]
    BY <2>1 DEF ThreadInv, ThreadsAgree, StackFits
  <2> QED BY <1>1, <1>2, <2>2, <2>3 DEF FinalStates
<1> QED BY <1>3, <1>4 DEF Tells

\* Only one thread tells a task of one parent that completed, and where threads
\* cannot meet of all of them.
LEMMA OneTeller ==
  ASSUME ThreadInv, NEW t \in TaskId, Clean(t),
         NEW x \in Threads, NEW p, Tells(x, p, t), taskState[p] = "completed",
         NEW y \in Threads, NEW q, Tells(y, q, t), taskState[q] = "completed"
  PROVE  /\ p = q <=> x = y
         /\ Apart => x = y
<1>1. /\ p \in Parents(t) /\ item[x] = p /\ p \in TaskId /\ InOrder(p) /\ x <= nworkers
      /\ q \in Parents(t) /\ item[y] = q /\ y <= nworkers
  BY Teller
<1>2. p = q <=> x = y
  BY <1>1 DEF InOrder, OnePlace
<1>3. CASE nworkers = 1
  BY <1>1, <1>2, <1>3, ThreadsFinite
<1>4. CASE Apart /\ nworkers # 1
  BY <1>1, <1>2, <1>4 DEF Apart
<1> QED BY <1>2, <1>3, <1>4 DEF Apart

\* A thread that visits a dependant: it tells it of the task of its last call.
LEMMA Visit ==
  ASSUME ThreadInv, NEW x \in Threads, calls[x] # << >>, calls[x][1].left # {},
         NEW c \in TaskId, c = Dependant(x), Clean(c),
         NEW q, q = calls[x][1].task
  PROVE  /\ Tells(x, q, c)
         /\ q \in Parents(c) /\ q \in TaskId /\ q < c /\ Clean(q) /\ InOrder(q)
         /\ taskState[q] = calls[x][1].state
         /\ taskState[q] \in FinalStates
         /\ taskState[q] = "completed" => item[x] = q /\ Len(calls[x]) = 1
<1>1. 1 \in 1..Len(calls[x]) /\ c \in calls[x][1].left /\ Len(calls[x]) \in Nat
  BY Actor DEF ThreadInv
<1>2. Tells(x, q, c)
  BY <1>1 DEF Tells
<1>3. /\ q \in Parents(c) /\ q \in TaskId /\ q < c /\ Clean(q) /\ InOrder(q)
      /\ taskState[q] \in FinalStates
      /\ taskState[q] # "cancelled" => item[x] = q
  BY <1>2, Teller
<1>4. /\ taskState[q] = calls[x][1].state
      /\ 1 # Len(calls[x]) => taskState[q] = "cancelled"
  BY <1>1, <1>3 DEF InOrder, CallsFit
<1> QED BY <1>2, <1>3, <1>4

\* A thread that removes a parent from the list of a dependant, or goes on with
\* what follows from it: the parent has completed, no other thread tells the
\* dependant of it, and none is at the dependant, though others may come to it.
LEMMA Alone ==
  ASSUME ThreadInv, NEW x \in Threads, NEW c \in TaskId, Clean(c),
         At(x, {"remove", "unblock", "ready", "release"}, c)
  PROVE  /\ calls[x] # << >> /\ calls[x][1].left # {} /\ Len(calls[x]) = 1
         /\ Dependant(x) = c
         /\ calls[x][1].task = item[x]
         /\ Tells(x, item[x], c) /\ taskState[item[x]] = "completed"
         /\ item[x] \in TaskId /\ item[x] \in Parents(c) /\ item[x] < c
         /\ \A y \in Threads : Tells(y, item[x], c) => y = x
         /\ \A q : Tells(x, q, c) /\ taskState[q] = "completed" => q = item[x]
         /\ \A y \in Threads :
              At(y, {"remove", "unblock", "ready", "release"}, c) => y = x
<1>1. ASSUME NEW y \in Threads, At(y, {"remove", "unblock", "ready", "release"}, c)
      PROVE  /\ calls[y] # << >> /\ calls[y][1].left # {} /\ Len(calls[y]) = 1
             /\ Dependant(y) = c
             /\ calls[y][1].task = item[y]
             /\ Tells(y, item[y], c) /\ taskState[item[y]] = "completed"
             /\ item[y] \in TaskId /\ item[y] \in Parents(c) /\ item[y] < c
  <2>1. /\ calls[y] # << >> /\ calls[y][1].left # {} /\ calls[y][1].state = "completed"
        /\ Dependant(y) = c
    BY <1>1 DEF ThreadInv, ThreadsAgree, StackFits, At, Visiting
  <2>2. PICK q : q = calls[y][1].task
    OBVIOUS
  <2>3. /\ Tells(y, q, c) /\ q \in Parents(c) /\ q \in TaskId /\ q < c
        /\ taskState[q] = calls[y][1].state
        /\ taskState[q] = "completed" => item[y] = q /\ Len(calls[y]) = 1
    BY <2>1, <2>2, Visit
  <2> QED BY <2>1, <2>2, <2>3
<1>2. /\ calls[x] # << >> /\ calls[x][1].left # {} /\ Len(calls[x]) = 1
      /\ Dependant(x) = c
      /\ calls[x][1].task = item[x]
      /\ Tells(x, item[x], c) /\ taskState[item[x]] = "completed"
      /\ item[x] \in TaskId /\ item[x] \in Parents(c) /\ item[x] < c
  BY <1>1
<1>3. /\ \A y \in Threads : Tells(y, item[x], c) => y = x
      /\ \A q : Tells(x, q, c) /\ taskState[q] = "completed" => q = item[x]
  BY <1>2, OneTeller
<1>4. ASSUME NEW y \in Threads, At(y, {"remove", "unblock", "ready", "release"}, c)
      PROVE  y = x
  <2>1. c \notin Meeting
    BY TaskIdAssumption DEF Clean, ThreadInv, ThreadsAgree
  <2> QED BY <1>4, <2>1 DEF At, Meeting, Releasing
<1> QED BY <1>2, <1>3, <1>4

-------------------------------------------------------------------------------
(* What a step changes of it                                               *)

\* The other threads tell what they told, and are where they were.
LEMMA OthersTell ==
  ASSUME NEW th \in Threads, OnlyThread(th), NEW x \in Threads, x # th
  PROVE  /\ \A p, c : Tells(x, p, c)' <=> Tells(x, p, c)
         /\ \A places, c : At(x, places, c)' <=> At(x, places, c)
         /\ Dependant(x)' = Dependant(x) /\ Subject(x)' = Subject(x)
         /\ item'[x] = item[x] /\ where'[x] = where[x] /\ calls'[x] = calls[x]
         /\ copy'[x] = copy[x]
<1>1. /\ item'[x] = item[x] /\ where'[x] = where[x] /\ calls'[x] = calls[x]
      /\ copy'[x] = copy[x] /\ revDepMap' = revDepMap
  BY DEF OnlyThread
<1>2. Dependant(x)' = Dependant(x)
  BY <1>1 DEF Dependant, NextOf
<1>3. Subject(x)' = Subject(x)
  BY <1>1, <1>2 DEF Subject
<1>4. \A p, c : Tells(x, p, c)' <=> Tells(x, p, c)
  BY <1>1, <1>3 DEF Tells
<1>5. \A places, c : At(x, places, c)' <=> At(x, places, c)
  BY <1>1, <1>2 DEF At
<1> QED BY <1>1, <1>2, <1>3, <1>4, <1>5

\* A thread whose calls do not change, and that is not about to make one.
LEMMA SameCallsTell ==
  ASSUME NEW th \in Threads, calls'[th] = calls[th], revDepMap' = revDepMap,
         where[th] # "call", where'[th] # "call"
  PROVE  /\ \A p, c : Tells(th, p, c)' <=> Tells(th, p, c)
         /\ Dependant(th)' = Dependant(th)
BY DEF Tells, Dependant, NextOf

\* The end of a task: the thread that has run it has its dependants to tell.
LEMMA VerdictTells ==
  ASSUME ThreadsAgree, NEW th \in Threads, EpilogueVerdict(th), OnlyThread(th)
  PROVE  /\ \A p, c : ~ Tells(th, p, c)
         /\ \A p, c : Tells(th, p, c)' <=> (p = item[th] /\ c \in revDepMap[p])
         /\ calls'[th] = << >> /\ calls[th] = << >> /\ item' = item
         /\ where[th] = "epilogue" /\ where'[th] = "call"
<1>1. /\ where[th] = "epilogue" /\ where'[th] = "call" /\ calls' = calls /\ item' = item
      /\ calls[th] = << >> /\ Len(calls[th]) = 0 /\ revDepMap' = revDepMap
  BY DEF EpilogueVerdict, GoTo, ThreadsAgree, ThreadTypeOK, StackFits, Executing, OnlyThread
<1>2. calls'[th] = << >> /\ Subject(th)' = item[th] /\ Len(calls'[th]) = 0
  BY <1>1 DEF Subject
<1>3. \A p, c : ~ Tells(th, p, c)
  BY <1>1 DEF Tells
<1>4. \A p, c : Tells(th, p, c)' <=> (p = item[th] /\ c \in revDepMap[p])
  BY <1>1, <1>2 DEF Tells
<1> QED BY <1>1, <1>2, <1>3, <1>4

\* The call that was to be made is made.
LEMMA CallTells ==
  ASSUME ThreadsAgree, NEW th \in Threads, Call(th), OnlyThread(th)
  PROVE  /\ \A p, c : Tells(th, p, c)' <=> Tells(th, p, c)
         /\ where[th] = "call" /\ where'[th] = "loop"
         /\ Len(calls'[th]) = Len(calls[th]) + 1
         /\ calls'[th][1].task = Subject(th)
         /\ calls'[th][1].state = taskState[Subject(th)]
         /\ \A i \in 1..Len(calls[th]) : calls'[th][i + 1] = calls[th][i]
         /\ Len(calls[th]) \in Nat
<1> DEFINE c0 == [ task |-> Subject(th), state |-> taskState[Subject(th)],
                   left |-> revDepMap[Subject(th)] ]
<1>1. /\ where[th] = "call" /\ where'[th] = "loop" /\ revDepMap' = revDepMap
      /\ calls' = [ calls EXCEPT ![th] = << c0 >> \o @ ]
  BY DEF Call, GoTo, ThreadsAgree, ThreadTypeOK, OnlyThread
<1>2. calls[th] \in Seq(Calls) /\ Len(calls[th]) \in Nat /\ Subject(th) \in TaskId
  BY <1>1, Actor
<1>3. c0 \in Calls /\ c0.task = Subject(th) /\ c0.state = taskState[Subject(th)]
      /\ c0.left = revDepMap[Subject(th)]
  BY <1>2 DEF Calls, ThreadsAgree, ThreadTypeOK
<1> HIDE DEF c0
<1>4. calls'[th] = << c0 >> \o calls[th]
  BY <1>1 DEF ThreadsAgree, ThreadTypeOK
<1>5. /\ Len(calls'[th]) = Len(calls[th]) + 1 /\ calls'[th][1] = c0
      /\ \A i \in 1..Len(calls[th]) : calls'[th][i + 1] = calls[th][i]
  BY <1>2, <1>3, <1>4, CallPushed
<1>6. ASSUME NEW p, NEW c PROVE Tells(th, p, c)' <=> Tells(th, p, c)
  <2>1. ASSUME Tells(th, p, c) PROVE Tells(th, p, c)'
    <3>1. CASE Subject(th) = p /\ c \in revDepMap[p]
      <4>1. 1 \in 1..Len(calls'[th]) /\ calls'[th][1].task = p /\ c \in calls'[th][1].left
        BY <1>2, <1>3, <1>5, <3>1
      <4> QED BY <4>1 DEF Tells
    <3>2. CASE \E i \in 1..Len(calls[th]) : calls[th][i].task = p /\ c \in calls[th][i].left
      <4>1. PICK i \in 1..Len(calls[th]) : calls[th][i].task = p /\ c \in calls[th][i].left
        BY <3>2
      <4>2. i + 1 \in 1..Len(calls'[th]) /\ calls'[th][i + 1] = calls[th][i]
        BY <1>2, <1>5
      <4> QED BY <4>1, <4>2 DEF Tells
    <3> QED BY <2>1, <3>1, <3>2 DEF Tells
  <2>2. ASSUME Tells(th, p, c)' PROVE Tells(th, p, c)
    <3>1. PICK j \in 1..Len(calls'[th]) : calls'[th][j].task = p /\ c \in calls'[th][j].left
      BY <1>1, <2>2 DEF Tells
    <3>2. CASE j = 1
      BY <1>1, <1>3, <1>5, <3>1, <3>2 DEF Tells
    <3>3. CASE j # 1
      <4>1. j - 1 \in 1..Len(calls[th]) /\ calls'[th][(j - 1) + 1] = calls[th][j - 1]
            /\ (j - 1) + 1 = j
        BY <1>2, <1>5, <3>3
      <4> QED BY <3>1, <4>1 DEF Tells
    <3> QED BY <3>2, <3>3
  <2> QED BY <2>1, <2>2
<1> QED BY <1>1, <1>2, <1>3, <1>5, <1>6

\* A dependant is cancelled: its own dependants are to be told.
LEMMA CancelTells ==
  ASSUME ThreadsAgree, NEW th \in Threads, Cancel(th), OnlyThread(th)
  PROVE  /\ \A p, c : Tells(th, p, c)' <=>
              Tells(th, p, c) \/ (p = Dependant(th) /\ c \in revDepMap[p])
         /\ where[th] = "loop" /\ where'[th] = "call" /\ item' = item /\ calls' = calls
         /\ calls[th] # << >> /\ calls[th][1].left # {} /\ calls[th][1].state \in Lost
         /\ Dependant(th) \in TaskId /\ Dependant(th)' = Dependant(th)
         /\ Subject(th)' = Dependant(th)
<1>1. /\ where[th] = "loop" /\ where'[th] = "call" /\ calls' = calls /\ item' = item
      /\ Head(calls[th]).left # {} /\ revDepMap' = revDepMap /\ calls[th] # << >>
      /\ Head(calls[th]).state \in Lost
  BY DEF Cancel, InLoop, GoTo, ThreadsAgree, ThreadTypeOK, StackFits, Visiting, OnlyThread, Lost
<1>2. /\ calls[th][1].left # {} /\ Dependant(th) \in TaskId /\ calls[th][1].state \in Lost
  BY <1>1, Actor
<1>3. Dependant(th)' = Dependant(th)
  BY <1>1 DEF Dependant, NextOf
<1>4. Subject(th)' = Dependant(th)
  BY <1>1, <1>3 DEF Subject
<1>5. \A p, c : Tells(th, p, c)' <=>
        Tells(th, p, c) \/ (p = Dependant(th) /\ c \in revDepMap[p])
  BY <1>1, <1>4 DEF Tells
<1> QED BY <1>1, <1>2, <1>3, <1>4, <1>5

\* The loop goes on to the next dependant: the one it has come to is told.
LEMMA AdvanceTells ==
  ASSUME ThreadsAgree, NEW th \in Threads, Release(th) \/ PassOver(th), OnlyThread(th)
  PROVE  /\ \A p, c : Tells(th, p, c)' => Tells(th, p, c)
         /\ \A p, c : Tells(th, p, c) /\ ~ (p = calls[th][1].task /\ c = Dependant(th))
              => Tells(th, p, c)'
         /\ \A p, c : Len(calls[th]) = 1 /\ p = calls[th][1].task /\ c = Dependant(th)
              => ~ Tells(th, p, c)'
         /\ where[th] \in Visiting /\ where'[th] = "loop" /\ item' = item
         /\ calls[th] # << >> /\ calls[th][1].left # {} /\ Dependant(th) \in TaskId
         /\ Len(calls'[th]) = Len(calls[th])
         /\ \A i \in 1..Len(calls[th]) :
              calls'[th][i].task = calls[th][i].task /\ calls'[th][i].state = calls[th][i].state
<1>1. /\ where[th] \in Visiting /\ where'[th] = "loop" /\ item' = item
      /\ calls[th] # << >> /\ revDepMap' = revDepMap
      /\ where[th] = "loop" => Head(calls[th]).left # {}
      /\ where[th] # "loop" => calls[th][1].left # {}
      /\ calls' = [ calls EXCEPT ![th] = Advanced(@) ]
      /\ where[th] # "call"
  BY DEF Release, PassOver, InLoop, GoTo, ThreadsAgree, ThreadTypeOK, StackFits, Visiting,
         OnlyThread
<1>2. /\ calls[th] \in Seq(Calls) /\ Len(calls[th]) \in Nat
      /\ calls[th][1].left # {} /\ Dependant(th) \in TaskId
      /\ 1 \in 1..Len(calls[th])
  BY <1>1, Actor
<1>3. Shape(calls[th], item[th])
  BY DEF ThreadsAgree, StackFits, Shape
<1>4. calls'[th] = Advanced(calls[th])
  BY <1>1 DEF ThreadsAgree, ThreadTypeOK
<1>5. /\ Len(calls'[th]) = Len(calls[th])
      /\ calls'[th][1].task = calls[th][1].task
      /\ calls'[th][1].state = calls[th][1].state
      /\ calls'[th][1].left = calls[th][1].left \ {Dependant(th)}
      /\ \A i \in 2..Len(calls[th]) : calls'[th][i] = calls[th][i]
  BY <1>1, <1>2, <1>3, <1>4, ShapeAdvanced DEF Dependant
<1>6. \A i \in 1..Len(calls[th]) :
        /\ calls'[th][i].task = calls[th][i].task /\ calls'[th][i].state = calls[th][i].state
        /\ calls'[th][i].left =
             IF i = 1 THEN calls[th][1].left \ {Dependant(th)} ELSE calls[th][i].left
  <2> TAKE i \in 1..Len(calls[th])
  <2>1. CASE i = 1
    BY <1>5, <2>1
  <2>2. CASE i # 1
    <3>1. i \in 2..Len(calls[th])
      BY <1>2, <2>2
    <3> QED BY <1>5, <2>2, <3>1
  <2> QED BY <2>1, <2>2
<1>7. \A p, c : Tells(th, p, c)' <=>
        \E i \in 1..Len(calls[th]) : calls'[th][i].task = p /\ c \in calls'[th][i].left
  BY <1>1, <1>5 DEF Tells
<1>8. \A p, c : Tells(th, p, c) <=>
        \E i \in 1..Len(calls[th]) : calls[th][i].task = p /\ c \in calls[th][i].left
  BY <1>1 DEF Tells
<1>9. ASSUME NEW p, NEW c, Tells(th, p, c)' PROVE Tells(th, p, c)
  BY <1>6, <1>7, <1>8, <1>9
<1>10. ASSUME NEW p, NEW c, Tells(th, p, c), ~ (p = calls[th][1].task /\ c = Dependant(th))
       PROVE  Tells(th, p, c)'
  <2>1. PICK i \in 1..Len(calls[th]) : calls[th][i].task = p /\ c \in calls[th][i].left
    BY <1>8, <1>10
  <2>2. c \in calls'[th][i].left
    BY <1>6, <1>10, <2>1
  <2> QED BY <1>6, <1>7, <2>1, <2>2
<1>11. ASSUME NEW p, NEW c, Len(calls[th]) = 1, p = calls[th][1].task, c = Dependant(th)
       PROVE  ~ Tells(th, p, c)'
  <2>1. \A i \in 1..Len(calls[th]) : i = 1
    BY <1>11
  <2>2. c \notin calls'[th][1].left
    BY <1>5, <1>11
  <2> QED BY <1>7, <2>1, <2>2
<1> QED BY <1>1, <1>2, <1>5, <1>6, <1>9, <1>10, <1>11

\* updateDependencies returns: the dependant the call below had cancelled is told.
LEMMA ReturnTells ==
  ASSUME ThreadsAgree, NEW th \in Threads, Return(th), OnlyThread(th)
  PROVE  /\ where[th] = "loop" /\ Len(calls[th]) \in Nat \ {0}
         /\ \A p, c : Tells(th, p, c)' => Tells(th, p, c)
         /\ IF Len(calls[th]) = 1
            THEN /\ \A p, c : Tells(th, p, c)' <=> Tells(th, p, c)
                 /\ item'[th] = NoTask /\ where'[th] = "idle" /\ calls'[th] = << >>
            ELSE /\ \A p, c : Tells(th, p, c) /\ ~ (p = calls[th][2].task /\ c = calls[th][1].task)
                      => Tells(th, p, c)'
                 /\ 1 \in 1..Len(calls[th]) /\ 2 \in 1..Len(calls[th])
                 /\ Tells(th, calls[th][2].task, calls[th][1].task)
                 /\ calls[th][2].state \in Lost
                 /\ item' = item /\ where' = where
                 /\ Len(calls'[th]) = Len(calls[th]) - 1
                 /\ \A i \in 1..Len(calls'[th]) :
                      /\ calls'[th][i].task = calls[th][i + 1].task
                      /\ calls'[th][i].state = calls[th][i + 1].state
<1> DEFINE stack == calls[th]
           n == Len(stack)
           c2 == stack[1].task
<1>1. /\ where[th] = "loop" /\ stack # << >> /\ Head(stack).left = {}
      /\ revDepMap' = revDepMap
  BY DEF Return, ThreadsAgree, StackFits, Visiting, OnlyThread
<1>2. /\ stack \in Seq(Calls) /\ n \in Nat /\ 1 \in 1..n /\ stack[1].left = {}
      /\ stack[1] \in Calls
  BY <1>1, Actor
<1>3. Shape(stack, item[th])
  BY DEF ThreadsAgree, StackFits, Shape
<1>4. \A p, c : Tells(th, p, c) <=>
        \E i \in 1..n : stack[i].task = p /\ c \in stack[i].left
  BY <1>1 DEF Tells
<1>5. CASE n = 1
  <2>1. /\ calls' = [ calls EXCEPT ![th] = << >> ] /\ item' = [ item EXCEPT ![th] = NoTask ]
        /\ GoTo(th, "idle")
    <3>1. ~ (n > 1)
      BY <1>5
    <3> QED BY <3>1 DEF Return
  <2>2. calls'[th] = << >> /\ item'[th] = NoTask /\ where'[th] = "idle"
    BY <2>1 DEF GoTo, ThreadsAgree, ThreadTypeOK
  <2>3. Len(calls'[th]) = 0
    BY <2>2
  <2>4. \A p, c : ~ Tells(th, p, c)'
    BY <2>2, <2>3 DEF Tells
  <2>5. \A p, c : ~ Tells(th, p, c)
    BY <1>2, <1>4, <1>5
  <2> QED BY <1>1, <1>2, <1>5, <2>2, <2>4, <2>5
<1>6. CASE n # 1
  <2>0. n > 1 /\ 2 \in 1..n
    <3> HIDE DEF n
    <3> QED BY <1>2, <1>6
  <2>1. calls' = [ calls EXCEPT ![th] = Advanced(Tail(@)) ] /\ UNCHANGED << item, where >>
    BY <1>6 DEF Return
  <2>2. /\ Tail(stack) \in Seq(Calls) /\ Tail(stack) # << >> /\ Len(Tail(stack)) = n - 1
        /\ \A i \in 1..(n - 1) : Tail(stack)[i] = stack[i + 1]
        /\ Shape(Tail(stack), item[th])
    BY <1>2, <1>3, <2>0, ShapePopped
  <2>3. calls'[th] = Advanced(Tail(stack))
    BY <2>1 DEF ThreadsAgree, ThreadTypeOK
  <2>4. /\ Tail(stack)[1] = stack[2]
        /\ stack[2].left # {} /\ stack[2].state \in Lost
        /\ c2 = NextOf(<< stack[2] >>)
    <3>1. stack[1 + 1].left # {} /\ stack[1 + 1].state \in Lost
          /\ stack[1].task = NextOf(<< stack[1 + 1] >>)
      BY <1>2, <1>3, <2>0 DEF Shape
    <3>2. 1 \in 1..(n - 1)
      <4> HIDE DEF n
      <4> QED BY <1>2, <2>0
    <3>3. Tail(stack)[1] = stack[1 + 1]
      BY <2>2, <3>2
    <3>4. 1 + 1 = 2
      OBVIOUS
    <3> HIDE DEF n
    <3> QED BY <3>1, <3>3, <3>4, Zenon
  <2>5. NextOf(Tail(stack)) = c2
    BY <2>2, <2>4, NextOfTop
  <2>6. c2 \in stack[2].left
    <3>1. stack[2] \in Calls
      BY <1>2, <2>0
    <3>2. Head(<< stack[2] >>).left = stack[2].left
      OBVIOUS
    <3>3. stack[2].left \in SUBSET TaskId
      BY <3>1 DEF Calls
    <3> QED BY <2>4, <3>2, <3>3, NextIsLeft
  <2>7. /\ Len(calls'[th]) = n - 1
        /\ calls'[th][1].task = stack[2].task
        /\ calls'[th][1].state = stack[2].state
        /\ calls'[th][1].left = stack[2].left \ {c2}
        /\ \A i \in 2..(n - 1) : calls'[th][i] = Tail(stack)[i]
    BY <2>2, <2>3, <2>4, <2>5, ShapeAdvanced
  <2>8. \A i \in 1..(n - 1) :
          /\ calls'[th][i].task = stack[i + 1].task
          /\ calls'[th][i].state = stack[i + 1].state
          /\ calls'[th][i].left = IF i = 1 THEN stack[2].left \ {c2} ELSE stack[i + 1].left
    <3> TAKE i \in 1..(n - 1)
    <3>1. CASE i = 1
      <4>1. stack[i + 1] = stack[2]
        BY <3>1
      <4> QED BY <2>7, <3>1, <4>1
    <3>2. CASE i # 1
      <4>1. i \in 2..(n - 1)
        <5> HIDE DEF n
        <5> QED BY <1>2, <3>2
      <4> QED BY <2>2, <2>7, <3>2, <4>1
    <3> QED BY <3>1, <3>2
  <2>9. \A p, c : Tells(th, p, c)' <=>
          \E i \in 1..(n - 1) : calls'[th][i].task = p /\ c \in calls'[th][i].left
    BY <1>1, <2>1, <2>7 DEF Tells
  <2> HIDE DEF n
  <2>10. ASSUME NEW p, NEW c, Tells(th, p, c)' PROVE Tells(th, p, c)
    <3>1. PICK i \in 1..(n - 1) : calls'[th][i].task = p /\ c \in calls'[th][i].left
      BY <2>9, <2>10
    <3>2. i + 1 \in 1..n
      BY <1>2
    <3>3. stack[i + 1].task = p /\ c \in stack[i + 1].left
      <4>1. CASE i = 1
        <5>1. stack[i + 1] = stack[2]
          BY <4>1
        <5> QED BY <2>8, <3>1, <4>1, <5>1
      <4> QED BY <2>8, <3>1, <4>1
    <3> QED BY <1>4, <3>2, <3>3
  <2>11. ASSUME NEW p, NEW c, Tells(th, p, c), ~ (p = stack[2].task /\ c = c2)
         PROVE  Tells(th, p, c)'
    <3>1. PICK i \in 1..n : stack[i].task = p /\ c \in stack[i].left
      BY <1>4, <2>11
    <3>2. i # 1
      BY <1>2, <3>1
    <3>3. PICK j \in 1..(n - 1) : i = j + 1
      <4>1. i - 1 \in 1..(n - 1) /\ i = (i - 1) + 1
        BY <1>2, <3>2
      <4> QED BY <4>1
    <3>4. calls'[th][j].task = p /\ c \in calls'[th][j].left
      <4>1. CASE j = 1
        <5>1. stack[i] = stack[2]
          BY <3>3, <4>1
        <5> QED BY <2>8, <2>11, <3>1, <3>3, <4>1, <5>1
      <4>2. CASE j # 1
        BY <2>8, <3>1, <3>3, <4>2
      <4> QED BY <4>1, <4>2
    <3> QED BY <2>9, <3>4
  <2>12. Tells(th, stack[2].task, c2)
    BY <1>4, <2>0, <2>6
  <2>13. /\ Len(calls'[th]) = n - 1
         /\ \A i \in 1..Len(calls'[th]) :
              /\ calls'[th][i].task = stack[i + 1].task
              /\ calls'[th][i].state = stack[i + 1].state
    BY <2>7, <2>8
  <2>14. n \in Nat \ {0} /\ n # 1
    BY <1>2, <1>6
  <2> QED BY <1>1, <1>2, <2>0, <2>1, <2>4, <2>10, <2>11, <2>12, <2>13, <2>14 DEF n
<1> QED BY <1>5, <1>6

-------------------------------------------------------------------------------
(* Verdicts stand, calls and retries fit                                   *)

\* No thread changes the verdict of a task in order.
LEMMA FinalStays ==
  ASSUME ThreadInv, NEW th \in Threads, Thread(th),
         NEW t \in TaskId, Clean(t), taskState[t] \in FinalStates
  PROVE  taskState'[t] = taskState[t]
<1>0. ThreadsAgree /\ InOrder(t) /\ taskState \in [ TaskId -> TaskStates ]
  BY DEF ThreadInv, ThreadsAgree, ThreadTypeOK
<1>1. CASE Take(th)
  <2>1. PICK k \in TaskId : pool[k] > 0 /\ SetState(k, "running")
    BY <1>1 DEF Take
  <2>2. k # t
    BY <1>0, <2>1 DEF InOrder, StateFits, FinalStates
  <2> QED BY <1>0, <2>1, <2>2 DEF SetState
<1>2. CASE EpilogueVerdict(th)
  <2>1. item[th] # t
    BY <1>0, <1>2 DEF EpilogueVerdict, Executing, InOrder, StateFits, FinalStates
  <2> QED BY <1>0, <1>2, <2>1 DEF EpilogueVerdict, SetState
<1>3. CASE Unblock(th)
  <2>1. Dependant(th) # t
    BY <1>0, <1>3 DEF Unblock, At, InOrder, ReleaseFits, FinalStates
  <2> QED BY <1>0, <1>3, <2>1 DEF Unblock, SetState
<1>4. CASE Cancel(th)
  <2>1. CASE Dependant(th) = t
    <3>1. calls[th] # << >> /\ calls[th][1].left # {}
      BY <1>0, <1>4, CancelTells, OthersStay
    <3>2. PICK q : q = calls[th][1].task
      OBVIOUS
    <3>3. Tells(th, q, t) /\ q \in Parents(t)
      BY <2>1, <3>1, <3>2, Visit
    <3>4. taskState[t] = "cancelled"
      BY <1>0, <3>3 DEF InOrder, StateFits, FinalStates
    <3> QED BY <1>0, <1>4, <2>1, <3>4 DEF Cancel, SetState
  <2>2. CASE Dependant(th) # t
    BY <1>0, <1>4, <2>2 DEF Cancel, SetState
  <2> QED BY <2>1, <2>2
<1>5. CASE ~ (Take(th) \/ EpilogueVerdict(th) \/ Unblock(th) \/ Cancel(th))
  <2>1. taskState' = taskState
    BY <1>5 DEF Thread, CommandEnds, EpilogueRetry, Retry, Call, RemoveReads, RemoveWrites,
           TestBlocked, Release, PassOver, Return
  <2> QED BY <2>1
<1> QED BY <1>1, <1>2, <1>3, <1>4, <1>5

\* Threads that may have met stay so: a task in order was in order before.
LEMMA CleanBefore ==
  ASSUME ThreadInv, NEW th \in Threads, Thread(th), NEW t \in TaskId, Clean(t)'
  PROVE  Clean(t)
<1>1. met \subseteq met'
  BY DEF Thread
<1> QED BY <1>1 DEF Clean

LEMMA CallsFitStep ==
  ASSUME ThreadInv, NEW th \in Threads, Thread(th), NEW t \in TaskId, Clean(t)
  PROVE  CallsFit(t)'
<1>0. /\ ThreadsAgree /\ OnlyThread(th) /\ CallsFit(t)
      /\ taskState \in [ TaskId -> TaskStates ]
  BY OthersStay DEF ThreadInv, InOrder, ThreadsAgree, ThreadTypeOK
<1>a. taskState[t] \in FinalStates => taskState'[t] = taskState[t]
  BY FinalStays
<1> USE DEF FinalStates
<1>b. ASSUME NEW x \in Threads, x # th
      PROVE  /\ \A i \in 1..Len(calls'[x]) :
                  calls'[x][i].task = t =>
                    /\ calls'[x][i].state = taskState'[t]
                    /\ IF i = Len(calls'[x]) THEN taskState'[t] \in {"completed", "failed"}
                                             ELSE taskState'[t] = "cancelled"
             /\ where'[x] = "call" /\ Subject(x)' = t =>
                  IF calls'[x] = << >> THEN taskState'[t] \in {"completed", "failed"}
                                       ELSE taskState'[t] = "cancelled"
  BY <1>0, <1>a, <1>b, OthersTell DEF CallsFit
<1>c. ASSUME calls'[th] = calls[th]
      PROVE  \A i \in 1..Len(calls'[th]) :
               calls'[th][i].task = t =>
                 /\ calls'[th][i].state = taskState'[t]
                 /\ IF i = Len(calls'[th]) THEN taskState'[t] \in {"completed", "failed"}
                                           ELSE taskState'[t] = "cancelled"
  BY <1>0, <1>a, <1>c DEF CallsFit
<1>d. SUFFICES
        /\ \A i \in 1..Len(calls'[th]) :
             calls'[th][i].task = t =>
               /\ calls'[th][i].state = taskState'[t]
               /\ IF i = Len(calls'[th]) THEN taskState'[t] \in {"completed", "failed"}
                                         ELSE taskState'[t] = "cancelled"
        /\ where'[th] = "call" /\ Subject(th)' = t =>
             IF calls'[th] = << >> THEN taskState'[t] \in {"completed", "failed"}
                                   ELSE taskState'[t] = "cancelled"
  BY <1>b DEF CallsFit
<1>e. \A place : GoTo(th, place) => where'[th] = place
  BY <1>0 DEF ThreadsAgree, ThreadTypeOK, GoTo
<1>1. CASE EpilogueVerdict(th)
  <2>1. calls'[th] = calls[th] /\ calls'[th] = << >> /\ item' = item /\ item[th] \in TaskId
    BY <1>0, <1>1, VerdictTells, Actor
  <2>2. Subject(th)' = item[th]
    BY <2>1 DEF Subject
  <2>3. taskState'[item[th]] \in {"completed", "failed"}
    BY <1>0, <1>1, <2>1 DEF EpilogueVerdict, SetState
  <2> QED BY <1>c, <2>1, <2>2, <2>3
<1>2. CASE Call(th)
  <2>0. /\ where[th] = "call" /\ where'[th] = "loop" /\ taskState' = taskState
        /\ Len(calls'[th]) = Len(calls[th]) + 1
        /\ calls'[th][1].task = Subject(th)
        /\ calls'[th][1].state = taskState[Subject(th)]
        /\ \A i \in 1..Len(calls[th]) : calls'[th][i + 1] = calls[th][i]
        /\ Len(calls[th]) \in Nat /\ calls[th] \in Seq(Calls)
    BY <1>0, <1>2, CallTells, Actor DEF Call
  <2>1. ASSUME NEW i \in 1..Len(calls'[th]), calls'[th][i].task = t
        PROVE  /\ calls'[th][i].state = taskState'[t]
               /\ IF i = Len(calls'[th]) THEN taskState'[t] \in {"completed", "failed"}
                                         ELSE taskState'[t] = "cancelled"
    <3>1. CASE i = 1
      <4>1. Subject(th) = t /\ calls'[th][i].state = taskState[t]
        BY <2>0, <2>1, <3>1
      <4>2. i = Len(calls'[th]) <=> calls[th] = << >>
        BY <2>0, <3>1, EmptySeq, LenProperties
      <4> QED BY <1>0, <2>0, <4>1, <4>2 DEF CallsFit
    <3>2. CASE i # 1
      <4>1. PICK j \in 1..Len(calls[th]) : i = j + 1
        <5>1. i - 1 \in 1..Len(calls[th]) /\ i = (i - 1) + 1
          BY <2>0, <3>2
        <5> QED BY <5>1
      <4>2. calls'[th][i] = calls[th][j] /\ (i = Len(calls'[th]) <=> j = Len(calls[th]))
        BY <2>0, <4>1
      <4> QED BY <1>0, <2>0, <2>1, <4>2 DEF CallsFit
    <3> QED BY <3>1, <3>2
  <2> QED BY <2>0, <2>1
<1>3. CASE Cancel(th)
  <2>1. /\ calls'[th] = calls[th] /\ calls'[th] # << >> /\ Subject(th)' = Dependant(th)
        /\ Dependant(th) \in TaskId
    BY <1>0, <1>3, CancelTells
  <2>2. taskState'[Dependant(th)] = "cancelled"
    BY <1>0, <1>3, <2>1 DEF Cancel, SetState
  <2> QED BY <1>c, <2>1, <2>2
<1>4. CASE Release(th) \/ PassOver(th)
  <2>1. /\ where'[th] = "loop" /\ Len(calls'[th]) = Len(calls[th])
        /\ \A i \in 1..Len(calls[th]) :
             calls'[th][i].task = calls[th][i].task /\ calls'[th][i].state = calls[th][i].state
    BY <1>0, <1>4, AdvanceTells
  <2>2. taskState' = taskState
    BY <1>4 DEF Release, PassOver
  <2> QED BY <1>0, <2>1, <2>2 DEF CallsFit
<1>5. CASE Return(th)
  <2>0. taskState' = taskState /\ where'[th] # "call"
    BY <1>0, <1>5, <1>e, ReturnTells DEF Return
  <2>1. CASE Len(calls[th]) = 1
    <3>1. calls'[th] = << >> /\ where'[th] = "idle"
      BY <1>0, <1>5, <2>1, ReturnTells
    <3>2. Len(calls'[th]) = 0
      BY <3>1
    <3> QED BY <3>1, <3>2
  <2>2. CASE Len(calls[th]) # 1
    <3>1. /\ Len(calls'[th]) = Len(calls[th]) - 1 /\ Len(calls[th]) \in Nat \ {0}
          /\ \A i \in 1..Len(calls'[th]) :
               /\ calls'[th][i].task = calls[th][i + 1].task
               /\ calls'[th][i].state = calls[th][i + 1].state
      BY <1>0, <1>5, <2>2, ReturnTells
    <3>2. ASSUME NEW i \in 1..Len(calls'[th]), calls'[th][i].task = t
          PROVE  /\ calls'[th][i].state = taskState'[t]
                 /\ IF i = Len(calls'[th]) THEN taskState'[t] \in {"completed", "failed"}
                                           ELSE taskState'[t] = "cancelled"
      <4>1. i + 1 \in 1..Len(calls[th]) /\ (i = Len(calls'[th]) <=> i + 1 = Len(calls[th]))
        BY <3>1
      <4> QED BY <1>0, <2>0, <3>1, <3>2, <4>1 DEF CallsFit
    <3> QED BY <2>0, <3>2
  <2> QED BY <2>1, <2>2
<1>6. CASE ~ (EpilogueVerdict(th) \/ Call(th) \/ Cancel(th) \/ Release(th) \/ PassOver(th)
              \/ Return(th))
  <2>1. calls' = calls /\ where'[th] # "call"
    BY <1>6, <1>e DEF Thread, Take, CommandEnds, EpilogueRetry, Retry, RemoveReads, RemoveWrites,
           TestBlocked, Unblock
  <2> QED BY <1>c, <2>1
<1> QED BY <1>1, <1>2, <1>3, <1>4, <1>5, <1>6

LEMMA RetriesFitStep ==
  ASSUME ThreadInv, NEW th \in Threads, Thread(th), NEW t \in TaskId, Clean(t)
  PROVE  RetriesFit(t)'
<1>0. /\ ThreadsAgree /\ OnlyThread(th) /\ RetriesFit(t) /\ OnePlace(t)
      /\ retries \in [ TaskId -> Nat ] /\ TypesBut
  BY OthersStay, TypesHold DEF ThreadInv, InOrder, TypesBut
<1>e. \A place : GoTo(th, place) => where'[th] = place
  BY <1>0 DEF TypesBut, GoTo
<1>1. CASE EpilogueRetry(th)
  <2>1. UNCHANGED << item, retries >> /\ CanRetry(item[th])
    BY <1>1 DEF EpilogueRetry
  <2> QED BY <1>0, <2>1 DEF RetriesFit, CanRetry, OnlyThread
<1>2. CASE Retry(th)
  <2>1. /\ where'[th] = "idle" /\ item'[th] = NoTask /\ where[th] = "retry"
        /\ retries' = [ retries EXCEPT ![item[th]] = @ + 1 ]
    BY <1>0, <1>2, <1>e DEF Retry, TypesBut
  <2>2. CASE item[th] = t
    <3>1. retries'[t] = retries[t] + 1 /\ retries[t] < MaxRetries /\ retries[t] \in Nat
      BY <1>0, <2>1, <2>2 DEF RetriesFit, CanRetry
    <3>2. \A x \in Threads : item'[x] # t
      BY <1>0, <2>1, <2>2, TaskIdAssumption DEF OnePlace, OnlyThread, NoTask
    <3> QED BY <3>1, <3>2, MaxRetriesAssumption DEF RetriesFit
  <2>3. CASE item[th] # t
    <3>1. retries'[t] = retries[t]
      BY <1>0, <2>1, <2>3
    <3> QED BY <1>0, <2>1, <3>1 DEF RetriesFit, CanRetry, OnlyThread
  <2> QED BY <2>2, <2>3
<1>3. CASE ~ (EpilogueRetry(th) \/ Retry(th))
  <2>1. retries' = retries
    BY <1>3 DEF Thread, Take, CommandEnds, EpilogueVerdict, Call, RemoveReads, RemoveWrites,
           TestBlocked, Unblock, Release, Cancel, PassOver, Return
  <2>2. where'[th] # "retry"
    <3>1. CASE Take(th) \/ CommandEnds(th) \/ EpilogueVerdict(th) \/ Call(th)
      BY <1>e, <3>1 DEF Take, CommandEnds, EpilogueVerdict, Call
    <3>2. CASE RemoveReads(th) \/ RemoveWrites(th) \/ TestBlocked(th) \/ Unblock(th)
               \/ Release(th)
      BY <1>e, <3>2 DEF RemoveReads, InLoop, RemoveWrites, TestBlocked, Unblock, Release
    <3>3. CASE Cancel(th) \/ PassOver(th) \/ Return(th)
      BY <1>e, <3>3 DEF Cancel, InLoop, PassOver, Return
    <3> QED BY <1>3, <3>1, <3>2, <3>3 DEF Thread
  <2> QED BY <1>0, <2>1, <2>2 DEF RetriesFit, CanRetry, OnlyThread
<1> QED BY <1>1, <1>2, <1>3

-------------------------------------------------------------------------------
(* Tasks a step does not concern                                           *)

\* Where a task is, and what it waits for.
Placed(t) == OnePlace(t) /\ StateFits(t) /\ ListFits(t) /\ ReleaseFits(t) /\ CancelFits(t)

\* Nothing changes in who runs the task, and nobody else has it ...
HoldersStay(t) ==
  /\ pool'[t] = pool[t]
  /\ \A x \in Threads :
       /\ item'[x] = t => item[x] = t
       /\ item'[x] = t /\ where'[x] \in Executing <=> item[x] = t /\ where[x] \in Executing

\* ... nothing that matters to it in the tasks it depends on ...
ParentsStay(t) ==
  /\ UNCHANGED << validTasks, revDepMap, nworkers, started >>
  /\ \A p \in Parents(t) : /\ taskState'[p] = "completed" <=> taskState[p] = "completed"
                           /\ taskState'[p] \in Lost <=> taskState[p] \in Lost

\* ... nothing in who is going to tell it of them ...
ToldStay(t) == \A x \in Threads : \A p \in Parents(t) : Tells(x, p, t)' <=> Tells(x, p, t)

\* ... and nothing in its list and the threads that are at it.
VisitsStay(t) ==
  /\ dependencies'[t] = dependencies[t]
  /\ \A x \in Threads :
       /\ \A place \in {"remove", "unblock", "ready", "release"} :
            where'[x] = place /\ Dependant(x)' = t <=> where[x] = place /\ Dependant(x) = t
       /\ where[x] = "remove" /\ Dependant(x) = t => copy'[x] = copy[x]

LEMMA KeptOnePlace ==
  ASSUME NEW t \in TaskId, OnePlace(t), HoldersStay(t)
  PROVE  OnePlace(t)'
BY DEF OnePlace, HoldersStay

LEMMA KeptGiven ==
  ASSUME NEW t \in TaskId, HoldersStay(t)
  PROVE  Given(t)' <=> Given(t)
BY DEF Given, HoldersStay

LEMMA KeptParents ==
  ASSUME NEW t \in TaskId, ParentsStay(t)
  PROVE  Parents(t)' = Parents(t)
BY DEF Parents, ParentsStay

LEMMA KeptState ==
  ASSUME NEW t \in TaskId, StateFits(t), HoldersStay(t), ParentsStay(t), ToldStay(t),
         taskState'[t] = taskState[t]
  PROVE  StateFits(t)'
<1>1. Parents(t)' = Parents(t) /\ (Given(t)' <=> Given(t)) /\ validTasks' = validTasks
  BY KeptParents, KeptGiven DEF ParentsStay
<1>2. \A p \in Parents(t) : /\ taskState'[p] = "completed" <=> taskState[p] = "completed"
                            /\ \A x \in Threads : Tells(x, p, t)' <=> Tells(x, p, t)
  BY DEF ParentsStay, ToldStay
<1>3. /\ pool'[t] = pool[t]
      /\ \A x \in Threads : item'[x] = t /\ where'[x] \in Executing <=>
                              item[x] = t /\ where[x] \in Executing
  BY DEF HoldersStay
<1> QED BY <1>1, <1>2, <1>3 DEF StateFits

LEMMA KeptList ==
  ASSUME NEW t \in TaskId, ListFits(t), ParentsStay(t), ToldStay(t), VisitsStay(t)
  PROVE  ListFits(t)'
<1>1. Parents(t)' = Parents(t) /\ validTasks' = validTasks
  BY KeptParents DEF ParentsStay
<1>2. Remaining(t)' = Remaining(t)
  BY <1>1 DEF Remaining, At, ParentsStay, ToldStay, VisitsStay
<1>3. \A x \in Threads : At(x, {"remove"}, t)' => copy'[x] = dependencies'[t]
  BY DEF At, VisitsStay, ListFits
<1>4. dependencies'[t] = dependencies[t]
  BY DEF VisitsStay
<1> QED BY <1>1, <1>2, <1>3, <1>4 DEF ListFits

LEMMA KeptRelease ==
  ASSUME NEW t \in TaskId, ReleaseFits(t), HoldersStay(t), ParentsStay(t), VisitsStay(t),
         taskState'[t] = taskState[t]
  PROVE  ReleaseFits(t)'
<1>1. /\ Parents(t)' = Parents(t) /\ (Given(t)' <=> Given(t)) /\ started' = started
      /\ dependencies'[t] = dependencies[t]
  BY KeptParents, KeptGiven DEF ParentsStay, VisitsStay
<1>2. \A x \in Threads : /\ At(x, {"ready"}, t)' <=> At(x, {"ready"}, t)
                         /\ At(x, {"release"}, t)' <=> At(x, {"release"}, t)
                         /\ At(x, {"unblock", "ready"}, t)' <=> At(x, {"unblock", "ready"}, t)
  BY DEF At, VisitsStay
<1> QED BY <1>1, <1>2 DEF ReleaseFits

LEMMA KeptCancel ==
  ASSUME NEW t \in TaskId, CancelFits(t), ParentsStay(t), ToldStay(t),
         taskState'[t] = taskState[t]
  PROVE  CancelFits(t)'
<1>1. Parents(t)' = Parents(t)
  BY KeptParents
<1> QED BY <1>1 DEF CancelFits, ParentsStay, ToldStay

\* A step that does not concern the task at all.
LEMMA KeptPlaced ==
  ASSUME NEW t \in TaskId, Placed(t), HoldersStay(t), ParentsStay(t), ToldStay(t), VisitsStay(t),
         taskState'[t] = taskState[t]
  PROVE  Placed(t)'
BY KeptOnePlace, KeptState, KeptList, KeptRelease, KeptCancel DEF Placed

\* What a step of a thread on another task does to a task in order.
LEMMA ParentsInOrder ==
  ASSUME ThreadInv, NEW t \in TaskId, Clean(t)
  PROVE  /\ Placed(t) /\ InOrder(t)
         /\ \A p \in Parents(t) : /\ p \in TaskId /\ p < t /\ p # t
                                  /\ Clean(p) /\ InOrder(p) /\ Placed(p)
<1>1. Placed(t) /\ InOrder(t)
  BY DEF ThreadInv, InOrder, Placed
<1>2. ASSUME NEW p \in Parents(t)
      PROVE  p \in TaskId /\ p < t /\ p # t /\ Clean(p) /\ InOrder(p) /\ Placed(p)
  <2>1. p \in TaskId /\ p < t
    BY DEF Parents, ThreadInv, ThreadsAgree, BackwardOnly
  <2>2. Clean(p)
    BY <2>1, CleanBelow, TaskIdAssumption DEF ThreadInv
  <2> QED BY <2>1, <2>2, TaskIdAssumption DEF ThreadInv, InOrder, Placed
<1> QED BY <1>1, <1>2

LEMMA StatesStay ==
  ASSUME NEW th \in Threads, OnlyThread(th), taskState' = taskState, NEW t \in TaskId
  PROVE  ParentsStay(t)
BY DEF OnlyThread, ParentsStay

\* The thread tells what it told, and so do the others.
LEMMA TellsStay ==
  ASSUME NEW th \in Threads, OnlyThread(th), NEW t \in TaskId,
         \A p : Tells(th, p, t)' <=> Tells(th, p, t)
  PROVE  ToldStay(t)
BY OthersTell DEF ToldStay

\* The thread has the task if it had it.
LEMMA HoldsStay ==
  ASSUME NEW th \in Threads, OnlyThread(th), NEW t \in TaskId, pool'[t] = pool[t],
         item'[th] = t => item[th] = t,
         item'[th] = t /\ where'[th] \in Executing <=> item[th] = t /\ where[th] \in Executing
  PROVE  HoldersStay(t)
BY DEF OnlyThread, HoldersStay

\* The thread is not at the task, or stays there.
LEMMA VisitStays ==
  ASSUME NEW th \in Threads, OnlyThread(th), NEW t \in TaskId, dependencies'[t] = dependencies[t],
         \A place \in {"remove", "unblock", "ready", "release"} :
           where'[th] = place /\ Dependant(th)' = t <=> where[th] = place /\ Dependant(th) = t,
         where[th] = "remove" /\ Dependant(th) = t => copy'[th] = copy[th]
  PROVE  VisitsStay(t)
BY OthersTell DEF VisitsStay

-------------------------------------------------------------------------------
(* Running a task                                                          *)

LEMMA TakeStep ==
  ASSUME ThreadInv, NEW th \in Threads, Take(th), OnlyThread(th), NEW t \in TaskId, Clean(t)
  PROVE  Placed(t)'
<1>0. /\ ThreadsAgree /\ TypesBut /\ Placed(t) /\ InOrder(t)
      /\ \A p \in Parents(t) : p \in TaskId /\ p # t /\ Placed(p)
  BY ParentsInOrder, TypesHold DEF ThreadInv
<1>1. PICK k \in TaskId :
        /\ pool[k] > 0 /\ pool' = [ pool EXCEPT ![k] = @ - 1 ]
        /\ item' = [ item EXCEPT ![th] = k ]
        /\ taskState' = [ taskState EXCEPT ![k] = "running" ]
  BY DEF Take, SetState
<1>2. /\ where[th] = "idle" /\ where'[th] = "command" /\ item[th] = NoTask /\ item'[th] = k
      /\ calls' = calls /\ dependencies' = dependencies /\ revDepMap' = revDepMap
      /\ UNCHANGED << validTasks, nworkers, started >>
  BY <1>0, <1>1 DEF Take, GoTo, TypesBut, ThreadsAgree, StackFits, OnlyThread
<1>3. ToldStay(t)
  BY <1>2, SameCallsTell, TellsStay
<1>4. VisitsStay(t)
  BY <1>2, VisitStays
<1>5. ParentsStay(t)
  <2>1. ASSUME NEW p \in Parents(t)
        PROVE  /\ taskState'[p] = "completed" <=> taskState[p] = "completed"
               /\ taskState'[p] \in Lost <=> taskState[p] \in Lost
    <3>1. CASE p = k
      <4>1. taskState[p] \in {"waiting", "running"} /\ taskState'[p] = "running"
        BY <1>0, <1>1, <3>1 DEF Placed, StateFits, TypesBut
      <4> QED BY <4>1 DEF Lost
    <3>2. CASE p # k
      BY <1>0, <1>1, <3>2 DEF TypesBut
    <3> QED BY <3>1, <3>2
  <2> QED BY <1>2, <2>1 DEF ParentsStay
<1>6. CASE t # k
  <2>1. pool'[t] = pool[t] /\ taskState'[t] = taskState[t]
    BY <1>0, <1>1, <1>6 DEF TypesBut
  <2>2. HoldersStay(t)
    BY <1>2, <1>6, <2>1, HoldsStay, TaskIdAssumption DEF NoTask, Executing
  <2> QED BY <1>0, <1>3, <1>4, <1>5, <2>1, <2>2, KeptPlaced
<1>7. CASE t = k
  <2>1. /\ pool[t] \in Nat /\ pool[t] > 0 /\ pool[t] <= 1 /\ pool'[t] = pool[t] - 1
        /\ \A x \in Threads : item[x] # t
        /\ taskState[t] \in {"waiting", "running"} /\ taskState'[t] = "running"
        /\ Given(t)
    <3>1. pool[t] \in Nat /\ pool[t] > 0 /\ pool[t] <= 1 /\ pool'[t] = pool[t] - 1
      BY <1>0, <1>1, <1>7 DEF Placed, OnePlace, TypesBut
    <3>2. pool[t] = 1
      BY <3>1
    <3> QED BY <1>0, <1>1, <1>7, <3>1, <3>2 DEF Placed, OnePlace, StateFits, Given, TypesBut
  <2>2. /\ pool'[t] = 0
        /\ \A x \in Threads : item'[x] = t <=> x = th
    BY <1>1, <1>2, <1>7, <2>1 DEF OnlyThread
  <2>3. OnePlace(t)'
    BY <2>2 DEF OnePlace
  <2>4. StateFits(t)'
    <3>1. /\ t \in validTasks
          /\ \A p \in Parents(t) : /\ taskState[p] = "completed"
                                   /\ \A x \in Threads : ~ Tells(x, p, t)
      BY <1>0, <2>1 DEF Placed, StateFits
    <3>2. /\ t \in validTasks' /\ Parents(t)' = Parents(t)
          /\ \A p \in Parents(t) : /\ taskState'[p] = "completed"
                                   /\ \A x \in Threads : ~ Tells(x, p, t)'
      BY <1>3, <1>5, <3>1, KeptParents DEF ParentsStay, ToldStay
    <3>3. Given(t)'
      BY <1>2, <1>7 DEF Given, Executing
    <3> QED BY <2>1, <2>2, <3>2, <3>3 DEF StateFits
  <2>5. ListFits(t)'
    BY <1>0, <1>3, <1>4, <1>5, KeptList DEF Placed
  <2>6. ReleaseFits(t)'
    <3>1. \A x \in Threads : ~ At(x, {"ready"}, t)
      BY <1>0, <2>1 DEF Placed, ReleaseFits
    <3>2. \A x \in Threads : ~ At(x, {"ready"}, t)'
      BY <1>4, <3>1 DEF At, VisitsStay
    <3> QED BY <2>1, <3>2 DEF ReleaseFits
  <2>7. CancelFits(t)'
    <3>1. \A p \in Parents(t) : taskState[p] = "completed"
      BY <1>0, <2>1 DEF Placed, StateFits
    <3>2. \A p \in Parents(t)' : taskState'[p] \notin Lost
      BY <1>5, <3>1, KeptParents DEF ParentsStay, Lost
    <3> QED BY <2>1, <3>2 DEF CancelFits
  <2> QED BY <2>3, <2>4, <2>5, <2>6, <2>7 DEF Placed
<1> QED BY <1>6, <1>7

\* A step on the way: the thread moves to another place, its task and its calls
\* stay, and so do the tables.
LEMMA WayStep ==
  ASSUME ThreadInv, NEW th \in Threads, OnlyThread(th), NEW t \in TaskId, Clean(t),
         CommandEnds(th) \/ EpilogueRetry(th) \/ Call(th)
  PROVE  Placed(t)'
<1>0. ThreadsAgree /\ TypesBut /\ Placed(t)
  BY ParentsInOrder, TypesHold DEF ThreadInv
<1>1. UNCHANGED << taskState, dependencies, pool, item >>
  BY DEF CommandEnds, EpilogueRetry, Call
<1>2. /\ where[th] \notin {"remove", "unblock", "ready", "release"}
      /\ where'[th] \notin {"remove", "unblock", "ready", "release"}
      /\ where[th] \in Executing <=> where'[th] \in Executing
  BY <1>0 DEF CommandEnds, EpilogueRetry, Call, GoTo, TypesBut, Executing
<1>3. \A p : Tells(th, p, t)' <=> Tells(th, p, t)
  <2>1. CASE Call(th)
    BY <1>0, <2>1, CallTells
  <2>2. CASE CommandEnds(th) \/ EpilogueRetry(th)
    <3>1. calls' = calls /\ where[th] # "call" /\ where'[th] # "call"
      BY <1>0, <2>2 DEF CommandEnds, EpilogueRetry, GoTo, TypesBut
    <3> QED BY <3>1, SameCallsTell DEF OnlyThread
  <2> QED BY <2>1, <2>2
<1> QED BY <1>0, <1>1, <1>2, <1>3, StatesStay, TellsStay, HoldsStay, VisitStays, KeptPlaced

\* The task is handed to parallel_do again.
LEMMA RetryStep ==
  ASSUME ThreadInv, NEW th \in Threads, Retry(th), OnlyThread(th), NEW t \in TaskId, Clean(t)
  PROVE  Placed(t)'
<1>0. ThreadsAgree /\ TypesBut /\ Placed(t) /\ item[th] \in TaskId
  BY ParentsInOrder, TypesHold, Actor DEF ThreadInv, Retry
<1>1. /\ UNCHANGED << taskState, dependencies, calls >>
      /\ where[th] = "retry" /\ where'[th] = "idle" /\ item'[th] = NoTask
      /\ pool' = [ pool EXCEPT ![item[th]] = @ + 1 ]
  BY <1>0 DEF Retry, Feed, GoTo, TypesBut
<1>2. ToldStay(t)
  BY <1>1, SameCallsTell, TellsStay DEF OnlyThread
<1>3. VisitsStay(t)
  BY <1>1, VisitStays
<1>4. ParentsStay(t) /\ taskState'[t] = taskState[t]
  BY <1>1, StatesStay
<1>5. CASE item[th] # t
  <2>1. pool'[t] = pool[t]
    BY <1>0, <1>1, <1>5 DEF TypesBut
  <2>2. HoldersStay(t)
    BY <1>1, <1>5, <2>1, HoldsStay, TaskIdAssumption DEF NoTask
  <2> QED BY <1>0, <1>2, <1>3, <1>4, <2>2, KeptPlaced
<1>6. CASE item[th] = t
  <2>1. /\ pool[t] = 0 /\ pool'[t] = 1 /\ Given(t) /\ Given(t)' /\ taskState[t] = "running"
        /\ \A x \in Threads : item'[x] # t
    <3>1. pool[t] \in Nat /\ pool[t] <= 1 /\ pool[t] # 1
      BY <1>0, <1>6 DEF Placed, OnePlace, TypesBut
    <3>2. pool[t] = 0
      BY <3>1
    <3>3. pool'[t] = 1
      BY <1>0, <1>1, <1>6, <3>2 DEF TypesBut
    <3>4. \A x \in Threads : item'[x] # t
      BY <1>0, <1>1, <1>6, TaskIdAssumption DEF Placed, OnePlace, OnlyThread, NoTask
    <3> QED BY <1>0, <1>1, <1>6, <3>2, <3>3, <3>4 DEF Placed, StateFits, Given, Executing
  <2>2. OnePlace(t)'
    BY <2>1 DEF OnePlace
  <2>3. StateFits(t)'
    <3>1. Parents(t)' = Parents(t) /\ validTasks' = validTasks
      BY <1>4, KeptParents DEF ParentsStay
    <3>2. \A p \in Parents(t) : /\ taskState'[p] = "completed"
                                /\ \A x \in Threads : ~ Tells(x, p, t)'
      BY <1>0, <1>2, <1>4, <2>1 DEF Placed, StateFits, ParentsStay, ToldStay
    <3> QED BY <1>0, <1>4, <2>1, <3>1, <3>2 DEF Placed, StateFits
  <2>4. ListFits(t)' /\ CancelFits(t)'
    BY <1>0, <1>2, <1>3, <1>4, KeptList, KeptCancel DEF Placed
  <2>5. ReleaseFits(t)'
    <3>1. \A x \in Threads : ~ At(x, {"ready"}, t)'
      BY <1>0, <1>3, <2>1 DEF Placed, ReleaseFits, At, VisitsStay
    <3> QED BY <1>4, <2>1, <3>1 DEF ReleaseFits
  <2> QED BY <2>2, <2>3, <2>4, <2>5 DEF Placed
<1> QED BY <1>5, <1>6

\* A parent of a task is settled, and the thread has the task to tell of it.
LEMMA ParentEnds ==
  ASSUME NEW th \in Threads, OnlyThread(th), NEW t \in TaskId, Placed(t),
         NEW k \in Parents(t), taskState[k] # "completed", taskState'[k] \in FinalStates,
         taskState[k] \in Lost => taskState'[k] \in Lost,
         \A p \in Parents(t) : p \in TaskId,
         \A s \in TaskId : s # k => taskState'[s] = taskState[s],
         taskState'[t] = taskState[t],
         Tells(th, k, t)', where'[th] = "call", where[th] \in {"epilogue", "loop"},
         \A p : p # k => (Tells(th, p, t)' <=> Tells(th, p, t)),
         HoldersStay(t), VisitsStay(t)
  PROVE  Placed(t)'
<1>1. /\ UNCHANGED << validTasks, revDepMap, nworkers, started >>
      /\ dependencies'[t] = dependencies[t]
  BY DEF OnlyThread, VisitsStay
<1>2. Parents(t)' = Parents(t)
  BY <1>1 DEF Parents
<1>3. ~ Given(t) /\ taskState[t] \notin {"completed", "failed"}
  BY DEF Placed, StateFits
<1>4. OnePlace(t)' /\ (Given(t)' <=> Given(t))
  BY KeptOnePlace, KeptGiven DEF Placed
<1>5. StateFits(t)'
  BY <1>1, <1>3, <1>4 DEF Placed, StateFits, HoldersStay
<1>6. Remaining(t)' = Remaining(t)
  <2>1. ASSUME NEW p \in Parents(t)
        PROVE  /\ \/ taskState'[p] # "completed"
                  \/ \E x \in Threads : Tells(x, p, t)' /\ ~ At(x, {"unblock", "ready", "release"}, t)'
               <=>
               \/ taskState[p] # "completed"
               \/ \E x \in Threads : Tells(x, p, t) /\ ~ At(x, {"unblock", "ready", "release"}, t)
    <3>1. CASE p = k
      BY <3>1 DEF At
    <3>2. CASE p # k
      <4>1. taskState'[p] = taskState[p]
        BY <3>2
      <4>2. \A x \in Threads : /\ Tells(x, p, t)' <=> Tells(x, p, t)
                               /\ At(x, {"unblock", "ready", "release"}, t)' <=>
                                    At(x, {"unblock", "ready", "release"}, t)
        BY <3>2, OthersTell DEF At
      <4> QED BY <4>1, <4>2
    <3> QED BY <3>1, <3>2
  <2> QED BY <1>2, <2>1 DEF Remaining
<1>7. ListFits(t)'
  <2>1. \A x \in Threads : At(x, {"remove"}, t)' => copy'[x] = dependencies'[t]
    BY DEF At, VisitsStay, Placed, ListFits
  <2> QED BY <1>1, <1>2, <1>6, <2>1 DEF Placed, ListFits
<1>8. ReleaseFits(t)'
  <2>1. \A x \in Threads : /\ At(x, {"ready"}, t)' <=> At(x, {"ready"}, t)
                           /\ At(x, {"release"}, t)' <=> At(x, {"release"}, t)
                           /\ At(x, {"unblock", "ready"}, t)' <=> At(x, {"unblock", "ready"}, t)
    BY DEF At, VisitsStay
  <2> QED BY <1>1, <1>2, <1>4, <2>1 DEF Placed, ReleaseFits
<1>9. CancelFits(t)'
  <2>1. taskState'[t] = "cancelled" => \E p \in Parents(t) : taskState'[p] \in Lost
    <3>1. SUFFICES ASSUME taskState[t] = "cancelled"
                   PROVE  \E p \in Parents(t) : taskState'[p] \in Lost
      OBVIOUS
    <3>2. PICK p \in Parents(t) : taskState[p] \in Lost
      BY <3>1 DEF Placed, CancelFits
    <3> QED BY <3>2
  <2>2. ASSUME NEW p \in Parents(t), taskState'[p] \in Lost, taskState'[t] # "cancelled"
        PROVE  \E x \in Threads : Tells(x, p, t)'
    <3>1. CASE p = k
      BY <3>1
    <3>2. CASE p # k
      <4>1. taskState[p] \in Lost
        BY <2>2, <3>2
      <4>2. PICK x \in Threads : Tells(x, p, t)
        BY <2>2, <4>1 DEF Placed, CancelFits
      <4> QED BY <3>2, <4>2, OthersTell
    <3> QED BY <3>1, <3>2
  <2> QED BY <1>2, <2>1, <2>2 DEF CancelFits
<1> QED BY <1>4, <1>5, <1>7, <1>8, <1>9 DEF Placed

\* A task has its verdict.
LEMMA VerdictStep ==
  ASSUME ThreadInv, NEW th \in Threads, EpilogueVerdict(th), OnlyThread(th),
         NEW t \in TaskId, Clean(t)
  PROVE  Placed(t)'
<1>0. /\ ThreadsAgree /\ TypesBut /\ Placed(t) /\ InOrder(t)
      /\ \A p \in Parents(t) : p \in TaskId /\ p # t /\ Placed(p)
      /\ item[th] \in TaskId
  BY ParentsInOrder, TypesHold, Actor DEF ThreadInv, EpilogueVerdict
<1>1. PICK k \in TaskId : k = item[th]
  BY <1>0
<1>2. /\ UNCHANGED << dependencies, pool, item >>
      /\ UNCHANGED << validTasks, revDepMap, nworkers, started >>
      /\ where[th] = "epilogue" /\ where'[th] = "call"
      /\ taskState'[k] \in {"completed", "failed"}
      /\ \A s \in TaskId : s # k => taskState'[s] = taskState[s]
      /\ \A p, c : ~ Tells(th, p, c)
      /\ \A p, c : Tells(th, p, c)' <=> (p = k /\ c \in revDepMap[p])
  <2>1. /\ UNCHANGED << dependencies, pool, item >>
        /\ UNCHANGED << validTasks, revDepMap, nworkers, started >>
        /\ where[th] = "epilogue" /\ where'[th] = "call"
        /\ \A p, c : ~ Tells(th, p, c)
        /\ \A p, c : Tells(th, p, c)' <=> (p = k /\ c \in revDepMap[p])
    BY <1>0, <1>1, VerdictTells DEF EpilogueVerdict, OnlyThread
  <2>2. /\ taskState'[k] \in {"completed", "failed"}
        /\ \A s \in TaskId : s # k => taskState'[s] = taskState[s]
    BY <1>0, <1>1 DEF EpilogueVerdict, SetState, TypesBut
  <2> QED BY <2>1, <2>2
<1>3. VisitsStay(t)
  BY <1>2, VisitStays
<1>4. Parents(t)' = Parents(t)
  BY <1>2 DEF Parents
<1>5. CASE t = k
  <2>1. /\ Given(t) /\ taskState[t] = "running" /\ t \in validTasks
        /\ \A p \in Parents(t) : taskState[p] = "completed" /\ \A x \in Threads : ~ Tells(x, p, t)
    BY <1>0, <1>1, <1>2, <1>5 DEF Placed, StateFits, Given, Executing
  <2>2. ParentsStay(t)
    BY <1>0, <1>2, <1>5 DEF ParentsStay
  <2>3. ToldStay(t)
    BY <1>0, <1>2, <1>5, TellsStay, OthersTell DEF ToldStay
  <2>4. OnePlace(t)'
    BY <1>0, <1>2 DEF Placed, OnePlace
  <2>5. /\ pool'[t] = 0 /\ \A x \in Threads : item'[x] = t => x = th
    <3>1. pool[t] \in Nat /\ pool[t] <= 1 /\ pool[t] # 1
      BY <1>0, <1>1, <1>5 DEF Placed, OnePlace, TypesBut
    <3>2. pool[t] = 0
      BY <3>1
    <3> QED BY <1>0, <1>1, <1>2, <1>5, <3>2 DEF Placed, OnePlace
  <2>6. StateFits(t)'
    <3>1. \A p \in Parents(t) : /\ taskState'[p] = "completed"
                                /\ \A x \in Threads : ~ Tells(x, p, t)'
      BY <2>1, <2>2, <2>3 DEF ParentsStay, ToldStay
    <3>2. \A x \in Threads : ~ (item'[x] = t /\ where'[x] \in Executing)
      BY <1>2, <2>5 DEF Executing
    <3> QED BY <1>2, <1>4, <1>5, <2>1, <2>5, <3>1, <3>2 DEF StateFits
  <2>7. ListFits(t)'
    BY <1>0, <1>3, <2>2, <2>3, KeptList DEF Placed
  <2>8. ReleaseFits(t)'
    <3>1. \A x \in Threads : ~ At(x, {"ready"}, t)'
      BY <1>0, <1>3, <2>1 DEF Placed, ReleaseFits, At, VisitsStay
    <3> QED BY <1>2, <1>5, <3>1 DEF ReleaseFits
  <2>9. CancelFits(t)'
    BY <1>2, <1>4, <1>5, <2>1, <2>2 DEF CancelFits, ParentsStay, Lost
  <2> QED BY <2>4, <2>6, <2>7, <2>8, <2>9 DEF Placed
<1>6. CASE t # k
  <2>1. HoldersStay(t) /\ taskState'[t] = taskState[t]
    BY <1>1, <1>2, <1>6, HoldsStay
  <2>2. CASE k \notin Parents(t)
    <3>1. ParentsStay(t)
      BY <1>0, <1>2, <2>2 DEF ParentsStay
    <3>2. ToldStay(t)
      BY <1>2, <2>2, OthersTell DEF ToldStay
    <3> QED BY <1>0, <1>3, <2>1, <3>1, <3>2, KeptPlaced
  <2>3. CASE k \in Parents(t)
    <3>1. /\ taskState[k] = "running" /\ t \in revDepMap[k]
          /\ taskState[k] # "completed" /\ taskState[k] \notin Lost
      <4>1. taskState[k] = "running"
        BY <1>0, <1>1, <1>2, <2>3 DEF Placed, StateFits, Executing
      <4> QED BY <2>3, <4>1 DEF Parents, Lost
    <3>3. Tells(th, k, t)'
      BY <1>2, <3>1
    <3>4. /\ taskState'[k] \in FinalStates /\ \A p \in Parents(t) : p \in TaskId
          /\ where[th] \in {"epilogue", "loop"}
      BY <1>0, <1>2 DEF FinalStates
    <3>5. \A p : p # k => (Tells(th, p, t)' <=> Tells(th, p, t))
      BY <1>2
    <3>6. Placed(t)
      BY <1>0
    <3> QED BY <1>2, <1>3, <2>1, <2>3, <3>1, <3>3, <3>4, <3>5, <3>6, ParentEnds
  <2> QED BY <2>2, <2>3
<1> QED BY <1>5, <1>6

-------------------------------------------------------------------------------
(* Removing a completed parent from the list of a dependant                *)

\* A thread that stays with its task and its calls, in the loop or at a dependant,
\* changes nothing for a task it is not at, if it leaves its list alone.
LEMMA ElsewhereStep ==
  ASSUME ThreadInv, NEW th \in Threads, OnlyThread(th), NEW t \in TaskId, Clean(t),
         where[th] \in Visiting, where'[th] \in Visiting, item'[th] = item[th],
         calls'[th] = calls[th], pool' = pool, dependencies'[t] = dependencies[t]
  PROVE  /\ Placed(t) /\ HoldersStay(t) /\ ToldStay(t)
         /\ Dependant(th)' = Dependant(th)
         /\ \A x \in Threads \ {th} : \A places : At(x, places, t)' <=> At(x, places, t)
         /\ ParentsStay(t) /\ taskState'[t] = taskState[t] /\ Dependant(th) # t => Placed(t)'
<1>1. /\ where[th] # "call" /\ where'[th] # "call" /\ where[th] \notin Executing
      /\ where'[th] \notin Executing /\ revDepMap' = revDepMap
  BY DEF Visiting, Executing, OnlyThread
<1>2. Placed(t)
  BY ParentsInOrder
<1>3. Dependant(th)' = Dependant(th) /\ ToldStay(t)
  BY <1>1, SameCallsTell, TellsStay
<1>4. HoldersStay(t)
  BY <1>1, HoldsStay
<1>5. ASSUME ParentsStay(t), taskState'[t] = taskState[t], Dependant(th) # t PROVE Placed(t)'
  <2>1. VisitsStay(t)
    BY <1>3, <1>5, VisitStays
  <2> QED BY <1>2, <1>3, <1>4, <1>5, <2>1, KeptPlaced
<1> QED BY <1>2, <1>3, <1>4, <1>5, OthersTell

LEMMA RemoveReadsStep ==
  ASSUME ThreadInv, NEW th \in Threads, RemoveReads(th), OnlyThread(th),
         NEW t \in TaskId, Clean(t)
  PROVE  Placed(t)'
<1>0. ThreadsAgree /\ TypesBut
  BY TypesHold DEF ThreadInv
<1>1. /\ UNCHANGED << taskState, dependencies, pool, item, calls >>
      /\ where[th] = "loop" /\ where'[th] = "remove"
      /\ copy'[th] = dependencies[Dependant(th)]
  BY <1>0 DEF RemoveReads, InLoop, GoTo, TypesBut
<1>2. ParentsStay(t) /\ taskState'[t] = taskState[t]
  BY <1>1, StatesStay
<1>3. /\ Placed(t) /\ HoldersStay(t) /\ ToldStay(t) /\ Dependant(th)' = Dependant(th)
      /\ \A x \in Threads \ {th} : \A places : At(x, places, t)' <=> At(x, places, t)
      /\ Dependant(th) # t => Placed(t)'
  BY <1>1, <1>2, ElsewhereStep DEF Visiting
<1>4. CASE Dependant(th) = t
  <2>1. \A x \in Threads :
          /\ At(x, {"unblock", "ready", "release"}, t)' <=> At(x, {"unblock", "ready", "release"}, t)
          /\ At(x, {"ready"}, t)' <=> At(x, {"ready"}, t)
          /\ At(x, {"release"}, t)' <=> At(x, {"release"}, t)
          /\ At(x, {"unblock", "ready"}, t)' <=> At(x, {"unblock", "ready"}, t)
    BY <1>1, <1>3 DEF At
  <2>2. Parents(t)' = Parents(t) /\ (Given(t)' <=> Given(t))
        /\ validTasks' = validTasks /\ started' = started
    BY <1>2, <1>3, KeptParents, KeptGiven DEF ParentsStay
  <2>3. Remaining(t)' = Remaining(t)
    BY <1>1, <1>3, <2>1, <2>2 DEF Remaining, ToldStay
  <2>4. \A x \in Threads : At(x, {"remove"}, t)' => copy'[x] = dependencies'[t]
    <3> TAKE x \in Threads
    <3>1. CASE x = th
      BY <1>1, <1>4, <3>1
    <3>2. CASE x # th
      BY <1>1, <1>3, <3>2, OthersTell DEF Placed, ListFits
    <3> QED BY <3>1, <3>2
  <2>5. ListFits(t)'
    BY <1>1, <1>3, <2>2, <2>3, <2>4 DEF Placed, ListFits
  <2>6. ReleaseFits(t)'
    BY <1>1, <1>3, <2>1, <2>2 DEF Placed, ReleaseFits
  <2> QED BY <1>2, <1>3, <2>5, <2>6, KeptOnePlace, KeptState, KeptCancel DEF Placed
<1> QED BY <1>3, <1>4

LEMMA RemoveWritesStep ==
  ASSUME ThreadInv, NEW th \in Threads, RemoveWrites(th), OnlyThread(th),
         NEW t \in TaskId, Clean(t)
  PROVE  Placed(t)'
<1>0. ThreadsAgree /\ TypesBut
  BY TypesHold DEF ThreadInv
<1>1. /\ UNCHANGED << taskState, pool, item, calls >>
      /\ where[th] = "remove" /\ where'[th] = "unblock"
      /\ dependencies' = [ dependencies EXCEPT ![Dependant(th)] =
                             DepsAfterRemove(copy[th], Head(calls[th]).task) ]
  BY <1>0 DEF RemoveWrites, GoTo, TypesBut
<1>2. ParentsStay(t) /\ taskState'[t] = taskState[t]
  BY <1>1, StatesStay
<1>3. CASE Dependant(th) # t
  <2>1. dependencies'[t] = dependencies[t]
    BY <1>0, <1>1, <1>3 DEF TypesBut
  <2> QED BY <1>1, <1>2, <1>3, <2>1, ElsewhereStep DEF Visiting
<1>4. CASE Dependant(th) = t
  <2> DEFINE q == item[th]
  <2>0. At(th, {"remove", "unblock", "ready", "release"}, t) /\ At(th, {"remove"}, t)
    BY <1>1, <1>4 DEF At
  <2>1. /\ calls[th] # << >> /\ calls[th][1].task = q
        /\ Tells(th, q, t) /\ taskState[q] = "completed" /\ q \in Parents(t)
        /\ \A y \in Threads : Tells(y, q, t) => y = th
        /\ \A p : Tells(th, p, t) /\ taskState[p] = "completed" => p = q
        /\ \A y \in Threads : At(y, {"remove", "unblock", "ready", "release"}, t) => y = th
    BY <2>0, Alone
  <2>2. Placed(t) /\ copy[th] = dependencies[t]
    BY <2>0, ParentsInOrder DEF Placed, ListFits
  <2>3. dependencies'[t] = dependencies[t] \ {q}
    BY <1>0, <1>1, <1>4, <2>1, <2>2, Actor DEF TypesBut, DepsAfterRemove
  <2> HIDE DEF q
  <2>4. /\ ToldStay(t) /\ HoldersStay(t) /\ Dependant(th)' = t
    <3>1. revDepMap' = revDepMap
      BY <1>2 DEF ParentsStay
    <3> QED BY <1>1, <1>4, <3>1, SameCallsTell, TellsStay, HoldsStay DEF Executing
  <2>5. \A y \in Threads : \A places : y # th => (At(y, places, t)' <=> At(y, places, t))
    BY OthersTell
  <2>6. \A y \in Threads :
          /\ ~ At(y, {"remove"}, t)' /\ ~ At(y, {"ready"}, t)' /\ ~ At(y, {"release"}, t)
    <3> TAKE y \in Threads
    <3>1. CASE y = th
      BY <1>1, <3>1 DEF At
    <3>2. CASE y # th
      <4>1. ~ At(y, {"remove", "unblock", "ready", "release"}, t)
        BY <2>1, <3>2
      <4> QED BY <2>5, <3>2, <4>1 DEF At
    <3> QED BY <3>1, <3>2
  <2>7. Parents(t)' = Parents(t) /\ (Given(t)' <=> Given(t))
        /\ validTasks' = validTasks /\ started' = started
    BY <1>2, <2>4, KeptParents, KeptGiven DEF ParentsStay
  <2>8. Remaining(t)' = Remaining(t) \ {q}
    <3>1. ASSUME NEW p \in Parents(t)
          PROVE  /\ \/ taskState'[p] # "completed"
                    \/ \E x \in Threads : Tells(x, p, t)' /\ ~ At(x, {"unblock", "ready", "release"}, t)'
                 <=>
                 /\ \/ taskState[p] # "completed"
                    \/ \E x \in Threads : Tells(x, p, t) /\ ~ At(x, {"unblock", "ready", "release"}, t)
                 /\ p # q
      <4>1. CASE taskState[p] # "completed"
        BY <1>1, <2>1, <4>1
      <4>2. CASE taskState[p] = "completed"
        <5>1. At(th, {"unblock", "ready", "release"}, t)'
          BY <1>1, <2>4 DEF At
        <5>2. \A x \in Threads : Tells(x, p, t)' <=> Tells(x, p, t)
          BY <2>4 DEF ToldStay
        <5>3. CASE p = q
          BY <1>1, <2>1, <4>2, <5>1, <5>2, <5>3
        <5>4. CASE p # q
          <6>1. ~ Tells(th, p, t)
            BY <2>1, <4>2, <5>4
          <6> QED BY <1>1, <2>5, <4>2, <5>2, <5>4, <6>1
        <5> QED BY <5>3, <5>4
      <4> QED BY <4>1, <4>2
    <3> QED BY <2>7, <3>1 DEF Remaining
  <2>9. ListFits(t)'
    BY <2>1, <2>2, <2>3, <2>6, <2>7, <2>8 DEF Placed, ListFits
  <2>10. ReleaseFits(t)'
    <3>1. At(th, {"unblock", "ready"}, t)'
      BY <1>1, <2>4 DEF At
    <3>2. taskState'[t] = "waiting" => IF started' THEN Given(t)' ELSE Parents(t)' = {}
      BY <1>2, <2>2, <2>6, <2>7 DEF Placed, ReleaseFits
    <3> QED BY <2>6, <3>1, <3>2 DEF ReleaseFits
  <2> QED BY <1>2, <2>2, <2>4, <2>9, <2>10, KeptOnePlace, KeptState, KeptCancel DEF Placed
<1> QED BY <1>3, <1>4

LEMMA TestBlockedStep ==
  ASSUME ThreadInv, NEW th \in Threads, TestBlocked(th), OnlyThread(th),
         NEW t \in TaskId, Clean(t)
  PROVE  Placed(t)'
<1>0. ThreadsAgree /\ TypesBut
  BY TypesHold DEF ThreadInv
<1>1. /\ UNCHANGED << taskState, pool, item, calls, dependencies >>
      /\ where[th] = "unblock"
      /\ where'[th] = IF /\ dependencies[Dependant(th)] = {}
                         /\ taskState[Dependant(th)] = "blocked"
                      THEN "ready" ELSE "release"
  BY <1>0 DEF TestBlocked, GoTo, TypesBut, StateAfterRemove
<1>2. ParentsStay(t) /\ taskState'[t] = taskState[t]
  BY <1>1, StatesStay
<1>3. /\ Placed(t) /\ HoldersStay(t) /\ ToldStay(t) /\ Dependant(th)' = Dependant(th)
      /\ \A x \in Threads \ {th} : \A places : At(x, places, t)' <=> At(x, places, t)
      /\ Dependant(th) # t => Placed(t)'
  BY <1>1, <1>2, ElsewhereStep DEF Visiting
<1>4. CASE Dependant(th) = t
  <2>0. At(th, {"remove", "unblock", "ready", "release"}, t)
    BY <1>1, <1>4 DEF At
  <2>1. \A y \in Threads : y # th => ~ At(y, {"remove", "unblock", "ready", "release"}, t)
    BY <2>0, Alone
  <2>2. \A y \in Threads : y # th => \A places \in SUBSET {"remove", "unblock", "ready", "release"} :
          ~ At(y, places, t) /\ ~ At(y, places, t)'
    BY <1>3, <2>1 DEF At
  <2>3. Parents(t)' = Parents(t) /\ (Given(t)' <=> Given(t))
        /\ validTasks' = validTasks /\ started' = started
    BY <1>2, <1>3, KeptParents, KeptGiven DEF ParentsStay
  <2>4. \A x \in Threads :
          At(x, {"unblock", "ready", "release"}, t)' <=> At(x, {"unblock", "ready", "release"}, t)
    <3> TAKE x \in Threads
    <3>1. CASE x = th
      BY <1>1, <1>3, <3>1 DEF At
    <3>2. CASE x # th
      BY <2>2, <3>2
    <3> QED BY <3>1, <3>2
  <2>5. Remaining(t)' = Remaining(t)
    BY <1>1, <1>3, <2>3, <2>4 DEF Remaining, ToldStay
  <2>6. \A x \in Threads : ~ At(x, {"remove"}, t)'
    BY <1>1, <2>2 DEF At
  <2>7. ListFits(t)'
    BY <1>1, <1>3, <2>3, <2>5, <2>6 DEF Placed, ListFits
  <2>8. ReleaseFits(t)'
    <3>1. \A x \in Threads : ~ At(x, {"release"}, t)
      BY <1>1, <2>2 DEF At
    <3>2. taskState'[t] = "waiting" => IF started' THEN Given(t)' ELSE Parents(t)' = {}
      BY <1>2, <1>3, <2>3, <3>1 DEF Placed, ReleaseFits
    <3>3. \A x \in Threads : At(x, {"ready"}, t)' =>
            dependencies'[t] = {} /\ taskState'[t] = "blocked"
      BY <1>1, <1>4, <2>2 DEF At
    <3>4. taskState'[t] = "blocked" /\ dependencies'[t] = {} => At(th, {"unblock", "ready"}, t)'
      BY <1>1, <1>3, <1>4 DEF At
    <3> QED BY <3>2, <3>3, <3>4 DEF ReleaseFits
  <2> QED BY <1>2, <1>3, <2>7, <2>8, KeptOnePlace, KeptState, KeptCancel DEF Placed
<1> QED BY <1>3, <1>4

LEMMA UnblockStep ==
  ASSUME ThreadInv, NEW th \in Threads, Unblock(th), OnlyThread(th),
         NEW t \in TaskId, Clean(t)
  PROVE  Placed(t)'
<1>0. /\ ThreadsAgree /\ TypesBut /\ InOrder(t)
      /\ \A p \in Parents(t) : p \in TaskId /\ p # t /\ Placed(p)
  BY ParentsInOrder, TypesHold DEF ThreadInv
<1>1. /\ UNCHANGED << pool, item, calls, dependencies >>
      /\ where[th] = "ready" /\ where'[th] = "release"
      /\ taskState' = [ taskState EXCEPT ![Dependant(th)] = "waiting" ]
  BY <1>0 DEF Unblock, GoTo, TypesBut, SetState
<1>2. ParentsStay(t)
  <2>1. ASSUME NEW p \in Parents(t)
        PROVE  /\ taskState'[p] = "completed" <=> taskState[p] = "completed"
               /\ taskState'[p] \in Lost <=> taskState[p] \in Lost
    <3>1. CASE p = Dependant(th)
      <4>1. taskState[p] = "blocked"
        BY <1>0, <1>1, <3>1 DEF Placed, ReleaseFits, At
      <4>2. taskState'[p] = "waiting"
        BY <1>0, <1>1, <3>1 DEF TypesBut
      <4> QED BY <4>1, <4>2 DEF Lost
    <3>2. CASE p # Dependant(th)
      BY <1>0, <1>1, <3>2 DEF TypesBut
    <3> QED BY <3>1, <3>2
  <2> QED BY <2>1 DEF ParentsStay, OnlyThread
<1>3. /\ Placed(t) /\ HoldersStay(t) /\ ToldStay(t) /\ Dependant(th)' = Dependant(th)
      /\ \A x \in Threads \ {th} : \A places : At(x, places, t)' <=> At(x, places, t)
      /\ taskState'[t] = taskState[t] /\ Dependant(th) # t => Placed(t)'
  BY <1>1, <1>2, ElsewhereStep DEF Visiting
<1>4. CASE Dependant(th) # t
  <2>1. taskState'[t] = taskState[t]
    BY <1>0, <1>1, <1>4 DEF TypesBut
  <2> QED BY <1>3, <1>4, <2>1
<1>5. CASE Dependant(th) = t
  <2>0. At(th, {"remove", "unblock", "ready", "release"}, t) /\ At(th, {"ready"}, t)
    BY <1>1, <1>5 DEF At
  <2>1. \A y \in Threads : y # th => ~ At(y, {"remove", "unblock", "ready", "release"}, t)
    BY <2>0, Alone
  <2>2. \A y \in Threads : y # th => \A places \in SUBSET {"remove", "unblock", "ready", "release"} :
          ~ At(y, places, t) /\ ~ At(y, places, t)'
    BY <1>3, <2>1 DEF At
  <2>3. /\ taskState[t] = "blocked" /\ dependencies[t] = {} /\ taskState'[t] = "waiting"
    BY <1>0, <1>1, <1>3, <1>5, <2>0 DEF Placed, ReleaseFits, TypesBut
  <2>4. Parents(t)' = Parents(t) /\ (Given(t)' <=> Given(t))
        /\ validTasks' = validTasks /\ started' = started
    BY <1>2, <1>3, KeptParents, KeptGiven DEF ParentsStay
  <2>5. \A x \in Threads :
          At(x, {"unblock", "ready", "release"}, t)' <=> At(x, {"unblock", "ready", "release"}, t)
    <3> TAKE x \in Threads
    <3>1. CASE x = th
      BY <1>1, <1>3, <3>1 DEF At
    <3>2. CASE x # th
      BY <2>2, <3>2
    <3> QED BY <3>1, <3>2
  <2>6. Remaining(t)' = Remaining(t)
    BY <1>2, <1>3, <2>4, <2>5 DEF Remaining, ToldStay, ParentsStay
  <2>7. ListFits(t)'
    <3>1. \A x \in Threads : ~ At(x, {"remove"}, t)'
      BY <1>1, <2>2 DEF At
    <3> QED BY <1>1, <1>3, <2>4, <2>6, <3>1 DEF Placed, ListFits
  <2>8. ReleaseFits(t)'
    <3>1. At(th, {"release"}, t)' /\ dependencies'[t] = {} /\ started'
      <4>1. started
        BY <1>1, <1>0 DEF ThreadsAgree, StackFits
      <4> QED BY <1>1, <1>3, <1>5, <2>3, <2>4, <4>1 DEF At
    <3>2. \A x \in Threads : ~ At(x, {"ready"}, t)'
      BY <1>1, <2>2 DEF At
    <3> QED BY <2>3, <3>1, <3>2 DEF ReleaseFits
  <2>9. StateFits(t)'
    <3>1. \A x \in Threads : item'[x] = t /\ where'[x] \in Executing <=>
                               item[x] = t /\ where[x] \in Executing
      BY <1>3 DEF HoldersStay
    <3>2. \A x \in Threads : ~ (item[x] = t /\ where[x] \in Executing)
      BY <1>3, <2>3 DEF Placed, StateFits
    <3>3. \A p \in Parents(t) : /\ taskState'[p] = "completed" <=> taskState[p] = "completed"
                                /\ \A x \in Threads : Tells(x, p, t)' <=> Tells(x, p, t)
      BY <1>2, <1>3 DEF ParentsStay, ToldStay
    <3> QED BY <1>1, <1>3, <2>3, <2>4, <3>1, <3>2, <3>3 DEF Placed, StateFits
  <2>10. CancelFits(t)'
    <3>1. \A p \in Parents(t) : /\ taskState'[p] \in Lost <=> taskState[p] \in Lost
                                /\ \A x \in Threads : Tells(x, p, t)' <=> Tells(x, p, t)
      BY <1>2, <1>3 DEF ParentsStay, ToldStay
    <3> QED BY <1>3, <2>3, <2>4, <3>1 DEF Placed, CancelFits
  <2> QED BY <1>3, <2>7, <2>8, <2>9, <2>10, KeptOnePlace DEF Placed
<1> QED BY <1>4, <1>5

-------------------------------------------------------------------------------
(* Going on to the next dependant                                          *)

\* A thread in order never passes over a dependant in order.
LEMMA PassOverStep ==
  ASSUME ThreadInv, NEW th \in Threads, PassOver(th), OnlyThread(th),
         NEW t \in TaskId, Clean(t)
  PROVE  Placed(t)'
<1>0. ThreadsAgree /\ TypesBut /\ Placed(t)
  BY ParentsInOrder, TypesHold DEF ThreadInv
<1>1. /\ UNCHANGED << taskState, dependencies, pool, item, where >>
      /\ where[th] = "loop"
      /\ Head(calls[th]).state \notin FinalStates
  BY DEF PassOver, InLoop, FinalStates
<1>2. /\ calls[th] # << >> /\ calls[th][1].left # {} /\ Head(calls[th]) = calls[th][1]
  BY <1>0, AdvanceTells, Actor
<1>3. Dependant(th) # t
  <2>1. PICK q : q = calls[th][1].task
    OBVIOUS
  <2> QED BY <1>1, <1>2, <2>1, Visit
<1>4. \A p : Tells(th, p, t)' <=> Tells(th, p, t)
  BY <1>0, <1>3, AdvanceTells
<1>5. HoldersStay(t) /\ VisitsStay(t) /\ ToldStay(t) /\ ParentsStay(t)
  BY <1>1, <1>4, HoldsStay, VisitStays, TellsStay, StatesStay
<1> QED BY <1>0, <1>1, <1>5, KeptPlaced

\* A task no thread is at or runs is only in the hands of the threads that tell
\* its dependants of it.
LEMMA NobodyHas ==
  ASSUME ThreadInv, NEW t \in TaskId, Clean(t), ~ Given(t), taskState[t] = "waiting",
         NEW x \in Threads
  PROVE  item[x] # t
<1> SUFFICES ASSUME item[x] = t PROVE FALSE
  OBVIOUS
<1>0. /\ ThreadsAgree /\ CallsFit(t) /\ t # NoTask
      /\ calls[x] \in Seq(Calls) /\ Len(calls[x]) \in Nat
  BY Actor, TaskIdAssumption DEF ThreadInv, InOrder, NoTask
<1>1. /\ where[x] \in Visiting \/ where[x] = "call"
      /\ where[x] \in Visiting => calls[x] # << >>
  BY <1>0 DEF ThreadsAgree, ThreadTypeOK, StackFits, Given, Executing, Visiting, Places
<1>2. calls[x] = << >>
  <2> SUFFICES ASSUME calls[x] # << >> PROVE FALSE
    OBVIOUS
  <2>1. Len(calls[x]) \in 1..Len(calls[x])
    BY <1>0, EmptySeq, LenProperties
  <2>2. calls[x][Len(calls[x])].task = item[x]
    BY <1>0, <2>1 DEF ThreadsAgree, StackFits
  <2> QED BY <1>0, <2>1, <2>2 DEF CallsFit
<1>3. Subject(x) = t /\ where[x] = "call"
  BY <1>1, <1>2 DEF Subject
<1> QED BY <1>0, <1>2, <1>3 DEF CallsFit

\* The dependant is fed if it can be, and the loop goes on.
LEMMA ReleaseStep ==
  ASSUME ThreadInv, NEW th \in Threads, Release(th), OnlyThread(th),
         NEW t \in TaskId, Clean(t)
  PROVE  Placed(t)'
<1>0. ThreadsAgree /\ TypesBut /\ Placed(t)
  BY ParentsInOrder, TypesHold DEF ThreadInv
<1>1. /\ UNCHANGED << taskState, dependencies, item >>
      /\ where[th] = "release" /\ where'[th] = "loop"
      /\ IF dependencies[Dependant(th)] = {} /\ taskState[Dependant(th)] = "waiting"
         THEN pool' = [ pool EXCEPT ![Dependant(th)] = @ + 1 ]
         ELSE pool' = pool
  BY <1>0 DEF Release, Releasable, Feed, GoTo, TypesBut
<1>2. ParentsStay(t) /\ taskState'[t] = taskState[t]
  BY <1>1, StatesStay
<1>3. CASE Dependant(th) # t
  <2>1. \A p : Tells(th, p, t)' <=> Tells(th, p, t)
    BY <1>0, <1>3, AdvanceTells
  <2>2. pool'[t] = pool[t]
    BY <1>0, <1>1, <1>3 DEF TypesBut
  <2>3. HoldersStay(t) /\ VisitsStay(t) /\ ToldStay(t)
    BY <1>1, <1>3, <2>1, <2>2, HoldsStay, VisitStays, TellsStay DEF Executing
  <2> QED BY <1>0, <1>2, <2>3, KeptPlaced
<1>4. CASE Dependant(th) = t
  <2>0. At(th, {"remove", "unblock", "ready", "release"}, t)
    BY <1>1, <1>4 DEF At
  <2>1. PICK q \in TaskId : q = item[th]
    BY <2>0, Alone
  <2>2. /\ Len(calls[th]) = 1 /\ calls[th][1].task = q
        /\ Tells(th, q, t) /\ taskState[q] = "completed" /\ q \in Parents(t)
        /\ \A y \in Threads : Tells(y, q, t) => y = th
        /\ \A p : Tells(th, p, t) /\ taskState[p] = "completed" => p = q
        /\ \A y \in Threads : y # th =>
             ~ At(y, {"remove", "unblock", "ready", "release"}, t)
    BY <2>0, <2>1, Alone
  <2>3. /\ ~ Tells(th, q, t)'
        /\ \A p : p # q => (Tells(th, p, t)' <=> Tells(th, p, t))
    BY <1>0, <1>4, <2>2, AdvanceTells
  <2>4. ~ Given(t) /\ taskState[t] \notin {"running", "completed", "failed"} /\ pool[t] = 0
    <3>1. ~ Given(t) /\ taskState[t] \notin {"running", "completed", "failed"}
      BY <1>0, <2>2 DEF Placed, StateFits
    <3>2. pool[t] = 0
      BY <1>0, <3>1 DEF Given, TypesBut
    <3> QED BY <3>1, <3>2
  <2>5. /\ \A y \in Threads : \A places \in SUBSET {"remove", "unblock", "ready", "release"} :
             ~ At(y, places, t)'
        /\ \A y \in Threads : ~ At(y, {"unblock", "ready"}, t) /\ ~ At(y, {"ready"}, t)
        /\ At(th, {"unblock", "ready", "release"}, t)
    <3>1. At(th, {"unblock", "ready", "release"}, t)
          /\ ~ At(th, {"unblock", "ready"}, t) /\ ~ At(th, {"ready"}, t)
      BY <1>1, <1>4 DEF At
    <3>2. \A places \in SUBSET {"remove", "unblock", "ready", "release"} : ~ At(th, places, t)'
      BY <1>1 DEF At
    <3>3. ASSUME NEW y \in Threads, y # th,
                 NEW places \in SUBSET {"remove", "unblock", "ready", "release"}
          PROVE  ~ At(y, places, t) /\ ~ At(y, places, t)'
      <4>1. ~ At(y, places, t)
        BY <2>2, <3>3 DEF At
      <4> QED BY <3>3, <4>1, OthersTell
    <3> QED BY <3>1, <3>2, <3>3
  <2>6. Parents(t)' = Parents(t) /\ validTasks' = validTasks /\ started' = started /\ started
    BY <1>0, <1>1, <1>2, KeptParents DEF ParentsStay, ThreadsAgree, StackFits
  <2>7. /\ \A p : taskState[p] = "completed" => ~ Tells(th, p, t)'
        /\ \A x \in Threads \ {th} : \A p : Tells(x, p, t)' <=> Tells(x, p, t)
        /\ \A x \in Threads \ {th} :
             /\ ~ At(x, {"unblock", "ready", "release"}, t)
             /\ ~ At(x, {"unblock", "ready", "release"}, t)'
    BY <2>2, <2>3, <2>5, OthersTell DEF At
  <2>8. Remaining(t)' = Remaining(t)
    <3>1. ASSUME NEW p \in Parents(t), taskState[p] = "completed"
          PROVE  (\E x \in Threads :
                    Tells(x, p, t)' /\ ~ At(x, {"unblock", "ready", "release"}, t)')
                 <=>
                 (\E x \in Threads :
                    Tells(x, p, t) /\ ~ At(x, {"unblock", "ready", "release"}, t))
      BY <2>5, <2>7, <3>1
    <3>2. taskState' = taskState
      BY <1>1
    <3> QED BY <2>6, <3>1, <3>2 DEF Remaining
  <2>9. ListFits(t)'
    BY <1>0, <1>1, <2>5, <2>6, <2>8 DEF Placed, ListFits
  <2>10. CancelFits(t)'
    <3>1. ASSUME NEW p \in Parents(t), taskState[p] \in Lost, taskState[t] # "cancelled"
          PROVE  \E x \in Threads : Tells(x, p, t)'
      <4>1. PICK x \in Threads : Tells(x, p, t)
        BY <1>0, <3>1 DEF Placed, CancelFits
      <4>2. p # q
        BY <2>2, <3>1 DEF Lost
      <4> QED BY <2>3, <4>1, <4>2, OthersTell
    <3> QED BY <1>0, <1>1, <2>6, <3>1 DEF Placed, CancelFits
  <2>11. CASE dependencies[t] = {} /\ taskState[t] = "waiting"
    <3>1. pool'[t] = 1 /\ \A x \in Threads : item'[x] # t
      <4>1. pool'[t] = 1
        BY <1>0, <1>1, <1>4, <2>4, <2>11 DEF TypesBut
      <4>2. \A x \in Threads : item[x] # t
        BY <2>4, <2>11, NobodyHas
      <4> QED BY <1>1, <4>1, <4>2
    <3>2. OnePlace(t)'
      BY <3>1 DEF OnePlace
    <3>3. /\ t \in validTasks
          /\ \A p \in Parents(t) :
               /\ taskState[p] = "completed"
               /\ \A x \in Threads \ {th} : ~ Tells(x, p, t)
      <4>1. t \in validTasks
        BY <1>0, <2>11 DEF Placed, StateFits
      <4>2. Remaining(t) = {}
        BY <1>0, <2>11 DEF Placed, ListFits
      <4> QED BY <2>7, <4>1, <4>2 DEF Remaining
    <3>4. StateFits(t)'
      <4>1. \A p \in Parents(t), x \in Threads : ~ Tells(x, p, t)'
        BY <2>7, <3>3
      <4> QED BY <1>1, <2>6, <2>11, <3>1, <3>3, <4>1 DEF StateFits
    <3>5. ReleaseFits(t)'
      <4>1. Given(t)'
        BY <3>1 DEF Given
      <4> QED BY <1>1, <2>5, <2>6, <2>11, <4>1 DEF ReleaseFits
    <3> QED BY <2>9, <2>10, <3>2, <3>4, <3>5 DEF Placed
  <2>12. CASE ~ (dependencies[t] = {} /\ taskState[t] = "waiting")
    <3>1. HoldersStay(t) /\ taskState[t] # "waiting" /\ ~ Given(t)'
      <4>1. pool' = pool
        BY <1>1, <1>4, <2>12
      <4>2. HoldersStay(t)
        BY <1>1, <4>1, HoldsStay DEF Executing
      <4>3. taskState[t] # "waiting"
        BY <1>0, <2>4, <2>6, <2>12 DEF Placed, ReleaseFits
      <4> QED BY <2>4, <4>2, <4>3, KeptGiven
    <3>2. OnePlace(t)'
      BY <1>0, <3>1, KeptOnePlace DEF Placed
    <3>3. StateFits(t)'
      BY <1>0, <1>1, <2>4, <2>6, <3>1 DEF Placed, StateFits, HoldersStay
    <3>4. ReleaseFits(t)'
      BY <1>0, <1>1, <2>5, <2>6, <3>1 DEF Placed, ReleaseFits
    <3> QED BY <2>9, <2>10, <3>2, <3>3, <3>4 DEF Placed
  <2> QED BY <2>11, <2>12
<1> QED BY <1>3, <1>4

\* The dependant is cancelled, and its own dependants are to be told.
LEMMA CancelStep ==
  ASSUME ThreadInv, NEW th \in Threads, Cancel(th), OnlyThread(th),
         NEW t \in TaskId, Clean(t)
  PROVE  Placed(t)'
<1>0. /\ ThreadsAgree /\ TypesBut /\ Placed(t)
      /\ \A p \in Parents(t) : p \in TaskId /\ p # t /\ Clean(p)
  BY ParentsInOrder, TypesHold DEF ThreadInv
<1>1. PICK d \in TaskId : d = Dependant(th)
  BY <1>0, CancelTells
<1>2. /\ UNCHANGED << dependencies, pool, item, calls >>
      /\ UNCHANGED << validTasks, revDepMap, nworkers, started >>
      /\ where[th] = "loop" /\ where'[th] = "call"
      /\ calls[th] # << >> /\ calls[th][1].left # {} /\ calls[th][1].state \in Lost
      /\ taskState'[d] = "cancelled"
      /\ \A s \in TaskId : s # d => taskState'[s] = taskState[s]
      /\ \A p, c : Tells(th, p, c)' <=> Tells(th, p, c) \/ (p = d /\ c \in revDepMap[p])
  <2>1. taskState' = [ taskState EXCEPT ![d] = "cancelled" ] /\ UNCHANGED << dependencies, pool >>
    BY <1>1 DEF Cancel, SetState
  <2> QED BY <1>0, <1>1, <2>1, CancelTells DEF OnlyThread, TypesBut
<1>3. HoldersStay(t) /\ VisitsStay(t)
  BY <1>2, HoldsStay, VisitStays DEF Executing
<1>4. Parents(t)' = Parents(t)
  BY <1>2 DEF Parents
\* The task that is cancelled has a parent that is lost.
<1>5. ASSUME Clean(d)
      PROVE  \E q \in Parents(d) :
               /\ Tells(th, q, d) /\ taskState[q] \in Lost /\ q # d
               /\ ~ Given(d) /\ taskState[d] \notin {"running", "completed", "failed"}
  <2>1. PICK q : q = calls[th][1].task
    OBVIOUS
  <2>2. Tells(th, q, d) /\ q \in Parents(d) /\ q # d /\ taskState[q] \in Lost
    BY <1>1, <1>2, <1>5, <2>1, Visit, TaskIdAssumption
  <2>3. Placed(d)
    BY <1>5, ParentsInOrder
  <2>4. ~ Given(d) /\ taskState[d] \notin {"running", "completed", "failed"}
    BY <2>2, <2>3 DEF Placed, StateFits
  <2> QED BY <2>2, <2>4
<1>6. CASE t = d
  <2>1. PICK q \in Parents(t) :
          /\ Tells(th, q, t) /\ taskState[q] \in Lost /\ q # t
          /\ ~ Given(t) /\ taskState[t] \notin {"running", "completed", "failed"}
    BY <1>5, <1>6
  <2>2. ParentsStay(t)
    BY <1>0, <1>2, <1>6 DEF ParentsStay
  <2>3. ToldStay(t)
    <3>1. \A p \in Parents(t) : Tells(th, p, t)' <=> Tells(th, p, t)
      BY <1>0, <1>2, <1>6
    <3> QED BY <3>1, OthersTell DEF ToldStay
  <2>4. OnePlace(t)' /\ ListFits(t)' /\ ~ Given(t)'
    BY <1>0, <1>3, <2>1, <2>2, <2>3, KeptOnePlace, KeptList, KeptGiven DEF Placed
  <2>5. StateFits(t)'
    <3>1. /\ ~ (pool'[t] > 0)
          /\ \A x \in Threads : ~ (item'[x] = t /\ where'[x] \in Executing)
      BY <2>4 DEF Given
    <3> QED BY <1>2, <1>6, <2>4, <3>1 DEF StateFits
  <2>6. ReleaseFits(t)'
    <3>1. \A x \in Threads : ~ At(x, {"ready"}, t)
      <4> SUFFICES ASSUME NEW x \in Threads, At(x, {"ready"}, t) PROVE FALSE
        OBVIOUS
      <4>1. dependencies[t] = {}
        BY <1>0 DEF Placed, ReleaseFits
      <4>2. Remaining(t) = {}
        BY <1>0, <4>1 DEF Placed, ListFits
      <4> QED BY <2>1, <4>2 DEF Remaining, Lost
    <3>2. \A x \in Threads : ~ At(x, {"ready"}, t)'
      BY <1>3, <3>1 DEF At, VisitsStay
    <3> QED BY <1>2, <1>6, <3>2 DEF ReleaseFits
  <2>7. CancelFits(t)'
    <3>1. taskState'[q] \in Lost /\ q \in Parents(t)'
      BY <1>4, <2>1, <2>2 DEF ParentsStay
    <3> QED BY <1>2, <1>6, <3>1 DEF CancelFits
  <2> QED BY <2>4, <2>5, <2>6, <2>7 DEF Placed
<1>7. CASE t # d /\ d \notin Parents(t)
  <2>1. ParentsStay(t) /\ taskState'[t] = taskState[t]
    BY <1>0, <1>2, <1>7 DEF ParentsStay
  <2>2. ToldStay(t)
    BY <1>2, <1>7, OthersTell DEF ToldStay
  <2> QED BY <1>0, <1>3, <2>1, <2>2, KeptPlaced
<1>8. CASE t # d /\ d \in Parents(t)
  <2>1. taskState[d] # "completed"
    BY <1>0, <1>5, <1>8
  <2>2. t \in revDepMap[d]
    BY <1>8 DEF Parents
  <2>3. /\ taskState'[d] \in FinalStates /\ taskState'[d] \in Lost
        /\ taskState'[t] = taskState[t] /\ Tells(th, d, t)'
        /\ \A p \in Parents(t) : p \in TaskId
        /\ where[th] \in {"epilogue", "loop"}
    BY <1>0, <1>2, <1>8, <2>2 DEF FinalStates, Lost
  <2>4. \A p : p # d => (Tells(th, p, t)' <=> Tells(th, p, t))
    BY <1>2
  <2>5. Placed(t) /\ d \in Parents(t)
    BY <1>0, <1>8
  <2> QED BY <1>2, <1>3, <2>1, <2>3, <2>4, <2>5, ParentEnds
<1> QED BY <1>6, <1>7, <1>8

\* updateDependencies returns.
LEMMA ReturnStep ==
  ASSUME ThreadInv, NEW th \in Threads, Return(th), OnlyThread(th),
         NEW t \in TaskId, Clean(t)
  PROVE  Placed(t)'
<1>0. ThreadsAgree /\ TypesBut /\ Placed(t) /\ InOrder(t) /\ t # NoTask
  BY ParentsInOrder, TypesHold, TaskIdAssumption DEF ThreadInv, NoTask
<1>1. /\ UNCHANGED << taskState, dependencies, pool >>
      /\ where[th] = "loop"
  BY DEF Return
<1>2. ParentsStay(t) /\ taskState'[t] = taskState[t]
  BY <1>1, StatesStay
<1>3. CASE Len(calls[th]) = 1
  <2>1. /\ \A p : Tells(th, p, t)' <=> Tells(th, p, t)
        /\ item'[th] = NoTask /\ where'[th] = "idle"
    BY <1>0, <1>3, ReturnTells
  <2>2. HoldersStay(t) /\ VisitsStay(t) /\ ToldStay(t)
    BY <1>0, <1>1, <2>1, HoldsStay, VisitStays, TellsStay DEF Executing
  <2> QED BY <1>0, <1>2, <2>2, KeptPlaced
<1>4. CASE Len(calls[th]) # 1
  <2>1. PICK p, c : p = calls[th][2].task /\ c = calls[th][1].task
    OBVIOUS
  <2>2. /\ \A r, s : Tells(th, r, s)' => Tells(th, r, s)
        /\ \A r, s : Tells(th, r, s) /\ ~ (r = p /\ s = c) => Tells(th, r, s)'
        /\ 1 \in 1..Len(calls[th]) /\ 2 \in 1..Len(calls[th]) /\ Len(calls[th]) \in Nat
        /\ Tells(th, p, c)
        /\ calls[th][2].state \in Lost
        /\ item' = item /\ where' = where
    BY <1>0, <1>4, <2>1, ReturnTells
  <2>3. HoldersStay(t) /\ VisitsStay(t)
    BY <1>1, <2>2, HoldsStay, VisitStays
  <2>4. OnePlace(t)' /\ ReleaseFits(t)'
    BY <1>0, <1>2, <2>3, KeptOnePlace, KeptRelease DEF Placed
  <2>5. CASE t # c
    <3>1. ToldStay(t)
      BY <2>2, <2>5, TellsStay
    <3> QED BY <1>0, <1>2, <2>3, <3>1, KeptPlaced
  <2>6. CASE t = c
    <3>1. p \in Parents(t) /\ InOrder(p)
      BY <2>2, <2>6, Teller
    <3>2. taskState[p] \in Lost
      BY <2>1, <2>2, <3>1 DEF InOrder, CallsFit
    <3>3. taskState[t] = "cancelled"
      BY <1>0, <1>4, <2>1, <2>2, <2>6 DEF InOrder, CallsFit
    <3>4. Parents(t)' = Parents(t) /\ (Given(t)' <=> Given(t)) /\ validTasks' = validTasks
      BY <1>2, <2>3, KeptParents, KeptGiven DEF ParentsStay
    <3>5. ~ Given(t)
      BY <1>0, <2>2, <2>6, <3>1 DEF Placed, StateFits
    <3>6. StateFits(t)'
      BY <1>0, <1>2, <2>3, <3>3, <3>4, <3>5 DEF Placed, StateFits, HoldersStay
    <3>7. Remaining(t)' = Remaining(t)
      <4>1. ASSUME NEW r \in Parents(t)
            PROVE  /\ \/ taskState'[r] # "completed"
                      \/ \E x \in Threads : Tells(x, r, t)' /\ ~ At(x, {"unblock", "ready", "release"}, t)'
                   <=>
                   \/ taskState[r] # "completed"
                   \/ \E x \in Threads : Tells(x, r, t) /\ ~ At(x, {"unblock", "ready", "release"}, t)
        <5>1. CASE r = p
          BY <1>1, <3>2, <5>1 DEF Lost
        <5>2. CASE r # p
          <6>1. \A x \in Threads : /\ Tells(x, r, t)' <=> Tells(x, r, t)
                                   /\ At(x, {"unblock", "ready", "release"}, t)' <=>
                                        At(x, {"unblock", "ready", "release"}, t)
            BY <2>2, <2>3, <5>2, OthersTell DEF At, VisitsStay
          <6> QED BY <1>1, <6>1
        <5> QED BY <5>1, <5>2
      <4> QED BY <3>4, <4>1 DEF Remaining
    <3>8. ListFits(t)'
      <4>1. \A x \in Threads : At(x, {"remove"}, t)' => copy'[x] = dependencies'[t]
        BY <1>0, <2>3 DEF At, VisitsStay, Placed, ListFits
      <4> QED BY <1>0, <1>1, <3>4, <3>7, <4>1 DEF Placed, ListFits
    <3>9. CancelFits(t)'
      BY <1>1, <3>1, <3>2, <3>3, <3>4 DEF CancelFits
    <3> QED BY <2>4, <3>6, <3>8, <3>9 DEF Placed
  <2> QED BY <2>5, <2>6
<1> QED BY <1>3, <1>4

-------------------------------------------------------------------------------
(* The invariant                                                           *)

\* Only a thread that comes to a dependant can meet another there.
LEMMA MeetingStep ==
  ASSUME ThreadsAgree, NEW th \in Threads, Thread(th), NEW t \in Meeting', t \notin Meeting
  PROVE  /\ RemoveReads(th) /\ Releasing(th, t)'
         /\ \E y \in Threads : y # th /\ Releasing(y, t)
<1>0. OnlyThread(th) /\ TypesBut
  BY OthersStay, TypesHold
<1>1. \A x \in Threads \ {th} : Releasing(x, t)' <=> Releasing(x, t)
  BY <1>0 DEF OnlyThread, Releasing, Dependant, NextOf
<1>2. Releasing(th, t)' /\ ~ Releasing(th, t) /\ \E y \in Threads : y # th /\ Releasing(y, t)
  BY <1>1 DEF Meeting
<1>3. CASE RemoveWrites(th) \/ TestBlocked(th) \/ Unblock(th)
  <2>1. where[th] \in {"remove", "unblock", "ready"} /\ calls' = calls
    BY <1>3 DEF RemoveWrites, TestBlocked, Unblock
  <2> QED BY <1>2, <2>1 DEF Releasing, Dependant, NextOf
<1>4. CASE ~ (RemoveReads(th) \/ RemoveWrites(th) \/ TestBlocked(th) \/ Unblock(th))
  <2>1. where'[th] \notin {"remove", "unblock", "ready", "release"}
    <3>1. CASE PassOver(th) \/ Return(th)
      BY <1>0, <3>1 DEF PassOver, Return, InLoop, GoTo, TypesBut
    <3>2. CASE ~ (PassOver(th) \/ Return(th))
      BY <1>0, <1>4, <3>2 DEF Thread, Take, CommandEnds, EpilogueRetry, Retry, EpilogueVerdict,
                              Call, Release, Cancel, GoTo, TypesBut
    <3> QED BY <3>1, <3>2
  <2> QED BY <1>2, <2>1 DEF Releasing
<1> QED BY <1>2, <1>3, <1>4

\* Where no two threads can update the same task, none meet.
LEMMA ApartStep ==
  ASSUME ThreadInv, NEW th \in Threads, Thread(th)
  PROVE  (Apart => Calm)'
<1> SUFFICES ASSUME Apart', NEW t \in Meeting' PROVE FALSE
  <2>1. UNCHANGED << validTasks, revDepMap, nworkers >> /\ met' = met \cup Meeting'
    BY DEF Thread
  <2>2. Apart' => Apart
    BY <2>1 DEF Apart, Parents
  <2> QED BY <2>1, <2>2 DEF Calm, ThreadInv
<1>0. /\ ThreadsAgree /\ OnlyThread(th) /\ t \in TaskId
      /\ Apart /\ met = {} /\ Meeting = {}
  <2>1. UNCHANGED << validTasks, revDepMap, nworkers >>
    BY DEF Thread
  <2>2. Apart
    BY <2>1 DEF Apart, Parents
  <2> QED BY <2>2, OthersStay DEF ThreadInv, ThreadsAgree, Calm, Meeting
<1>1. PICK y \in Threads : y # th /\ Releasing(y, t) /\ RemoveReads(th) /\ Releasing(th, t)'
  BY <1>0, MeetingStep
<1>2. Clean(t)
  BY <1>0 DEF Clean
<1>3. Tells(y, item[y], t) /\ taskState[item[y]] = "completed"
  BY <1>0, <1>1, <1>2, Alone DEF At, Releasing
<1>4. /\ calls[th] # << >> /\ calls[th][1].left # {} /\ calls[th][1].state = "completed"
      /\ Dependant(th) = t
  <2>1. /\ where[th] = "loop" /\ calls' = calls
        /\ Head(calls[th]).left # {} /\ Head(calls[th]).state = "completed"
    BY <1>1 DEF RemoveReads, InLoop
  <2>2. calls[th] # << >>
    BY <1>0, <2>1 DEF ThreadsAgree, StackFits, Visiting
  <2> QED BY <1>0, <1>1, <2>1, <2>2, Actor DEF Releasing, Dependant, NextOf
<1>5. PICK q : q = calls[th][1].task
  OBVIOUS
<1>6. Tells(th, q, t) /\ taskState[q] = "completed"
  BY <1>0, <1>2, <1>4, <1>5, Visit
<1> QED BY <1>0, <1>1, <1>2, <1>3, <1>6, OneTeller

\* Every step of a thread keeps what the threads rely on.
LEMMA ThreadStep ==
  ASSUME ThreadInv, NEW th \in Threads, Thread(th)
  PROVE  ThreadInv'
<1>0. ThreadsAgree /\ OnlyThread(th)
  BY OthersStay DEF ThreadInv
<1>1. ThreadsAgree' /\ (Apart => Calm)'
  BY <1>0, AgreeStep, ApartStep
<1>2. ASSUME NEW t \in TaskId, Clean(t)' PROVE InOrder(t)'
  <2>0. Clean(t)
    BY <1>2, CleanBefore
  <2>1. RetriesFit(t)' /\ CallsFit(t)'
    BY <2>0, RetriesFitStep, CallsFitStep
  <2>2. Placed(t)'
    <3>1. CASE Take(th)
      BY <1>0, <2>0, <3>1, TakeStep
    <3>2. CASE CommandEnds(th) \/ EpilogueRetry(th) \/ Call(th)
      BY <1>0, <2>0, <3>2, WayStep
    <3>3. CASE Retry(th)
      BY <1>0, <2>0, <3>3, RetryStep
    <3>4. CASE EpilogueVerdict(th)
      BY <1>0, <2>0, <3>4, VerdictStep
    <3>5. CASE RemoveReads(th)
      BY <1>0, <2>0, <3>5, RemoveReadsStep
    <3>6. CASE RemoveWrites(th)
      BY <1>0, <2>0, <3>6, RemoveWritesStep
    <3>7. CASE TestBlocked(th)
      BY <1>0, <2>0, <3>7, TestBlockedStep
    <3>8. CASE Unblock(th)
      BY <1>0, <2>0, <3>8, UnblockStep
    <3>9. CASE Release(th)
      BY <1>0, <2>0, <3>9, ReleaseStep
    <3>10. CASE Cancel(th)
      BY <1>0, <2>0, <3>10, CancelStep
    <3>11. CASE PassOver(th)
      BY <1>0, <2>0, <3>11, PassOverStep
    <3>12. CASE Return(th)
      BY <1>0, <2>0, <3>12, ReturnStep
    <3> QED BY <3>1, <3>2, <3>3, <3>4, <3>5, <3>6, <3>7, <3>8, <3>9, <3>10, <3>11, <3>12
            DEF Thread
  <2> QED BY <2>1, <2>2 DEF InOrder, Placed
<1> QED BY <1>1, <1>2 DEF ThreadInv

\* Before parallel_do is called, and while nobody has anything to do, no thread
\* tells anybody anything.
LEMMA IdleTellsNothing ==
  ASSUME ThreadsAgree, NEW x \in Threads, where[x] = "idle"
  PROVE  /\ item[x] \notin TaskId /\ calls[x] = << >> /\ Len(calls[x]) = 0
         /\ \A p, c : ~ Tells(x, p, c)
         /\ \A places \in SUBSET Visiting : \A c : ~ At(x, places, c)
<1>1. item[x] = NoTask /\ calls[x] = << >>
  BY DEF ThreadsAgree, StackFits
<1>2. Len(calls[x]) = 0
  BY <1>1
<1> QED BY <1>1, <1>2, TaskIdAssumption DEF NoTask, Tells, At, Visiting

\* parallel_do is called with the waiting tasks.
LEMMA ScheduledStep ==
  ASSUME ThreadInv, RunScheduler
  PROVE  ThreadInv'
<1>0. ThreadsAgree /\ TypesBut /\ started \in BOOLEAN
  BY TypesHold DEF ThreadInv, TypesBut
<1>1. ThreadsAgree'
  BY <1>0, AgreeScheduled
<1>2. /\ ~ started /\ started'
      /\ UNCHANGED << taskState, dependencies, retries, validTasks, revDepMap, nworkers, item >>
      /\ UNCHANGED << where, calls, copy, met >>
      /\ pool' = [ t \in TaskId |->
                     IF t \in validTasks /\ taskState[t] = "waiting" THEN 1 ELSE 0 ]
  BY DEF RunScheduler, tableVars
<1>3. \A x \in Threads :
        /\ where[x] = "idle" /\ item[x] \notin TaskId /\ item'[x] \notin TaskId
        /\ calls'[x] = << >> /\ Len(calls'[x]) = 0 /\ where'[x] = "idle"
        /\ \A p, c : ~ Tells(x, p, c) /\ ~ Tells(x, p, c)'
        /\ \A places \in SUBSET Visiting : \A c : ~ At(x, places, c) /\ ~ At(x, places, c)'
  <2> TAKE x \in Threads
  <2>1. where[x] = "idle"
    BY <1>0, <1>2 DEF ThreadsAgree, StackFits
  <2>2. where'[x] = "idle" /\ calls'[x] = calls[x] /\ item'[x] = item[x]
    BY <1>2, <2>1
  <2>3. /\ item[x] \notin TaskId /\ calls[x] = << >> /\ Len(calls[x]) = 0
        /\ \A p, c : ~ Tells(x, p, c)
        /\ \A places \in SUBSET Visiting : \A c : ~ At(x, places, c)
    BY <1>0, <2>1, IdleTellsNothing
  <2>4. /\ \A p, c : ~ Tells(x, p, c)'
        /\ \A places \in SUBSET Visiting : \A c : ~ At(x, places, c)'
    BY <2>2, <2>3 DEF Tells, At, Visiting
  <2> QED BY <2>1, <2>2, <2>3, <2>4
<1>4. ASSUME NEW t \in TaskId, Clean(t)' PROVE InOrder(t)'
  <2>1. Clean(t) /\ Parents(t)' = Parents(t)
    BY <1>2, <1>4 DEF Clean, Parents
  <2>2. InOrder(t)
    BY <2>1 DEF ThreadInv
  <2>3. \A x \in Threads : \A places \in { {"remove"}, {"unblock", "ready", "release"}, {"ready"},
                                          {"release"}, {"unblock", "ready"} } :
          ~ At(x, places, t) /\ ~ At(x, places, t)'
    <3>1. { {"remove"}, {"unblock", "ready", "release"}, {"ready"},
            {"release"}, {"unblock", "ready"} } \subseteq SUBSET Visiting
      BY DEF Visiting
    <3> QED BY <1>3, <3>1
  <2>4. \A x \in Threads : item[x] # t /\ item'[x] # t
    BY <1>3
  <2>5. pool'[t] = IF t \in validTasks /\ taskState[t] = "waiting" THEN 1 ELSE 0
    BY <1>2
  <2>6. pool[t] = 0 /\ ~ Given(t)
    BY <1>0, <1>2, <2>4 DEF ThreadsAgree, NothingFed, Given
  <2>7. Given(t)' <=> t \in validTasks /\ taskState[t] = "waiting"
    BY <2>4, <2>5 DEF Given
  <2>8. taskState[t] = "waiting" => Parents(t) = {} /\ t \in validTasks
    BY <1>2, <2>2, <2>6 DEF InOrder, ReleaseFits, StateFits
  <2>9. OnePlace(t)'
    BY <2>4, <2>5 DEF OnePlace
  <2>10. StateFits(t)'
    <3>1. taskState[t] # "running"
      BY <2>2, <2>6 DEF InOrder, StateFits
    <3>2. pool'[t] > 0 => taskState'[t] = "waiting"
      BY <1>2, <2>5
    <3>3. /\ t \in validTasks => taskState[t] # "invalid"
          /\ t \notin validTasks => taskState[t] \in {"invalid", "cancelled"}
          /\ taskState[t] \in {"completed", "failed"} =>
               t \in validTasks /\ \A p \in Parents(t) : taskState[p] = "completed"
      BY <2>2 DEF InOrder, StateFits
    <3>4. \A x \in Threads, p \in Parents(t) : ~ Tells(x, p, t)'
      BY <1>3
    <3> QED BY <1>2, <2>1, <2>4, <2>7, <2>8, <3>1, <3>2, <3>3, <3>4 DEF StateFits
  <2>11. RetriesFit(t)'
    BY <1>2, <2>2, <2>4 DEF InOrder, RetriesFit
  <2>12. ListFits(t)'
    <3>1. Remaining(t)' = Remaining(t)
      BY <1>2, <1>3, <2>1 DEF Remaining
    <3> QED BY <1>2, <2>1, <2>2, <2>3, <3>1 DEF InOrder, ListFits
  <2>13. ReleaseFits(t)'
    BY <1>2, <2>1, <2>2, <2>3, <2>7, <2>8 DEF InOrder, ReleaseFits
  <2>14. CancelFits(t)'
    BY <1>2, <1>3, <2>1, <2>2 DEF InOrder, CancelFits
  <2>15. CallsFit(t)'
    BY <1>3 DEF CallsFit
  <2> QED BY <2>9, <2>10, <2>11, <2>12, <2>13, <2>14, <2>15 DEF InOrder
<1>5. (Apart => Calm)'
  BY <1>2 DEF Apart, Parents, Calm, ThreadInv
<1> QED BY <1>1, <1>4, <1>5 DEF ThreadInv

LEMMA ThreadStart ==
  ASSUME Init
  PROVE  ThreadInv
<1>0. ThreadsAgree
  BY AgreeInit
<1>1. PICK file \in Files :
        /\ \A t \in TaskId : /\ file[t].state \in {"waiting", "blocked", "invalid"}
                             /\ file[t].deps \in SUBSET (Nat \ {0})
                             /\ file[t].state = "waiting" => file[t].deps = {}
        /\ TableLoaded(file)
  BY LoadedEntries DEF Init
<1>2. /\ where = [ th \in Threads |-> "idle" ] /\ pool = [ t \in TaskId |-> 0 ]
      /\ retries = [ t \in TaskId |-> 0 ]
  BY DEF Init, ThreadInit, TableInit
<1>3. ~ started
  BY Zenon DEF Init, ThreadInit
<1>4. \A x \in Threads :
        /\ where[x] = "idle" /\ item[x] \notin TaskId /\ calls[x] = << >> /\ Len(calls[x]) = 0
        /\ \A p, c : ~ Tells(x, p, c)
        /\ \A places \in SUBSET Visiting : \A c : ~ At(x, places, c)
  BY <1>0, <1>2, IdleTellsNothing
<1>5. ASSUME NEW t \in TaskId PROVE InOrder(t)
  <2>1. /\ taskState[t] = IF t \in validTasks THEN file[t].state ELSE "invalid"
        /\ dependencies[t] = file[t].deps
        /\ taskState[t] \in {"waiting", "blocked", "invalid"}
        /\ t \in validTasks => taskState[t] # "invalid"
    BY <1>1 DEF TableLoaded
  <2>2. \A p \in TaskId : taskState[p] \in {"waiting", "blocked", "invalid"}
    BY <1>1 DEF TableLoaded
  <2>3. /\ Parents(t) \subseteq TaskId
        /\ \A p \in TaskId : p \in Parents(t) <=> /\ p \in validTasks
                                                  /\ file[t].state # "invalid"
                                                  /\ p \in file[t].deps
                                                  /\ p < t
    BY <1>1 DEF TableLoaded, Parents
  <2>4. /\ pool[t] = 0 /\ retries[t] = 0 /\ \A x \in Threads : item[x] # t
    BY <1>2, <1>4
  <2>5. ~ Given(t)
    BY <2>4 DEF Given
  <2>6. \A x \in Threads : \A places \in { {"remove"}, {"unblock", "ready", "release"}, {"ready"},
                                          {"release"}, {"unblock", "ready"} } :
          ~ At(x, places, t)
    <3>1. { {"remove"}, {"unblock", "ready", "release"}, {"ready"},
            {"release"}, {"unblock", "ready"} } \subseteq SUBSET Visiting
      BY DEF Visiting
    <3> QED BY <1>4, <3>1
  <2>7. OnePlace(t)
    BY <2>4 DEF OnePlace
  <2>8. StateFits(t)
    BY <2>1, <2>4, <2>5 DEF StateFits
  <2>9. RetriesFit(t)
    BY <2>4, MaxRetriesAssumption DEF RetriesFit
  <2>10. ListFits(t)
    <3>1. Remaining(t) = Parents(t)
      BY <2>2, <2>3 DEF Remaining
    <3>2. t \in validTasks => dependencies[t] \subseteq Parents(t)
      BY <1>1, <2>1, <2>3 DEF TableLoaded
    <3>3. t \notin validTasks /\ Parents(t) # {} => ~ (dependencies[t] \subseteq Parents(t))
      <4> SUFFICES ASSUME t \notin validTasks, Parents(t) # {}
                   PROVE  ~ (dependencies[t] \subseteq Parents(t))
        OBVIOUS
      <4>1. file[t].state # "invalid"
        BY <2>3
      <4>2. PICK d \in file[t].deps : ~ (d \in validTasks /\ d < t)
        BY <1>1, <4>1 DEF TableLoaded
      <4>3. d \notin Parents(t)
        BY <2>3, <4>2
      <4> QED BY <2>1, <4>2, <4>3
    <3>4. Parents(t) \subseteq dependencies[t]
      BY <2>1, <2>3
    <3> QED BY <2>6, <3>1, <3>2, <3>3, <3>4 DEF ListFits
  <2>11. ReleaseFits(t)
    <3>1. taskState[t] = "waiting" => Parents(t) = {}
      BY <1>1, <2>1, <2>3
    <3>2. dependencies[t] = {} => Parents(t) = {}
      BY <2>1, <2>3
    <3> QED BY <1>3, <2>6, <3>1, <3>2 DEF ReleaseFits
  <2>12. CancelFits(t)
    BY <2>1, <2>2, <2>3 DEF CancelFits, Lost
  <2>13. CallsFit(t)
    BY <1>4 DEF CallsFit
  <2> QED BY <2>7, <2>8, <2>9, <2>10, <2>11, <2>12, <2>13 DEF InOrder
<1>6. Calm
  BY DEF Init, ThreadInit, Calm
<1> QED BY <1>0, <1>5, <1>6 DEF ThreadInv

LEMMA ThreadStutter ==
  ASSUME ThreadInv, UNCHANGED vars
  PROVE  ThreadInv'
<1>0. /\ UNCHANGED << taskState, dependencies, retries, validTasks, revDepMap, nworkers >>
      /\ UNCHANGED << returnCode, started, pool, where, item, calls, copy, met >>
  BY DEF vars, tableVars, threadVars
<1>1. ThreadsAgree'
  <2>1. \A x \in Threads : StackFits(x)'
    BY <1>0, OtherFits DEF ThreadInv, ThreadsAgree
  <2>2. Meeting' = Meeting
    BY <1>0, MeetingStays
  <2> QED BY <1>0, <2>1, <2>2 DEF ThreadInv, ThreadsAgree, ThreadTypeOK, BackwardOnly, RetryBudget,
            NothingFed
<1>2. \A x : Dependant(x)' = Dependant(x) /\ Subject(x)' = Subject(x)
  <2>1. \A x : Dependant(x)' = Dependant(x)
    BY <1>0 DEF Dependant, NextOf
  <2> QED BY <1>0, <2>1 DEF Subject
<1>3. ASSUME NEW t \in TaskId, Clean(t)' PROVE InOrder(t)'
  <2>1. Clean(t)
    BY <1>0, <1>3 DEF Clean
  <2>2. Placed(t) /\ RetriesFit(t) /\ CallsFit(t)
    BY <2>1 DEF ThreadInv, InOrder, Placed
  <2>3. HoldersStay(t) /\ ParentsStay(t) /\ VisitsStay(t)
    BY <1>0, <1>2 DEF HoldersStay, ParentsStay, VisitsStay
  <2>4. ToldStay(t)
    BY <1>0, <1>2 DEF ToldStay, Tells
  <2>5. Placed(t)'
    BY <1>0, <2>2, <2>3, <2>4, KeptPlaced
  <2>6. RetriesFit(t)' /\ CallsFit(t)'
    BY <1>0, <1>2, <2>2 DEF RetriesFit, CanRetry, CallsFit
  <2> QED BY <2>5, <2>6 DEF InOrder, Placed
<1>4. (Apart => Calm)'
  BY <1>0 DEF Apart, Parents, Calm, ThreadInv
<1> QED BY <1>1, <1>3, <1>4 DEF ThreadInv

\* The threads and the tables agree at every step (runScheduler, taskEpilogue and
\* updateDependencies of threadengine.cpp), for every task up to the first that
\* two threads were releasing at once.
THEOREM ThreadInvariant == Spec => []ThreadInv
<1>1. Init => ThreadInv
  BY ThreadStart
<1>2. ThreadInv /\ [Next]_vars => ThreadInv'
  <2> SUFFICES ASSUME ThreadInv, [Next]_vars PROVE ThreadInv'
    OBVIOUS
  <2>1. CASE RunScheduler
    BY <2>1, ScheduledStep
  <2>2. CASE \E th \in Threads : Thread(th)
    BY <2>2, ThreadStep
  <2>3. CASE UNCHANGED vars
    BY <2>3, ThreadStutter
  <2> QED BY <2>1, <2>2, <2>3 DEF Next, Returned
<1> QED BY <1>1, <1>2, PTL DEF Spec

-------------------------------------------------------------------------------
(* What it is for                                                          *)

\* As long as no two threads are releasing one task at once, every task is in order.
LEMMA CalmIsClean ==
  ASSUME ThreadInv, Calm, NEW t \in TaskId
  PROVE  Clean(t) /\ InOrder(t) /\ Placed(t)
<1>1. Clean(t)
  BY DEF Calm, Clean
<1> QED BY <1>1, ParentsInOrder

\* The threads that have a task are at most one, and none if it is in the pool.
LEMMA InHandOnce ==
  ASSUME ThreadInv, NEW t \in TaskId, OnePlace(t)
  PROVE  InHand(t) \in {0, 1} /\ (InHand(t) = 1 <=> Given(t))
<1> DEFINE having == { th \in Threads :
                         item[th] = t /\ where[th] \in {"command", "epilogue", "retry"} }
<1>0. pool[t] \in Nat /\ pool[t] <= 1
  BY DEF ThreadInv, ThreadsAgree, ThreadTypeOK, OnePlace
<1>1. Given(t) <=> pool[t] > 0 \/ having # {}
  BY DEF Given, Executing
<1>2. CASE having = {}
  <2>1. InHand(t) = pool[t]
    <3>1. Cardinality(having) = 0
      BY <1>2, FS_EmptySet
    <3> HIDE DEF having
    <3> QED BY <1>0, <3>1 DEF InHand, having
  <2> QED BY <1>0, <1>1, <1>2, <2>1
<1>3. CASE having # {}
  <2>1. PICK th \in Threads : having = {th}
    BY <1>3 DEF OnePlace
  <2>2. Cardinality(having) = 1
    BY <2>1, FS_Singleton
  <2>3. pool[t] = 0
    BY <1>0, <1>3 DEF OnePlace
  <2>4. InHand(t) = 1
    <3> HIDE DEF having
    <3> QED BY <2>2, <2>3 DEF InHand, having
  <2> QED BY <1>1, <1>3, <2>4
<1> QED BY <1>2, <1>3

\* A task is run by one thread at a time (feeder.add of threadengine.cpp gives it
\* to parallel_do once), only after everything it depends on has completed, and not
\* again once it has a verdict: as long as no two threads are releasing one task
\* at once, on whatever threads its parents have ended.
THEOREM ThreadsRunAsPromised == Spec => []RunsAsPromised
<1>1. ThreadInv => RunsAsPromised
  <2> SUFFICES ASSUME ThreadInv, Calm, NEW t \in TaskId
               PROVE  /\ InHand(t) <= 1
                      /\ InHand(t) = 1 =>
                           /\ taskState[t] \in {"waiting", "running"}
                           /\ \A p \in Parents(t) : taskState[p] = "completed"
                      /\ taskState[t] = "running" => InHand(t) = 1
                      /\ retries[t] <= MaxRetries
    BY DEF RunsAsPromised, NeverTwice
  <2>1. InOrder(t)
    BY CalmIsClean
  <2>2. InHand(t) \in {0, 1} /\ (InHand(t) = 1 <=> Given(t))
    BY <2>1, InHandOnce DEF InOrder
  <2>3. Given(t) => taskState[t] \in {"waiting", "running"}
    BY <2>1 DEF InOrder, StateFits, Given
  <2> QED BY <2>1, <2>2, <2>3 DEF InOrder, StateFits, RetriesFit
<1> QED BY <1>1, ThreadInvariant, PTL

\* When parallel_do returns every task has its verdict, and every cancelled task a
\* parent that explains it, but for tasks blocked on nothing and those that wait
\* for them: as long as no two threads are releasing one task at once.
THEOREM ThreadsAccountForAll == Spec => []AllAccounted
<1>1. ThreadInv => AllAccounted
  <2> SUFFICES ASSUME ThreadInv, Calm, Done
               PROVE  /\ CancelledWithAncestor
                      /\ \A t \in validTasks :
                           \/ taskState[t] \in FinalStates
                           \/ /\ taskState[t] = "blocked"
                              /\ Parents(t) = {} \/ \E p \in Parents(t) : taskState[p] = "blocked"
    BY DEF AllAccounted
  <2>0. /\ ThreadsAgree /\ validTasks \subseteq TaskId /\ started
        /\ taskState \in [ TaskId -> TaskStates ]
    BY DEF ThreadInv, ThreadsAgree, ThreadTypeOK, Done
  <2>1. \A x \in Threads :
          /\ item[x] \notin TaskId
          /\ \A p, c : ~ Tells(x, p, c)
          /\ \A places \in SUBSET Visiting : \A c : ~ At(x, places, c)
    BY <2>0, IdleTellsNothing DEF Done
  <2>2. \A t \in TaskId : ~ Given(t)
    BY <2>1 DEF Done, Given
  <2>3. ASSUME NEW t \in TaskId
        PROVE  \A x \in Threads : ~ At(x, {"release"}, t) /\ ~ At(x, {"unblock", "ready"}, t)
    <3>1. {"release"} \in SUBSET Visiting /\ {"unblock", "ready"} \in SUBSET Visiting
      BY DEF Visiting
    <3> QED BY <2>1, <3>1
  <2>4. ASSUME NEW t \in validTasks
        PROVE  (taskState[t] = "cancelled") <=>
                 (\E p \in Parents(t) : taskState[p] \in {"failed", "cancelled"})
    <3>1. CancelFits(t)
      BY <2>0, CalmIsClean DEF InOrder
    <3> QED BY <2>1, <3>1 DEF CancelFits, Lost
\* A task without a verdict is blocked.
  <2>5. ASSUME NEW t \in validTasks, taskState[t] \notin FinalStates
        PROVE  taskState[t] = "blocked"
    <3>1. StateFits(t) /\ ReleaseFits(t)
      BY <2>0, CalmIsClean DEF InOrder
    <3>2. taskState[t] # "running" /\ taskState[t] # "invalid" /\ taskState[t] # "waiting"
      BY <2>0, <2>2, <2>3, <3>1 DEF StateFits, ReleaseFits
    <3> QED BY <2>0, <2>5, <3>2 DEF TaskStates, FinalStates
  <2>6. ASSUME NEW t \in validTasks, taskState[t] \notin FinalStates, Parents(t) # {}
        PROVE  \E p \in Parents(t) : taskState[p] = "blocked"
    <3>1. taskState[t] = "blocked" /\ ListFits(t) /\ ReleaseFits(t) /\ CancelFits(t)
      BY <2>0, <2>5, <2>6, CalmIsClean DEF InOrder
    <3>2. dependencies[t] # {}
      BY <2>0, <2>3, <2>6, <3>1 DEF ReleaseFits
    <3>3. PICK p \in Parents(t) : p \in Remaining(t)
      BY <3>1, <3>2 DEF ListFits
    <3>4. p \in validTasks /\ taskState[p] # "completed"
      BY <2>1, <3>3 DEF Remaining, Parents
    <3>5. taskState[p] \notin Lost
      BY <2>1, <3>1 DEF CancelFits
    <3> QED BY <2>5, <3>4, <3>5 DEF FinalStates, Lost
  <2> QED BY <2>4, <2>5, <2>6 DEF CancelledWithAncestor
<1> QED BY <1>1, ThreadInvariant, PTL
-------------------------------------------------------------------------------
(* The workflow                                                            *)

\* A task that depends on one that failed is not given to a thread, and has no
\* verdict of its own.
LEMMA DoomedNotRun ==
  ASSUME ThreadInv, Calm, NEW t \in TaskId, Doomed(t)
  PROVE  taskState[t] \notin {"running", "completed", "failed"} /\ ~ Given(t)
<1>1. PICK p \in TaskId : taskState[p] = "failed" /\ t \in Descendants(p)
  BY DEF Doomed
<1> DEFINE S == { s \in TaskId : ~ Given(s) /\ taskState[s] \notin {"completed", "failed"} }
<1>2. ASSUME NEW s \in TaskId, NEW c \in revDepMap[s], taskState[s] # "completed"
      PROVE  c \in S
  <2>1. s \in Parents(c) /\ c \in TaskId
    BY DEF ThreadInv, ThreadsAgree, BackwardOnly, Parents
  <2> QED BY <1>2, <2>1, CalmIsClean DEF InOrder, StateFits
<1>3. revDepMap[p] \subseteq S /\ \A s \in S : revDepMap[s] \subseteq S
  BY <1>1, <1>2
<1>4. t \in S
  <2> HIDE DEF S
  <2>1. S \in SUBSET TaskId
    BY DEF S
  <2> QED BY <1>1, <1>3, <2>1, DescendantsLeast
<1> QED BY <1>4, CalmIsClean DEF InOrder, StateFits

\* What depends on a task that is lost is lost too.
LEMMA DoomSpreads ==
  ASSUME ThreadInv, NEW p \in TaskId, NEW c \in revDepMap[p],
         taskState[p] = "failed" \/ Doomed(p)
  PROVE  Doomed(c)
<1>1. revDepMap \in [ TaskId -> SUBSET TaskId ]
  BY DEF ThreadInv, ThreadsAgree
<1>2. CASE taskState[p] = "failed"
  BY <1>1, <1>2, DescendantsClosed DEF Doomed
<1>3. CASE Doomed(p)
  <2>1. PICK q \in TaskId : taskState[q] = "failed" /\ p \in Descendants(q)
    BY <1>3 DEF Doomed
  <2> QED BY <1>1, <2>1, DescendantsClosed DEF Doomed
<1> QED BY <1>2, <1>3

\* A task is cancelled for one that failed.
LEMMA CancelledIsDoomed ==
  ASSUME ThreadInv, Calm, NEW t \in TaskId, taskState[t] = "cancelled"
  PROVE  Doomed(t)
<1> DEFINE S == { s \in TaskId : taskState[s] = "cancelled" /\ ~ Doomed(s) }
<1>1. SUFFICES ASSUME S # {} PROVE FALSE
  OBVIOUS
<1>2. PICK m \in S : \A k \in S : m <= k
  <2>1. S \in SUBSET Nat
    BY TaskIdAssumption
  <2> HIDE DEF S
  <2> QED BY <1>1, <2>1, LeastElement
<1>3. PICK p \in Parents(m) : taskState[p] \in Lost
  BY <1>2, CalmIsClean DEF InOrder, CancelFits
<1>4. p \in TaskId /\ m \in revDepMap[p] /\ p < m
  BY <1>3 DEF Parents, ThreadInv, ThreadsAgree, BackwardOnly
<1>5. p \notin S
  <2>1. m \in Nat /\ p \in Nat
    BY <1>4, TaskIdAssumption
  <2> HIDE DEF S
  <2> QED BY <1>2, <1>4, <2>1
<1>6. taskState[p] = "failed" \/ Doomed(p)
  BY <1>3, <1>4, <1>5 DEF Lost
<1> QED BY <1>2, <1>4, <1>6, DoomSpreads

\* What the workflow sees of a task where threads do not meet.
Fate(t) ==
  IF t \notin validTasks THEN "ignored"
  ELSE IF Doomed(t) THEN "cancelled"
  ELSE IF taskState[t] \in {"waiting", "blocked"} THEN "pending"
  ELSE IF taskState[t] = "running" THEN "active"
  ELSE IF taskState[t] = "completed" THEN "done"
  ELSE "failed"

ThreadParents ==
  [ t \in TaskId |-> IF Apart /\ t \in validTasks THEN Parents(t) ELSE {} ]

LEMMA StatusIsFate ==
  ASSUME ThreadInv, Apart
  PROVE  /\ ThreadStatus = [ t \in TaskId |-> Fate(t) ]
         /\ \A t \in TaskId :
              Doomed(t) => taskState[t] \notin {"running", "completed", "failed"}
         /\ \A t \in validTasks :
              ~ Doomed(t) =>
                taskState[t] \in {"waiting", "blocked", "running", "completed", "failed"}
<1>0. Calm
  BY DEF ThreadInv
<1>1. ASSUME NEW t \in TaskId, t \in validTasks
      PROVE  /\ taskState[t] \in TaskStates \ {"invalid"}
             /\ taskState[t] = "cancelled" => Doomed(t)
             /\ Doomed(t) => taskState[t] \notin {"running", "completed", "failed"}
  <2>1. taskState[t] \in TaskStates
    BY DEF ThreadInv, ThreadsAgree, ThreadTypeOK
  <2>2. taskState[t] # "invalid"
    BY <1>0, <1>1, CalmIsClean DEF InOrder, StateFits
  <2> QED BY <1>0, <2>1, <2>2, DoomedNotRun, CancelledIsDoomed
<1>2. ASSUME NEW t \in TaskId
      PROVE  ThreadStatus[t] = Fate(t)
  <2>1. CASE t \notin validTasks
    BY <2>1 DEF ThreadStatus, WorkflowStatus, Fate
  <2>2. CASE t \in validTasks /\ Doomed(t)
    <3>1. taskState[t] \in {"waiting", "blocked", "cancelled"}
      BY <1>1, <2>2 DEF TaskStates
    <3>2. WorkflowStatus[t] \in {"pending", "cancelled"}
      BY <2>2, <3>1 DEF WorkflowStatus
    <3> QED BY <2>2, <3>2 DEF ThreadStatus, Fate
  <2>3. CASE t \in validTasks /\ ~ Doomed(t)
    <3>1. taskState[t] \in {"waiting", "blocked", "running", "completed", "failed"}
      BY <1>1, <2>3 DEF TaskStates
    <3>2. WorkflowStatus[t] = Fate(t)
      BY <2>3, <3>1 DEF WorkflowStatus, Fate
    <3> QED BY <2>3, <3>2 DEF ThreadStatus
  <2> QED BY <2>1, <2>2, <2>3
<1>3. ThreadStatus = [ t \in TaskId |-> Fate(t) ]
  <2>1. ThreadStatus = [ t \in TaskId |-> ThreadStatus[t] ]
    BY DEF ThreadStatus
  <2> QED BY <1>2, <2>1
<1>4. validTasks \subseteq TaskId
  BY DEF ThreadInv, ThreadsAgree
<1>5. \A t \in TaskId :
        Doomed(t) => taskState[t] \notin {"running", "completed", "failed"}
  BY <1>0, DoomedNotRun
<1> QED BY <1>1, <1>3, <1>4, <1>5 DEF TaskStates

\* What a step that leaves the file alone leaves of it.
LEMMA FileStays ==
  ASSUME UNCHANGED << validTasks, revDepMap, nworkers >>
  PROVE  /\ Apart' <=> Apart
         /\ UNCHANGED ThreadParents
         /\ \A t : Parents(t)' = Parents(t) /\ Descendants(t)' = Descendants(t)
<1>1. \A t : Parents(t)' = Parents(t) /\ Descendants(t)' = Descendants(t)
  BY DEF Parents, Descendants
<1>2. Apart' <=> Apart
  BY DEF Apart, Parents
<1> QED BY <1>1, <1>2 DEF ThreadParents, Parents

\* Where threads may meet nothing is promised.
LEMMA MeetingUnseen ==
  ASSUME ~ Apart, UNCHANGED << validTasks, revDepMap, nworkers >>
  PROVE  UNCHANGED ThreadPromise!wfVars
<1>1. ~ Apart' /\ UNCHANGED ThreadParents
  BY FileStays
<1> QED BY <1>1 DEF ThreadPromise!wfVars, ThreadStatus, ThreadParents

\* A step that neither runs a task nor settles one is not seen: it may release
\* one, or cancel one that was lost already.
LEMMA ThreadUnseen ==
  ASSUME ThreadInv, ThreadInv', Apart, UNCHANGED << validTasks, revDepMap, nworkers >>,
         \A t \in TaskId :
           \/ taskState'[t] = taskState[t]
           \/ taskState[t] = "blocked" /\ taskState'[t] = "waiting"
           \/ Doomed(t) /\ taskState'[t] = "cancelled"
  PROVE  UNCHANGED ThreadPromise!wfVars
<1>0. Apart' /\ UNCHANGED ThreadParents /\ Calm
  BY FileStays DEF ThreadInv
<1>1. ASSUME NEW t \in TaskId
      PROVE  taskState'[t] = "failed" <=> taskState[t] = "failed"
  BY <1>0, DoomedNotRun
<1>2. \A t : Doomed(t)' <=> Doomed(t)
  BY <1>1, FileStays DEF Doomed
<1>3. ASSUME NEW t \in TaskId PROVE Fate(t)' = Fate(t)
  BY <1>2 DEF Fate
<1>4. UNCHANGED ThreadStatus
  <2>1. ThreadStatus = [ t \in TaskId |-> Fate(t) ]
    BY StatusIsFate
  <2>2. ThreadStatus' = [ t \in TaskId |-> Fate(t)' ]
    <3>1. (ThreadStatus = [ t \in TaskId |-> Fate(t) ])'
      BY <1>0, StatusIsFate, PTL
    <3> QED BY <3>1
  <2> QED BY <1>3, <2>1, <2>2
<1> QED BY <1>0, <1>4 DEF ThreadPromise!wfVars, ThreadParents

\* The status of the tasks after a step.
LEMMA StatusAfter ==
  ASSUME ThreadInv', Apart'
  PROVE  /\ ThreadStatus' = [ t \in TaskId |-> Fate(t)' ]
         /\ Calm'
         /\ \A t \in TaskId :
              /\ Doomed(t)' => taskState'[t] \notin {"running", "completed", "failed"}
              /\ t \in validTasks' /\ ~ Doomed(t)' =>
                   taskState'[t] \in {"waiting", "blocked", "running", "completed", "failed"}
<1>1. (ThreadStatus = [ t \in TaskId |-> Fate(t) ])'
  BY StatusIsFate, PTL
<1>2. Calm'
  BY DEF ThreadInv
<1>3. (\A t \in TaskId :
         Doomed(t) => taskState[t] \notin {"running", "completed", "failed"})'
  BY StatusIsFate, PTL
<1>4. (\A t \in validTasks :
         ~ Doomed(t) =>
           taskState[t] \in {"waiting", "blocked", "running", "completed", "failed"})'
  BY StatusIsFate, PTL
<1> QED BY <1>1, <1>2, <1>3, <1>4

\* A thread starts a task that was waiting.
LEMMA ThreadStarts ==
  ASSUME ThreadInv, ThreadInv', Apart, UNCHANGED << validTasks, revDepMap, nworkers >>,
         NEW t \in TaskId, pool[t] > 0, taskState[t] = "waiting",
         taskState' = [ taskState EXCEPT ![t] = "running" ]
  PROVE  ThreadPromise!Start(t)
<1>0. Apart' /\ UNCHANGED ThreadParents /\ Calm
  BY FileStays DEF ThreadInv
<1>1. \A s \in TaskId : taskState'[s] = IF s = t THEN "running" ELSE taskState[s]
  BY DEF ThreadInv, ThreadsAgree, ThreadTypeOK
<1>2. \A s : Doomed(s)' <=> Doomed(s)
  BY <1>1, FileStays DEF Doomed
<1>3. t \in validTasks /\ ~ Doomed(t) /\ \A p \in Parents(t) : taskState[p] = "completed"
  <2>1. Given(t)
    BY DEF Given
  <2> QED BY <1>0, <2>1, CalmIsClean, DoomedNotRun DEF InOrder, StateFits
<1>4. \A p \in ThreadParents[t] : ThreadStatus[p] = "done"
  <2>1. \A p \in Parents(t) : p \in validTasks /\ p \in TaskId
    BY DEF Parents, ThreadInv, ThreadsAgree
  <2>2. \A p \in Parents(t) : Fate(p) = "done"
    BY <1>0, <1>3, <2>1, DoomedNotRun DEF Fate
  <2> QED BY <2>1, <2>2, StatusIsFate DEF ThreadParents
<1>5. ThreadStatus[t] = "pending"
  BY <1>3, StatusIsFate DEF Fate
<1>6. ThreadStatus' = [ ThreadStatus EXCEPT ![t] = "active" ]
  <2>1. \A s \in TaskId : Fate(s)' = IF s = t THEN "active" ELSE Fate(s)
    BY <1>1, <1>2, <1>3 DEF Fate
  <2> QED BY <1>0, <2>1, StatusIsFate, StatusAfter
<1> QED BY <1>0, <1>4, <1>5, <1>6 DEF ThreadPromise!Start, ThreadParents

\* A running task completes.
LEMMA ThreadFinishes ==
  ASSUME ThreadInv, ThreadInv', Apart, UNCHANGED << validTasks, revDepMap, nworkers >>,
         NEW t \in TaskId, taskState[t] = "running",
         taskState' = [ taskState EXCEPT ![t] = "completed" ]
  PROVE  ThreadPromise!Finish(t)
<1>0. Apart' /\ UNCHANGED ThreadParents /\ Calm
  BY FileStays DEF ThreadInv
<1>1. \A s \in TaskId : taskState'[s] = IF s = t THEN "completed" ELSE taskState[s]
  BY DEF ThreadInv, ThreadsAgree, ThreadTypeOK
<1>2. \A s : Doomed(s)' <=> Doomed(s)
  BY <1>1, FileStays DEF Doomed
<1>3. t \in validTasks /\ ~ Doomed(t)
  BY <1>0, CalmIsClean, DoomedNotRun DEF InOrder, StateFits
<1>4. ThreadStatus[t] = "active"
  BY <1>3, StatusIsFate DEF Fate
<1>5. ThreadStatus' = [ ThreadStatus EXCEPT ![t] = "done" ]
  <2>1. \A s \in TaskId : Fate(s)' = IF s = t THEN "done" ELSE Fate(s)
    BY <1>1, <1>2, <1>3 DEF Fate
  <2> QED BY <1>0, <2>1, StatusIsFate, StatusAfter
<1> QED BY <1>0, <1>4, <1>5 DEF ThreadPromise!Finish, ThreadParents

\* A running task fails: what depends on it is lost at once, though the threads
\* have still to come to it.
LEMMA ThreadAbandons ==
  ASSUME ThreadInv, ThreadInv', Apart, UNCHANGED << validTasks, revDepMap, nworkers >>,
         NEW t \in TaskId, taskState[t] = "running",
         taskState' = [ taskState EXCEPT ![t] = "failed" ]
  PROVE  ThreadPromise!Abandon(t)
<1>0. Apart' /\ UNCHANGED ThreadParents /\ Calm /\ revDepMap \in [ TaskId -> SUBSET TaskId ]
  BY FileStays DEF ThreadInv, ThreadsAgree
<1>1. \A s \in TaskId : taskState'[s] = IF s = t THEN "failed" ELSE taskState[s]
  BY DEF ThreadInv, ThreadsAgree, ThreadTypeOK
<1>2. \A s : Doomed(s)' <=> Doomed(s) \/ s \in Descendants(t)
  BY <1>1, FileStays DEF Doomed
<1>3. t \in validTasks /\ ~ Doomed(t)
  BY <1>0, CalmIsClean, DoomedNotRun DEF InOrder, StateFits
<1>4. /\ ThreadStatus = [ s \in TaskId |-> Fate(s) ]
      /\ ThreadStatus' = [ s \in TaskId |-> Fate(s)' ]
  BY <1>0, StatusIsFate, StatusAfter
<1>5. ThreadStatus[t] = "active"
  BY <1>3, <1>4 DEF Fate
<1>6. ThreadStatus' \in [ TaskId -> ThreadPromise!Statuses ]
  <2>1. \A s \in TaskId : Fate(s)' \in ThreadPromise!Statuses
    BY DEF Fate, ThreadPromise!Statuses
  <2> QED BY <1>4, <2>1
<1>7. ThreadStatus'[t] = "failed"
  <2>1. ~ Doomed(t)'
    BY <1>0, <1>1, StatusAfter
  <2> QED BY <1>1, <1>3, <1>4, <2>1 DEF Fate
\* The parents of a task, and what has become of them.
<1>8. ASSUME NEW c \in TaskId, NEW p \in ThreadParents[c]
      PROVE  /\ c \in validTasks /\ p \in Parents(c) /\ p \in TaskId /\ c \in revDepMap[p]
             /\ ThreadStatus'[p] \in {"failed", "cancelled"} <=>
                  taskState'[p] = "failed" \/ Doomed(p)'
  <2>1. c \in validTasks /\ p \in Parents(c)
    BY <1>8 DEF ThreadParents
  <2>2. p \in validTasks /\ p \in TaskId /\ c \in revDepMap[p]
    BY <2>1 DEF Parents, ThreadInv, ThreadsAgree
  <2>3. /\ Doomed(p)' => taskState'[p] \notin {"running", "completed", "failed"}
        /\ ~ Doomed(p)' =>
             taskState'[p] \in {"waiting", "blocked", "running", "completed", "failed"}
    BY <1>0, <2>2, StatusAfter
  <2> QED BY <1>4, <2>1, <2>2, <2>3 DEF Fate
<1>9. ASSUME NEW c \in TaskId \ {t}
      PROVE  \/ /\ ThreadStatus'[c] = ThreadStatus[c]
                /\ ThreadStatus[c] = "pending" =>
                     \A p \in ThreadParents[c] :
                       ThreadStatus'[p] \notin {"failed", "cancelled"}
             \/ /\ ThreadStatus[c] = "pending"
                /\ ThreadStatus'[c] = "cancelled"
                /\ \E p \in ThreadParents[c] :
                     ThreadStatus'[p] \in {"failed", "cancelled"}
  <2>1. CASE Doomed(c)' <=> Doomed(c)
    <3>1. ThreadStatus'[c] = ThreadStatus[c]
      BY <1>1, <1>4, <2>1 DEF Fate
    <3>2. ASSUME ThreadStatus[c] = "pending", NEW p \in ThreadParents[c],
                 taskState'[p] = "failed" \/ Doomed(p)'
          PROVE  FALSE
      <4>1. ~ Doomed(c)
        BY <1>4, <3>2 DEF Fate
      <4>2. Doomed(c)'
        <5>1. p \in TaskId /\ c \in revDepMap[p]
          BY <1>8
        <5>2. \A q : Descendants(q)' = Descendants(q)
          BY FileStays
        <5>3. CASE taskState'[p] = "failed"
          BY <1>0, <5>1, <5>2, <5>3, DescendantsClosed DEF Doomed
        <5>4. CASE Doomed(p)'
          <6>1. PICK q \in TaskId : taskState'[q] = "failed" /\ p \in Descendants(q)
            BY <5>2, <5>4 DEF Doomed
          <6> QED BY <1>0, <5>1, <5>2, <6>1, DescendantsClosed DEF Doomed
        <5> QED BY <3>2, <5>3, <5>4
      <4> QED BY <2>1, <4>1, <4>2
    <3> QED BY <1>8, <3>1, <3>2
  <2>2. CASE Doomed(c)' /\ ~ Doomed(c)
    <3>1. CASE c \notin validTasks
      <4>1. ThreadStatus'[c] = "ignored" /\ ThreadStatus[c] = "ignored"
        BY <1>4, <3>1 DEF Fate
      <4> QED BY <4>1
    <3>2. CASE c \in validTasks
      <4>1. taskState[c] \in {"waiting", "blocked"}
        BY <1>0, <1>1, <2>2, <3>2, StatusIsFate, StatusAfter
      <4>2. ThreadStatus[c] = "pending" /\ ThreadStatus'[c] = "cancelled"
        BY <1>4, <2>2, <3>2, <4>1 DEF Fate
      <4>3. c \in Descendants(t)
        BY <1>2, <2>2
      <4>4. PICK p \in Descendants(t) \cup {t} : c \in revDepMap[p]
        BY <1>0, <4>3, DescendantsReached
      <4>5. p \in TaskId
        BY <1>0, <4>4, DescendantsClosed
      <4>6. p \in ThreadParents[c]
        BY <3>2, <4>4, <4>5 DEF ThreadParents, Parents, ThreadInv, ThreadsAgree, BackwardOnly
      <4>7. taskState'[p] = "failed" \/ Doomed(p)'
        BY <1>1, <1>2, <4>4, <4>5
      <4> QED BY <1>8, <4>2, <4>6, <4>7
    <3> QED BY <3>1, <3>2
  <2> QED BY <1>2, <2>1, <2>2
<1> QED BY <1>0, <1>5, <1>6, <1>7, <1>9
       DEF ThreadPromise!Abandon, ThreadPromise!Lost, ThreadParents

\* A thread cancels a dependant: it was lost already.
LEMMA CancelUnseen ==
  ASSUME ThreadInv, Calm, NEW th \in Threads, Thread(th), Cancel(th)
  PROVE  /\ Dependant(th) \in TaskId /\ Doomed(Dependant(th))
         /\ taskState' = [ taskState EXCEPT ![Dependant(th)] = "cancelled" ]
<1>0. ThreadsAgree /\ OnlyThread(th)
  BY OthersStay DEF ThreadInv
<1>1. PICK d \in TaskId : d = Dependant(th)
  BY <1>0, CancelTells
<1>2. calls[th] # << >> /\ calls[th][1].left # {} /\ calls[th][1].state \in Lost
  BY <1>0, CancelTells
<1>3. PICK q : q = calls[th][1].task
  OBVIOUS
<1>4. q \in Parents(d) /\ q \in TaskId /\ taskState[q] \in Lost
  BY <1>1, <1>2, <1>3, CalmIsClean, Visit
<1>5. taskState[q] = "failed" \/ Doomed(q)
  BY <1>4, CancelledIsDoomed DEF Lost
<1>6. Doomed(d)
  BY <1>4, <1>5, DoomSpreads DEF Parents
<1> QED BY <1>1, <1>6 DEF Cancel, SetState

\* Every step of a thread is a step of the workflow or is not seen: most do not
\* change the state of a task.
LEMMA ThreadStepImplements ==
  ASSUME ThreadInv, ThreadInv', Apart, NEW th \in Threads, Thread(th)
  PROVE  [ThreadPromise!Next]_(ThreadPromise!wfVars)
<1>0. /\ ThreadsAgree /\ Calm
      /\ UNCHANGED << validTasks, revDepMap, nworkers >>
      /\ taskState \in [ TaskId -> TaskStates ]
  BY DEF ThreadInv, ThreadsAgree, ThreadTypeOK, Thread
<1>1. CASE Take(th)
  <2>1. PICK t \in TaskId : pool[t] > 0 /\ taskState' = [ taskState EXCEPT ![t] = "running" ]
    BY <1>1 DEF Take, SetState
  <2>2. taskState[t] \in {"waiting", "running"}
    BY <1>0, <2>1, CalmIsClean DEF InOrder, StateFits
  <2>3. CASE taskState[t] = "waiting"
    BY <1>0, <2>1, <2>3, ThreadStarts DEF ThreadPromise!Next
  <2>4. CASE taskState[t] = "running"
    <3>1. taskState' = taskState
      BY <1>0, <2>1, <2>4
    <3> QED BY <1>0, <3>1, ThreadUnseen
  <2> QED BY <2>2, <2>3, <2>4
<1>2. CASE EpilogueVerdict(th)
  <2>1. PICK t \in TaskId : t = item[th]
    BY <1>0, <1>2, Actor DEF EpilogueVerdict
  <2>2. taskState[t] = "running"
    BY <1>0, <1>2, <2>1, CalmIsClean DEF EpilogueVerdict, InOrder, StateFits, Executing
  <2>3. \/ taskState' = [ taskState EXCEPT ![t] = "completed" ]
        \/ taskState' = [ taskState EXCEPT ![t] = "failed" ]
    BY <1>2, <2>1 DEF EpilogueVerdict, SetState
  <2> QED BY <1>0, <2>2, <2>3, ThreadFinishes, ThreadAbandons DEF ThreadPromise!Next
<1>3. CASE Unblock(th)
  <2>1. PICK d : d = Dependant(th)
    OBVIOUS
  <2>2. d \in TaskId
    <3>1. where[th] = "ready"
      BY <1>3 DEF Unblock
    <3>2. calls[th] # << >> /\ calls[th][1].left # {}
      BY <1>0, <3>1 DEF ThreadsAgree, StackFits, Visiting, Executing
    <3> QED BY <1>0, <2>1, <3>2, Actor
  <2>3. taskState[d] = "blocked"
    BY <1>0, <1>3, <2>1, <2>2, CalmIsClean DEF Unblock, InOrder, ReleaseFits, At
  <2>4. taskState' = [ taskState EXCEPT ![d] = "waiting" ]
    BY <1>3, <2>1 DEF Unblock, SetState
  <2>5. \A t \in TaskId :
          taskState'[t] = taskState[t] \/ (taskState[t] = "blocked" /\ taskState'[t] = "waiting")
    BY <1>0, <2>2, <2>3, <2>4
  <2> QED BY <1>0, <2>5, ThreadUnseen
<1>4. CASE Cancel(th)
  <2>1. PICK d \in TaskId : Doomed(d) /\ taskState' = [ taskState EXCEPT ![d] = "cancelled" ]
    BY <1>0, <1>4, CancelUnseen
  <2>2. \A t \in TaskId :
          taskState'[t] = taskState[t] \/ (Doomed(t) /\ taskState'[t] = "cancelled")
    BY <1>0, <2>1
  <2> QED BY <1>0, <2>2, ThreadUnseen
<1>5. CASE \/ CommandEnds(th) \/ EpilogueRetry(th) \/ Retry(th) \/ Call(th) \/ RemoveReads(th)
           \/ RemoveWrites(th) \/ TestBlocked(th) \/ Release(th) \/ PassOver(th) \/ Return(th)
  <2>1. taskState' = taskState
    BY <1>5 DEF CommandEnds, EpilogueRetry, Retry, Call, RemoveReads, RemoveWrites, TestBlocked,
                Release, PassOver, Return
  <2> QED BY <1>0, <2>1, ThreadUnseen
<1> QED BY <1>1, <1>2, <1>3, <1>4, <1>5 DEF Thread

LEMMA ThreadNextImplements ==
  ThreadInv /\ ThreadInv' /\ [Next]_vars => [ThreadPromise!Next]_(ThreadPromise!wfVars)
<1> SUFFICES ASSUME ThreadInv, ThreadInv', [Next]_vars
             PROVE  [ThreadPromise!Next]_(ThreadPromise!wfVars)
  OBVIOUS
<1>1. UNCHANGED << validTasks, revDepMap, nworkers >>
  BY DEF Next, RunScheduler, Thread, Returned, vars, tableVars, threadVars
<1>2. CASE ~ Apart
  BY <1>1, <1>2, MeetingUnseen
<1>3. CASE Apart /\ \E th \in Threads : Thread(th)
  BY <1>3, ThreadStepImplements
<1>4. CASE Apart /\ UNCHANGED taskState
  BY <1>1, <1>4, ThreadUnseen
<1>5. RunScheduler \/ UNCHANGED vars => UNCHANGED taskState
  BY DEF RunScheduler, vars, tableVars
<1> QED BY <1>2, <1>3, <1>4, <1>5 DEF Next, Returned

\* At the start nothing has failed.
LEMMA ThreadInitImplements == Init => ThreadPromise!Init
<1> SUFFICES ASSUME Init PROVE ThreadPromise!Init
  OBVIOUS
<1>0. ThreadInv
  BY ThreadStart
<1>1. PICK file \in Files :
        /\ \A t \in TaskId : /\ file[t].state \in {"waiting", "blocked", "invalid"}
                             /\ file[t].deps \in SUBSET (Nat \ {0})
                             /\ file[t].state = "waiting" => file[t].deps = {}
        /\ TableLoaded(file)
  BY LoadedEntries DEF Init
<1>2. \A t \in TaskId : taskState[t] \in {"waiting", "blocked", "invalid"}
  BY <1>1 DEF TableLoaded
<1>3. \A t \in TaskId : ~ Doomed(t)
  BY <1>2 DEF Doomed
<1>4. \A t \in TaskId : \A p \in ThreadParents[t] :
        p \in validTasks /\ p \in TaskId /\ p < t /\ Apart
  BY <1>0 DEF ThreadParents, Parents, ThreadInv, ThreadsAgree, BackwardOnly
<1>5. ThreadParents \in [ TaskId -> SUBSET TaskId ]
  BY <1>4 DEF ThreadParents
<1>6. /\ ThreadStatus \in [ TaskId -> {"ignored", "pending"} ]
      /\ Apart => \A t \in validTasks : ThreadStatus[t] = "pending"
  <2>1. CASE ~ Apart
    BY <2>1 DEF ThreadStatus
  <2>2. CASE Apart
    <3>1. ThreadStatus = [ t \in TaskId |-> Fate(t) ]
      BY <1>0, <2>2, StatusIsFate
    <3>2. validTasks \subseteq TaskId
      BY <1>0 DEF ThreadInv, ThreadsAgree
    <3>3. \A t \in TaskId : Fate(t) = IF t \in validTasks THEN "pending" ELSE "ignored"
      BY <1>0, <1>2, <1>3, <2>2, StatusIsFate DEF Fate
    <3> QED BY <3>1, <3>2, <3>3
  <2> QED BY <2>1, <2>2
<1> QED BY <1>4, <1>5, <1>6 DEF ThreadPromise!Init, ThreadParents

\* Where no two threads update the same task, what the threads do (operator(),
\* taskEpilogue and updateDependencies of threadengine.cpp) is what the workflow
\* promises: a failure takes with it, at once, exactly what depends on it.
THEOREM ThreadsKeepThePromise == Spec => ThreadsImplementWorkflow
<1>1. ThreadInv /\ ThreadInv' /\ [Next]_vars => [ThreadPromise!Next]_(ThreadPromise!wfVars)
  BY ThreadNextImplements
<1> QED BY <1>1, ThreadInitImplements, ThreadInvariant, PTL
       DEF Spec, ThreadsImplementWorkflow, ThreadPromise!Spec
===============================================================================
