------------------------------ MODULE StartupProofs ------------------------------
(***************************************************************************)
(* The program up to the point where the engine runs, proved for every     *)
(* task file and every configuration, and the lists of dependencies: what  *)
(* addDependencies reads and what dumpDependencies writes in the restart   *)
(* file that is read by the next run.                                      *)
(***************************************************************************)
EXTENDS Startup, DumpDependencies, TLAPS, SequenceTheorems

-------------------------------------------------------------------------------
(* What a line of the file stands for                                      *)

\* The ids of a list are lines of a file, and never the task itself.
LEMMA DepsTyped ==
  ASSUME NEW t \in Nat, NEW tokens \in Seq(Token)
  PROVE  DepsOf(t, tokens) \in SUBSET (Nat \ {0}) /\ t \notin DepsOf(t, tokens)
<1>1. ASSUME NEW tok \in ReadTokens(tokens) PROVE TokenIds(t, tok) \subseteq Int
  <2>1. tok \in Token
    BY DEF ReadTokens
  <2> QED BY <2>1 DEF TokenIds, Token
<1>2. ASSUME NEW d \in DepsOf(t, tokens) PROVE d \in Nat \ {0} /\ d # t
  <2>1. /\ d \in UNION { TokenIds(t, tok) : tok \in ReadTokens(tokens) }
        /\ d # t /\ d > 0
    BY DEF DepsOf
  <2>2. PICK tok \in ReadTokens(tokens) : d \in TokenIds(t, tok)
    BY <2>1
  <2> QED BY <1>1, <2>1, <2>2
<1> QED BY <1>2

\* A line the parser leaves without dependencies has no list.
LEMMA StateTyped ==
  ASSUME NEW t \in Nat, NEW tokens \in Seq(Token)
  PROVE  /\ StateOf(tokens) \in {"waiting", "blocked", "invalid"}
         /\ StateOf(tokens) = "waiting" => DepsOf(t, tokens) = {}
         /\ StateOf(tokens) = "invalid" <=> ~ Readable(tokens)
<1>1. tokens = << >> => ReadTokens(tokens) = {}
  BY DEF ReadTokens
<1>2. tokens = << >> => DepsOf(t, tokens) = {}
  BY <1>1 DEF DepsOf
<1> QED BY <1>2 DEF StateOf

\* What the text of line t stands for, once the lines have their types.
LEMMA ParsedLine ==
  ASSUME text \in [ TaskId -> LineText ], NEW t \in TaskId
  PROVE  /\ t \in Nat \ {0}
         /\ text[t].kind \in {"blank", "command", "broken", "list"}
         /\ text[t].tokens \in Seq(Token)
         /\ text[t].kind # "list" => text[t].tokens = << >>
         /\ text[t].kind = "command" =>
              ParsedFile[t] = [ state |-> "waiting", deps |-> {} ]
         /\ text[t].kind = "list" =>
              ParsedFile[t] = [ state |-> StateOf(text[t].tokens),
                                deps |-> DepsOf(t, text[t].tokens) ]
         /\ text[t].kind \in {"blank", "broken"} =>
              ParsedFile[t] = [ state |-> "invalid", deps |-> {} ]
BY TaskIdAssumption, LineAssumption DEF ParsedFile

LEMMA ParsedTyped ==
  ASSUME text \in [ TaskId -> LineText ], NEW t \in TaskId
  PROVE  /\ ParsedFile[t] \in ParsedTask
         /\ t \notin ParsedFile[t].deps
         /\ ParsedFile[t].deps \in SUBSET (Nat \ {0})
         /\ ParsedFile[t].state \in TaskStates
         /\ text[t].kind \in {"blank", "broken"} => ParsedFile[t].state = "invalid"
<1> DEFINE tokens == text[t].tokens
<1>1. t \in Nat /\ tokens \in Seq(Token)
  BY ParsedLine
<1>2. /\ DepsOf(t, tokens) \in SUBSET (Nat \ {0}) /\ t \notin DepsOf(t, tokens)
      /\ StateOf(tokens) \in {"waiting", "blocked", "invalid"}
      /\ StateOf(tokens) = "waiting" => DepsOf(t, tokens) = {}
  BY <1>1, DepsTyped, StateTyped
<1> DEFINE parsed == ParsedFile[t]
<1>3. \/ parsed = [ state |-> StateOf(tokens), deps |-> DepsOf(t, tokens) ]
      \/ parsed = [ state |-> "waiting", deps |-> {} ]
      \/ parsed = [ state |-> "invalid", deps |-> {} ]
  BY ParsedLine
<1>4. text[t].kind \in {"blank", "broken"} =>
        parsed = [ state |-> "invalid", deps |-> {} ]
  BY ParsedLine
<1> HIDE DEF parsed
<1>5. /\ parsed.state \in {"waiting", "blocked", "invalid"}
      /\ parsed.deps \in SUBSET (Nat \ {0})
      /\ t \notin parsed.deps
      /\ parsed.state = "waiting" => parsed.deps = {}
      /\ parsed = [ state |-> parsed.state, deps |-> parsed.deps ]
  BY <1>2, <1>3
<1>6. parsed \in ParsedTask
  BY <1>5 DEF ParsedTask
<1> QED BY <1>4, <1>5, <1>6 DEF parsed, TaskStates

\* Before the first line is read nothing is in the tables.
LEMMA FileStarts ==
  ASSUME FileInit, strict \in BOOLEAN, text \in [ TaskId -> LineText ]
  PROVE  FileInv
<1>1. FileTypeOK
  <2>1. /\ taskState \in [ TaskId -> TaskStates ]
        /\ dependencies \in [ TaskId -> SUBSET (Nat \ {0}) ]
        /\ revDepMap \in [ TaskId -> SUBSET known ]
    BY DEF FileInit, TaskStates
  <2>2. /\ phase \in {"parse", "check", "checked"} /\ next \in Nat \ {0}
        /\ known \subseteq TaskId /\ validTasks \subseteq known
    BY DEF FileInit
  <2>3. fileErrors \in BOOLEAN
    BY Zenon DEF FileInit
  <2> QED BY <2>1, <2>2, <2>3 DEF FileTypeOK
<1>2. ReadSoFar
  BY TaskIdAssumption DEF FileInit, ReadSoFar
<1>3. CheckedSoFar
  BY DEF FileInit, CheckedSoFar
<1> QED BY <1>1, <1>2, <1>3 DEF FileInv

-------------------------------------------------------------------------------
(* parseTaskFile                                                           *)

\* What a line changes: the entry of that line, and nothing of the others.
LEMMA LineRead ==
  ASSUME FileInv, ParseLine, NEW n, n = next
  PROVE  /\ FileTypeOK'
         /\ text' = text /\ ParsedFile' = ParsedFile
         /\ \A t \in TaskId \ {n} :
              /\ t \in known' <=> t \in known
              /\ t \in validTasks' <=> t \in validTasks
              /\ taskState'[t] = taskState[t]
              /\ dependencies'[t] = dependencies[t]
         /\ fileErrors => fileErrors'
         /\ ~ fileErrors' =>
              /\ AsParsed(n)'
              /\ n \in validTasks' <=> ParsedFile[n].state # "invalid"
              /\ taskState'[n] = ParsedFile[n].state
<1> DEFINE tokens == text[n].tokens
<1>1. /\ n \in TaskId /\ n \in Nat \ {0}
      /\ phase = "parse" /\ phase' = "parse" /\ next' = n + 1
      /\ revDepMap' = revDepMap /\ strict' = strict /\ text' = text
  BY n = next, TaskIdAssumption DEF ParseLine
<1>2. ParsedFile' = ParsedFile
  BY <1>1 DEF ParsedFile
<1>3. FileTypeOK /\ ReadSoFar
  BY DEF FileInv
<1>4. n \notin known /\ n \notin validTasks /\ taskState[n] = "invalid" /\ dependencies[n] = {}
  BY <1>1, <1>3 DEF ReadSoFar, FileTypeOK
<1>5. /\ tokens \in Seq(Token)
      /\ text[n].kind = "command" => ParsedFile[n] = [ state |-> "waiting", deps |-> {} ]
      /\ text[n].kind = "list" =>
           ParsedFile[n] = [ state |-> StateOf(tokens), deps |-> DepsOf(n, tokens) ]
      /\ text[n].kind \in {"blank", "broken"} =>
           ParsedFile[n] = [ state |-> "invalid", deps |-> {} ]
  BY <1>1, <1>3, ParsedLine DEF FileTypeOK
<1>6. /\ DepsOf(n, tokens) \in SUBSET (Nat \ {0})
      /\ StateOf(tokens) \in TaskStates
      /\ StateOf(tokens) = "invalid" <=> ~ Readable(tokens)
  BY <1>1, <1>5, DepsTyped, StateTyped DEF TaskStates
<1> HIDE DEF tokens
<1> DEFINE Others ==
             \A t \in TaskId \ {n} :
               /\ t \in known' <=> t \in known
               /\ t \in validTasks' <=> t \in validTasks
               /\ taskState'[t] = taskState[t]
               /\ dependencies'[t] = dependencies[t]
           Entry ==
             /\ n \in known' <=> text[n].kind # "blank"
             /\ dependencies'[n] = ParsedFile[n].deps
             /\ strict => text[n].kind # "broken"
             /\ n \in validTasks' <=> ParsedFile[n].state # "invalid"
             /\ taskState'[n] = ParsedFile[n].state
           Typed ==
             /\ taskState' \in [ TaskId -> TaskStates ]
             /\ dependencies' \in [ TaskId -> SUBSET (Nat \ {0}) ]
             /\ known' \subseteq TaskId /\ known \subseteq known'
             /\ validTasks' \subseteq known'
             /\ fileErrors' \in BOOLEAN
<1>7. Typed /\ Others /\ (fileErrors => fileErrors') /\ (~ fileErrors' => Entry)
  <2>1. CASE SkipLine(n)
    <3>1. ParsedFile[n].state = "invalid" /\ ParsedFile[n].deps = {}
      BY <1>5, <2>1 DEF SkipLine
    <3> QED BY <1>3, <1>4, <2>1, <3>1 DEF SkipLine, FileTypeOK
  <2>2. CASE AcceptCommand(n)
    <3>1. ParsedFile[n].state = "waiting" /\ ParsedFile[n].deps = {}
      BY <1>5, <2>2 DEF AcceptCommand
    <3> QED BY <1>1, <1>3, <1>4, <2>2, <3>1 DEF AcceptCommand, FileTypeOK, TaskStates
  <2>3. CASE RejectLine(n)
    <3>1. ParsedFile[n].state = "invalid" /\ ParsedFile[n].deps = {}
      BY <1>5, <2>3 DEF RejectLine
    <3> QED BY <1>1, <1>3, <1>4, <2>3, <3>1 DEF RejectLine, FileTypeOK, TaskStates
  <2>4. CASE ReadList(n)
    <3>1. /\ ParsedFile[n].state = StateOf(tokens) /\ ParsedFile[n].deps = DepsOf(n, tokens)
          /\ known' = known \cup {n}
          /\ taskState' = [ taskState EXCEPT ![n] = StateOf(tokens) ]
          /\ dependencies' = [ dependencies EXCEPT ![n] = DepsOf(n, tokens) ]
          /\ validTasks' = IF Readable(tokens) THEN validTasks \cup {n} ELSE validTasks
          /\ fileErrors' = fileErrors
          /\ text[n].kind = "list"
      BY <1>5, <2>4 DEF ReadList, tokens
    <3>2. Typed /\ Others
      BY <1>1, <1>3, <1>6, <3>1 DEF FileTypeOK
    <3>3. Entry
      BY <1>1, <1>3, <1>4, <1>6, <3>1 DEF FileTypeOK
    <3> QED BY <3>1, <3>2, <3>3
  <2> QED BY <2>1, <2>2, <2>3, <2>4 DEF ParseLine
<1>8. FileTypeOK'
  <2>1. revDepMap' \in [ TaskId -> SUBSET known' ]
    BY <1>1, <1>3, <1>7 DEF FileTypeOK
  <2>2. next' \in Nat \ {0}
    BY <1>1
  <2> QED BY <1>1, <1>3, <1>7, <2>1, <2>2 DEF FileTypeOK
<1>9. Entry => AsParsed(n)'
  BY <1>1, <1>2 DEF AsParsed
<1> QED BY <1>1, <1>2, <1>7, <1>8, <1>9

LEMMA ParseLineKeeps ==
  ASSUME FileInv, ParseLine
  PROVE  FileInv'
<1> PICK n : n = next
  OBVIOUS
<1>1. /\ FileTypeOK' /\ ParsedFile' = ParsedFile /\ text' = text
      /\ \A t \in TaskId \ {n} :
           /\ t \in known' <=> t \in known
           /\ t \in validTasks' <=> t \in validTasks
           /\ taskState'[t] = taskState[t]
           /\ dependencies'[t] = dependencies[t]
      /\ fileErrors => fileErrors'
      /\ ~ fileErrors' => /\ AsParsed(n)'
                          /\ n \in validTasks' <=> ParsedFile[n].state # "invalid"
                          /\ taskState'[n] = ParsedFile[n].state
  BY LineRead
<1>2. /\ next = n /\ n \in TaskId /\ n \in Nat \ {0} /\ phase = "parse" /\ phase' = "parse"
      /\ next' = n + 1 /\ revDepMap' = revDepMap /\ strict' = strict
  BY TaskIdAssumption DEF ParseLine
<1>3. ReadSoFar /\ TaskId \subseteq Nat \ {0}
  BY TaskIdAssumption DEF FileInv
<1>4. ASSUME NEW t \in TaskId, t < next'
      PROVE  ~ fileErrors' => /\ AsParsed(t)'
                              /\ t \in validTasks' <=> ParsedFile'[t].state # "invalid"
                              /\ taskState'[t] = ParsedFile'[t].state
  <2>1. CASE t = n
    BY <1>1, <2>1
  <2>2. CASE t # n
    <3>1. t < n
      BY <1>2, <1>3, <1>4, <2>2
    <3>2. ~ fileErrors' => /\ AsParsed(t)
                           /\ t \in validTasks <=> ParsedFile[t].state # "invalid"
                           /\ taskState[t] = ParsedFile[t].state
      BY <1>1, <1>2, <1>3, <3>1 DEF ReadSoFar
    <3> QED BY <1>1, <1>2, <2>2, <3>2 DEF AsParsed
  <2> QED BY <2>1, <2>2
<1>5. ASSUME NEW t \in TaskId, ~ (t < next')
      PROVE  taskState'[t] = "invalid" /\ dependencies'[t] = {} /\ t \notin known'
  <2>1. t # n /\ ~ (t < n)
    BY <1>2, <1>3, <1>5
  <2> QED BY <1>1, <1>2, <1>3, <2>1 DEF ReadSoFar
<1>6. revDepMap' = [ t \in TaskId |-> {} ]
  BY <1>2, <1>3 DEF ReadSoFar
<1>7. ReadSoFar'
  BY <1>4, <1>5, <1>6 DEF ReadSoFar
<1>8. CheckedSoFar'
  BY <1>2 DEF CheckedSoFar
<1> QED BY <1>1, <1>7, <1>8 DEF FileInv

\* Once the last line is read every line is: there is no gap between them.
LEMMA EndOfFileKeeps ==
  ASSUME FileInv, EndOfFile
  PROVE  FileInv'
<1>1. /\ FileTypeOK /\ ReadSoFar /\ TaskId \subseteq Nat \ {0}
      /\ next \in Nat \ {0} /\ next \notin TaskId
      /\ phase = "parse" /\ phase' = "check" /\ next' = 1
      /\ UNCHANGED << tableVars, strict, text, known, fileErrors >>
  BY TaskIdAssumption DEF FileInv, FileTypeOK, EndOfFile
<1>2. ParsedFile' = ParsedFile
  BY <1>1 DEF ParsedFile
<1>3. ASSUME NEW t \in TaskId PROVE t < next
  <2>1. 1..t \subseteq TaskId
    BY LinesAssumption
  <2> QED BY <1>1, <2>1
<1>4. FileTypeOK'
  BY <1>1 DEF FileTypeOK, tableVars
<1>5. ASSUME NEW t \in TaskId, ~ fileErrors
      PROVE  /\ AsParsed(t)' /\ taskState[t] = ParsedFile[t].state
             /\ t \in validTasks <=> ParsedFile[t].state # "invalid"
             /\ revDepMap[t] = {}
  BY <1>1, <1>2, <1>3, <1>5 DEF ReadSoFar, AsParsed, tableVars
<1>6. CheckedSoFar'
  <2>1. \A c \in TaskId : ~ (c < 1)
    BY <1>1
  <2>2. ASSUME NEW t \in TaskId
        PROVE  { c \in TaskId : /\ c < 1 /\ ParsedFile[c].state # "invalid"
                               /\ t \in ParsedFile[c].deps
                               /\ Accepted(t, c, validTasks) } = {}
    BY <2>1
  <2> QED BY <1>1, <1>2, <1>5, <2>1, <2>2 DEF CheckedSoFar, tableVars
<1>7. ReadSoFar'
  BY <1>1 DEF ReadSoFar
<1> QED BY <1>4, <1>6, <1>7 DEF FileInv

-------------------------------------------------------------------------------
(* checkDependencies                                                       *)

\* A turn of the loop decides about one task by the earlier ones, and that is
\* never taken back: what comes later only drops itself.
LEMMA CheckNextKeeps ==
  ASSUME FileInv, CheckNext
  PROVE  FileInv'
<1> DEFINE n == next
           Deps(t) == ParsedFile[t].deps
           Parsed(t) == ParsedFile[t].state # "invalid"
<1>1. /\ FileTypeOK /\ CheckedSoFar /\ TaskId \subseteq Nat \ {0}
      /\ n \in TaskId /\ n \in Nat \ {0}
      /\ phase = "check" /\ phase' = "check" /\ next' = n + 1
      /\ dependencies' = dependencies /\ known' = known
      /\ strict' = strict /\ text' = text
  BY TaskIdAssumption DEF FileInv, CheckNext
<1>2. ParsedFile' = ParsedFile
  BY <1>1 DEF ParsedFile
<1>3. \A t \in TaskId : Deps(t) \in SUBSET (Nat \ {0})
  BY <1>1, ParsedTyped DEF FileTypeOK
<1>4. FileTypeOK'
  <2>1. CASE CheckTask(n)
    <3>1. /\ taskState' \in [ TaskId -> TaskStates ]
          /\ validTasks' \subseteq known
      BY <1>1, <2>1 DEF FileTypeOK, CheckTask, DropUnless, TaskStates
    <3>2. fileErrors' \in BOOLEAN
      BY <2>1 DEF CheckTask, DropUnless
    <3>3. revDepMap' \in [ TaskId -> SUBSET known ]
      BY <1>1, <2>1 DEF FileTypeOK, CheckTask
    <3> QED BY <1>1, <3>1, <3>2, <3>3 DEF FileTypeOK
  <2>2. CASE PassOver(n)
    BY <1>1, <2>2 DEF FileTypeOK, PassOver
  <2> QED BY <2>1, <2>2 DEF CheckNext
<1>5. SUFFICES ASSUME ~ fileErrors' PROVE CheckedSoFar'
  BY <1>1, <1>4 DEF FileInv, ReadSoFar, CheckedSoFar
<1>6. ~ fileErrors
  BY <1>5 DEF CheckNext, CheckTask, DropUnless, PassOver
<1>7. \A t \in TaskId :
        /\ AsParsed(t)
        /\ taskState[t] = IF t \in validTasks THEN ParsedFile[t].state ELSE "invalid"
        /\ t \in validTasks <=>
             /\ Parsed(t)
             /\ t < n => \A d \in Deps(t) : Accepted(d, t, validTasks)
        /\ strict /\ Parsed(t) => t \in validTasks
        /\ revDepMap[t] =
             { c \in TaskId : /\ c < n /\ Parsed(c)
                              /\ t \in Deps(c) /\ Accepted(t, c, validTasks) }
  BY <1>1, <1>6 DEF CheckedSoFar
<1> DEFINE ok == \A d \in Deps(n) : Accepted(d, n, validTasks)
<1>8. /\ validTasks' = IF ok THEN validTasks ELSE validTasks \ {n}
      /\ \A t \in TaskId :
           /\ taskState'[t] = IF t = n /\ ~ ok THEN "invalid" ELSE taskState[t]
           /\ revDepMap'[t] = IF t \in Deps(n) /\ Accepted(t, n, validTasks) /\ Parsed(n)
                              THEN revDepMap[t] \cup {n} ELSE revDepMap[t]
      /\ strict /\ Parsed(n) => ok
  <2>1. CASE CheckTask(n)
    <3>1. Parsed(n)
      BY <1>1, <1>7, <2>1 DEF CheckTask
    <3>2. dependencies[n] = Deps(n)
      BY <1>1, <1>7 DEF AsParsed
    <3>3. Registered(n) = { d \in Deps(n) : Accepted(d, n, validTasks) }
      BY <1>1, <3>2 DEF Registered, Accepted, FileTypeOK
    <3>4. ok <=> Registered(n) = dependencies[n]
      BY <3>2, <3>3
    <3>5. /\ validTasks' = IF ok THEN validTasks ELSE validTasks \ {n}
          /\ taskState' = IF ok THEN taskState ELSE [ taskState EXCEPT ![n] = "invalid" ]
          /\ fileErrors' = (fileErrors \/ (strict /\ ~ ok))
      BY <2>1, <3>4 DEF CheckTask, DropUnless
    <3>6. \A t \in TaskId :
            revDepMap'[t] = IF t \in Registered(n) THEN revDepMap[t] \cup {n} ELSE revDepMap[t]
      BY <2>1 DEF CheckTask
    <3>7. strict => ok
      BY <1>5, <3>5
    <3> QED BY <1>1, <3>1, <3>3, <3>5, <3>6, <3>7 DEF FileTypeOK
  <2>2. CASE PassOver(n)
    <3>1. ~ Parsed(n) /\ n \notin validTasks
      <4>1. n \in known => n \notin validTasks \/ ~ Parsed(n)
        BY <1>1, <1>7, <2>2 DEF PassOver
      <4>2. n \notin known => ~ Parsed(n)
        BY <1>1, <1>7, ParsedTyped DEF AsParsed, FileTypeOK
      <4>3. n \in known => ~ Parsed(n)
        BY <1>1, <1>7, <4>1
      <4> QED BY <1>1, <1>7, <4>2, <4>3
    <3>2. taskState[n] = "invalid"
      BY <1>1, <1>7, <3>1
    <3> QED BY <1>1, <2>2, <3>1, <3>2 DEF PassOver
  <2> QED BY <2>1, <2>2 DEF CheckNext
<1> HIDE DEF n, Deps, Parsed, ok
<1>9. \A t \in TaskId : \A d \in Nat :
        t <= n => (Accepted(d, t, validTasks') <=> Accepted(d, t, validTasks))
  BY <1>1, <1>8 DEF Accepted
<1>10. ASSUME NEW t \in TaskId
       PROVE  t \in validTasks' <=>
                /\ Parsed(t)
                /\ t < n + 1 => \A d \in Deps(t) : Accepted(d, t, validTasks')
  <2>1. CASE t < n
    BY <1>1, <1>3, <1>7, <1>8, <1>9, <2>1
  <2>2. CASE t = n
    <3>1. n \in validTasks <=> Parsed(n)
      BY <1>1, <1>7
    <3>2. ok <=> \A d \in Deps(n) : Accepted(d, n, validTasks')
      BY <1>1, <1>3, <1>9 DEF ok
    <3> QED BY <1>1, <1>8, <2>2, <3>1, <3>2
  <2>3. CASE t > n
    BY <1>1, <1>7, <1>8, <2>3
  <2> QED BY <1>1, <2>1, <2>2, <2>3
<1>11. ASSUME NEW t \in TaskId
       PROVE  revDepMap'[t] =
                { c \in TaskId : /\ c < n + 1 /\ Parsed(c)
                                 /\ t \in Deps(c) /\ Accepted(t, c, validTasks') }
  <2>1. revDepMap[t] = { c \in TaskId : /\ c < n /\ Parsed(c)
                                        /\ t \in Deps(c) /\ Accepted(t, c, validTasks') }
    BY <1>1, <1>7, <1>9
  <2>2. Accepted(t, n, validTasks) <=> Accepted(t, n, validTasks')
    BY <1>1, <1>9
  <2>3. \A c \in TaskId : c < n + 1 <=> c < n \/ c = n
    BY <1>1
  <2> QED BY <1>1, <1>8, <2>1, <2>2, <2>3
<1>12. ASSUME NEW t \in TaskId
       PROVE  /\ AsParsed(t)'
              /\ taskState'[t] = IF t \in validTasks' THEN ParsedFile[t].state ELSE "invalid"
              /\ strict /\ Parsed(t) => t \in validTasks'
  <2>1. AsParsed(t)'
    BY <1>1, <1>2, <1>7 DEF AsParsed
  <2> QED BY <1>1, <1>7, <1>8, <2>1
<1> QED BY <1>1, <1>2, <1>10, <1>11, <1>12 DEF CheckedSoFar, n, Deps, Parsed

\* The other steps of init.
LEMMA LoadFileKeeps ==
  ASSUME FileInv, LoadFile
  PROVE  FileInv'
<1>1. CASE CannotRead
  BY <1>1 DEF CannotRead, FileInv, FileTypeOK, ReadSoFar, CheckedSoFar, tableVars
<1>2. CASE ParseLine
  BY <1>2, ParseLineKeeps
<1>3. CASE EndOfFile
  BY <1>3, EndOfFileKeeps
<1>4. CASE CheckNext
  BY <1>4, CheckNextKeeps
<1>5. CASE EndOfCheck
  <2>1. /\ FileTypeOK /\ CheckedSoFar /\ TaskId \subseteq Nat \ {0}
        /\ next \in Nat \ {0} /\ next \notin TaskId
        /\ phase = "check" /\ phase' = "checked"
        /\ UNCHANGED << tableVars, strict, text, next, known, fileErrors >>
    BY <1>5, TaskIdAssumption DEF EndOfCheck, FileInv, FileTypeOK
  <2>2. ASSUME NEW t \in TaskId PROVE t < next
    <3>1. 1..t \subseteq TaskId
      BY LinesAssumption
    <3> QED BY <2>1, <3>1
  <2>3. FileTypeOK' /\ ReadSoFar'
    BY <2>1 DEF FileTypeOK, ReadSoFar, tableVars
  <2>4. ParsedFile' = ParsedFile
    BY <2>1 DEF ParsedFile
  <2>5. \A t \in TaskId : AsParsed(t)' <=> AsParsed(t)
    BY <2>1, <2>4 DEF AsParsed, tableVars
  <2>6. CheckedSoFar'
    BY <2>1, <2>2, <2>4, <2>5 DEF CheckedSoFar, tableVars
  <2> QED BY <2>3, <2>6 DEF FileInv
<1> QED BY <1>1, <1>2, <1>3, <1>4, <1>5 DEF LoadFile

-------------------------------------------------------------------------------
(* main                                                                    *)

LEMMA StartupInitInv == StartupInit => StartupInv
<1> SUFFICES ASSUME StartupInit PROVE StartupInv
  OBVIOUS
<1>1. PICK s \in Starts : start \in s.worlds /\ text \in s.files
  BY DEF StartupInit
<1>2. World(start) /\ text \in [ TaskId -> LineText ]
  BY <1>1, StartsAssumption
<1>3. FileInv
  BY <1>2, FileStarts DEF StartupInit
<1>4. StartTypeOK
  <2>1. ready \in BOOLEAN /\ remote \in BOOLEAN
    BY Zenon DEF StartupInit
  <2>2. engine \in {"", "basic", "mpi", "thread"}
    BY Zenon DEF StartupInit
  <2>3. stage \in Stages /\ nworkers = 0
    BY Zenon DEF StartupInit, Stages
  <2>4. nworkers \in Int
    BY <2>3
  <2> QED BY <1>2, <2>1, <2>2, <2>3, <2>4, Zenon DEF StartTypeOK
<1>5. AsConfigured /\ AsCounted /\ AsPlaced
  BY DEF StartupInit, FileInit, AsConfigured, AsCounted, AsPlaced, Configured, Created, Counted
<1> QED BY <1>3, <1>4, <1>5 DEF StartupInv

\* What the configuration holds when there is one.
LEMMA ConfigRead ==
  ASSUME StartupInv, Configured
  PROVE  /\ DOMAIN contents = DOMAIN Found.entries \cup DOMAIN start.env
         /\ \A key \in DOMAIN start.env : contents[key] = start.env[key]
         /\ KeyExists("NWorkers") => contents["NWorkers"] \in Int
         /\ KeyExists("NodeList") => contents["NodeList"] \in Seq(STRING)
<1>1. contents = Inserted(Found.entries, start.env) /\ World(start)
  BY DEF StartupInv, AsConfigured, StartTypeOK
<1>2. Readings(Found.entries) /\ Readings(start.env)
  BY <1>1 DEF World, Found
<1>3. /\ DOMAIN contents = DOMAIN Found.entries \cup DOMAIN start.env
      /\ \A key \in DOMAIN start.env : contents[key] = start.env[key]
      /\ \A key \in DOMAIN Found.entries \ DOMAIN start.env :
           contents[key] = Found.entries[key]
  BY <1>1 DEF Inserted
<1>4. ASSUME NEW key, NEW S,
             key \in DOMAIN Found.entries => Found.entries[key] \in S,
             key \in DOMAIN start.env => start.env[key] \in S
      PROVE  KeyExists(key) => contents[key] \in S
  BY <1>3, <1>4 DEF KeyExists
<1>5. KeyExists("NWorkers") => contents["NWorkers"] \in Int
  BY <1>2, <1>4 DEF Readings
<1>6. KeyExists("NodeList") => contents["NodeList"] \in Seq(STRING)
  BY <1>2, <1>4 DEF Readings
<1> QED BY <1>3, <1>5, <1>6

\* The file part depends on its own variables only.
LEMMA FileInvElsewhere == FileInv /\ UNCHANGED fileVars => FileInv'
<1> SUFFICES ASSUME FileInv, UNCHANGED fileVars PROVE FileInv'
  OBVIOUS
<1>1. ParsedFile' = ParsedFile
  BY DEF ParsedFile, fileVars, loadVars
<1>2. FileTypeOK' /\ (\A t \in TaskId : AsParsed(t)' <=> AsParsed(t))
  BY <1>1 DEF FileInv, FileTypeOK, AsParsed, fileVars, loadVars, tableVars
<1> QED BY <1>1, <1>2 DEF FileInv, ReadSoFar, CheckedSoFar, fileVars, loadVars, tableVars

LEMMA StartupStep == StartupInv /\ [StartupNext]_allVars => StartupInv'
<1> SUFFICES ASSUME StartupInv, [StartupNext]_allVars PROVE StartupInv'
  OBVIOUS
<1> USE DEF Configured, Created, Counted
<1>0. /\ FileInv /\ StartTypeOK /\ AsConfigured /\ AsCounted /\ AsPlaced
      /\ start.ranks \in Nat \ {0} /\ start.cpus \in Nat \ {0} /\ nworkers \in Int
  BY DEF StartupInv, StartTypeOK, World
<1>1. CASE ReadConfig
  <2>1. /\ stage = "configure" /\ stage' \in {"create", "exited"}
        /\ stage' = "create" => Found.exists /\ contents' = Inserted(Found.entries, start.env)
        /\ UNCHANGED << fileVars, start, engine, ready, nworkers, freeWorkers, workerNodes,
                        remote >>
    BY <1>1 DEF ReadConfig
  <2>2. FileInv'
    BY <1>0, <2>1, FileInvElsewhere
  <2>3. Found' = Found /\ UNCHANGED << phase, next, strict, fileErrors >>
    BY <2>1 DEF Found, fileVars, loadVars
  <2>4. StartTypeOK'
    BY <1>0, <2>1 DEF StartTypeOK, Stages
  <2>5. AsConfigured' /\ AsCounted' /\ AsPlaced'
    BY <1>0, <2>1, <2>3 DEF AsConfigured, AsCounted, AsPlaced
  <2> QED BY <2>2, <2>4, <2>5 DEF StartupInv
<1>2. CASE CreateEngine
  <2>1. /\ stage = "create"
        /\ UNCHANGED << tableVars, text, phase, next, known, fileErrors,
                        start, contents, ready, nworkers, freeWorkers, workerNodes, remote >>
        /\ \/ /\ engine' = IF EngineName = "" THEN "basic" ELSE EngineName
              /\ engine' \in {"basic", "mpi", "thread"}
              /\ strict' = HasValue("StrictCheck", "yes")
              /\ stage' = IF engine' = "mpi" THEN "join" ELSE "load"
           \/ stage' = "exited" /\ UNCHANGED << engine, strict >>
    BY <1>2, StartsAssumption DEF CreateEngine
  <2>2. strict' \in BOOLEAN
    BY <1>0, <2>1 DEF HasValue, KeyExists, FileInv, FileTypeOK
  <2>3. phase = "parse" /\ next = 1 /\ ParsedFile' = ParsedFile
    BY <1>0, <2>1 DEF AsConfigured, ParsedFile
  <2>4. FileInv'
    <3>1. FileTypeOK'
      BY <1>0, <2>1, <2>2 DEF FileInv, FileTypeOK, tableVars
    <3>2. \A t \in TaskId : ~ (t < next)
      BY <2>3, TaskIdAssumption
    <3>3. ReadSoFar'
      BY <1>0, <2>1, <2>3, <3>2 DEF FileInv, ReadSoFar, tableVars
    <3>4. CheckedSoFar'
      BY <2>1, <2>3 DEF CheckedSoFar
    <3> QED BY <3>1, <3>3, <3>4 DEF FileInv
  <2>5. StartTypeOK'
    BY <1>0, <2>1 DEF StartTypeOK, Stages
  <2>6. AsConfigured'
    BY <1>0, <2>1, <2>3 DEF AsConfigured, Found, EngineName, HasValue, KeyExists
  <2>7. AsCounted' /\ AsPlaced'
    BY <1>0, <2>1 DEF AsCounted, AsPlaced
  <2> QED BY <2>4, <2>5, <2>6, <2>7 DEF StartupInv
<1>3. CASE JoinWorld
  <2>1. /\ stage = "join" /\ stage' = "load" /\ nworkers' = start.ranks - 1
        /\ UNCHANGED << fileVars, start, contents, engine, ready, freeWorkers, workerNodes,
                        remote >>
    BY <1>3 DEF JoinWorld
  <2>2. FileInv'
    BY <1>0, <2>1, FileInvElsewhere
  <2>3. UNCHANGED << phase, next, strict, fileErrors >>
    BY <2>1 DEF fileVars, loadVars
  <2>4. StartTypeOK'
    <3>1. nworkers' \in Int /\ stage' \in Stages
      BY <1>0, <2>1 DEF Stages
    <3> QED BY <1>0, <2>1, <3>1 DEF StartTypeOK
  <2>5. AsConfigured'
    BY <1>0, <2>1, <2>3 DEF AsConfigured, Found, EngineName, HasValue, KeyExists
  <2>6. AsCounted' /\ AsPlaced'
    BY <1>0, <2>1 DEF AsCounted, AsPlaced
  <2> QED BY <2>2, <2>4, <2>5, <2>6 DEF StartupInv
<1>4. CASE LoadTasks
  <2>1. stage = "load" /\ LoadFile /\ UNCHANGED startVars
    BY <1>4 DEF LoadTasks
  <2>2. FileInv' /\ strict' = strict
    BY <1>0, <2>1, LoadFileKeeps
       DEF LoadFile, CannotRead, ParseLine, EndOfFile, CheckNext, EndOfCheck
  <2>3. StartTypeOK'
    BY <1>0, <2>1 DEF StartTypeOK, startVars
  <2>4. AsConfigured'
    BY <1>0, <2>1, <2>2 DEF AsConfigured, Found, EngineName, HasValue, KeyExists, startVars
  <2>5. AsCounted' /\ AsPlaced'
    BY <1>0, <2>1 DEF AsCounted, AsPlaced, startVars
  <2> QED BY <2>2, <2>3, <2>4, <2>5 DEF StartupInv
<1>5. CASE CountWorkers
  <2> DEFINE number == IF nworkers # 0 THEN nworkers
                       ELSE IF KeyExists("NWorkers") THEN contents["NWorkers"]
                       ELSE DefaultNWorkers
  <2>1. /\ stage = "load" /\ phase = "checked" /\ nworkers' = number
        /\ ready' = (~ fileErrors /\ nworkers' > 0)
        /\ freeWorkers' = IF engine = "thread" THEN << >> ELSE [ w \in 1..nworkers' |-> w ]
        /\ stage' = IF engine = "basic" /\ KeyExists("NodeList") THEN "nodes" ELSE "started"
        /\ UNCHANGED << fileVars, start, contents, engine, workerNodes, remote >>
    BY <1>5 DEF CountWorkers
  <2>2. FileInv' /\ UNCHANGED << phase, next, strict, fileErrors >>
    BY <1>0, <2>1, FileInvElsewhere DEF fileVars, loadVars
  <2>3. number \in Int
    BY <1>0, <2>1, ConfigRead DEF DefaultNWorkers
  <2>4. nworkers = IF engine = "mpi" THEN start.ranks - 1 ELSE 0
    BY <1>0, <2>1 DEF AsCounted
  <2>5. number = IF engine = "mpi" /\ start.ranks > 1 THEN start.ranks - 1
                 ELSE IF KeyExists("NWorkers") THEN contents["NWorkers"]
                 ELSE DefaultNWorkers
    BY <1>0, <2>4
  <2>6. ready' \in BOOLEAN
    BY <2>1
  <2>7. StartTypeOK'
    BY <1>0, <2>1, <2>3, <2>6 DEF StartTypeOK, Stages
  <2>8. AsConfigured'
    BY <1>0, <2>1, <2>2 DEF AsConfigured, Found, EngineName, HasValue, KeyExists
  <2>9. AsCounted'
    BY <2>1, <2>2, <2>5 DEF AsCounted, KeyExists, DefaultNWorkers
  <2>10. AsPlaced'
    BY <1>0, <2>1 DEF AsPlaced, KeyExists
  <2> QED BY <2>2, <2>7, <2>8, <2>9, <2>10 DEF StartupInv
<1>6. CASE SetUpNodes
  <2> DEFINE nodes == contents["NodeList"]
             enough == nworkers <= Len(nodes)
  <2>1. /\ stage = "nodes" /\ stage' = "started"
        /\ workerNodes' = IF enough THEN SubSeq(nodes, 1, nworkers) ELSE << >>
        /\ remote' = \E w \in DOMAIN workerNodes' : workerNodes'[w] # "localhost"
        /\ ready' = (ready /\ enough /\ (remote' => HasRemoteMethod))
        /\ UNCHANGED << fileVars, start, contents, engine, nworkers, freeWorkers >>
    BY <1>6 DEF SetUpNodes
  <2>2. FileInv' /\ UNCHANGED << phase, next, strict, fileErrors >>
    BY <1>0, <2>1, FileInvElsewhere DEF fileVars, loadVars
  <2>3. engine = "basic" /\ nodes \in Seq(STRING) /\ (ready => nworkers > 0)
    BY <1>0, <2>1, ConfigRead DEF AsPlaced, AsCounted
  <2>4. remote' \in BOOLEAN
    BY <2>1
  <2>5. ready' \in BOOLEAN /\ (ready' => ready /\ enough /\ (remote' => HasRemoteMethod))
    BY <1>0, <2>1, <2>4 DEF StartTypeOK
  <2>6. StartTypeOK'
    BY <1>0, <2>1, <2>4, <2>5 DEF StartTypeOK, Stages
  <2>7. AsConfigured'
    BY <1>0, <2>1, <2>2 DEF AsConfigured, Found, EngineName, HasValue, KeyExists
  <2>8. AsCounted'
    BY <1>0, <2>1, <2>2, <2>5 DEF AsCounted, KeyExists, DefaultNWorkers
  <2>9. ready' => DOMAIN workerNodes' = 1..nworkers
    <3>1. SUFFICES ASSUME ready' PROVE DOMAIN workerNodes' = 1..nworkers
      OBVIOUS
    <3>2. enough /\ nworkers > 0 /\ Len(nodes) \in Nat
      BY <2>3, <2>5, <3>1
    <3>3. \A i \in 1..nworkers : nodes[i] \in STRING
      BY <1>0, <2>3, <3>2
    <3>4. /\ SubSeq(nodes, 1, nworkers) \in Seq(STRING)
          /\ Len(SubSeq(nodes, 1, nworkers)) = nworkers
      BY <1>0, <3>2, <3>3, SubSeqProperties
    <3> QED BY <2>1, <3>2, <3>4
  <2>10. AsPlaced'
    BY <1>0, <2>1, <2>3, <2>5, <2>9 DEF AsPlaced, HasRemoteMethod, HasValue, KeyExists
  <2> QED BY <2>2, <2>6, <2>7, <2>8, <2>10 DEF StartupInv
<1>7. CASE UNCHANGED allVars
  <2>1. FileInv' /\ UNCHANGED << startVars, phase, next, strict, fileErrors >>
    BY <1>0, <1>7, FileInvElsewhere DEF allVars, fileVars, loadVars
  <2> QED BY <1>0, <2>1
          DEF StartupInv, StartTypeOK, AsConfigured, AsCounted, AsPlaced, Found, EngineName,
              HasRemoteMethod, HasValue, KeyExists, DefaultNWorkers, startVars
<1> QED BY <1>1, <1>2, <1>3, <1>4, <1>5, <1>6, <1>7 DEF StartupNext, Running

\* Theorem: what main and init rely on from one stage to the next always holds,
\* whatever the task file and the configuration.
THEOREM StartupInvariant == StartupSpec => []StartupInv
<1>1. StartupInit => StartupInv
  BY StartupInitInv
<1>2. StartupInv /\ [StartupNext]_allVars => StartupInv'
  BY StartupStep
<1> QED BY <1>1, <1>2, PTL DEF StartupSpec

\* Theorem: checkDependencies comes to the table the engines start from, however
\* long the chains of dependencies in the file are.
THEOREM LoadsTable == StartupSpec => []LoadedTable
<1>1. StartupInv => LoadedTable
  <2> SUFFICES ASSUME FileInv, phase = "checked", ~ fileErrors
               PROVE  /\ \A t \in TaskId : /\ ParsedFile[t] \in ParsedTask
                                            /\ t \notin ParsedFile[t].deps
                      /\ Load(ParsedFile)
    BY DEF StartupInv, LoadedTable
  <2>1. FileTypeOK /\ CheckedSoFar
    BY DEF FileInv
  <2>2. \A t \in TaskId : /\ ParsedFile[t] \in ParsedTask
                          /\ t \notin ParsedFile[t].deps
    BY <2>1, ParsedTyped DEF FileTypeOK
  <2> DEFINE parsed == { t \in TaskId : ParsedFile[t].state # "invalid" }
  <2>3. \A t \in TaskId :
          /\ t < next
          /\ dependencies[t] = ParsedFile[t].deps
          /\ taskState[t] = IF t \in validTasks THEN ParsedFile[t].state ELSE "invalid"
          /\ t \in validTasks <=>
               t \in parsed /\ \A d \in ParsedFile[t].deps : Accepted(d, t, validTasks)
    BY <2>1 DEF CheckedSoFar, AsParsed
  <2>4. \A p \in TaskId :
          revDepMap[p] = { t \in parsed : /\ p \in ParsedFile[t].deps
                                          /\ Accepted(p, t, validTasks) }
    BY <2>1, <2>3 DEF CheckedSoFar
  <2>5. validTasks \subseteq TaskId
    BY <2>1 DEF FileTypeOK
  <2>6. validTasks =
          { t \in parsed : \A d \in ParsedFile[t].deps : Accepted(d, t, validTasks) }
    BY <2>3, <2>5
  <2>7. /\ taskState =
             [ t \in TaskId |-> IF t \in validTasks THEN ParsedFile[t].state ELSE "invalid" ]
        /\ dependencies = [ t \in TaskId |-> ParsedFile[t].deps ]
    BY <2>1, <2>3 DEF FileTypeOK
  <2>8. revDepMap = [ p \in TaskId |->
                        { t \in parsed : /\ p \in ParsedFile[t].deps
                                         /\ Accepted(p, t, validTasks) } ]
    BY <2>1, <2>4 DEF FileTypeOK
  <2> QED BY <2>2, <2>5, <2>6, <2>7, <2>8 DEF Load
<1> QED BY <1>1, StartupInvariant, PTL

\* Theorem: strict checking lets no line be dropped without an error, but for
\* those whose list of dependencies cannot be read.
THEOREM StrictIsStrict == StartupSpec => []StrictRefuses
<1>1. StartupInv => StrictRefuses
  <2> SUFFICES ASSUME FileInv, phase = "checked", ~ fileErrors, strict,
                      NEW t \in TaskId, text[t].kind # "blank", Readable(text[t].tokens)
               PROVE  t \in validTasks
    BY DEF StartupInv, StrictRefuses
  <2>1. FileTypeOK /\ CheckedSoFar
    BY DEF FileInv
  <2>2. text[t].kind # "broken" /\ (ParsedFile[t].state # "invalid" => t \in validTasks)
    BY <2>1 DEF CheckedSoFar, AsParsed
  <2>3. t \in Nat /\ text[t].tokens \in Seq(Token)
    BY <2>1, ParsedLine DEF FileTypeOK
  <2>4. StateOf(text[t].tokens) # "invalid"
    BY <2>3, StateTyped
  <2>5. CASE text[t].kind = "command"
    <3>1. ParsedFile[t] = [ state |-> "waiting", deps |-> {} ]
      BY <2>1, <2>5, ParsedLine DEF FileTypeOK
    <3> QED BY <2>2, <3>1
  <2>6. CASE text[t].kind = "list"
    <3>1. ParsedFile[t] = [ state |-> StateOf(text[t].tokens),
                            deps |-> DepsOf(t, text[t].tokens) ]
      BY <2>1, <2>6, ParsedLine DEF FileTypeOK
    <3> QED BY <2>2, <2>4, <3>1
  <2>7. text[t].kind \in {"blank", "command", "broken", "list"}
    BY <2>1, ParsedLine DEF FileTypeOK
  <2> QED BY <2>2, <2>5, <2>6, <2>7
<1> QED BY <1>1, StartupInvariant, PTL

\* Theorem: an engine that is ready has loaded its file and can run a task on each
\* of its workers, but for a master without other ranks.
THEOREM ReadyIsServed == StartupSpec => []ReadyMeansServed
<1>1. StartupInv => ReadyMeansServed
  <2> SUFFICES ASSUME StartupInv, ready, stage = "started"
               PROVE  /\ phase = "checked" /\ ~ fileErrors /\ nworkers > 0
                      /\ engine # "thread" => freeWorkers = [ w \in 1..nworkers |-> w ]
                      /\ \/ \A w \in 1..nworkers : Reachable(w)
                         \/ engine = "mpi" /\ start.ranks = 1
    BY DEF ReadyMeansServed
  <2>1. AsCounted /\ AsPlaced /\ start.ranks \in Nat \ {0}
    BY DEF StartupInv, StartTypeOK, World
  <2>2. CASE engine = "mpi"
    BY <2>1, <2>2 DEF AsCounted, Counted, Reachable
  <2>3. CASE engine # "mpi"
    BY <2>1, <2>3 DEF AsCounted, AsPlaced, Counted, Reachable, HasRemoteMethod, HasValue
  <2> QED BY <2>1, <2>2, <2>3 DEF AsCounted, Counted
<1> QED BY <1>1, StartupInvariant, PTL

\* Theorem: whatever the files say, the engine works with what the environment
\* sets.
THEOREM EnvironmentDecides == StartupSpec => []EnvironmentWins
<1>1. StartupInv => EnvironmentWins
  <2> SUFFICES ASSUME StartupInv, stage = "started" PROVE EnvironmentWins
    BY DEF EnvironmentWins
  <2> DEFINE env == start.env
  <2>1. /\ DOMAIN contents = DOMAIN Found.entries \cup DOMAIN env
        /\ \A key \in DOMAIN env : contents[key] = env[key]
    BY ConfigRead DEF Configured
  <2>2. \A key \in DOMAIN env : KeyExists(key) /\ contents[key] = env[key]
    BY <2>1 DEF KeyExists
  <2>3. AsConfigured /\ AsCounted
    BY DEF StartupInv
  <2>4. "Engine" \in DOMAIN env /\ env["Engine"] # "" => engine = env["Engine"]
    BY <2>2, <2>3 DEF AsConfigured, Created, EngineName
  <2>5. "StrictCheck" \in DOMAIN env => (strict <=> env["StrictCheck"] = "yes")
    BY <2>2, <2>3 DEF AsConfigured, Created, HasValue
  <2>6. "NWorkers" \in DOMAIN env =>
          nworkers = env["NWorkers"] \/ (engine = "mpi" /\ start.ranks > 1)
    BY <2>2, <2>3 DEF AsCounted, Counted
  <2>7. start.user.exists \/ start.system.exists
    BY <2>3 DEF AsConfigured, Configured, Found
  <2> QED BY <2>4, <2>5, <2>6, <2>7 DEF EnvironmentWins
<1> QED BY <1>1, StartupInvariant, PTL

-------------------------------------------------------------------------------
(* The dependencies of a task in the restart file                          *)

\* What an interval is written as is a sequence of tokens that stand for the ids
\* of the interval and nothing else.
LEMMA IntervalIds ==
  ASSUME NEW a \in Nat \ {0}, NEW b \in Nat, a <= b, NEW t
  PROVE  /\ Interval(a, b) \in Seq(Token)
         /\ \A i \in DOMAIN Interval(a, b) : Interval(a, b)[i].kind \in {"id", "range"}
         /\ ListedIds(t, Interval(a, b)) = a..b
<1>1. CASE a = b
  <2>1. Interval(a, b) = << IdToken(b) >>
    BY <1>1 DEF Interval
  <2>2. TokenIds(t, IdToken(b)) = a..b
    BY <1>1 DEF TokenIds, IdToken
  <2>3. IdToken(b) \in Token /\ IdToken(b).kind = "id"
    BY DEF IdToken, Token
  <2> QED BY <2>1, <2>2, <2>3 DEF ListedIds
<1>2. CASE a # b /\ a + 1 = b
  <2> DEFINE s == << IdToken(a), IdToken(b) >>
  <2>1. Interval(a, b) = s
    BY <1>2 DEF Interval
  <2>2. s \in Seq(Token) /\ DOMAIN s = {1, 2}
    BY DEF IdToken, Token
  <2>3. s[1] = IdToken(a) /\ s[2] = IdToken(b)
    OBVIOUS
  <2>4. TokenIds(t, IdToken(a)) = {a} /\ TokenIds(t, IdToken(b)) = {b}
    BY DEF TokenIds, IdToken
  <2>5. \A i \in DOMAIN s : s[i].kind \in {"id", "range"}
    BY <2>2, <2>3 DEF IdToken
  <2>6. ListedIds(t, s) = {a, b}
    <3> HIDE DEF s
    <3> QED BY <2>2, <2>3, <2>4 DEF ListedIds
  <2>7. a..b = {a, b}
    BY <1>2
  <2> HIDE DEF s
  <2> QED BY <2>1, <2>2, <2>5, <2>6, <2>7
<1>3. CASE a # b /\ a + 1 # b
  <2>1. Interval(a, b) = << RangeToken(a, b) >>
    BY <1>3 DEF Interval
  <2>2. TokenIds(t, RangeToken(a, b)) = a..b
    BY <1>3 DEF TokenIds, RangeToken
  <2>3. RangeToken(a, b) \in Token /\ RangeToken(a, b).kind = "range"
    BY DEF RangeToken, Token
  <2> QED BY <2>1, <2>2, <2>3 DEF ListedIds
<1> QED BY <1>1, <1>2, <1>3

\* Appending to the output adds what the new tokens stand for.
LEMMA WrittenAppends ==
  ASSUME NEW t, NEW s \in Seq(Token), NEW r \in Seq(Token)
  PROVE  ListedIds(t, s \o r) =
           ListedIds(t, s) \cup ListedIds(t, r)
<1> DEFINE c == s \o r
<1>1. /\ DOMAIN s = 1..Len(s) /\ DOMAIN r = 1..Len(r) /\ DOMAIN c = 1..(Len(s) + Len(r))
      /\ Len(s) \in Nat /\ Len(r) \in Nat
  OBVIOUS
<1>2. \A i \in DOMAIN s : i \in DOMAIN c /\ c[i] = s[i]
  OBVIOUS
<1>3. \A i \in DOMAIN r : Len(s) + i \in DOMAIN c /\ c[Len(s) + i] = r[i]
  OBVIOUS
<1>4. \A i \in DOMAIN c : i \in DOMAIN s \/ \E j \in DOMAIN r : i = Len(s) + j
  <2> SUFFICES ASSUME NEW i \in DOMAIN c, i \notin DOMAIN s
               PROVE  \E j \in DOMAIN r : i = Len(s) + j
    OBVIOUS
  <2>1. i - Len(s) \in DOMAIN r /\ i = Len(s) + (i - Len(s))
    BY <1>1
  <2> QED BY <2>1
<1> HIDE DEF c
<1>5. ASSUME NEW d
      PROVE  (\E i \in DOMAIN c : d \in TokenIds(t, c[i])) <=>
               \/ \E i \in DOMAIN s : d \in TokenIds(t, s[i])
               \/ \E i \in DOMAIN r : d \in TokenIds(t, r[i])
  BY <1>2, <1>3, <1>4
<1>6. ListedIds(t, c) =
        ListedIds(t, s) \cup ListedIds(t, r)
  <2>1. \A d : d \in ListedIds(t, c) <=> \E i \in DOMAIN c : d \in TokenIds(t, c[i])
    BY DEF ListedIds
  <2>2. \A d : d \in ListedIds(t, s) <=> \E i \in DOMAIN s : d \in TokenIds(t, s[i])
    BY DEF ListedIds
  <2>3. \A d : d \in ListedIds(t, r) <=> \E i \in DOMAIN r : d \in TokenIds(t, r[i])
    BY DEF ListedIds
  <2> QED BY <2>1, <2>2, <2>3, <1>5
<1> QED BY <1>6 DEF c

\* Writing the open interval adds its ids to the output.
LEMMA FlushWrites ==
  ASSUME DumpTypeOK, \A i \in DOMAIN out : out[i].kind \in {"id", "range"},
         left <= last \/ (left = 1 /\ last = 0), Flush
  PROVE  /\ out' \in Seq(Token)
         /\ \A i \in DOMAIN out' : out'[i].kind \in {"id", "range"}
         /\ ListedIds(task, out') =
              Written \cup (left..last)
<1> USE DEF DumpTypeOK
<1>1. CASE last = 0
  <2>1. out' = out /\ left..last = {}
    BY <1>1 DEF Flush
  <2> QED BY <2>1 DEF Written
<1>2. CASE last > 0
  <2> DEFINE s == Interval(left, last)
  <2>1. left <= last /\ out' = out \o s
    BY <1>2 DEF Flush
  <2>2. /\ s \in Seq(Token)
        /\ \A i \in DOMAIN s : s[i].kind \in {"id", "range"}
        /\ ListedIds(task, s) = left..last
    BY <2>1, IntervalIds
  <2> HIDE DEF s
  <2>3. \A i \in DOMAIN (out \o s) : (out \o s)[i].kind \in {"id", "range"}
    <3> SUFFICES ASSUME NEW i \in DOMAIN (out \o s)
                 PROVE  (out \o s)[i].kind \in {"id", "range"}
      OBVIOUS
    <3>1. CASE i \in DOMAIN out
      BY <3>1, <2>2
    <3>2. CASE i \notin DOMAIN out
      <4>1. i - Len(out) \in DOMAIN s /\ (out \o s)[i] = s[i - Len(out)]
        BY <3>2, <2>2
      <4> QED BY <4>1, <2>2
    <3> QED BY <3>1, <3>2
  <2> QED BY <2>1, <2>2, <2>3, WrittenAppends DEF Written
<1> QED BY <1>1, <1>2

\* The loop invariant holds before the loop.
LEMMA DumpInit == ASSUME Init PROVE DumpInv
<1>0. dumped = FALSE
  BY DEF Init
<1>1. DumpTypeOK /\ ~ dumped /\ todo = deps /\ left = 1 /\ last = 0
  <2>1. task \in Nat \ {0} /\ deps \in SUBSET (Nat \ {0}) /\ todo = deps /\ left = 1 /\ last = 0
    BY IdAssumption DEF Init
  <2>2. out \in Seq(Token)
    BY DEF Init
  <2>3. dumped \in BOOLEAN /\ ~ dumped
    BY <1>0, Zenon
  <2>4. todo \in SUBSET deps /\ left \in Nat \ {0} /\ last \in Nat
    BY <2>1
  <2> QED BY <2>1, <2>2, <2>3, <2>4, Zenon DEF DumpTypeOK
<1>2. DOMAIN out = {} /\ Written = {}
  BY DEF Init, Written, ListedIds
<1>3. Written \cup (left..last) \cup todo = deps
  BY <1>1, <1>2
<1>4. task \notin deps /\ \A d \in todo : d > last
  BY <1>1 DEF Init, DumpTypeOK
<1> QED BY <1>1, <1>2, <1>3, <1>4 DEF DumpInv

\* One turn of the loop keeps the loop invariant.
LEMMA VisitKeepsInv == ASSUME DumpInv, Visit PROVE DumpInv'
<1> PICK d \in todo : /\ \A e \in todo : d <= e
                      /\ Extend(d) \/ StartInterval(d)
                      /\ todo' = todo \ {d}
  BY DEF Visit
<1>1. /\ d \in Nat \ {0} /\ d > last
      /\ \A e \in todo : e \in Nat \ {0}
      /\ ~ dumped /\ UNCHANGED << task, deps, dumped >>
  BY DEF DumpInv, DumpTypeOK, Visit
<1>2. \A e \in todo' : e > d
  BY <1>1
<1>3. CASE Extend(d)
  <2>1. last' = d /\ d = last + 1 /\ left' = left /\ out' = out /\ Written' = Written
    BY <1>1, <1>3 DEF Extend, Written
  <2>2. left'..last' = (left..last) \cup {d}
    BY <2>1, <1>1 DEF DumpInv, DumpTypeOK
  <2>3. Written' \cup (left'..last') \cup todo' = deps'
    BY <2>1, <2>2, <1>1 DEF DumpInv
  <2>4. left' <= last' /\ DumpTypeOK'
    BY <2>1, <1>1 DEF DumpInv, DumpTypeOK
  <2> QED BY <2>1, <2>3, <2>4, <1>1, <1>2 DEF DumpInv
<1>4. CASE StartInterval(d)
  <2>1. left' = d /\ last' = d /\ Flush
    BY <1>4 DEF StartInterval
  <2>2. /\ out' \in Seq(Token)
        /\ \A i \in DOMAIN out' : out'[i].kind \in {"id", "range"}
        /\ Written' = Written \cup (left..last)
    BY <2>1, <1>1, FlushWrites DEF DumpInv, Written
  <2>3. left'..last' = {d}
    BY <2>1, <1>1
  <2>4. Written' \cup (left'..last') \cup todo' = deps'
    BY <2>2, <2>3, <1>1 DEF DumpInv
  <2>5. left' <= last' /\ DumpTypeOK'
    BY <2>1, <2>2, <1>1 DEF DumpInv, DumpTypeOK
  <2> QED BY <2>1, <2>2, <2>4, <2>5, <1>1, <1>2 DEF DumpInv
<1> QED BY <1>3, <1>4

\* Writing the last interval keeps the loop invariant.
LEMMA FinishKeepsInv == ASSUME DumpInv, Finish PROVE DumpInv'
<1>1. /\ todo = {} /\ ~ dumped /\ dumped' /\ Flush
      /\ UNCHANGED << task, deps, todo, left, last >>
  BY DEF Finish
<1>2. /\ out' \in Seq(Token)
      /\ \A i \in DOMAIN out' : out'[i].kind \in {"id", "range"}
      /\ Written' = Written \cup (left..last)
  BY <1>1, FlushWrites DEF DumpInv, Written
<1>3. Written' = deps'
  BY <1>1, <1>2 DEF DumpInv
<1>4. dumped' = TRUE
  BY DEF Finish
<1> QED BY <1>1, <1>2, <1>3, <1>4 DEF DumpInv, DumpTypeOK

\* The loop invariant of dumpDependencies holds all along.
THEOREM DumpInvariant == Spec => []DumpInv
<1>1. Init => DumpInv
  BY DumpInit
<1>2. DumpInv /\ [Next]_vars => DumpInv'
  <2>1. ASSUME DumpInv, UNCHANGED vars PROVE DumpInv'
    BY <2>1 DEF vars, DumpInv, DumpTypeOK, Written
  <2> QED BY <2>1, VisitKeepsInv, FinishKeepsInv DEF Next, Returned
<1> QED BY <1>1, <1>2, PTL DEF Spec

\* What dumpDependencies writes is read back by addDependencies to the same
\* dependencies, whatever they are.
THEOREM DumpReadsBack == Spec => []RoundTrip
<1>1. ASSUME DumpInv PROVE RoundTrip
  <2> SUFFICES ASSUME dumped PROVE Readable(out) /\ DepsOf(task, out) = deps
    BY DEF RoundTrip
  <2>1. \A i \in DOMAIN out : out[i].kind # "bad"
    BY <1>1 DEF DumpInv
  <2>2. DOMAIN out = 1..Len(out) /\ Len(out) \in Nat
    BY <1>1 DEF DumpInv, DumpTypeOK
  <2>3. ReadTokens(out) = { out[i] : i \in DOMAIN out }
    BY <2>1, <2>2 DEF ReadTokens
  <2>4. UNION { TokenIds(task, tok) : tok \in ReadTokens(out) } = Written
    BY <2>3 DEF Written, ListedIds
  <2>5. Written = deps /\ task \notin deps /\ deps \subseteq Nat \ {0}
    BY <1>1 DEF DumpInv, DumpTypeOK
  <2>6. DepsOf(task, out) = { d \in Written : d # task /\ d > 0 }
    BY <2>4, Zenon DEF DepsOf
  <2>7. DepsOf(task, out) = deps
    <3>1. \A d \in deps : d # task /\ d > 0
      BY <2>5
    <3>2. { d \in deps : d # task /\ d > 0 } = deps
      BY <3>1, Zenon
    <3> QED BY <2>5, <2>6, <3>2
  <2> QED BY <2>1, <2>7 DEF Readable
<1> QED BY <1>1, DumpInvariant, PTL
===============================================================================
