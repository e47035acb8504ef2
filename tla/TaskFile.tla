------------------------------- MODULE TaskFile -------------------------------
(***************************************************************************)
(* AbstractEngine::init (src/src/abstractengine.cpp): the task file is     *)
(* read line by line into the table of tasks, then every task is checked   *)
(* against the others.  What checkDependencies leaves is where the         *)
(* schedulers start: Load of TaskTable, whose variables these are.         *)
(* Startup is the program around it.                                       *)
(*                                                                         *)
(* Here TaskId is every line of the file; taskMap only holds the lines in  *)
(* known, and an entry of taskState for another line means nothing.        *)
(***************************************************************************)
EXTENDS TaskTable, DependencyList

CONSTANT LineText  \* what a line of the file may be

\* A line is blank or a comment, a command, something with a bracket that is not
\* a task, or a command with a list of dependencies.
ASSUME LineAssumption ==
  /\ LineText \subseteq
       [ kind : {"blank", "command", "broken", "list"}, tokens : Seq(Token) ]
  /\ \A line \in LineText : line.kind # "list" => line.tokens = << >>

\* The lines of a file are numbered from one on.
ASSUME LinesAssumption == \A t \in TaskId : 1..t \subseteq TaskId

VARIABLES
  strict,     \* strictChecking
  text,       \* the lines of the file
  phase,      \* which part of init is running, or "checked"
  next,       \* the line or the task the loop comes to
  known,      \* the keys of taskMap
  fileErrors

loadVars == << strict, text, phase, next, known, fileErrors >>
fileVars == << tableVars, loadVars >>

\* The engine as it is constructed; strict and text are given.
FileInit ==
  /\ phase = "parse"
  /\ next = 1
  /\ known = {}
  /\ fileErrors = FALSE
  /\ taskState = [ t \in TaskId |-> "invalid" ]
  /\ dependencies = [ t \in TaskId |-> {} ]
  /\ validTasks = {}
  /\ revDepMap = [ t \in TaskId |-> {} ]
  /\ retries = [ t \in TaskId |-> 0 ]

-------------------------------------------------------------------------------
(* parseTaskFile                                                           *)

\* The file cannot be opened.
CannotRead ==
  /\ phase = "parse"
  /\ next = 1
  /\ phase' = "check"
  /\ fileErrors' = TRUE
  /\ UNCHANGED << tableVars, strict, text, next, known >>

\* Blank lines and comments make no task.
SkipLine(t) ==
  /\ text[t].kind = "blank"
  /\ UNCHANGED << known, taskState, dependencies, validTasks, fileErrors >>

\* A task without dependencies.
AcceptCommand(t) ==
  /\ text[t].kind = "command"
  /\ known' = known \cup {t}
  /\ taskState' = [ taskState EXCEPT ![t] = "waiting" ]
  /\ validTasks' = validTasks \cup {t}
  /\ UNCHANGED << dependencies, fileErrors >>

\* recordInvalidTask: in strict mode the error stops the engine, and the new
\* task stays as it was created.
RejectLine(t) ==
  /\ text[t].kind = "broken"
  /\ known' = known \cup {t}
  /\ taskState' = [ taskState EXCEPT ![t] = IF strict THEN "waiting" ELSE "invalid" ]
  /\ fileErrors' = (fileErrors \/ strict)
  /\ UNCHANGED << dependencies, validTasks >>

\* A task with a list of dependencies: addDependencies reads the list.  If it
\* cannot, the task is not valid, but no error is recorded.
ReadList(t) ==
  /\ text[t].kind = "list"
  /\ known' = known \cup {t}
  /\ taskState' = [ taskState EXCEPT ![t] = StateOf(text[t].tokens) ]
  /\ dependencies' = [ dependencies EXCEPT ![t] = DepsOf(t, text[t].tokens) ]
  /\ validTasks' = IF Readable(text[t].tokens) THEN validTasks \cup {t} ELSE validTasks
  /\ UNCHANGED fileErrors

ParseLine ==
  /\ phase = "parse"
  /\ next \in TaskId
  /\ \/ SkipLine(next)
     \/ AcceptCommand(next)
     \/ RejectLine(next)
     \/ ReadList(next)
  /\ next' = next + 1
  /\ UNCHANGED << retries, revDepMap, strict, text, phase >>

EndOfFile ==
  /\ phase = "parse"
  /\ next \notin TaskId
  /\ phase' = "check"
  /\ next' = 1
  /\ UNCHANGED << tableVars, strict, text, known, fileErrors >>

-------------------------------------------------------------------------------
(* checkDependencies                                                       *)

\* Wrong: the first dependency that is missing ends the check of the task, so
\* its other dependencies do not learn of it.
RegisteredUntilBad(t) ==
  { d \in dependencies[t] :
      \A e \in dependencies[t] : e <= d => e \in known /\ Accepted(e, t, validTasks) }

\* The dependencies of t that are in order: t is added to their dependants.
Registered(t) == { d \in dependencies[t] : d \in known /\ Accepted(d, t, validTasks) }

\* Wrong: the error is not recorded.
DropQuietly(t, ok) ==
  /\ validTasks' = IF ok THEN validTasks ELSE validTasks \ {t}
  /\ UNCHANGED fileErrors

\* A task with another dependency is dropped; in strict mode that is an error.
DropUnless(t, ok) ==
  /\ validTasks' = IF ok THEN validTasks ELSE validTasks \ {t}
  /\ fileErrors' = (fileErrors \/ (strict /\ ~ ok))

\* One turn of the loop, for a task that is not invalid.
CheckTask(t) ==
  /\ t \in known
  /\ taskState[t] # "invalid"
  /\ LET ok == Registered(t) = dependencies[t]
     IN  /\ taskState' = IF ok THEN taskState ELSE [ taskState EXCEPT ![t] = "invalid" ]
         /\ DropUnless(t, ok)
  /\ revDepMap' = [ p \in TaskId |-> IF p \in Registered(t)
                                     THEN revDepMap[p] \cup {t} ELSE revDepMap[p] ]

PassOver(t) ==
  /\ t \in known => taskState[t] = "invalid"
  /\ UNCHANGED << taskState, validTasks, revDepMap, fileErrors >>

CheckNext ==
  /\ phase = "check"
  /\ next \in TaskId
  /\ CheckTask(next) \/ PassOver(next)
  /\ next' = next + 1
  /\ UNCHANGED << retries, dependencies, strict, text, phase, known >>

EndOfCheck ==
  /\ phase = "check"
  /\ next \notin TaskId
  /\ phase' = "checked"
  /\ UNCHANGED << tableVars, strict, text, next, known, fileErrors >>

LoadFile ==
  \/ CannotRead \/ ParseLine \/ EndOfFile
  \/ CheckNext \/ EndOfCheck

-------------------------------------------------------------------------------
(* Properties                                                              *)

FileTypeOK ==
  /\ taskState \in [ TaskId -> TaskStates ]
  /\ dependencies \in [ TaskId -> SUBSET (Nat \ {0}) ]
  /\ validTasks \subseteq known
  /\ revDepMap \in [ TaskId -> SUBSET known ]
  /\ strict \in BOOLEAN
  /\ text \in [ TaskId -> LineText ]
  /\ phase \in {"parse", "check", "checked"}
  /\ next \in Nat \ {0}
  /\ known \subseteq TaskId
  /\ fileErrors \in BOOLEAN

\* The table of tasks the text of the file stands for, one line at a time.
ParsedFile ==
  [ t \in TaskId |->
      CASE text[t].kind = "command" -> [ state |-> "waiting", deps |-> {} ]
        [] text[t].kind = "list" -> [ state |-> StateOf(text[t].tokens),
                                      deps |-> DepsOf(t, text[t].tokens) ]
        [] OTHER -> [ state |-> "invalid", deps |-> {} ] ]

\* The tables hold line t as its text says.  In strict mode a line that is not a
\* task would have been an error.
AsParsed(t) ==
  /\ t \in known <=> text[t].kind # "blank"
  /\ dependencies[t] = ParsedFile[t].deps
  /\ strict => text[t].kind # "broken"

\* The lines parseTaskFile has read are in the tables, the others are not.
ReadSoFar ==
  phase = "parse" =>
    /\ revDepMap = [ t \in TaskId |-> {} ]
    /\ \A t \in TaskId :
         IF t < next
         THEN ~ fileErrors => /\ AsParsed(t)
                              /\ t \in validTasks <=> ParsedFile[t].state # "invalid"
                              /\ taskState[t] = ParsedFile[t].state
         ELSE taskState[t] = "invalid" /\ dependencies[t] = {} /\ t \notin known

\* The tasks checkDependencies has come to are in order as far as they are left,
\* and known to what they depend on; the others are as they were read.
CheckedSoFar ==
  phase # "parse" /\ ~ fileErrors =>
    /\ \A t \in TaskId :
         LET parsed == ParsedFile[t]
         IN  /\ AsParsed(t)
             /\ taskState[t] = IF t \in validTasks THEN parsed.state ELSE "invalid"
             /\ t \in validTasks <=>
                  /\ parsed.state # "invalid"
                  /\ t < next => \A d \in parsed.deps : Accepted(d, t, validTasks)
             /\ strict /\ parsed.state # "invalid" => t \in validTasks
             /\ revDepMap[t] =
                  { c \in TaskId : /\ c < next /\ ParsedFile[c].state # "invalid"
                                   /\ t \in ParsedFile[c].deps /\ Accepted(t, c, validTasks) }
    /\ phase = "checked" => \A t \in TaskId : t < next

\* What init relies on from one turn of its loops to the next.
FileInv == FileTypeOK /\ ReadSoFar /\ CheckedSoFar

\* The single pass of checkDependencies over a table it changes on its way comes
\* to the table the engines start from: the tasks that are left are exactly those
\* with only earlier tasks that are left among their dependencies.  So a task
\* whose dependency was dropped is dropped too, however long the chain is.
LoadedTable ==
  phase = "checked" /\ ~ fileErrors =>
    /\ \A t \in TaskId : ParsedFile[t] \in ParsedTask /\ t \notin ParsedFile[t].deps
    /\ Load(ParsedFile)

\* In strict mode no error means that every line that is not blank is a task, and
\* so are all its dependencies, as far as its list can be read.  A list that
\* cannot be read loses its task without an error.
StrictRefuses ==
  phase = "checked" /\ ~ fileErrors /\ strict =>
    \A t \in TaskId :
      text[t].kind # "blank" /\ Readable(text[t].tokens) => t \in validTasks
===============================================================================
