-------------------------------- MODULE Startup --------------------------------
(***************************************************************************)
(* main (src/src/greasy.cpp) up to the point where the engine runs: the    *)
(* configuration is read (GreasyConfig), the factory picks the engine, and *)
(* its init loads the task file, counts the workers and finds a node for   *)
(* each of them (AbstractEngine, AbstractSchedulerEngine, MPIEngine,       *)
(* BasicEngine).                                                           *)
(*                                                                         *)
(* A configuration is a partial function from keys to values: NWorkers is  *)
(* the number its text is read as, NodeList a sequence of nodes.           *)
(***************************************************************************)
EXTENDS TaskFile

CONSTANTS
  Starts,  \* what the program may be started with, and with which task files
  Built    \* the engines it was built with besides the basic one

\* What the values of a configuration are read as.
Readings(config) ==
  /\ "NWorkers" \in DOMAIN config => config["NWorkers"] \in Int
  /\ "NodeList" \in DOMAIN config => config["NodeList"] \in Seq(STRING)

\* What surrounds the program: user and system are the two configuration files,
\* env the environment, ranks the processes of the MPI world, cpus those of the
\* node.
World(w) ==
  /\ DOMAIN w = {"user", "system", "env", "ranks", "cpus"}
  /\ w.user.exists \in BOOLEAN /\ w.system.exists \in BOOLEAN
  /\ Readings(w.user.entries) /\ Readings(w.system.entries) /\ Readings(w.env)
  /\ w.ranks \in Nat \ {0} /\ w.cpus \in Nat \ {0}

\* A start is a set of surroundings and a set of files.
ASSUME StartsAssumption ==
  /\ Built \subseteq {"mpi", "thread"}
  /\ \A s \in Starts :
       /\ \A w \in s.worlds : World(w)
       /\ s.files \subseteq [ TaskId -> LineText ]

VARIABLES
  start,       \* the surroundings the program was started in
  stage,       \* how far main has come
  contents,    \* contents of GreasyConfig
  engine,      \* the engine that was created
  ready,
  nworkers,
  freeWorkers,
  workerNodes, \* workerNodes of BasicEngine
  remote       \* remote of BasicEngine

startVars ==
  << start, stage, contents, engine, ready, nworkers, freeWorkers, workerNodes, remote >>
allVars == << fileVars, startVars >>

StartupInit ==
  /\ \E s \in Starts : start \in s.worlds /\ text \in s.files
  /\ FileInit
  /\ strict = FALSE
  /\ stage = "configure"
  /\ contents = << >>
  /\ engine = ""
  /\ ready = FALSE
  /\ nworkers = 0
  /\ freeWorkers = << >>
  /\ workerNodes = << >>
  /\ remote = FALSE

KeyExists(key) == key \in DOMAIN contents
HasValue(key, value) == KeyExists(key) /\ contents[key] = value

-------------------------------------------------------------------------------
(* The configuration and the engine                                        *)

\* Wrong: the file is read after the environment.
FileLast(file, env) ==
  [ key \in DOMAIN file \cup DOMAIN env |->
      IF key \in DOMAIN file THEN file[key] ELSE env[key] ]

\* readConfig inserts the entries of the file, then those of the environment.
Inserted(file, env) ==
  [ key \in DOMAIN file \cup DOMAIN env |->
      IF key \in DOMAIN env THEN env[key] ELSE file[key] ]

\* The user's file, and only if there is none the one of the system.
Found == IF start.user.exists THEN start.user ELSE start.system

\* Without a file the environment is not read either.
ReadConfig ==
  /\ stage = "configure"
  /\ IF Found.exists
     THEN stage' = "create" /\ contents' = Inserted(Found.entries, start.env)
     ELSE stage' = "exited" /\ UNCHANGED contents
  /\ UNCHANGED << fileVars, start, engine, ready, nworkers, freeWorkers, workerNodes, remote >>

EngineName == IF KeyExists("Engine") THEN contents["Engine"] ELSE ""

\* The constructor of the engine, or NULL for a name the program has no engine for.
CreateEngine ==
  /\ stage = "create"
  /\ \/ /\ EngineName \in {"", "basic"} \cup Built
        /\ engine' = IF EngineName = "" THEN "basic" ELSE EngineName
        /\ strict' = HasValue("StrictCheck", "yes")
        /\ stage' = IF engine' = "mpi" THEN "join" ELSE "load"
     \/ /\ EngineName \notin {"", "basic"} \cup Built
        /\ stage' = "exited"
        /\ UNCHANGED << engine, strict >>
  /\ UNCHANGED << tableVars, text, phase, next, known, fileErrors,
                  start, contents, ready, nworkers, freeWorkers, workerNodes, remote >>

-------------------------------------------------------------------------------
(* init of the engine                                                      *)

\* MPIEngine::init of the master: the other ranks are its workers.
JoinWorld ==
  /\ stage = "join"
  /\ nworkers' = start.ranks - 1
  /\ stage' = "load"
  /\ UNCHANGED << fileVars, start, contents, engine, ready, freeWorkers, workerNodes, remote >>

\* AbstractEngine::init: parseTaskFile, checkDependencies.
LoadTasks ==
  /\ stage = "load"
  /\ LoadFile
  /\ UNCHANGED startVars

\* getDefaultNWorkers of the schedulers and of ThreadEngine.
DefaultNWorkers ==
  IF engine = "thread" \/ start.cpus <= 4 THEN start.cpus ELSE 4

\* The rest of AbstractEngine::init and of AbstractSchedulerEngine::init.
CountWorkers ==
  /\ stage = "load"
  /\ phase = "checked"
  /\ nworkers' = IF nworkers # 0 THEN nworkers
                 ELSE IF KeyExists("NWorkers") THEN contents["NWorkers"]
                 ELSE DefaultNWorkers
  /\ ready' = (~ fileErrors /\ nworkers' > 0)
  /\ freeWorkers' = IF engine = "thread" THEN << >> ELSE [ w \in 1..nworkers' |-> w ]
  /\ stage' = IF engine = "basic" /\ KeyExists("NodeList") THEN "nodes" ELSE "started"
  /\ UNCHANGED << fileVars, start, contents, engine, workerNodes, remote >>

\* Wrong: any value of BasicRemoteMethod will do.
MethodIsSet == KeyExists("BasicRemoteMethod")

HasRemoteMethod ==
  HasValue("BasicRemoteMethod", "srun") \/ HasValue("BasicRemoteMethod", "ssh")

\* BasicEngine::init: each worker gets the node at its place in the list.  A node
\* that is not this one needs a method to reach it.
SetUpNodes ==
  /\ stage = "nodes"
  /\ LET nodes  == contents["NodeList"]
         enough == nworkers <= Len(nodes)
     IN  /\ workerNodes' = IF enough THEN SubSeq(nodes, 1, nworkers) ELSE << >>
         /\ remote' = \E w \in DOMAIN workerNodes' : workerNodes'[w] # "localhost"
         /\ ready' = (ready /\ enough /\ (remote' => HasRemoteMethod))
  /\ stage' = "started"
  /\ UNCHANGED << fileVars, start, contents, engine, nworkers, freeWorkers >>

\* The engine runs if it is ready; main has returned -1 if it never existed.
Running ==
  /\ stage \in {"started", "exited"}
  /\ UNCHANGED allVars

StartupNext ==
  \/ ReadConfig \/ CreateEngine
  \/ JoinWorld \/ LoadTasks \/ CountWorkers \/ SetUpNodes
  \/ Running

StartupSpec == StartupInit /\ [][StartupNext]_allVars

-------------------------------------------------------------------------------
(* Properties                                                              *)

Stages ==
  {"configure", "create", "join", "load", "nodes", "started", "exited"}

\* The stages in which there is a configuration, an engine, a number of workers.
Configured == stage \in {"create", "join", "load", "nodes", "started"}
Created == stage \in {"join", "load", "nodes", "started"}
Counted == stage \in {"nodes", "started"}

StartTypeOK ==
  /\ World(start)
  /\ stage \in Stages
  /\ engine \in {"", "basic", "mpi", "thread"}
  /\ ready \in BOOLEAN
  /\ nworkers \in Int
  /\ remote \in BOOLEAN

\* The configuration is the one that was found, and the engine the one it names;
\* the task file is not touched before there is an engine.
AsConfigured ==
  /\ Configured => Found.exists /\ contents = Inserted(Found.entries, start.env)
  /\ Created =>
       /\ engine = IF EngineName = "" THEN "basic" ELSE EngineName
       /\ strict = HasValue("StrictCheck", "yes")
  /\ stage \in {"configure", "create"} => phase = "parse" /\ next = 1

\* The number of workers is the one of the MPI world, else the configured one,
\* else the default.
AsCounted ==
  /\ stage \in {"configure", "create", "join"} => nworkers = 0
  /\ stage = "join" => engine = "mpi"
  /\ stage = "load" => nworkers = IF engine = "mpi" THEN start.ranks - 1 ELSE 0
  /\ Counted =>
       /\ phase = "checked"
       /\ nworkers = IF engine = "mpi" /\ start.ranks > 1 THEN start.ranks - 1
                     ELSE IF KeyExists("NWorkers") THEN contents["NWorkers"]
                     ELSE DefaultNWorkers
       /\ engine # "thread" => freeWorkers = [ w \in 1..nworkers |-> w ]
  /\ ready => Counted /\ ~ fileErrors /\ nworkers > 0

\* Only a basic engine with a list of nodes has remote workers, and one that is
\* ready has a node for each and a method to reach it.
AsPlaced ==
  /\ stage = "nodes" => engine = "basic" /\ KeyExists("NodeList")
  /\ remote => engine = "basic" /\ stage = "started"
  /\ remote /\ ready => 1..nworkers \subseteq DOMAIN workerNodes /\ HasRemoteMethod

\* What main and init rely on from one stage to the next.
StartupInv == FileInv /\ StartTypeOK /\ AsConfigured /\ AsCounted /\ AsPlaced

\* How the engine reaches worker w: a thread of its own, another rank, a process
\* on this node, or a process on another one, started with srun or ssh.
Reachable(w) ==
  CASE engine = "thread" -> TRUE
    [] engine = "mpi" -> w \in 1..start.ranks - 1
    [] OTHER -> remote => /\ w \in DOMAIN workerNodes
                          /\ workerNodes[w] = "localhost"
                             \/ contents["BasicRemoteMethod"] \in {"srun", "ssh"}

\* An engine that is ready can run a task on every worker it will give one to,
\* and has loaded its file.  Except for a master without other ranks, which
\* falls back to a number of workers nobody serves.
ReadyMeansServed ==
  ready /\ stage = "started" =>
    /\ phase = "checked" /\ ~ fileErrors
    /\ nworkers > 0
    /\ engine # "thread" => freeWorkers = [ w \in 1..nworkers |-> w ]
    /\ \/ \A w \in 1..nworkers : Reachable(w)
       \/ engine = "mpi" /\ start.ranks = 1

\* What the environment sets is what the engine works with, whatever the files
\* say: the engine that runs, its strictness, and its number of workers unless
\* the MPI world decides on that.  It takes a file for the environment to be
\* read at all.
EnvironmentWins ==
  stage = "started" =>
    LET env == start.env
    IN  /\ "Engine" \in DOMAIN env /\ env["Engine"] # "" => engine = env["Engine"]
        /\ "StrictCheck" \in DOMAIN env => (strict <=> env["StrictCheck"] = "yes")
        /\ "NWorkers" \in DOMAIN env =>
             nworkers = env["NWorkers"] \/ (engine = "mpi" /\ start.ranks > 1)
        /\ start.user.exists \/ start.system.exists
===============================================================================
