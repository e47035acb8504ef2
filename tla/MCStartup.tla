------------------------------- MODULE MCStartup -------------------------------
(***************************************************************************)
(* Instances of Startup for TLC: any task file of three lines with and     *)
(* without strict checking, and one task file with any configuration.      *)
(***************************************************************************)
EXTENDS Startup, TLC

MCTaskId == 1..3

\* A line before, after and outside the file, a range that holds the task it
\* belongs to or does not, a way back that may leave the file, and nonsense.
SomeTokens ==
  { IdToken(1), IdToken(2), IdToken(4), BackToken(1), RangeToken(2, 1), RangeToken(1, 3),
    BadToken }

\* Lists of at most two tokens, the second a line, a way back or nonsense.
SomeLines ==
  { [ kind |-> k, tokens |-> << >> ] : k \in {"blank", "command", "broken", "list"} }
  \cup { [ kind |-> "list", tokens |-> << a >> ] : a \in SomeTokens }
  \cup { [ kind |-> "list", tokens |-> << a, b >> ] : a \in SomeTokens,
               b \in { IdToken(2), BackToken(1), BadToken } }

SomeFile ==
  << [ kind |-> "command", tokens |-> << >> ], [ kind |-> "blank", tokens |-> << >> ],
     [ kind |-> "list", tokens |-> << IdToken(1) >> ] >>

\* A key is set to one of its values or not at all.
Setting(key, values) == { << >> } \cup { key :> v : v \in values }

Configs ==
  { e @@ w @@ n @@ m : e \in Setting("Engine", {"", "basic", "mpi", "thread", "slurm"}),
      w \in Setting("NWorkers", 0..3),
      n \in Setting("NodeList", { << "localhost", "localhost" >>, << "localhost", "node1" >>,
                                  << "node1", "node2", "localhost" >> }),
      m \in Setting("BasicRemoteMethod", {"srun", "none"}) }

NoFile == [ exists |-> FALSE, entries |-> << >> ]
File(entries) == [ exists |-> TRUE, entries |-> entries ]

\* The file that is installed, and one a user may keep beside the task file.
SystemFile == File("Engine" :> "basic" @@ "BasicRemoteMethod" :> "ssh" @@ "StrictCheck" :> "yes")
UserFile == File("NWorkers" :> 2 @@ "NodeList" :> << "node1", "node2" >>)

Surroundings(user, system, env, ranks, cpus) ==
  [ user |-> user, system |-> system, env |-> env, ranks |-> ranks, cpus |-> cpus ]

MCStarts ==
  { [ worlds |-> { Surroundings(NoFile, SystemFile, "StrictCheck" :> c, 1, 2) :
                     c \in {"yes", "no"} },
      files |-> [ MCTaskId -> SomeLines ] ],
    [ worlds |-> { Surroundings(u, s, c, r, p) :
                     u \in {NoFile, UserFile}, s \in {NoFile, SystemFile}, c \in Configs,
                     r \in {1, 3}, p \in {2, 8} },
      files |-> { SomeFile } ] }
===============================================================================
