----------------------------- MODULE Periphery -----------------------------
(***************************************************************************)
(* What surrounds the two planes of the service: the layers of the         *)
(* configuration (Configuration), the pipelines found in two directories   *)
(* (Discovery), the stage packages (StageRegistry), the start and stop of  *)
(* the process (Process) and its client of Triton (TritonClient).  The     *)
(* five share no state, and of their constants only Protocols: a behaviour *)
(* moves one of them, and the others rest in one of their initial states.  *)
(***************************************************************************)
EXTENDS TritonClient

CONSTANTS
  Builtins, Customs, Unhashable,            \* as in Discovery
  Files, Environments,                      \* as in Configuration
  Offers, EnvLists, ExtraLists,             \* as in StageRegistry
  HttpRequests, GrpcRequests, Activations, StartFaults  \* as in Process

VARIABLES
  part,                                                \* what moves
  files, done, entries, registered, reported,          \* as in Discovery
  yaml, env, config, applying, todo,                   \* as in Configuration
  failing, packages, tried, registry,                  \* as in StageRegistry
  lifespan, client, task, running, finished, signalled \* as in Process
discoveryVars == <<files, done, entries, registered, reported>>
configVars == <<yaml, env, config, applying, todo>>
packageVars == <<failing, packages, tried, registry>>
processVars == <<lifespan, client, task, running, finished, signalled>>
allVars ==
  <<part, vars, discoveryVars, configVars, packageVars, processVars>>

Disc == INSTANCE Discovery
Conf == INSTANCE Configuration WITH file <- yaml, stage <- applying
Pack == INSTANCE StageRegistry WITH loaded <- tried
Proc == INSTANCE Process WITH stage <- lifespan

\* What the parts ask of their constants.
ASSUME PeripheryAssumption ==
  /\ Disc!DirectoriesAssumption
  /\ Pack!ListsAssumption
  /\ Proc!FaultAssumption

-----------------------------------------------------------------------------
(* An initial state of each part, for it to rest in.                       *)

DiscoveryRests ==
  /\ files = Disc!Scanned(Disc!Marked(CHOOSE b \in Builtins : TRUE, TRUE),
                          Disc!Marked(CHOOSE c \in Customs : TRUE, FALSE))
  /\ Disc!Init

ConfigRests ==
  /\ yaml = CHOOSE f \in Files : TRUE
  /\ env = CHOOSE e \in Environments : TRUE
  /\ Conf!Init

PackagesRest ==
  /\ packages = Pack!DomainPackages(CHOOSE l \in EnvLists : TRUE,
                                    CHOOSE l \in ExtraLists : TRUE)
  /\ failing = {}
  /\ Pack!Init

ClientRests == protocol = (CHOOSE p \in Protocols : TRUE) /\ Init

Starts(name, init, rest) == IF part = name THEN init ELSE rest

PeripheryInit ==
  /\ part \in {"discovery", "config", "packages", "process", "client"}
  /\ Starts("discovery", Disc!Init, DiscoveryRests)
  /\ Starts("config", Conf!Init, ConfigRests)
  /\ Starts("packages", Pack!Init, PackagesRest)
  /\ Proc!Init
  /\ Starts("client", Init, ClientRests)

PeripheryNext ==
  /\ UNCHANGED part
  /\ \/ /\ part = "discovery"
        /\ Disc!Next
        /\ UNCHANGED <<vars, configVars, packageVars, processVars>>
     \/ /\ part = "config"
        /\ Conf!Next
        /\ UNCHANGED <<vars, discoveryVars, packageVars, processVars>>
     \/ /\ part = "packages"
        /\ Pack!Next
        /\ UNCHANGED <<vars, discoveryVars, configVars, processVars>>
     \/ /\ part = "process"
        /\ Proc!Next
        /\ UNCHANGED <<vars, discoveryVars, configVars, packageVars>>
     \/ /\ part = "client"
        /\ Next
        /\ UNCHANGED <<discoveryVars, configVars, packageVars, processVars>>

PeripherySpec == PeripheryInit /\ [][PeripheryNext]_allVars

\* The fairness of the parts: none of the actions it names is enabled in the
\* initial state of a part, so one that rests owes nothing.
PeripheryFairSpec == PeripherySpec /\ Fairness /\ Proc!Fairness

-----------------------------------------------------------------------------
(* The properties of the parts; BelievedIsLoaded and CallReturns are those *)
(* of TritonClient.                                                        *)

\* As in Discovery.
OneFileSparesOthers == Disc!OneFileSparesOthers

\* As in Configuration.
Priority == Conf!Priority

\* As in StageRegistry.
BuiltinTypesServed == Pack!BuiltinTypesServed

\* As in Process.
ClientOutlivesUsers == Proc!ClientOutlivesUsers

\* As in Process.
ShutdownCompletes == Proc!ShutdownCompletes
=============================================================================
