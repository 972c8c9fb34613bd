------------------------------ MODULE Process ------------------------------
(***************************************************************************)
(* Start and stop of the process: lifespan (main.py), which builds the     *)
(* components (api/http/dependencies.py), discovers the pipelines, starts  *)
(* the lifecycle loop and the gRPC server, serves, and takes it all down   *)
(* in an order of its own.  Everything that talks to Triton, the handlers  *)
(* of both servers and the lifecycle loop, does so through one client.     *)
(*                                                                         *)
(* External: uvicorn starts lifespan before it takes HTTP requests, and    *)
(* on a signal takes no more of them and waits for those under way before  *)
(* it lets lifespan go on to its shutdown.  grpc.aio's stop refuses new    *)
(* calls at once and cancels the ones that outlast its grace.  Nothing     *)
(* cancels an HTTP handler.                                                *)
(***************************************************************************)
EXTENDS FiniteSets, Naturals

CONSTANTS
  Protocols,     \* what TritonConfig.protocol may be
  HttpRequests,
  GrpcRequests,
  Activations,   \* the HTTP requests that activate a pipeline
  StartFaults   \* the steps of the start that may raise

Steps == {"config", "components", "discovery", "loop", "grpc"}
\* What the constants have to be.
FaultAssumption == StartFaults \subseteq Steps

VARIABLES
  stage,     \* where lifespan is
  client,    \* the inference client: "none", its protocol, or "closed"
  task,      \* the lifecycle loop: "none", "idle", "calling" Triton or "done"
  running,   \* the requests whose handlers run
  finished,  \* the requests that are over
  signalled  \* uvicorn has been told to stop
vars == <<stage, client, task, running, finished, signalled>>
requests == <<running, finished>>

Init ==
  /\ stage = "config"
  /\ client = "none"
  /\ task = "none"
  /\ running = {}
  /\ finished = {}
  /\ signalled = FALSE

-----------------------------------------------------------------------------
(* Start.                                                                  *)

\* A step of the start, then the next one; any other variable it leaves alone.
Advance(from, to) == stage = from /\ stage' = to

LoadConfig ==
  /\ Advance("config", "components")
  /\ UNCHANGED <<client, task, requests, signalled>>

\* create_app_state: the client for triton.protocol, then all that shares it.
CreateComponents ==
  /\ Advance("components", "discovery")
  /\ client' \in Protocols
  /\ UNCHANGED <<task, requests, signalled>>

Discover ==
  /\ Advance("discovery", "loop")
  /\ UNCHANGED <<client, task, requests, signalled>>

StartLoop ==
  /\ Advance("loop", "grpc")
  /\ task' = "idle"
  /\ UNCHANGED <<client, requests, signalled>>

StartGrpc ==
  /\ Advance("grpc", "serving")
  /\ UNCHANGED <<client, task, requests, signalled>>

\* A value that cannot be read, an unknown protocol, a port that is taken:
\* lifespan raises and uvicorn exits; nothing is taken down.
StartFails ==
  /\ stage \in StartFaults
  /\ stage' = "failed"
  /\ UNCHANGED <<client, task, requests, signalled>>

Start ==
  LoadConfig \/ CreateComponents \/ Discover \/ StartLoop \/ StartGrpc

-----------------------------------------------------------------------------
(* Service.                                                                *)

Accepting(r) ==
  IF r \in HttpRequests THEN stage = "serving" /\ ~signalled
                        ELSE stage = "serving"

Accept(r) ==
  /\ Accepting(r)
  /\ r \notin running \cup finished
  /\ running' = running \cup {r}
  /\ UNCHANGED <<stage, client, task, finished, signalled>>

Answer(r) ==
  /\ r \in running
  /\ running' = running \ {r}
  /\ finished' = finished \cup {r}
  /\ UNCHANGED <<stage, client, task, signalled>>

\* The loop unloads a model: its call is under way, then over.
LoopCalls ==
  /\ task = "idle"
  /\ task' = "calling"
  /\ UNCHANGED <<stage, client, requests, signalled>>
LoopReturns ==
  /\ task = "calling"
  /\ task' = "idle"
  /\ UNCHANGED <<stage, client, requests, signalled>>

-----------------------------------------------------------------------------
(* Stop.                                                                   *)

Signal ==
  /\ stage = "serving"
  /\ ~signalled
  /\ signalled' = TRUE
  /\ UNCHANGED <<stage, client, task, requests>>

BeginShutdown ==
  /\ signalled
  /\ running \cap HttpRequests = {}
  /\ Advance("serving", "stop_grpc")
  /\ UNCHANGED <<client, task, requests, signalled>>

\* grpc_server.stop(grace=5) is over.
GrpcDrained == running = {}

\* Mutant: the server waits for its handlers however long they take.
GraceUnbounded ==
  /\ stage = "stop_grpc"
  /\ running # {}
  /\ UNCHANGED vars

\* The grace is over: what still runs is cancelled.
CancelRpcs ==
  /\ stage = "stop_grpc"
  /\ running # {}
  /\ running' = {}
  /\ finished' = finished \cup running
  /\ UNCHANGED <<stage, client, task, signalled>>

GrpcStopped ==
  /\ GrpcDrained
  /\ Advance("stop_grpc", "stop_loop")
  /\ UNCHANGED <<client, task, requests, signalled>>

\* Mutant: stop cancels the task and does not await it.
CancelLoopOnly ==
  /\ Advance("stop_loop", "close")
  /\ UNCHANGED <<client, task, requests, signalled>>

\* lifecycle_manager.stop: cancel the task, wherever it is, and await it.
StopLoop ==
  /\ Advance("stop_loop", "close")
  /\ task' = "done"
  /\ UNCHANGED <<client, requests, signalled>>

CloseClient ==
  /\ Advance("close", "stopped")
  /\ client' = "closed"
  /\ UNCHANGED <<task, requests, signalled>>

Ended == stage \in {"stopped", "failed"} /\ UNCHANGED vars

Shutdown ==
  BeginShutdown \/ CancelRpcs \/ GrpcStopped \/ StopLoop \/ CloseClient

Next ==
  \/ Start \/ StartFails \/ Shutdown \/ Signal \/ Ended
  \/ \E r \in HttpRequests \cup GrpcRequests : Accept(r) \/ Answer(r)
  \/ stage # "failed" /\ (LoopCalls \/ LoopReturns)

Spec == Init /\ [][Next]_vars

\* Does the handler of an HTTP request end, whatever Triton does?  An execution
\* does by the timeouts of its stages, a call over HTTP by that of the client;
\* but an activation waits for load_model, and over gRPC has no deadline.
Bounded(r) == r \notin Activations \/ client # "grpc"

(***************************************************************************)
(* Fairness: lifespan goes on when it can, and the handlers that are       *)
(* bounded end.                                                            *)
(***************************************************************************)
Fairness ==
  /\ WF_vars(Shutdown)
  /\ \A r \in HttpRequests : WF_vars(Bounded(r) /\ Answer(r))

FairSpec == Spec /\ Fairness

-----------------------------------------------------------------------------
\* The client of Triton is closed after everybody that uses it: no handler of
\* either server and no tick of the loop finds it closed or not there yet.
ClientOutlivesUsers ==
  running # {} \/ task \in {"idle", "calling"} => client \in Protocols

\* A process that is told to stop stops, although gRPC handlers may hang and
\* the loop may be in the middle of an unload; only an HTTP activation that
\* waits for a load over gRPC can keep it.
ShutdownCompletes ==
  signalled /\ (\A r \in running \cap HttpRequests : Bounded(r))
    ~> stage = "stopped"
=============================================================================
