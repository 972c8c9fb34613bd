----------------------------- MODULE InferPack -----------------------------
(***************************************************************************)
(* The whole service: the control plane and the execution plane on one     *)
(* event loop, with the service layer (api/shared/pipeline_service.py) and *)
(* the handlers of the HTTP and gRPC servers between them and the clients. *)
(*                                                                         *)
(* ControlPlane lets anybody begin an inference at any time; here only the *)
(* stages of an admitted execution do.  Executor lets anybody execute any  *)
(* pipeline; here execute_pipeline looks at the pipeline's state first.    *)
(* A gRPC handler is cancelled when its client goes away, an HTTP handler  *)
(* is not.  HTTP has one route per built-in pipeline and insists on the    *)
(* images of its form; gRPC takes any name and any inputs.                 *)
(*                                                                         *)
(* Nobody calls request_unload here, and the restarts of InferPack and of  *)
(* Triton are left to ControlPlane alone.                                  *)
(***************************************************************************)
EXTENDS ControlPlane

CONSTANTS
  Executions, StagesOf, Keys, Inputs, MaxConcurrentExecutions,
  DefaultRetries, NoModel,  \* as in Executor
  Transport,                \* the server each request comes through
  Routes                    \* the form fields of the pipelines on HTTP

VARIABLES
  at, pipeline, given, data, results, attempt, slots,  \* as in Executor
  refused,                  \* why a request was not executed
  caller                    \* the server that activates a pipeline

E == INSTANCE Executor

\* MaxActive, a bound of ControlPlane, stands for no limit of the code: it must
\* leave room for every execution that may run.
ASSUME SystemAssumption ==
  /\ E!ConstantsOK
  /\ MaxConcurrentExecutions <= MaxActive
  /\ Transport \in [Executions -> {"http", "grpc"}]

execution == <<at, pipeline, given, data, results, attempt, slots>>
service   == <<refused, caller>>
\* All of the control plane but what begin_inference and end_inference touch.
settled   == <<mstate, refCount, pipelines, coroutine, locks, loop, call,
               triton>>
allVars   == <<vars, execution, service>>

Servers  == {"http", "grpc"}
Refusals ==
  {"no_form", "bad_inputs", "no_mapping", "not_found", "not_active"}

SystemInit ==
  /\ Init
  /\ E!Init
  /\ \A e \in Executions : Transport[e] = "http" =>
       pipeline[e] \in DOMAIN Routes /\ given[e] = Routes[pipeline[e]]
  /\ refused = [e \in Executions |-> "no"]
  /\ caller = [p \in Pipelines |-> "none"]

-----------------------------------------------------------------------------
(* Execution requests.                                                     *)

Arriving(e) == Quiet /\ at[e] = "new" /\ refused[e] = "no"

Refuse(e, why) ==
  /\ refused' = [refused EXCEPT ![e] = why]
  /\ UNCHANGED <<vars, execution, caller>>

\* A form field that the route declares with File(...) is missing: FastAPI
\* answers, and the handler does not run.
RefuseForm(e) ==
  /\ Arriving(e)
  /\ Transport[e] = "http"
  /\ Refuse(e, "no_form")

\* ExecutePipeline cannot parse inputs_json.
RefuseInputs(e) ==
  /\ Arriving(e)
  /\ Transport[e] = "grpc"
  /\ Refuse(e, "bad_inputs")

\* inputs_json is valid JSON and no mapping (5, null, [1]): inputs.update raises
\* TypeError or ValueError, which nothing catches, and the handler dies.
CrashOnInputs(e) ==
  /\ Arriving(e)
  /\ Transport[e] = "grpc"
  /\ Refuse(e, "no_mapping")

\* The client names a pipeline the registry does not have.
RefuseName(e) == Arriving(e) /\ Refuse(e, "not_found")

RefuseInactive(e) ==
  /\ Arriving(e)
  /\ pstate[pipeline[e]] # "active"
  /\ Refuse(e, "not_active")

RefuseRequest(e) ==
  \/ RefuseForm(e) \/ RefuseInputs(e) \/ CrashOnInputs(e)
  \/ RefuseName(e) \/ RefuseInactive(e)

\* Mutant: the pipeline's state is not looked at.
AdmitUnchecked(e) ==
  /\ Arriving(e)
  /\ E!Submit(e)
  /\ UNCHANGED <<settled, sweep, service>>

\* Mutant: the executor's semaphore is passed by.
AdmitBesideQueue(e) ==
  /\ Arriving(e)
  /\ pstate[pipeline[e]] = "active"
  /\ at' = [at EXCEPT ![e] = "stage"]
  /\ data' = [data EXCEPT ![e] = given[e]]
  /\ UNCHANGED <<vars, pipeline, given, results, attempt, slots, service>>

\* The pipeline is active: on to PipelineExecutor.execute, which may queue.
Admit(e) ==
  /\ Arriving(e)
  /\ pstate[pipeline[e]] = "active"
  /\ E!Submit(e)
  /\ UNCHANGED <<settled, sweep, service>>

\* begin_inference and end_inference refresh the model's last use.
Touched == sweep' = {m \in sweep : activeInf'[m] = activeInf[m]}

\* The event loop runs an execution up to its next suspension.
Work(e) ==
  /\ Quiet
  /\ E!Work(e)
  /\ Touched
  /\ UNCHANGED <<settled, service>>

\* The client of an ExecutePipeline call goes away.
HangUp(e) ==
  /\ "cancel" \in Faults
  /\ Quiet
  /\ Transport[e] = "grpc"
  /\ E!Cancel(e)
  /\ Touched
  /\ UNCHANGED <<settled, service>>

-----------------------------------------------------------------------------
(* Activation and deactivation requests, and everything in the background. *)

ActivateBy(server, p) ==
  /\ Activate(p)
  /\ caller' = [caller EXCEPT ![p] = server]

\* Mutant: the HTTP server cancels its handlers, too.
Cancellable(p) == TRUE

\* Only gRPC cancels the coroutine of an activation.
CancelledBy(p) == caller[p] = "grpc"

CancelActivation(p) ==
  /\ CancelledBy(p)
  /\ Cancel(p)
  /\ UNCHANGED caller

Background ==
  \/ \E p \in Pipelines : Deactivate(p) \/ Run(p) \/ Resume(p)
  \/ LifecycleLoop

ControlStep ==
  /\ \/ \E p \in Pipelines, server \in Servers : ActivateBy(server, p)
     \/ \E p \in Pipelines : CancelActivation(p)
     \/ Background /\ UNCHANGED caller
  /\ UNCHANGED <<execution, refused>>

ExecutionStep(e) ==
  \/ RefuseRequest(e) \/ Admit(e) \/ Work(e) \/ HangUp(e)

SystemNext == ControlStep \/ \E e \in Executions : ExecutionStep(e)

SystemSpec == SystemInit /\ [][SystemNext]_allVars

(***************************************************************************)
(* Fairness: as in ControlPlane and in Executor, one condition for each    *)
(* coroutine of the event loop.                                            *)
(***************************************************************************)
SystemFairSpec ==
  /\ SystemSpec
  /\ Fairness
  /\ \A e \in Executions : SF_allVars(Work(e))

-----------------------------------------------------------------------------
(* The answers.  The response of an execution that ended is built of its   *)
(* result (module Responses); where that fails the client gets 500 or      *)
(* UNKNOWN instead, which tell it nothing about the execution.             *)

\* What the handler of a request gets from the service layer, in the end.
Outcome(e) == IF refused[e] # "no" THEN refused[e] ELSE at[e]
Answered(e) == Outcome(e) \in Refusals \cup E!Ended

\* Mutant: the routes answer a failed execution like one that succeeded.
HttpFailureOk ==
  [no_form |-> "422", not_found |-> "404", not_active |-> "409",
   succeeded |-> "200", failed |-> "200", crashed |-> "500"]

\* A failed execution and a form that FastAPI refuses get the same status.
HttpStatus ==
  [no_form |-> "422", not_found |-> "404", not_active |-> "409",
   succeeded |-> "200", failed |-> "422", crashed |-> "500"]

\* A failed execution is an answer like any other, with success = false; an
\* exception that no handler catches is UNKNOWN, wherever it was raised.
GrpcStatus ==
  [bad_inputs |-> "INVALID_ARGUMENT", no_mapping |-> "UNKNOWN",
   not_found |-> "NOT_FOUND", not_active |-> "FAILED_PRECONDITION",
   succeeded |-> "OK", failed |-> "OK", crashed |-> "UNKNOWN",
   cancelled |-> "CANCELLED"]

Status(e) ==
  IF Transport[e] = "http" THEN HttpStatus[Outcome(e)]
                           ELSE GrpcStatus[Outcome(e)]
\* The statuses that tell a client that nothing was executed.
Unexecuted ==
  {"404", "409", "NOT_FOUND", "FAILED_PRECONDITION", "INVALID_ARGUMENT"}

-----------------------------------------------------------------------------
(* Properties.                                                             *)

\* The composition is one of the systems ControlPlane describes, with the
\* inferences that executions really make, at most max_concurrent_executions of
\* them at a time, and one of those Executor describes: the properties of both
\* hold in it.
PlanesKept == Spec /\ E!Spec

\* An execution calls a model of a pipeline that is active only while Triton
\* serves it: whoever idles, unloads, reloads or releases models meanwhile.
ActiveServes ==
  \A e \in Executions :
    at[e] = "infer" /\ pstate[pipeline[e]] = "active" =>
      mstate[E!Stage(e).model] = "ready" /\ triton[E!Stage(e).model]

\* An execution that is not refused started under an active pipeline, so every
\* model it may call was READY and loaded at that moment.
AdmittedServed ==
  [][\A e \in Executions : at[e] = "new" /\ at'[e] # "new" =>
       \A m \in Needs(pipeline[e]) : mstate[m] = "ready" /\ triton[m]]_allVars

\* An activation is stuck in ACTIVATING without a coroutine only if a gRPC
\* client walked away from it: an HTTP activation always reaches its end.
StuckOnlyByGrpc ==
  \A p \in Pipelines :
    pstate[p] = "activating" /\ pc[p] = "none" => caller[p] = "grpc"

\* What a status says is true: an error that tells the client to change its
\* request or to activate the pipeline has executed nothing, a request that
\* was not executed to an end is never answered with 200 or OK, and 200 means
\* that every stage was completed.  The other errors leave it open: 422 and
\* UNKNOWN are sent with and without an execution behind them.
StatusTruthful ==
  \A e \in Executions : Answered(e) =>
    /\ Status(e) \in Unexecuted => at[e] = "new"
    /\ Status(e) \in {"200", "OK"} => at[e] \in {"succeeded", "failed"}
    /\ Status(e) = "200" =>
         E!AllDone(e) /\ E!AllCompleted(results[e])

\* A request that reached the service layer is answered, whatever Triton, the
\* other requests and the lifecycle of the models do.
RequestAnswered == \A e \in Executions : at[e] # "new" ~> Answered(e)

\* A model that no pipeline references any more is unloaded in the end: the
\* executions still running with it cannot keep it for ever.
ReleasedUnloaded ==
  \A m \in Models : <>[](refCount[m] = 0) => <>[](mstate[m] = "unloaded")
=============================================================================
