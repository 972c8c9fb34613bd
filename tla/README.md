# InferPack: TLA+ models, model checking and proofs

InferPack (`src/inferpack`) is an inference runtime: one asyncio process that
keeps declarative pipelines (YAML), loads and unloads the models they need in an
NVIDIA Triton server, and runs the stages of a pipeline on request. This
directory models what its source decides: concurrency and failure first, then
the sequential parts whose boundaries are hard to test.

    CoreTypes ─┬─ ControlPlane ─┬─ ControlPlaneProperties ─┬─ MCControlPlane
               │                │     (INSTANCE ModelLease) └─ ControlPlaneProofs
               │                │                                └─ ServingProofs
               │                └─ InferPack ─┬─ MCInferPack
               │                     │        └─ InferPackProofs
               │                     │  (InferPack EXTENDS ControlPlane, INSTANCE
               │                     │   Executor; its proofs EXTEND ServingProofs,
               │                     │   INSTANCE ExecutorProofs)
               └─ Executor ─┬─ MCExecutor
                   │        └─ ExecutorProofs
                   └ (INSTANCE PipelineJobs)
    ModelLease ── ModelLeaseProofs          what the control plane promises
    PipelineJobs                            what the executor promises
    Nms ── DataPath ─┬─ MCDataPath          greedy non-maximum suppression;
              │      └─ DataPathProofs      DataPath also instantiates
              ├─ ScrfdOutputs               which tensor is which
              ├─ Regions                    letterbox, boxes, crops
              ├─ FaceLists                  lists from detection to comparison
              └─ Responses                  from output to answer
    TritonClient ── Periphery ─┬─ MCPeriphery     calls to Triton, late answers;
                        │      └─ PeripheryProofs Periphery also instantiates
                        ├─ Discovery              YAML files to pipelines
                        ├─ StageRegistry          packages to stage types
                        ├─ Configuration          defaults, file, environment
                        └─ Process                start and stop
    Counting: a lemma on cardinalities that proof modules use

Run `tlc -config <run>.cfg <module>` for a run (`PROJECT.json` names the module
of each) and `tlapm <module>.tla` for the proofs. Operators whose comment begins
with "Mutant:" are plausible bugs of the operator that follows them. Nothing
uses them; substituting one for its neighbour must make a property fail.

## 1. Inventory of the system

Paths are relative to `src/inferpack`.

| Component | State | Operations | Interacts with |
|---|---|---|---|
| Model registry, `control/model_registry.py` | per model: state, `ref_count`, `active_inferences`, `last_used` | `register`, `transition` (table-checked), `increment_ref`, `decrement_ref`, `begin_inference`, `end_inference`, queries | called by every other part; atomic under one thread lock |
| Model lifecycle manager, `control/model_lifecycle.py` | a lock per model, the load semaphore, the background task | `ensure_model_ready`, `request_unload`, the loop that idles and unloads, `start`/`stop` | awaits Triton; shares the registry with everybody |
| Pipeline registry, `control/pipeline_registry.py` | per pipeline: definition and activation state | `discover`, `register`, `activate`, `deactivate`, queries | takes and returns references, awaits `ensure_model_ready` |
| Executor and stage runner, `execution/` | the execution semaphore; per execution: context, stage results, attempt | `execute`, `run_stage`, `record_stage` | awaits stages under a timeout |
| Model stages, `stages/face/` | none | `validate_inputs`, `execute` | bracket calls to Triton with `begin_`/`end_inference` |
| Computing stages and helpers, `stages/shared/`, `stages/_utils/` | none | `validate_inputs`, `execute`, letterbox, crop, NMS | pure |
| Stage registry, `stages/registry.py` | package list | `build_stage_registry` | once, at start |
| Triton clients, `inference/` | a connection | load, unload, ready, infer | the external server |
| Service layer, `api/shared/` | none | activate, deactivate, execute (checks ACTIVE), `make_json_safe` | between API and the two planes |
| HTTP and gRPC APIs, `api/` | none | one handler per operation, errors to status codes | gRPC cancels the coroutine of a handler whose client leaves |
| Configuration, `config.py` | dataclasses | defaults, then YAML, then environment | limits of all the above |
| Process, `main.py` | everything, in memory | start, shutdown | a restart forgets everything, Triton does not |

What is hard, and what makes each component correct:

* **Activation and lifecycle.** Everything runs on one event loop, but every
  `await` is a point where another activation, the lifecycle loop, an inference
  or a client's cancellation gets in. A model must be loaded by one coroutine at
  a time (`SingleLoader`), within `max_concurrent_loads` (`LoadBound`), and
  reference counts must survive failed activations (`RefExact`, `RefNoLeak`).
  An active pipeline's models are ready (`LeaseSpec`, whose `ModelLease` promises
  just that) and loaded (`ServedIsLoaded`), a model in use is not unloaded
  (`UnloadSparesInference`), no activation waits for ever
  (`ActivationEnds`) and unused models go away (`IdleUnloaded`).
* **Execution.** Slots, attempts, timeouts and the inference counter must
  balance on every way out (`SlotBound`, `InferenceBalance`), the result must say
  what happened (`OutcomeShape`), the context must hold completed work only
  (`DataFlow`), stages must find their keys (`KeysFlow`) and every request is
  answered (`RequestAnswered`). To the client it is a job that goes through its
  stages (`JobSpec`, whose `PipelineJobs` knows no attempts or timeouts).
* **The two together.** An execution passes the check of its pipeline's state,
  queues, and only then calls models that others may idle, unload or reload
  (`ActiveServes`, `AdmittedServed`, `ReleasedUnloaded`); who may be cancelled,
  and what the client is told, depends on the server (`StuckOnlyByGrpc`,
  `StatusTruthful`).
* **Triton's clients.** A call that was given up may be carried out long after,
  and behind calls sent later (`BelievedIsLoaded`); a call must end, which over
  gRPC nothing but its answer does (`CallReturns`).
* **Stages.** A network answers under the names its export gave it, for boxes
  that may be degenerate or beside the image, in batches: the right tensors
  (`OwnTensors`), boxes (`GreedyKept`), regions (`RegionCovers`,
  `FailsForReason`) and faces (`Aligned`, `BestFirst`) must come out.
* **Answers.** The output must fit the schema of its route however many faces
  there are, and keep two images apart (`OwnDetails`).
* **Start and stop.** Bad files, packages and values must spare the good ones
  (`OneFileSparesOthers`, `BuiltinTypesServed`) or stop the start altogether
  (`Priority`); the shared client is closed last
  (`ClientOutlivesUsers`) and the process ends (`ShutdownCompletes`).

`PROJECT.json` lists the hazards of this code line by line, with the properties
that watch each of them or the reason why none does.

## 2. The modules and the code

**CoreTypes** is `core/types.py`: state names, the transition table, and
`CanMove`, which says whether `ModelRegistry.transition` succeeds.

**ControlPlane** has one action per uninterrupted piece of code. `pc[p]` is
where the activation coroutine of pipeline `p` is. `"next"`, `"ensure"`,
`"begin"`, `"fail"` are points inside an uninterrupted run; `"lock"`, `"poll"`,
`"sem"`, `"load"`, `"warm"` are its suspension points (the model's lock,
`_wait_for_state`, the semaphore, `load_model`, `_warmup`). `Quiet` says that
nobody is in the middle of a run; only then is another coroutine resumed or a
new call delivered, which is exactly asyncio's scheduling. Correspondence:

| Code | Actions |
|---|---|
| `activate` | `Activate`, then `ReserveModel` for each model, `FinishActivation` or `Fail` |
| `deactivate` (no suspension point) | `Deactivate` |
| `ensure_model_ready` | `GrantLock`, `FoundReady`, `FoundUnloading`, `FoundNotLoaded`, `PollUnloaded`, `PollExpires` |
| `_load_model`, `_warmup` | `GrantPermit`, `BeginLoad`, `BeginLoadRefused`, `LoadSucceeds`, `LoadFails`, `Warmed` |
| `_unload_model`, `request_unload` | `StartUnload`, `RequestUnload`, `UnloadReturns` |
| `_lifecycle_loop` | `Tick` (snapshot), `SweepUnload`, `SweepBusy`, `SweepEnd` |
| `begin_inference`, `end_inference` | `BeginInference`, `EndInference` |
| cancellation of a handler, restart of InferPack, of Triton | `Cancel`, `Restart`, `TritonRestart` |

`held[p]` is a history variable: the references that `p` has taken and not yet
given back. The code keeps only the counts; `held` lets a property say what the
counts ought to be. `triton[m]` is the external truth: is the model loaded.
`Faults` names the unhappy events an instance allows.

Abstracted: clock time (any subset of the idle models may be old enough at a
tick; `touch` takes a model out of the current sweep, as the loop's comparison
with the earlier `now` does), the first-come order of asyncio's waiters (any
waiter may be next), the number of warm-up checks (they have no effect).

**ModelLease** is what the control plane promises, without coroutines, locks or
counters: a pipeline leases its models one by one, commits when all are served,
drops everything at once, and a model is withdrawn only when no lease is left.
`ControlPlaneProperties` instantiates it with `leases <- held`,
`serving <-` the READY models and `committed <-` the ACTIVE pipelines.

**Executor**: `at[e]` is where an execution is (`"queued"` for the semaphore,
`"stage"` at the head of the loop, `"attempt"` in `run_stage`, `"infer"` in the
call to Triton, `"backoff"` in the sleep). A stage is a record: is its type
registered, the keys it reads and writes, whether its validation may refuse a
value, its model, its `max_retries`. A context is the set of its keys. The
several calls to Triton which ArcFace makes in one bracket are one, because
nothing changes between them.

| Code | Actions |
|---|---|
| `PipelineExecutor.execute` | `Submit`, `GrantSlot`, `End` (leaving the semaphore) |
| `_run` | `StartStage`, `UnknownStage`, `Succeed`, `Abort` |
| `run_stage` | `Reject` (validation), `Compute`, `Complete`, `Miss`, `Retry` |
| `execute` of the model stages | `StartInference`, `InferReturns`, `InferFails`, `TimeOut` |
| cancellation of a handler | `Cancel` |

An attempt loop that runs zero times (`default_max_retries` below 0) leaves
`t0` unbound, so the request dies outside of every handler: `NoAttempt`.

**PipelineJobs** is what the executor promises: a job waits for a worker, passes
the stages of its pipeline in order, each of them whole or not at all, and ends
once, in success exactly when it has passed all of them; its end frees the worker.
`Executor` instantiates it with `phase <- jobPhase` (waiting, working, or how it
ended), `passed <- jobPassed` (the recorded stages without a failing last one),
`context <- jobContext` and `free <- slots`. Calls to models, attempts, back-off
and the queue are stutters there.

**InferPack** is the whole service. It extends `ControlPlane`, whose inferences
anybody may begin, and instantiates `Executor`, whose pipelines anybody may
execute, with one variable in common (`activeInf`), and adds what stands between
them and the clients: `RefuseInputs`, `RefuseName`, `RefuseInactive` and `Admit`
are `PipelineService.execute_pipeline` and the handlers' error cases, `Work` the
executor's steps, `HangUp` and `CancelActivation` the cancellation that only
gRPC has. Two requests are answered without the service layer: a form without its
image is FastAPI's own 422 (`RefuseForm`), and `inputs_json` that is valid JSON but
no mapping kills the gRPC handler, since only `JSONDecodeError` is caught
(`CrashOnInputs`). `Status` maps outcomes to status codes; the client cannot tell
from 422 or UNKNOWN whether anything was executed. That the composition really is
a `ControlPlane` and an `Executor` is checked and proved (`PlanesKept`), so their
properties and theorems apply to it. It assumes room in `MaxActive` for every
execution (`SystemAssumption`): the code limits inferences by its semaphore only.

**TritonClient** has a queue of requests per model that Triton has not looked at
yet. `Send`, `Answered`, `Disconnected`, `TimesOut` are `load_model` and
`unload_model` of both clients with their status handling; `CarryOut` is Triton
(external), which may take any request that has got to it: the HTTP client has a
connection per call, so nothing keeps the order of sending. `believed` is what the
manager may conclude. `overtaken` is a history variable: Triton has answered a load
while an unload sent before it, and given up, was still on its way.

**Process** is `lifespan`: one action per step of start and shutdown, requests
and lifecycle loop going on meanwhile; uvicorn and grpc.aio are external. `client`
is the protocol that was configured: of it, and of whether a request activates a
pipeline, depends whether its handler ends whatever Triton does (`Bounded`).

**Discovery**: one action per file of `discover`; a file is what `_load_yaml`
and `register` can stumble over. **StageRegistry**: one action per package of
`build_stage_registry`. **Configuration**: the value of a field is the layer it
comes from; `ApplyYaml` and the overrides of `_apply_env`, variable by variable.

**Nms**: one action per turn of the loop in `greedy_nms`, on integer boxes and
an exact threshold. **ScrfdOutputs**: `_infer_output_names`, the fallback and
`_decode_scrfd` stride by stride, a tensor being its name, rows and columns.
**Regions**: the arithmetic from image to canvas to box to crop, in fractions
with a common denominator. **FaceLists**: the lists between the stages, batching
and the choice of what is compared. **Responses**: `make_json_safe` and the
responses of both servers on kinds of values.

## 3. The runs

| Run | Instance | Distinct states | Shows |
|---|---|---|---|
| `ControlPlane_shared` | 3 pipelines, 2 models in opposite orders, 1 load at a time, no faults | 5,984 | exact counts, READY follows the references, implements `ModelLease` |
| `ControlPlane_faults` | built-in pipelines, every fault, an outside caller of `request_unload` | 237,042 | types and counters in range, one loader per model, load bound, no leaked reference, unloads spare inferences |
| `ControlPlane_lease` | 2 pipelines without a common model, Triton faults, cancellation, restart | 71,608 | served means loaded, implements `ModelLease` |
| `ControlPlane_live` | 2 pipelines, 2 models in opposite orders, Triton faults, fairness | 26,292 | no orphaned transitional state, activations end, unused models are unloaded |
| `Executor_mixed` | 3 requests, 2 slots, `face_comparison`, the right or the wrong images, a retried, an unknown and an unattempted stage | 1,355,904 | implements `PipelineJobs`; inference counter, outcome, data flow, keys found |
| `InferPack_faults` | an HTTP and a gRPC request, 1 slot, failing loads and unloads, cancellation | 1,678,324 | an active pipeline is served, a request is admitted to loaded models only, HTTP leaves no activation stuck, statuses are true, the composition implements both planes |
| `InferPack_live` | a pipeline with a model, one whose stage has no attempt, 2 requests, fairness | 104,184 | requests are answered, released models are unloaded |
| `DataPath_parts` | see below | 75,100 | the right tensors, boxes, regions and faces; answers that fit and belong together |
| `Periphery_parts` | see below, fairness | 59,724 | layers, files and packages; client closed last, shutdown completes; believed means loaded, calls end |

The modules of the sequential parts share no state, so two runs check them in
groups: a behaviour of `DataPath` or `Periphery` moves one part (`part`), and
the others rest in an initial state.

| Part | Instance | Properties |
|---|---|---|
| ScrfdOutputs | 2 strides, one tensor missing or more, 4 ways to name them | `OwnTensors` |
| Nms | 3 boxes of 8 shapes, equal scores | `GreedyKept` |
| Regions | images in and beyond the canvas, boxes anywhere | `RegionCovers`, `FailsForReason` |
| FaceLists | up to 3 faces an image, batches of 2 | `Aligned`, `BestFirst` |
| Responses | 0 to 21 faces, lists cut at 20 | `OwnDetails` |
| Discovery | up to 2 built-in and 3 custom files of every kind | `OneFileSparesOthers` |
| Configuration | files and environments of up to 2 entries | `Priority` |
| StageRegistry | 2 other packages in every order, failures | `BuiltinTypesServed` |
| Process | 2 HTTP requests, one of them an activation, 2 gRPC requests, both clients, every failing step | `ClientOutlivesUsers`, `ShutdownCompletes` |
| TritonClient | both protocols, 2 models, a backlog of up to 2, any order | `BelievedIsLoaded`, `CallReturns` |

The other runs end in a counterexample on purpose: what a comment or docstring
says, the code does not do (`findings` in `PROJECT.json` quotes each).

| Run | Claim | What happens |
|---|---|---|
| `ControlPlane_rollback` | `pipeline_registry.py:183` "Roll back ref counts" | a failed activation decrements all of its models, those it has not incremented included, so another pipeline loses a reference |
| `ControlPlane_deactivate_error` | `servicer.py:99` "release its model references" | deactivating from ERROR decrements once more after the rollback already did |
| `ControlPlane_cancel` | `model_lifecycle.py:98` "by the time we get here it's done" | `CancelledError` passes `except Exception`; the model is left LOADING or WARMING and the next activation fails on it |

These explain how the passing runs divide: `RefExact` and the refinement are
checked where no load fails, the refinement again where no two pipelines share a
model, because a failed load of a shared model breaks both (first two rows);
`NoOrphan` is checked without cancellation (third row); `ServedIsLoaded` without
a restart of Triton, which nothing tells the registry about. For pipelines that
share no model the claims of the first two rows are theorems (`RollbackOfOwn`,
`DeactivationOfOwn`). What the code keeps
in spite of every fault is checked together in `ControlPlane_faults`.

Other places where the code does not do what its text says are part of the
models, and are not runs of their own:

| Where | Text | What the model does there |
|---|---|---|
| `InferPack`, `Work` | `pipeline_service.py:34` "Execute the named active pipeline" | a deactivation may overtake a queued execution |
| `InferPack`, `Status` | `servicer.py:4` "identical behaviour over both transports" | a failed execution is HTTP 422 and gRPC OK |
| `InferPack`, `CrashOnInputs` | `servicer.py:136` "Invalid inputs_json" | valid JSON that is no mapping is UNKNOWN and not INVALID_ARGUMENT |
| `Discovery`, `Register` | `pipeline_registry.py:74` "Failed to load pipeline" | a file whose models are null is reported and registered |
| `Configuration`, `EnvMap` | `config/inferpack.yaml:2` "Override any value" | there are no variables for the fields of `execution` and most of `model_lifecycle` |
| `Nms`, `Survives` | `nms.py:26` only IoU above the threshold suppresses | 0/0 of boxes without area suppresses, too |
| `ScrfdOutputs`, `Found` | `scrfd_detection.py:199` "suffix fallback" | the fallback is looked up the wrong way round |
| `Regions`, `PreprocessFails`, `CropFails` | `image_ops.py:94` "fit inside", `region_crop.py:40` "each detected bounding-box region" | a thin image and a box in the padding fail the request |
| `FaceLists`, `EmbedNothing` | `arcface_extraction.py:16` "each 512-d L2-normalised" | an answer without the tensor becomes an empty vector; one vector for a whole batch, so that places no longer say whose the embeddings behind it are |
| `FaceLists`, `Compare` | `feature_comparison.py:12` "0.0-1.0" | the cosine may be negative |

Two gaps which no text of the code speaks of show in the shape of a property, as
the one case it excepts. A load that overtakes an unload given up before it leaves
the manager with a model Triton is about to drop (`BelievedIsLoaded`). And an
HTTP activation that waits for a load over gRPC, which the shipped `inferpack.yaml:15`
configures, is waited for without limit when the process is told to stop: the grace
of `main.py:106` is for gRPC handlers (`ShutdownCompletes`).

**Bounds.** Every hazard of the control plane involves at most two activations,
the loop and one client at a time; two models are the least with an order, three
pipelines let one wait for the lock, one for the semaphore and one hold both.
`MaxConcurrentLoads = 1` makes the semaphore contended and `MaxActive = 1` makes
a model busy or not (`ControlPlane` compares the counter with zero only).
`MaxActive` bounds the inferences in flight, which the code leaves to the
executor's semaphore; everything else is finite by itself. In the executor three requests over two
slots queue. The instances take the built-in pipelines' stages and models from
`pipelines/builtins/*.yaml`; `Executor_mixed` executes `face_comparison`, where
only the suffix of a key tells two images apart (`face_detection` is a shorter
chain of the same stages); that the keys of both files are wired from the images on is an assumption
TLC evaluates (`BuiltinsWired`). No symmetry is used,
the pipelines being different from one another.

`InferPack` needs one slot and two requests for one to queue while the other is
overtaken. In `TritonClient` a backlog of two (`MaxBacklog`) is the least in which
a request given up and the one waited for are on the way together; models do not
interact there, and two are enough to see that. Three boxes are the least in
which a suppressed box could wrongly suppress; three faces in batches of two give
a full and a short batch; two strides are the least that could be mixed up; a
canvas of side 4 has images thinner than it can show; 21 faces are one more than
`make_json_safe` leaves in a list. Discovery and configuration take every
combination of one defect with good neighbours on both sides.

**Deadlock** is checked in every run. The control plane can always accept a call;
the executor's `Finished`, and `Ended` elsewhere, is the state in which all is
done; a module of several parts stops only where the part that moves does.

## 4. Fairness

One strong-fairness condition per coroutine. A coroutine is at one place at a
time, so the condition says: what it waits for, if it is there again and again,
resumes it. The event loop's ready queue and the waiter queues of asyncio's
locks and semaphores are first come first served, which justifies the strong
form. The lifecycle loop is one coroutine more; since clock time passes, a model
that is idle at tick after tick is at last found old enough. In `ControlPlane`
Triton is assumed to answer every call, with success or failure: the gRPC client
has no deadline on `load_model`, and without an answer nothing could be promised.
In `Executor` Triton owes nothing: the timeout is enough. Clients, inferences,
cancellations and faults are never assumed to happen. `InferPack` takes both as they
are: one condition for each coroutine on the loop.

In `TritonClient` only the event loop is fair: it resumes a call whose answer has
come or, over HTTP, whose 60 seconds are over. Triton owes nothing there, so
`CallReturns` promises an end over HTTP, and over gRPC to a call that is answered;
one that is not may last for ever, which no property excludes. In `Process` the
shutdown goes on when it can, and the HTTP handlers that are `Bounded` end:
executions by the timeouts of their stages, activations by the timeout of the HTTP
client. An HTTP activation over the gRPC client, which the shipped configuration
has, may hang like gRPC handlers and the loop, and `ShutdownCompletes` excepts it:
gRPC handlers are cancelled after their grace, HTTP handlers never. In
`Periphery` both fairness conditions stand side by side: a part that rests in
its initial state has none of the actions they name enabled, and owes nothing.

## 5. Proofs

`ControlPlaneProofs` proves, for any finite set of pipelines, any models, any
injective lists of models, any positive `max_concurrent_loads` and any set of
faults (`PipelinesAssumption`, `BoundsAssumption`):

| Theorem | Property |
|---|---|
| `Invariance` | `Spec => []IInv` |
| `TypeCorrect` | `Spec => []TypeOK` |
| `MutualExclusion` | `Spec => []SingleLoader` |
| `LoadsBounded` | `Spec => []LoadBound` |
| `NoReferenceLeak` | `Spec => []RefNoLeak` |
| `InferencesSpared` | `Spec => UnloadSparesInference` |
| `UnloadsAttended` | `Spec => []UnloadsInFlight`, the part of `NoOrphan` that holds under every fault |

None of the properties is inductive by itself. `IInv` adds:

* `PositionOK`: a coroutine that waits or works has a current model, and only
  an ACTIVATING pipeline has a coroutine. Without it `Cur(p)` could lie outside
  the list, and a second `activate` could start over a running one.
* `LockOwned`: a coroutine inside a lock is its recorded owner. With
  `SingleLoader`'s second conjunct (an owner is inside) the lock table and the
  program counters determine each other, and mutual exclusion follows.
* `HeldOK`: an activation holds nothing of what it has yet to visit, and a
  pipeline that can be activated holds nothing. So `increment_ref` always adds
  a new holder, and `RefNoLeak` survives it. This is where the assumption
  that a pipeline lists a model once is used.

`LoadBound` also feeds type correctness: a permit is given back by somebody who
was counted, so the semaphore cannot exceed its initial value. The proof of each
part has one case per coroutine; all steps of a coroutine fall into few kinds
(stay outside, enter, stay inside, leave), and one lemma per kind does the work.

`IInv` was model-checked on the instance of `ControlPlane_faults` before it was
proved.

`InferencesSpared` needs types only: whatever leads to UNLOADING passes
`StartUnload`, whose callers look at `active_inferences` in the same uninterrupted
piece of code. `UnloadsAttended` needs one invariant more, `LoopCall`: the loop has
an unload in flight only while it waits for it. Otherwise its next unload would
overwrite the record of the one before.

`ServingProofs` goes on from there, on the same constants, with what holds only
while certain things do not happen; the findings of section 3 show why each
assumption is needed. *Orderly* means that nobody but the loop unloads (as in this
repository) and either no two pipelines share a model (`Apart`), whatever fails,
expires, is cancelled or restarted, or no activation can fail: no load fails, no
poll expires and no handler is cancelled (`Undisturbed`), while unloads may fail,
everything may restart and pipelines may share models in any way.

| Theorem | Property | Assumes |
|---|---|---|
| `ServedLoaded` | `Spec => []ServedIsLoaded` | no restart of Triton, nobody but the loop unloads |
| `NoOrphans` | `Spec => []NoOrphan` | no cancellation |
| `LoadsSerialised` | `Spec => []LockSerialisesLoads`, the claim of `ControlPlane_cancel` | no cancellation |
| `ReferencesExact` | `Spec => []RefExact` | *Orderly* |
| `ReadinessFollowsReferences` | `Spec => ReadyFollowsReferences` | *Orderly*, no restart of InferPack |
| `ImplementsLease` | `Spec => LeaseSpec` | *Orderly* |
| `ActiveMeansServed` | `Spec => []Lease!CommittedServed` | *Orderly* |
| `RollbackOfOwn` | `Spec => RollbackExact`, the claim of `ControlPlane_rollback` | *Orderly* |
| `DeactivationOfOwn` | `Spec => DeactivateOwnReferences`, the claim of `ControlPlane_deactivate_error` | *Orderly*, no restart of InferPack |

* For `ServedLoaded`, an unload in flight must be of a model that is UNLOADING
  (`InFlight`), and a load under way of one that only its loader moves
  (`Loading`): then whatever Triton carries out, no model believed served is hit.
* `NoOrphans` adds `Attended` (LOADING and WARMING have their loader) to
  `UnloadsInFlight`: only `BeginLoad` and `LoadSucceeds` lead there, and without
  cancellation a coroutine that leaves the step takes its model along.
* The others share `LeaseInv`: an activation has the references of all the models
  behind it (`Collected`), those models are READY (`Secured`), counts are exact
  (`RefExact`), and what `ServedLoaded` needs of the loop and the loads holds
  (`LoopInv`). READY is kept because the loop idles only at count zero, and
  exactness says that no holder is left then. With it `ReserveModel` is a `Take` of
  `ModelLease`, `FinishActivation` a `Commit`, `Deactivate` and the rollback in
  `Fail` are a `Drop`, the step that finds or makes a model READY a `Serve`, the
  end of a sweep a `Withdraw`, `Restart` a `Crash`; all other steps stutter.
* Only what decrements counts can break this: a rollback decrements every model of
  its pipeline, taken or not. Where pipelines share none, `decrement_ref`
  stops at zero and nobody else is hit (`DropOwn`, `DropExact`). Where they do,
  no rollback may happen: `SmoothInv` shows that none does, because every
  coroutine finds its model where its last step left it (`OnCourse`), the loop's
  snapshot holds loaded models only (`SweepOK`) and transitional states are
  attended (`Attended`), so no step of an activation is refused.

`LeaseInv` was model-checked before it was proved, on three pipelines sharing two
models with failing unloads and restarts, and on the instance of
`ControlPlane_lease`.

`ExecutorProofs` proves, for any finite set of executions, pipelines of any length
over any stages, and any positive number of slots (`ExecutorAssumption`, that is `ConstantsOK`):

| Theorem | Property |
|---|---|
| `TypeCorrect` | `Spec => []TypeOK` |
| `SlotsBounded` | `Spec => []SlotBound` |
| `InferencesBalanced` | `Spec => []InferenceBalance` |
| `ContextExact` | `Spec => []DataFlow` |
| `OutcomeTruthful` | `Spec => []OutcomeShape` |
| `RetriesBounded` | `Spec => []AttemptsBounded` |
| `KeysFound` | `Spec => []KeysFlow` |
| `ImplementsJobs` | `Spec => JobSpec` |

Its inductive invariant is the conjunction of the first five with `PositionOK`: an
execution inside `run_stage` stands at a stage it has not recorded yet, its
attempts are between 1 and `max_retries + 1`, and an inference has a model and its
inputs. Every action is a step of one execution (`OnlyOneMoves`); what it does to
the semaphore or to a counter is one of three kinds, and each kind changes a
cardinality by at most one (`Counting`). `KeysFound` needs all of it: an execution
at an attempt has completed every stage before, so the context holds what they
wrote. `ImplementsJobs` needs `OutcomeShape` and `PositionOK`: whoever works has
passed exactly the stages it recorded (`Working`), so every end but a success
leaves a stage over. `SlotBound` needs no run: `JobSpec` implies it.

`InferPackProofs` proves, for any requests over any transport and pipelines as in
both planes (`SystemAssumption`, which includes `MaxConcurrentExecutions <=
MaxActive`):

| Theorem | Property | Assumes |
|---|---|---|
| `Composition` | `SystemSpec => PlanesKept`, that is `Spec /\ E!Spec` | |
| `ServiceInvariance` | both inductive invariants | |
| `RequestsAreJobs` | `SystemSpec => JobSpec`, of the instance of `Executor` | |
| `StuckIsGrpc` | `SystemSpec => []StuckOnlyByGrpc` | |
| `StatusesTruthful` | `SystemSpec => []StatusTruthful` | |
| `AdmissionServed` | `SystemSpec => AdmittedServed` | *Orderly*, no restart of Triton |
| `CallsServed` | `SystemSpec => []ActiveServes` | the same, and stages infer with models their pipeline lists (`StagesListed`) |

That the service is an `Executor` follows step by step. That it is a `ControlPlane`
does not: an execution's step must be an inference that begins below `MaxActive`
or ends above zero. This needs the executor's invariant: the counter is the number
of executions in a call (`InferenceBalance`), all of them inside the semaphore
(`SlotBound`), so whoever is about to call finds room (`RoomToCall`) and whoever
calls is counted (`CallCounted`). `AdmissionServed` and `CallsServed` then carry
`Secured` and `ServedIsLoaded` over from the control plane, for pipelines without a
common model under every fault of `InferPack_faults`. `StatusesTruthful`
adds that a refused request was never executed, and which server refuses and
cancels for which reasons (`Answers`): the statuses that deny an execution come from
refusals only, but not every refusal has one of them.

`ModelLeaseProofs` proves `PromiseKept`, `Spec => []CommittedServed`: what a system
that implements `ModelLease` gives its clients.

`PeripheryProofs` proves one theorem for each part of `Periphery`, as a theorem of
that part's own specification, and that every behaviour of `Periphery` is one of
all five (`PartsKept`: a part that rests stutters):

| Theorem | Property | For every |
|---|---|---|
| `BelievedLoaded` | `Spec => []BelievedIsLoaded` | model, protocol, backlog and order in which it is carried out (`ClientAssumption`) |
| `RequestOnItsWay` | `Spec => [](\A m \in Models : Waits(m))` | the same |
| `ClientClosedLast` | `Proc!Spec => []ClientOutlivesUsers` | number of requests of either kind, failing step |
| `LayersInOrder` | `Conf!Spec => []Priority` | file and environment |
| `FilesSpared` | `Disc!Spec => []OneFileSparesOthers` | directories of any size, defective files among them |
| `StageTypesServed` | `Pack!Spec => []BuiltinTypesServed` | lists of packages, offers, failures |

* `BelievedIsLoaded` is not inductive: an answer could belong to an earlier
  request. `Inv` adds that the request of a call that waits is the last one sent of
  those on the way (`Waits`), and that a load that has succeeded has loaded with
  nothing on the way that could undo it, or was `overtaken` (`IsAnswered`, `Rests`):
  what Triton carries out later leaves such a model loaded (`Stays`).
* `ProcInv` says where `lifespan` is while a handler runs, while the loop is in a
  call and while the client is open. The first set of places lies within the
  second and the second within the third: that is the order of the shutdown.
* `ConfInv` gives the layer of each field by the variables looked at so far;
  `DiscInv` the entry of each name, the first file that has it, by the files so
  far; `PackInv` the stages of a type by the packages tried so far, the last one
  that offers it, and that the built-in package is on the list whatever the
  environment says (`OnceKeepsFirst`).

`DataPathProofs` does the same for `DataPath` (`DataPartsKept`):

| Theorem | Property | For every |
|---|---|---|
| `GreedyTheorem` | `Spec => []GreedyKept` | finite set of boxes, degenerate ones included, integer scores, threshold (`NmsAssumption`) |
| `SortedTheorem` | `Spec => []KeptSorted` | the same |
| `TensorsUnderstood` | `Scrfd!Spec => []OwnTensors` | number of strides, anchor counts and answer (`AnchorsAssumption`, `AnswersAssumption`) |
| `RegionsCover` | `Region!Spec => []RegionCovers` | canvas, image and box (`TargetAssumption`) |
| `FailuresExplained` | `Region!Spec => []FailsForReason` | the same |
| `EmbeddingsAligned` | `Faces!Spec => []Aligned` | number of faces, size of a batch, limit (`ListsAssumption`) |
| `BestCompared` | `Faces!Spec => []BestFirst` | the same |
| `DetailsKeptApart` | `Reply!Spec => []OwnDetails` | output of the built-in pipelines (`OutputsAssumption`) |

* Nms: the invariant relates what is kept to what is left (`KeptBefore`: earlier,
  and suppressing none of it), to what is kept (`KeptApart`) and to what was
  dropped (`DroppedFor`: because of a better box that is kept).
* ScrfdOutputs: what a name leads to is a tensor with the columns of its kind, or
  has the configured name (`ListOf`); if it also has the rows of its stride it is
  the right one (`FittingOwn`). That a complete answer is understood needs the
  order: its tensors of a kind are as many as the strides, their rows differ and
  descend, so the stride of the i-th is i (`RowsTellStrides`), and there are enough
  of them for shapes to be looked at (`CompleteTells`). `AnswersAssumption` is
  what the code relies on when it goes by names and shapes; without it, a tensor
  of the right shape could hold anything.
* Regions: `int` and the two divisions are bounded by products (`Truncation`);
  the rest is where the ends of a box lie, with its margin (`EndsOfBox`).
* FaceLists: the embeddings of an image are those of its first `at` faces
  (`Extracting`), whatever the batches (`NextChunk`, `Embedded`), so that all of
  them are there when extraction is through (`Through`); and with answers that hold
  nothing, each one is in its place up to the first of them (`InPlace`).
* Responses: what becomes of a value keeps the key it came under (`SafeInv`,
  `SectionsInv`), and what a built-in stage leaves fits the schema once it is
  summarised (`ValueFits`). `OutputsAssumption` says what the stages leave.

What a sorted list is, `Best(n)`, is shown of the least place where it would not
be (`LeastNumber`, `AscendingIsIdentity`): that numbers are well-founded is a
theorem that takes a set and not an operator.

`UnloadsInFlight`, `AttemptsBounded`, `SlotBound` and `KeptSorted` are proved and
need no run.

Only model-checked: liveness (`ActivationEnds`, `IdleUnloaded`, `RequestAnswered`,
`ReleasedUnloaded`, `ShutdownCompletes`, `CallReturns`). It rests on fairness, hence
on `ENABLED`, which the prover does not handle. Every other property of a passing
run is proved. The loops of the code are proved turn by turn; no theorem
speaks of a recursive definition, whose value for every input would need induction
over data.

## 6. What is not modelled

* Clock time and durations: hence a stage that computes without awaiting, and
  so cannot be timed out, is only present as an action without a timeout.
* Pixels and floating point: decoding of images, normalisation, the values a
  network answers, landmarks. Geometry and IoU are exact in the models.
* The types of tensors on the way to Triton and its metadata calls
  (`dtype_utils.py`, `get_model_metadata`), message translation of HTTP and
  gRPC, logging. The read-only routes (`/health`, `/status`, `/models`) take one
  snapshot without a suspension point in it.
* In `ControlPlane` a failed call to Triton takes effect at once or never. That it
  may do so later is the subject of `TritonClient`, for the calls of one model at a
  time; when a call overtakes one that was given up (`overtaken`), what
  `ControlPlane` says of loaded models (`ServedIsLoaded` and what rests on it) does
  not carry over.
* Ranges of configured values: the code validates none. Limits of 0 make every
  request wait for ever, which the assumptions on the constants exclude.
* `core/errors.py` and `core/interfaces.py` are declarations; which handler
  catches which error is in the actions.
* The web UI, model conversion scripts, manual test clients and docker files.

## 7. Plan

Every component of the server is modelled as far as section 6 says, and every
safety and action property that a passing run checks has its theorem. What is
left: invariants under weaker assumptions than *Orderly* for pipelines that share
models (a rollback takes references away, but what may be lost is bounded by the
failed activations), and the abstract promise for the client of the whole
service, `ModelLease` and `PipelineJobs` in one.
