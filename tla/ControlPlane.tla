---------------------------- MODULE ControlPlane ----------------------------
(***************************************************************************)
(* The control plane of InferPack: PipelineRegistry.activate / deactivate, *)
(* ModelLifecycleManager and ModelRegistry (inferpack/control/*.py), with  *)
(* the Triton server they drive as an external party.                      *)
(*                                                                         *)
(* Scheduling.  Everything runs on one asyncio event loop, so a coroutine  *)
(* runs undisturbed from one `await' that suspends to the next.  Each      *)
(* activation is a coroutine with a program counter pc[p]; the values in   *)
(* RunningPcs are points inside an undisturbed run, all the others are     *)
(* suspension points (a lock, a semaphore, a sleep, a call to Triton).     *)
(* The lifecycle loop has the program counter `loop'.  Every action that   *)
(* resumes a coroutine or delivers a new call needs Quiet: nobody is in    *)
(* the middle of a run.                                                    *)
(*                                                                         *)
(* Abstractions.                                                           *)
(*  - Clock time is left out: a tick of the lifecycle loop may find any    *)
(*    subset of the idle models older than the idle timeout, an inference  *)
(*    or a load refreshes the model (touch), and a poll of _wait_for_state *)
(*    may expire at any poll.                                              *)
(*  - asyncio hands its locks and semaphores to waiters first come first   *)
(*    served; here any waiter may be next, and the order appears only as   *)
(*    the strong fairness of GrantLock and GrantPermit.                    *)
(*  - warmup_requests >= 1 (the default): the whole of _warmup is one      *)
(*    suspension, because nothing it observes has an effect.               *)
(*  - Inferences are counted, not identified: Executor models who runs     *)
(*    them.                                                                *)
(***************************************************************************)
EXTENDS CoreTypes, Integers, Sequences, FiniteSets, Functions

CONSTANTS
  Pipelines,           \* names of the registered pipelines
  Models,              \* names of the registered models
  ModelsOf,            \* PipelineDefinition.models: the sequence a pipeline needs
  MaxConcurrentLoads,  \* ModelLifecycleConfig.max_concurrent_loads
  MaxActive,           \* bound on the inferences in flight on one model
  Unloaders,           \* callers of request_unload; none in this repository
  Faults,              \* the faults the environment may show, see FaultKinds
  NoOne                \* nobody / nothing

\* The unhappy events of the environment, each enabled by naming it in Faults.
FaultKinds == {"load_fails", "unload_fails", "wait_timeout", "cancel",
               "restart", "triton_restart"}

\* The lifecycle loop, as a caller of _unload_model.
Loop == "lifecycle_loop"
Callers == Unloaders \cup {Loop}

ASSUME PipelinesAssumption ==
  /\ IsFiniteSet(Pipelines)
  /\ NoOne \notin Pipelines
  /\ NoOne \notin Models
  /\ ModelsOf \in [Pipelines -> Seq(Models)]
  /\ \A p \in Pipelines : IsInjective(ModelsOf[p])
ASSUME BoundsAssumption ==
  /\ MaxConcurrentLoads \in Nat \ {0}
  /\ MaxActive \in Nat
  /\ Loop \notin Unloaders
  /\ Faults \subseteq FaultKinds

VARIABLES
  mstate,      \* ModelInfo.state
  refCount,    \* ModelInfo.ref_count
  activeInf,   \* ModelInfo.active_inferences
  pstate,      \* _PipelineEntry.state
  pc,          \* where the activation coroutine of a pipeline is
  idx,         \* position of its loop over definition.models
  held,        \* the references a pipeline has taken and not given back
  lockOwner,   \* _loading_locks: the coroutine inside each model's lock
  permits,     \* value of _load_semaphore
  loop,        \* where the lifecycle loop is
  sweep,       \* models of this tick's snapshot the loop has yet to visit
  call,        \* the model each caller has an unload in flight for
  triton       \* is the model loaded in Triton (external)

registry   == <<mstate, refCount, activeInf>>
counts     == <<refCount, activeInf>>
locks      == <<lockOwner, permits>>
pipelines  == <<pstate, held>>
coroutine  == <<pc, idx>>
background == <<loop, sweep, call>>
vars == <<mstate, refCount, activeInf, pstate, pc, idx, held, lockOwner,
          permits, loop, sweep, call, triton>>

RunningPcs   == {"next", "ensure", "begin", "fail"}
LoadingPcs   == {"begin", "load", "warm"}
CriticalPcs  == {"ensure", "poll", "sem"} \cup LoadingPcs
SuspendedPcs == {"lock", "poll", "sem", "load", "warm"}
Pcs          == {"none"} \cup RunningPcs \cup SuspendedPcs

Needs(p) == Range(ModelsOf[p])
Cur(p)   == ModelsOf[p][idx[p]]

Quiet == loop # "sweep" /\ \A p \in Pipelines : pc[p] \notin RunningPcs

Init ==
  /\ mstate = [m \in Models |-> "unloaded"]
  /\ refCount = [m \in Models |-> 0]
  /\ activeInf = [m \in Models |-> 0]
  /\ pstate = [p \in Pipelines |-> "inactive"]
  /\ pc = [p \in Pipelines |-> "none"]
  /\ idx = [p \in Pipelines |-> 1]
  /\ held = [p \in Pipelines |-> {}]
  /\ lockOwner = [m \in Models |-> NoOne]
  /\ permits = MaxConcurrentLoads
  /\ loop = "sleep"
  /\ sweep = {}
  /\ call = [u \in Callers |-> NoOne]
  /\ triton = [m \in Models |-> FALSE]

-----------------------------------------------------------------------------
(* Pieces of the handlers.                                                 *)

\* Mutant: the floor at zero is dropped.
DecrementedNoFloor(n) == n - 1

\* decrement_ref: the count is floored at zero.
Decremented(n) == IF n > 0 THEN n - 1 ELSE 0

\* Mutant: the `except' branch only logs.
RollBackForgotten(s) == s

\* Mutant: a failed unload leaves a model that is still there.
RollBackToIdle(s) == IF CanMove(s, "unloaded") THEN "idle" ELSE s

\* The `except' branches of _load_model and _unload_model: fall back to
\* "unloaded" where the table allows it, otherwise leave the state alone.
RollBack(s) == IF CanMove(s, "unloaded") THEN "unloaded" ELSE s

\* Mutant: the lock is released by hand, and one exit forgets it.
ReleaseForgotten(p) == UNCHANGED lockOwner

\* ensure_model_ready leaves the `async with' of the model's lock.
Release(p) == lockOwner' = [lockOwner EXCEPT ![Cur(p)] = NoOne]

\* Mutant: ensure_model_ready does without the per-model lock.
LockIgnored(m) == TRUE

\* asyncio.Lock.acquire returns without suspending: nobody holds the lock
\* and nobody queues for it.
LockIsFree(m) ==
  /\ lockOwner[m] = NoOne
  /\ \A q \in Pipelines : pc[q] = "lock" => Cur(q) # m

\* Mutant: loads are not limited.
PermitIgnored == TRUE

\* asyncio.Semaphore.acquire returns without suspending.
PermitIsFree == permits > 0 /\ \A q \in Pipelines : pc[q] # "sem"

\* `async with self._load_semaphore': take a permit or queue for one.
AcquirePermit(p) ==
  IF PermitIsFree
    THEN permits' = permits - 1 /\ pc' = [pc EXCEPT ![p] = "begin"]
    ELSE pc' = [pc EXCEPT ![p] = "sem"] /\ UNCHANGED permits

\* An exception inside the `try' of _load_model: roll the model back, leave
\* the semaphore and the lock, and re-raise into activate.
AbortLoad(p) ==
  /\ mstate' = [mstate EXCEPT ![Cur(p)] = RollBack(@)]
  /\ permits' = permits + 1
  /\ Release(p)
  /\ pc' = [pc EXCEPT ![p] = "fail"]
  /\ UNCHANGED idx

\* ensure_model_ready returns to the loop of activate.
NextModel(p) ==
  /\ pc' = [pc EXCEPT ![p] = "next"]
  /\ idx' = [idx EXCEPT ![p] = @ + 1]

\* The activation coroutine of p ends.
Terminate(p) ==
  /\ pc' = [pc EXCEPT ![p] = "none"]
  /\ idx' = [idx EXCEPT ![p] = 1]

\* Mutant: no reference is given back.
DropReferencesForgotten(p) ==
  /\ held' = [held EXCEPT ![p] = {}]
  /\ UNCHANGED refCount

\* decrement_ref on every model of the definition, as both the rollback of
\* activate and deactivate do.
DropReferences(p) ==
  /\ refCount' = [m \in Models |->
                    IF m \in Needs(p) THEN Decremented(refCount[m])
                                      ELSE refCount[m]]
  /\ held' = [held EXCEPT ![p] = {}]

-----------------------------------------------------------------------------
(* PipelineRegistry.activate and deactivate.                               *)

Activate(p) ==
  /\ Quiet
  /\ pstate[p] \in {"inactive", "error"}
  /\ pstate' = [pstate EXCEPT ![p] = "activating"]
  /\ pc' = [pc EXCEPT ![p] = "next"]
  /\ idx' = [idx EXCEPT ![p] = 1]
  /\ UNCHANGED <<registry, held, locks, background, triton>>

\* Mutant: the last model of the list is skipped.
ExhaustedEarly(p) == idx[p] >= Len(ModelsOf[p])

\* activate's loop over definition.models is done.
Exhausted(p) == idx[p] > Len(ModelsOf[p])

\* One turn of activate's loop: increment_ref, then ensure_model_ready up to
\* its first possible suspension, the model's lock.
ReserveModel(p) ==
  /\ pc[p] = "next"
  /\ ~Exhausted(p)
  /\ refCount' = [refCount EXCEPT ![Cur(p)] = @ + 1]
  /\ held' = [held EXCEPT ![p] = @ \cup {Cur(p)}]
  /\ IF LockIsFree(Cur(p))
       THEN /\ lockOwner' = [lockOwner EXCEPT ![Cur(p)] = p]
            /\ pc' = [pc EXCEPT ![p] = "ensure"]
       ELSE /\ pc' = [pc EXCEPT ![p] = "lock"]
            /\ UNCHANGED lockOwner
  /\ UNCHANGED <<mstate, activeInf, pstate, idx, permits, background, triton>>

FinishActivation(p) ==
  /\ pc[p] = "next"
  /\ Exhausted(p)
  /\ pstate' = [pstate EXCEPT ![p] = "active"]
  /\ Terminate(p)
  /\ UNCHANGED <<registry, held, locks, background, triton>>

\* activate's `except Exception'.
Fail(p) ==
  /\ pc[p] = "fail"
  /\ pstate' = [pstate EXCEPT ![p] = "error"]
  /\ DropReferences(p)
  /\ Terminate(p)
  /\ UNCHANGED <<mstate, activeInf, locks, background, triton>>

\* Mutant: the early return for inactive pipelines is missing.
DeactivatableAny == {"inactive", "active", "error"}

Deactivatable == {"active", "error"}

\* deactivate has no suspension point at all.
Deactivate(p) ==
  /\ Quiet
  /\ pstate[p] \in Deactivatable
  /\ pstate' = [pstate EXCEPT ![p] = "inactive"]
  /\ DropReferences(p)
  /\ UNCHANGED <<mstate, activeInf, coroutine, locks, background, triton>>

\* gRPC cancels the handler's coroutine (the client hung up, its deadline
\* passed, the server's stop grace ran out).  CancelledError is not an
\* Exception: the `async with' blocks are left, no `except' branch runs.
\* A load already sent to Triton may still take effect there.
Cancel(p) ==
  /\ "cancel" \in Faults
  /\ Quiet
  /\ pc[p] \in SuspendedPcs
  /\ IF pc[p] \in CriticalPcs THEN Release(p) ELSE UNCHANGED lockOwner
  /\ permits' = IF pc[p] \in LoadingPcs THEN permits + 1 ELSE permits
  /\ \/ UNCHANGED triton
     \/ pc[p] = "load" /\ triton' = [triton EXCEPT ![Cur(p)] = TRUE]
  /\ Terminate(p)
  /\ UNCHANGED <<registry, pipelines, background>>

-----------------------------------------------------------------------------
(* ModelLifecycleManager.ensure_model_ready, inside the model's lock.      *)

GrantLock(p) ==
  /\ Quiet
  /\ pc[p] = "lock"
  /\ lockOwner[Cur(p)] = NoOne
  /\ lockOwner' = [lockOwner EXCEPT ![Cur(p)] = p]
  /\ pc' = [pc EXCEPT ![p] = "ensure"]
  /\ UNCHANGED <<registry, pipelines, idx, permits, background, triton>>

\* The state ensure_model_ready leaves a loaded model in.
Reused(s) == "ready"

\* READY is a no-op; an IDLE model is still in Triton and goes back to READY.
FoundReady(p) ==
  /\ pc[p] = "ensure"
  /\ mstate[Cur(p)] \in {"ready", "idle"}
  /\ mstate' = [mstate EXCEPT ![Cur(p)] = Reused(@)]
  /\ Release(p)
  /\ NextModel(p)
  /\ UNCHANGED <<counts, pipelines, permits, background, triton>>

FoundUnloading(p) ==
  /\ pc[p] = "ensure"
  /\ mstate[Cur(p)] = "unloading"
  /\ pc' = [pc EXCEPT ![p] = "poll"]
  /\ UNCHANGED <<registry, pipelines, idx, locks, background, triton>>

\* UNLOADED, or LOADING / WARMING left behind by nobody: on to _load_model.
FoundNotLoaded(p) ==
  /\ pc[p] = "ensure"
  /\ mstate[Cur(p)] \in {"unloaded", "loading", "warming"}
  /\ AcquirePermit(p)
  /\ UNCHANGED <<registry, pipelines, idx, lockOwner, background, triton>>

\* A poll of _wait_for_state sees the unload finished.
PollUnloaded(p) ==
  /\ Quiet
  /\ pc[p] = "poll"
  /\ mstate[Cur(p)] = "unloaded"
  /\ AcquirePermit(p)
  /\ UNCHANGED <<registry, pipelines, idx, lockOwner, background, triton>>

\* The deadline of _wait_for_state passes: the loop ends without a last look
\* at the state, so this may happen to a model that is already unloaded.
PollExpires(p) ==
  /\ "wait_timeout" \in Faults
  /\ Quiet
  /\ pc[p] = "poll"
  /\ Release(p)
  /\ pc' = [pc EXCEPT ![p] = "fail"]
  /\ UNCHANGED <<registry, pipelines, idx, permits, background, triton>>

-----------------------------------------------------------------------------
(* ModelLifecycleManager._load_model and _warmup.                          *)

GrantPermit(p) ==
  /\ Quiet
  /\ pc[p] = "sem"
  /\ permits > 0
  /\ permits' = permits - 1
  /\ pc' = [pc EXCEPT ![p] = "begin"]
  /\ UNCHANGED <<registry, pipelines, idx, lockOwner, background, triton>>

BeginLoad(p) ==
  /\ pc[p] = "begin"
  /\ CanMove(mstate[Cur(p)], "loading")
  /\ mstate' = [mstate EXCEPT ![Cur(p)] = "loading"]
  /\ pc' = [pc EXCEPT ![p] = "load"]
  /\ UNCHANGED <<counts, pipelines, idx, lockOwner, permits, background,
                 triton>>

BeginLoadRefused(p) ==
  /\ pc[p] = "begin"
  /\ ~CanMove(mstate[Cur(p)], "loading")
  /\ AbortLoad(p)
  /\ UNCHANGED <<counts, pipelines, background, triton>>

\* Triton answers the load; WARMING is refused when request_unload reset the
\* model in the meantime.
LoadSucceeds(p) ==
  /\ Quiet
  /\ pc[p] = "load"
  /\ triton' = [triton EXCEPT ![Cur(p)] = TRUE]
  /\ IF CanMove(mstate[Cur(p)], "warming")
       THEN /\ mstate' = [mstate EXCEPT ![Cur(p)] = "warming"]
            /\ pc' = [pc EXCEPT ![p] = "warm"]
            /\ UNCHANGED <<idx, lockOwner, permits>>
       ELSE AbortLoad(p)
  /\ UNCHANGED <<counts, pipelines, background>>

\* The call fails or times out; Triton may have loaded the model all the same.
LoadFails(p) ==
  /\ "load_fails" \in Faults
  /\ Quiet
  /\ pc[p] = "load"
  /\ \/ UNCHANGED triton
     \/ triton' = [triton EXCEPT ![Cur(p)] = TRUE]
  /\ AbortLoad(p)
  /\ UNCHANGED <<counts, pipelines, background>>

\* _warmup returns, whatever Triton answered to its readiness checks.
Warmed(p) ==
  /\ Quiet
  /\ pc[p] = "warm"
  /\ IF CanMove(mstate[Cur(p)], "ready")
       THEN /\ mstate' = [mstate EXCEPT ![Cur(p)] = "ready"]
            /\ sweep' = sweep \ {Cur(p)}
            /\ permits' = permits + 1
            /\ Release(p)
            /\ NextModel(p)
       ELSE AbortLoad(p) /\ UNCHANGED sweep
  /\ UNCHANGED <<counts, pipelines, loop, call, triton>>

-----------------------------------------------------------------------------
(* ModelLifecycleManager._unload_model, its two callers and the loop.      *)

\* The `try' of _unload_model up to its call, or its `except' branch when the
\* transition is refused.
UnloadBegun(s) == IF CanMove(s, "unloading") THEN "unloading" ELSE RollBack(s)

StartUnload(u, m) ==
  /\ mstate' = [mstate EXCEPT ![m] = UnloadBegun(@)]
  /\ call' = [call EXCEPT ![u] = IF CanMove(mstate[m], "unloading")
                                   THEN m ELSE NoOne]

\* Mutant: the running inferences are not looked at.
BusyNever(m) == FALSE

Busy(m) == activeInf[m] > 0

\* The loop wakes up: `now' and the snapshot of the idle models are taken.
Tick ==
  /\ Quiet
  /\ loop = "sleep"
  /\ loop' = "sweep"
  /\ sweep' \in SUBSET {m \in Models : mstate[m] = "idle"}
  /\ UNCHANGED <<registry, pipelines, coroutine, locks, call, triton>>

SweepUnload(m) ==
  /\ loop = "sweep"
  /\ m \in sweep
  /\ ~Busy(m)
  /\ StartUnload(Loop, m)
  /\ sweep' = sweep \ {m}
  /\ loop' = IF CanMove(mstate[m], "unloading") THEN "unload" ELSE "sweep"
  /\ UNCHANGED <<counts, pipelines, coroutine, locks, triton>>

SweepBusy(m) ==
  /\ loop = "sweep"
  /\ m \in sweep
  /\ Busy(m)
  /\ sweep' = sweep \ {m}
  /\ UNCHANGED <<registry, pipelines, coroutine, locks, loop, call, triton>>

\* Mutant: the reference count is not looked at.
GoesIdleUnder(m) == mstate[m] = "ready"

\* Mutant: nothing becomes IDLE.
GoesIdleNever(m) == FALSE

GoesIdle(m) == mstate[m] = "ready" /\ refCount[m] = 0

\* After the snapshot: READY models nobody references become IDLE.
SweepEnd ==
  /\ loop = "sweep"
  /\ sweep = {}
  /\ mstate' = [m \in Models |-> IF GoesIdle(m) THEN "idle" ELSE mstate[m]]
  /\ loop' = "sleep"
  /\ UNCHANGED <<counts, pipelines, coroutine, locks, sweep, call, triton>>

\* Triton answers an unload, or the call fails: UNLOADED in both cases.
UnloadReturns(u) ==
  /\ Quiet
  /\ call[u] # NoOne
  /\ mstate' = [mstate EXCEPT ![call[u]] = RollBack(@)]
  /\ \/ triton' = [triton EXCEPT ![call[u]] = FALSE]
     \/ "unload_fails" \in Faults /\ UNCHANGED triton
  /\ call' = [call EXCEPT ![u] = NoOne]
  /\ loop' = IF u = Loop THEN "sweep" ELSE loop
  /\ UNCHANGED <<counts, pipelines, coroutine, locks, sweep>>

\* request_unload: nothing to do when UNLOADED, ModelBusyError when busy.
RequestUnload(u, m) ==
  /\ Quiet
  /\ call[u] = NoOne
  /\ mstate[m] # "unloaded"
  /\ ~Busy(m)
  /\ StartUnload(u, m)
  /\ UNCHANGED <<counts, pipelines, coroutine, locks, loop, sweep, triton>>

-----------------------------------------------------------------------------
(* The registry's inference counters, and the environment.                 *)

\* begin_inference does not look at the model's state: a stage of a pipeline
\* that was active when its execution started may call it at any time.
BeginInference(m) ==
  /\ Quiet
  /\ activeInf[m] < MaxActive
  /\ activeInf' = [activeInf EXCEPT ![m] = @ + 1]
  /\ sweep' = sweep \ {m}
  /\ UNCHANGED <<mstate, refCount, pipelines, coroutine, locks, loop, call,
                 triton>>

EndInference(m) ==
  /\ Quiet
  /\ activeInf[m] > 0
  /\ activeInf' = [activeInf EXCEPT ![m] = Decremented(@)]
  /\ sweep' = sweep \ {m}
  /\ UNCHANGED <<mstate, refCount, pipelines, coroutine, locks, loop, call,
                 triton>>

\* The InferPack process dies and comes back: all of its state was in memory.
\* Triton keeps what it has loaded, and may or may not carry out the calls
\* that were in flight.
Restart ==
  /\ "restart" \in Faults
  /\ mstate' = [m \in Models |-> "unloaded"]
  /\ refCount' = [m \in Models |-> 0]
  /\ activeInf' = [m \in Models |-> 0]
  /\ pstate' = [p \in Pipelines |-> "inactive"]
  /\ pc' = [p \in Pipelines |-> "none"]
  /\ idx' = [p \in Pipelines |-> 1]
  /\ held' = [p \in Pipelines |-> {}]
  /\ lockOwner' = [m \in Models |-> NoOne]
  /\ permits' = MaxConcurrentLoads
  /\ loop' = "sleep"
  /\ sweep' = {}
  /\ call' = [u \in Callers |-> NoOne]
  /\ triton' \in
       {t \in [Models -> BOOLEAN] : \A m \in Models :
          \/ t[m] = triton[m]
          \/ t[m] /\ \E p \in Pipelines : pc[p] = "load" /\ Cur(p) = m
          \/ ~t[m] /\ \E u \in Callers : call[u] = m}

\* The Triton container restarts with no model loaded (explicit mode);
\* nothing tells InferPack.
TritonRestart ==
  /\ "triton_restart" \in Faults
  /\ triton' = [m \in Models |-> FALSE]
  /\ UNCHANGED <<registry, pipelines, coroutine, locks, background>>
-----------------------------------------------------------------------------
Client(p) == Activate(p) \/ Deactivate(p) \/ Cancel(p)

\* The micro-steps of an undisturbed run of p's coroutine.
Run(p) ==
  \/ ReserveModel(p) \/ FinishActivation(p) \/ Fail(p)
  \/ FoundReady(p) \/ FoundUnloading(p) \/ FoundNotLoaded(p)
  \/ BeginLoad(p) \/ BeginLoadRefused(p)

\* The event loop resumes p's suspended coroutine.
Poll(p)     == PollUnloaded(p) \/ PollExpires(p)
LoadDone(p) == LoadSucceeds(p) \/ LoadFails(p)
Resume(p) ==
  GrantLock(p) \/ GrantPermit(p) \/ Poll(p) \/ LoadDone(p) \/ Warmed(p)

Sweep == (\E m \in Models : SweepUnload(m) \/ SweepBusy(m)) \/ SweepEnd

LifecycleLoop == Tick \/ Sweep \/ UnloadReturns(Loop)

Next ==
  \/ \E p \in Pipelines : Client(p) \/ Run(p) \/ Resume(p)
  \/ LifecycleLoop
  \/ \E u \in Unloaders : UnloadReturns(u)
  \/ \E u \in Unloaders, m \in Models : RequestUnload(u, m)
  \/ \E m \in Models : BeginInference(m) \/ EndInference(m)
  \/ Restart \/ TritonRestart

Spec == Init /\ [][Next]_vars

(***************************************************************************)
(* Fairness, one condition per coroutine: a coroutine is at one place at a *)
(* time, so this says that whatever it waits for, once that is there again *)
(* and again, resumes it.  The event loop's ready queue and asyncio's      *)
(* waiter queues are first come first served, which justifies the strong   *)
(* form: Quiet, a lock or a permit come and go with the other coroutines.  *)
(* Triton is assumed to answer every call.  Clock time passes, so a model  *)
(* that is idle at one tick after another is eventually found old enough.  *)
(* Clients, inferences and faults owe nothing.                             *)
(***************************************************************************)
Fairness ==
  /\ \A p \in Pipelines : SF_vars(Run(p) \/ Resume(p))
  /\ SF_vars(LifecycleLoop)
  /\ \A m \in Models : SF_vars(Tick /\ m \in sweep')

FairSpec == Spec /\ Fairness
=============================================================================
