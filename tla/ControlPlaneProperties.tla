----------------------- MODULE ControlPlaneProperties -----------------------
(***************************************************************************)
(* What the control plane is meant to guarantee, and the abstract          *)
(* specification it implements.  Which property holds under which faults   *)
(* is said by the configurations that check it (see README.md).            *)
(***************************************************************************)
EXTENDS ControlPlane

\* The types of the state; permits also never leaves its range, so the load
\* semaphore is neither over-released nor over-acquired.
TypeOK ==
  /\ mstate \in [Models -> ModelState]
  /\ refCount \in [Models -> Nat]
  /\ activeInf \in [Models -> 0..MaxActive]
  /\ pstate \in [Pipelines -> PipelineState \ {"deactivating"}]
  /\ pc \in [Pipelines -> Pcs]
  /\ idx \in [Pipelines -> Nat \ {0}]
  /\ held \in [Pipelines -> SUBSET Models]
  /\ lockOwner \in [Models -> Pipelines \cup {NoOne}]
  /\ permits \in 0..MaxConcurrentLoads
  /\ loop \in {"sleep", "sweep", "unload"}
  /\ sweep \in SUBSET Models
  /\ call \in [Callers -> Models \cup {NoOne}]
  /\ triton \in [Models -> BOOLEAN]

\* _loading_locks prevents duplicate loads of one model: of the coroutines
\* inside ensure_model_ready's lock no two are there for the same model, and
\* a lock that is taken has its owner inside it, whatever way (return, error,
\* cancellation) other owners left it.
SingleLoader ==
  /\ \A p, q \in Pipelines :
       p # q /\ pc[p] \in CriticalPcs /\ pc[q] \in CriticalPcs
         => Cur(p) # Cur(q)
  /\ \A m \in Models : lockOwner[m] # NoOne =>
       pc[lockOwner[m]] \in CriticalPcs /\ Cur(lockOwner[m]) = m

\* max_concurrent_loads bounds the loads under way, and no way out of
\* _load_model loses or duplicates a permit.
LoadBound ==
  /\ Cardinality({p \in Pipelines : pc[p] \in LoadingPcs})
       = MaxConcurrentLoads - permits
  /\ permits >= 0

\* Nobody waits for a model in a transitional state that no coroutine will
\* ever move on: LOADING and WARMING have a loader at that very step, and
\* UNLOADING has a call to Triton in flight.
NoOrphan ==
  \A m \in Models :
    /\ mstate[m] = "loading" =>
         \E p \in Pipelines : pc[p] = "load" /\ Cur(p) = m
    /\ mstate[m] = "warming" =>
         \E p \in Pipelines : pc[p] = "warm" /\ Cur(p) = m
    /\ mstate[m] = "unloading" => \E u \in Callers : call[u] = m

\* The comment in ensure_model_ready on a model found LOADING or WARMING: `the
\* lock serialises; by the time we get here it's done'.
LockSerialisesLoads ==
  \A p \in Pipelines :
    pc[p] = "ensure" => mstate[Cur(p)] \notin {"loading", "warming"}

\* The part of NoOrphan that concerns unloads, which no cancellation disturbs.
UnloadsInFlight ==
  \A m \in Models :
    mstate[m] = "unloading" => \E u \in Callers : call[u] = m

Holders(m) == {p \in Pipelines : m \in held[p]}

\* No way out of an activation or deactivation leaks a reference: a count is
\* never more than the number of pipelines that still have to give one back,
\* so a model nobody needs can always become idle.
RefNoLeak == \A m \in Models : refCount[m] <= Cardinality(Holders(m))

\* ref_count says exactly how many pipelines rely on the model.
RefExact == \A m \in Models : refCount[m] = Cardinality(Holders(m))

\* The registry never believes that a model is served which Triton does not
\* have loaded.
ServedIsLoaded ==
  \A m \in Models : mstate[m] \in {"warming", "ready", "idle"} => triton[m]

\* An unload never starts under a running inference, although the snapshot of
\* the idle models may be as old as several calls to Triton.
UnloadSparesInference ==
  [][\A m \in Models :
       mstate[m] # "unloading" /\ mstate'[m] = "unloading"
         => activeInf[m] = 0]_vars

\* A model leaves READY only when nobody references it and a wake-up from
\* IDLE is always on behalf of somebody who does.
ReadyFollowsReferences ==
  [][\A m \in Models :
       /\ mstate[m] = "ready" /\ mstate'[m] # "ready" => refCount[m] = 0
       /\ mstate[m] = "idle" /\ mstate'[m] = "ready" => refCount[m] > 0]_vars

\* activate's rollback gives back the references this activation took, and no
\* other pipeline's: the comment `Roll back ref counts' read literally.
RollbackExact ==
  [][\A p \in Pipelines : pstate[p] = "activating" /\ pstate'[p] = "error" =>
       \A m \in Models \ held[p] : refCount'[m] = refCount[m]]_vars

\* deactivate releases the references of the pipeline it deactivates.
DeactivateOwnReferences ==
  [][\A p \in Pipelines : pstate[p] # "inactive" /\ pstate'[p] = "inactive" =>
       \A m \in Models \ held[p] : refCount'[m] = refCount[m]]_vars

\* Every activation ends, in ACTIVE or in ERROR, however the other
\* activations, the lifecycle loop and the clients interleave with it.
ActivationEnds ==
  \A p \in Pipelines : pstate[p] = "activating" ~> pstate[p] # "activating"

\* A model that nobody references or uses any more is eventually unloaded for
\* good: the memory it holds in Triton comes back.
IdleUnloaded ==
  \A m \in Models :
    <>[](refCount[m] = 0 /\ activeInf[m] = 0) => <>[](mstate[m] = "unloaded")

\* The control plane keeps its promise to the pipelines: ref_count, locks,
\* idle states and Triton calls together implement the leases of ModelLease.
Lease == INSTANCE ModelLease WITH
  Wants     <- [p \in Pipelines |-> Needs(p)],
  leases    <- held,
  serving   <- {m \in Models : mstate[m] = "ready"},
  committed <- {p \in Pipelines : pstate[p] = "active"}

LeaseSpec == Lease!Spec
=============================================================================
