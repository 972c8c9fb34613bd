---------------------------- MODULE ServingProofs ----------------------------
(***************************************************************************)
(* More invariants of ControlPlane, each for every value of the constants  *)
(* but with one kind of trouble left out: what the registry takes for      *)
(* served is loaded, unless Triton restarts or somebody unloads models     *)
(* beside the loop; no model is stuck in a transitional state, nor found   *)
(* in one inside its lock, unless a coroutine is cancelled; and the        *)
(* control plane keeps the promise of ModelLease, whatever models the      *)
(* pipelines share unless an activation fails or is cancelled, and         *)
(* whatever fails or is cancelled unless pipelines share models.           *)
(***************************************************************************)
EXTENDS ControlPlaneProofs

\* The states in which the registry counts on Triton.
Served == {"warming", "ready", "idle"}

\* A coroutine on its way through _load_model has a model nobody can use yet.
Loading ==
  \A p \in Pipelines :
    pc[p] \in {"sem"} \cup LoadingPcs =>
      mstate[Cur(p)] \in {"unloaded", "loading", "warming"}

\* What the loop waits for is UNLOADING.
InFlight == call[Loop] # NoOne => mstate[call[Loop]] = "unloading"

\* What is inductive, given IInv: alone, and with what it is for.
LoopInv   == LoopCall /\ InFlight /\ Loading
ServedInv == LoopInv /\ ServedIsLoaded

CoroutineStep(p) == Client(p) \/ Run(p) \/ Resume(p)

-----------------------------------------------------------------------------
(* What a step of one coroutine does to the others and to the models.      *)

LEMMA OthersStay ==
  ASSUME TypeOK, NEW p \in Pipelines, CoroutineStep(p)
  PROVE  /\ \A q \in Pipelines \ {p} :
              /\ pc'[q] = pc[q]
              /\ idx'[q] = idx[q]
              /\ pstate'[q] = pstate[q]
              /\ held'[q] = held[q]
         /\ UNCHANGED <<loop, call, activeInf>>
         /\ sweep' \subseteq sweep
<1> USE DEF TypeOK, registry, counts, pipelines, coroutine, locks, background
<1>1. CASE Client(p)
  BY <1>1 DEF Client, Activate, Deactivate, Cancel, DropReferences, Terminate
<1>2. CASE Run(p)
  <2>1. CASE ReserveModel(p) \/ FinishActivation(p) \/ Fail(p)
    BY <2>1 DEF ReserveModel, FinishActivation, Fail, DropReferences, Terminate
  <2>2. CASE FoundReady(p) \/ FoundUnloading(p) \/ FoundNotLoaded(p)
    BY <2>2 DEF FoundReady, FoundUnloading, FoundNotLoaded, NextModel,
                AcquirePermit
  <2>3. CASE BeginLoad(p) \/ BeginLoadRefused(p)
    BY <2>3 DEF BeginLoad, BeginLoadRefused, AbortLoad
  <2> QED
    BY <1>2, <2>1, <2>2, <2>3 DEF Run
<1>3. CASE Resume(p)
  <2>1. CASE \/ GrantLock(p) \/ GrantPermit(p)
             \/ PollUnloaded(p) \/ PollExpires(p)
    BY <2>1 DEF GrantLock, GrantPermit, PollUnloaded, PollExpires,
                AcquirePermit
  <2>2. CASE LoadSucceeds(p) \/ LoadFails(p)
    BY <2>2 DEF LoadSucceeds, LoadFails, AbortLoad
  <2>3. CASE Warmed(p)
    BY <2>3 DEF Warmed, AbortLoad, NextModel
  <2> QED
    BY <1>3, <2>1, <2>2, <2>3 DEF Resume, Poll, LoadDone
<1> QED
  BY <1>1, <1>2, <1>3 DEF CoroutineStep

\* A coroutine changes the model it is at and no other, inside its lock, and
\* it is loading it or waking it up; Triton loses nothing by it.
LEMMA OwnModelOnly ==
  ASSUME TypeOK, NEW p \in Pipelines, CoroutineStep(p), NEW m \in Models
  PROVE  /\ triton[m] => triton'[m]
         /\ mstate'[m] \in Served /\ mstate[m] \notin Served => triton'[m]
         /\ mstate'[m] # mstate[m] =>
              /\ m = Cur(p)
              /\ pc[p] \in CriticalPcs
              /\ pc[p] \in LoadingPcs \/ mstate[m] \in {"ready", "idle"}
<1> USE DEF TypeOK, registry, counts, pipelines, coroutine, locks, background,
            CriticalPcs, LoadingPcs, Served, RollBack
<1>1. CASE UNCHANGED <<mstate, triton>>
  BY <1>1
<1>2. CASE Client(p)
  BY <1>2 DEF Client, Activate, Deactivate, Cancel
<1>3. CASE Run(p)
  <2>1. CASE FoundReady(p)
    BY <2>1 DEF FoundReady, Reused
  <2>2. CASE BeginLoad(p) \/ BeginLoadRefused(p)
    BY <2>2 DEF BeginLoad, BeginLoadRefused, AbortLoad
  <2> QED
    BY <1>1, <1>3, <2>1, <2>2
       DEF Run, ReserveModel, FinishActivation, Fail, FoundUnloading,
           FoundNotLoaded
<1>4. CASE Resume(p)
  <2>1. CASE LoadSucceeds(p)
    BY <2>1 DEF LoadSucceeds, AbortLoad
  <2>2. CASE LoadFails(p)
    BY <2>2 DEF LoadFails, AbortLoad
  <2>3. CASE Warmed(p)
    <3>1. CASE CanMove(mstate[Cur(p)], "ready")
      <4>1. mstate[Cur(p)] \in {"warming", "idle"} \/ Cur(p) \notin Models
        BY <3>1 DEF CanMove, MODEL_STATE_TRANSITIONS, ModelState
      <4> QED
        BY <2>3, <3>1, <4>1 DEF Warmed
    <3>2. CASE ~CanMove(mstate[Cur(p)], "ready")
      BY <2>3, <3>2 DEF Warmed, AbortLoad
    <3> QED
      BY <3>1, <3>2
  <2> QED
    BY <1>1, <1>4, <2>1, <2>2, <2>3
       DEF Resume, GrantLock, GrantPermit, Poll, PollUnloaded, PollExpires,
           LoadDone
<1> QED
  BY <1>2, <1>3, <1>4 DEF CoroutineStep

\* So two coroutines never meet at a model that one of them loads.
LEMMA OthersModel ==
  ASSUME TypeOK, SingleLoader, NEW p \in Pipelines, CoroutineStep(p),
         NEW q \in Pipelines, q # p, pc[q] \in CriticalPcs, Cur(q) \in Models
  PROVE  mstate'[Cur(q)] = mstate[Cur(q)]
BY OwnModelOnly DEF SingleLoader

\* Where a coroutine enters _load_model, and what it finds and leaves there.
LEMMA LoaderStep ==
  ASSUME TypeOK, PositionOK, Loading, NEW p \in Pipelines, CoroutineStep(p),
         pc'[p] \in {"sem"} \cup LoadingPcs
  PROVE  /\ Cur(p)' = Cur(p)
         /\ mstate'[Cur(p)] \in {"unloaded", "loading", "warming"}
<1> USE DEF TypeOK, registry, counts, pipelines, coroutine, locks, background,
            CriticalPcs, LoadingPcs, Cur
<1>0. pc[p] \in CriticalPcs => Cur(p) \in Models
  BY CurrentModel
<1>1. CASE Client(p)
  BY <1>1 DEF Client, Activate, Deactivate, Cancel, Terminate, Loading
<1>2. CASE Run(p)
  <2>1. CASE FoundNotLoaded(p)
    BY <2>1 DEF FoundNotLoaded, AcquirePermit
  <2>2. CASE BeginLoad(p)
    BY <1>0, <2>2 DEF BeginLoad
  <2> QED
    BY <1>2, <2>1, <2>2
       DEF Run, ReserveModel, FinishActivation, Fail, Terminate, FoundReady,
           NextModel, FoundUnloading, BeginLoadRefused, AbortLoad
<1>3. CASE Resume(p)
  <2>1. CASE GrantPermit(p) \/ PollUnloaded(p)
    BY <2>1 DEF GrantPermit, PollUnloaded, AcquirePermit, Loading
  <2>2. CASE LoadSucceeds(p)
    BY <1>0, <2>2 DEF LoadSucceeds, AbortLoad
  <2> QED
    BY <1>3, <2>1, <2>2
       DEF Resume, GrantLock, Poll, PollExpires, LoadDone, LoadFails,
           Warmed, AbortLoad, NextModel
<1> QED
  BY <1>1, <1>2, <1>3 DEF CoroutineStep

-----------------------------------------------------------------------------
(* The registry and Triton.                                                *)

LEMMA ServedByCoroutine ==
  ASSUME IInv, LoopInv, NEW p \in Pipelines, CoroutineStep(p)
  PROVE  InFlight' /\ Loading' /\ (ServedIsLoaded => ServedIsLoaded')
<1> USE DEF IInv, LoopInv
<1>1. InFlight'
  <2> SUFFICES ASSUME call[Loop] # NoOne
               PROVE  mstate'[call[Loop]] = "unloading"
    BY OthersStay DEF InFlight
  <2>1. call[Loop] \in Models /\ mstate[call[Loop]] = "unloading"
    BY DEF InFlight, TypeOK, Callers
  <2> QED
    BY <2>1, OwnModelOnly DEF Loading
<1>2. Loading'
  <2> SUFFICES ASSUME NEW q \in Pipelines, pc'[q] \in {"sem"} \cup LoadingPcs
               PROVE  mstate'[Cur(q)'] \in {"unloaded", "loading", "warming"}
    BY DEF Loading
  <2>1. CASE q = p
    BY <2>1, LoaderStep
  <2>2. CASE q # p
    <3>1. pc[q] = pc'[q] /\ Cur(q)' = Cur(q)
      BY <2>2, OthersStay DEF Cur
    <3>2. pc[q] \in CriticalPcs
      BY <3>1 DEF CriticalPcs
    <3>3. mstate'[Cur(q)] = mstate[Cur(q)]
      BY <2>2, <3>2, OthersModel, CurrentModel
    <3> QED
      BY <3>1, <3>3 DEF Loading
  <2> QED
    BY <2>1, <2>2
<1>3. ServedIsLoaded => ServedIsLoaded'
  BY OwnModelOnly DEF ServedIsLoaded, Served
<1> QED
  BY <1>1, <1>2, <1>3

\* What the lifecycle loop does to the models.
LEMMA LoopModels ==
  ASSUME TypeOK, LoopCall, InFlight, LifecycleLoop, NEW m \in Models
  PROVE  /\ mstate'[m] # mstate[m] =>
              \/ mstate[m] = "ready" /\ mstate'[m] = "idle" /\ refCount[m] = 0
              \/ mstate[m] = "idle" /\ mstate'[m] = "unloading"
              \/ mstate[m] \in {"loading", "warming"} /\ m \in sweep
                   /\ mstate'[m] = "unloaded"
              \/ mstate[m] = "unloading" /\ mstate'[m] = "unloaded"
         /\ triton'[m] # triton[m] => mstate'[m] = "unloaded"
<1> USE DEF TypeOK, registry, counts, Callers
<1>1. CASE Tick
  BY <1>1 DEF Tick
<1>2. ASSUME NEW n \in Models, SweepUnload(n) \/ SweepBusy(n)
      PROVE  /\ UNCHANGED triton
             /\ mstate'[m] # mstate[m] =>
                  \/ mstate[m] = "idle" /\ mstate'[m] = "unloading"
                  \/ mstate[m] \in {"loading", "warming", "unloading"}
                       /\ m \in sweep /\ mstate'[m] = "unloaded"
  BY <1>2 DEF SweepUnload, SweepBusy, StartUnload, UnloadBegun, RollBack,
              CanMove, MODEL_STATE_TRANSITIONS, ModelState
<1>3. CASE SweepEnd
  BY <1>3 DEF SweepEnd, GoesIdle
<1>4. CASE UnloadReturns(Loop)
  <2>1. call[Loop] \in Models /\ mstate[call[Loop]] = "unloading"
    BY <1>4 DEF UnloadReturns, InFlight
  <2>2. RollBack("unloading") = "unloaded"
    BY DEF RollBack, CanMove, MODEL_STATE_TRANSITIONS, ModelState
  <2>3. mstate' = [mstate EXCEPT ![call[Loop]] = "unloaded"]
    BY <1>4, <2>1, <2>2 DEF UnloadReturns
  <2> QED
    BY <1>4, <2>1, <2>3 DEF UnloadReturns
<1> QED
  BY <1>1, <1>2, <1>3, <1>4 DEF LifecycleLoop, Sweep

LEMMA ServedByLoop ==
  ASSUME IInv, LoopInv, LifecycleLoop
  PROVE  InFlight' /\ Loading' /\ (ServedIsLoaded => ServedIsLoaded')
<1> USE DEF IInv, LoopInv
<1>1. InFlight'
  <2>1. CASE Tick \/ SweepEnd
    BY <2>1 DEF Tick, SweepEnd, InFlight, LoopCall, registry
  <2>2. ASSUME NEW m \in Models, SweepUnload(m) \/ SweepBusy(m)
        PROVE  InFlight'
    BY <2>2 DEF SweepUnload, SweepBusy, StartUnload, UnloadBegun, InFlight,
                LoopCall, TypeOK, Callers
  <2>3. CASE UnloadReturns(Loop)
    BY <2>3 DEF UnloadReturns, InFlight, TypeOK, Callers
  <2> QED
    BY <2>1, <2>2, <2>3 DEF LifecycleLoop, Sweep
<1>2. Loading'
  <2> SUFFICES ASSUME NEW q \in Pipelines, pc'[q] \in {"sem"} \cup LoadingPcs
               PROVE  mstate'[Cur(q)'] \in {"unloaded", "loading", "warming"}
    BY DEF Loading
  <2>1. pc' = pc /\ Cur(q)' = Cur(q)
    BY BackgroundFrame DEF BackgroundStep, Cur
  <2>2. Cur(q) \in Models
    BY <2>1, CurrentModel DEF CriticalPcs
  <2> QED
    BY <2>1, <2>2, LoopModels DEF Loading
<1>3. ServedIsLoaded => ServedIsLoaded'
  BY LoopModels DEF ServedIsLoaded
<1> QED
  BY <1>1, <1>2, <1>3

LEMMA ServedStep ==
  ASSUME Unloaders = {}, IInv, LoopInv, [Next]_vars
  PROVE  /\ LoopInv'
         /\ "triton_restart" \notin Faults /\ ServedIsLoaded => ServedIsLoaded'
<1>1. LoopCall'
  BY LoopCallStep DEF IInv, LoopInv
<1>2. CASE \/ \E m \in Models : BeginInference(m) \/ EndInference(m)
           \/ TritonRestart \/ UNCHANGED vars
  <2>1. UNCHANGED <<mstate, call, pc, idx>>
    BY <1>2 DEF BeginInference, EndInference, TritonRestart, vars, coroutine,
                registry, background
  <2>2. "triton_restart" \notin Faults => UNCHANGED triton
    BY <1>2 DEF BeginInference, EndInference, TritonRestart, vars
  <2> QED
    BY <1>1, <2>1, <2>2 DEF LoopInv, InFlight, Loading, ServedIsLoaded, Cur
<1>3. CASE Restart
  BY <1>1, <1>3 DEF Restart, LoopInv, InFlight, Loading, ServedIsLoaded,
                    LoadingPcs, Callers
<1> QED
  BY <1>1, <1>2, <1>3, ServedByCoroutine, ServedByLoop
     DEF Next, CoroutineStep, LoopInv

\* What the registry takes for served is loaded in Triton: a load that failed,
\* was cancelled or came too late, an unload that failed and a restart of the
\* process never make it believe otherwise.
THEOREM ServedLoaded ==
  ASSUME Unloaders = {}, "triton_restart" \notin Faults
  PROVE  Spec => []ServedIsLoaded
<1>1. Init => ServedInv
  BY DEF Init, ServedInv, LoopInv, LoopCall, InFlight, Loading,
         ServedIsLoaded, LoadingPcs, Callers
<1>2. IInv /\ ServedInv /\ [Next]_vars => ServedInv'
  BY ServedStep DEF ServedInv
<1>3. ServedInv => ServedIsLoaded
  BY DEF ServedInv
<1> QED
  BY <1>1, <1>2, <1>3, Invariance, PTL DEF Spec

-----------------------------------------------------------------------------
(* Models in a transitional state.                                         *)

\* LOADING and WARMING have a loader at that very step.
Attended ==
  \A m \in Models :
    /\ mstate[m] = "loading" =>
         \E p \in Pipelines : pc[p] = "load" /\ Cur(p) = m
    /\ mstate[m] = "warming" =>
         \E p \in Pipelines : pc[p] = "warm" /\ Cur(p) = m

\* Only BeginLoad and LoadSucceeds take a model to LOADING and WARMING, and a
\* coroutine that leaves either step takes its model along.
LEMMA TransitionalStep ==
  ASSUME TypeOK, PositionOK, NEW p \in Pipelines, CoroutineStep(p),
         "cancel" \notin Faults, NEW m \in Models,
         mstate'[m] \in {"loading", "warming"},
         mstate'[m] # mstate[m] \/ (pc[p] \in {"load", "warm"} /\ Cur(p) = m)
  PROVE  /\ Cur(p) = m /\ Cur(p)' = m
         /\ mstate'[m] = "loading" => pc'[p] = "load"
         /\ mstate'[m] = "warming" => pc'[p] = "warm"
<1> USE DEF TypeOK, registry, counts, pipelines, coroutine, Cur
<1>0. \A s \in ModelState : RollBack(s) \notin {"loading", "warming"}
  BY DEF RollBack, CanMove, MODEL_STATE_TRANSITIONS, ModelState
<1>1. CASE Client(p)
  BY <1>1 DEF Client, Activate, Deactivate, Cancel, PositionOK, Deactivatable
<1>2. CASE Run(p)
  <2>1. CASE FoundReady(p)
    BY <2>1 DEF FoundReady, Reused
  <2>2. CASE BeginLoad(p)
    BY <2>2 DEF BeginLoad
  <2>3. CASE BeginLoadRefused(p)
    BY <1>0, <2>3 DEF BeginLoadRefused, AbortLoad
  <2> QED
    BY <1>2, <2>1, <2>2, <2>3
       DEF Run, ReserveModel, FinishActivation, Fail, FoundUnloading,
           FoundNotLoaded
<1>3. CASE Resume(p)
  <2>1. CASE LoadSucceeds(p)
    BY <1>0, <2>1 DEF LoadSucceeds, AbortLoad
  <2>2. CASE LoadFails(p)
    BY <1>0, <2>2 DEF LoadFails, AbortLoad
  <2>3. CASE Warmed(p)
    BY <1>0, <2>3 DEF Warmed, AbortLoad
  <2> QED
    BY <1>3, <2>1, <2>2, <2>3
       DEF Resume, GrantLock, GrantPermit, Poll, PollUnloaded, PollExpires,
           LoadDone
<1> QED
  BY <1>1, <1>2, <1>3 DEF CoroutineStep

LEMMA AttendedByCoroutine ==
  ASSUME TypeOK, PositionOK, Attended, "cancel" \notin Faults,
         NEW p \in Pipelines, CoroutineStep(p)
  PROVE  Attended'
<1> SUFFICES ASSUME NEW m \in Models, mstate'[m] \in {"loading", "warming"}
             PROVE  \E q \in Pipelines :
                      /\ Cur(q)' = m
                      /\ mstate'[m] = "loading" => pc'[q] = "load"
                      /\ mstate'[m] = "warming" => pc'[q] = "warm"
  BY DEF Attended
<1>1. CASE mstate'[m] # mstate[m]
  BY <1>1, TransitionalStep
<1>2. CASE mstate'[m] = mstate[m]
  <2>1. PICK q \in Pipelines :
          /\ pc[q] \in {"load", "warm"} /\ Cur(q) = m
          /\ mstate[m] = "loading" => pc[q] = "load"
          /\ mstate[m] = "warming" => pc[q] = "warm"
    BY <1>2 DEF Attended
  <2>2. CASE q = p
    BY <2>1, <2>2, TransitionalStep
  <2>3. CASE q # p
    <3>1. pc'[q] = pc[q] /\ Cur(q)' = Cur(q)
      BY <2>3, OthersStay DEF Cur
    <3> QED
      BY <1>2, <2>1, <3>1
  <2> QED
    BY <2>2, <2>3
<1> QED
  BY <1>1, <1>2

\* An unload never leaves a model LOADING or WARMING that was not.
LEMMA BackgroundSparesLoads ==
  ASSUME TypeOK, BackgroundStep, NEW m \in Models,
         mstate'[m] \in {"loading", "warming"}
  PROVE  mstate'[m] = mstate[m]
<1> USE DEF TypeOK, registry, counts
<1>0. \A s \in ModelState :
        /\ RollBack(s) \notin {"loading", "warming"}
        /\ UnloadBegun(s) \notin {"loading", "warming"}
  BY DEF UnloadBegun, RollBack, CanMove, MODEL_STATE_TRANSITIONS, ModelState
<1>1. CASE LifecycleLoop
  <2>1. CASE Tick \/ SweepEnd
    BY <2>1 DEF Tick, SweepEnd
  <2>2. ASSUME NEW n \in Models, SweepUnload(n) \/ SweepBusy(n)
        PROVE  mstate'[m] = mstate[m]
    BY <1>0, <2>2 DEF SweepUnload, SweepBusy, StartUnload
  <2>3. CASE UnloadReturns(Loop)
    BY <1>0, <2>3 DEF UnloadReturns
  <2> QED
    BY <1>1, <2>1, <2>2, <2>3 DEF LifecycleLoop, Sweep
<1>2. ASSUME NEW u \in Unloaders,
             UnloadReturns(u) \/ \E n \in Models : RequestUnload(u, n)
      PROVE  mstate'[m] = mstate[m]
  BY <1>0, <1>2 DEF UnloadReturns, RequestUnload, StartUnload
<1> QED
  BY <1>1, <1>2
     DEF BackgroundStep, BeginInference, EndInference, TritonRestart

LEMMA AttendedStep ==
  ASSUME "cancel" \notin Faults, IInv, Attended, [Next]_vars
  PROVE  Attended'
<1>1. CASE BackgroundStep \/ UNCHANGED vars
  <2>1. pc' = pc /\ \A p \in Pipelines : Cur(p)' = Cur(p)
    BY <1>1, BackgroundFrame DEF Cur
  <2>2. \A m \in Models :
          mstate'[m] \in {"loading", "warming"} => mstate'[m] = mstate[m]
    BY <1>1, BackgroundSparesLoads DEF IInv, vars
  <2> QED
    BY <2>1, <2>2 DEF Attended
<1>2. CASE Restart
  BY <1>2 DEF Restart, Attended
<1> QED
  BY <1>1, <1>2, AttendedByCoroutine, NextByComponent DEF IInv, CoroutineStep

\* Nobody waits for a model that will not move: as long as no coroutine is
\* cancelled, LOADING and WARMING have their loader and UNLOADING its call,
\* even when request_unload resets a model under its loader.
THEOREM NoOrphans ==
  ASSUME "cancel" \notin Faults
  PROVE  Spec => []NoOrphan
<1>1. Init => Attended
  BY DEF Init, Attended
<1>2. IInv /\ Attended /\ [Next]_vars => Attended'
  BY AttendedStep
<1>3. Attended /\ UnloadsInFlight => NoOrphan
  BY DEF Attended, UnloadsInFlight, NoOrphan
<1> QED
  BY <1>1, <1>2, <1>3, Invariance, UnloadsAttended, PTL DEF Spec

\* A comment in ensure_model_ready: a model found inside the lock is never
\* LOADING or WARMING, because `the lock serialises'.
THEOREM LoadsSerialised ==
  ASSUME "cancel" \notin Faults
  PROVE  Spec => []LockSerialisesLoads
<1>1. IInv /\ NoOrphan => LockSerialisesLoads
  BY CurrentModel DEF IInv, NoOrphan, SingleLoader, LockSerialisesLoads,
                      CriticalPcs, LoadingPcs
<1> QED
  BY <1>1, Invariance, NoOrphans, PTL

-----------------------------------------------------------------------------
(***************************************************************************)
(* The leases.  Reference counts are exact, an ACTIVE pipeline's models    *)
(* are READY and stay so, and every step is a step of the leases or none.  *)
(*                                                                         *)
(* It takes one of two assumptions.  A failed activation gives back        *)
(* references it never took, and a deactivation in ERROR gives them back   *)
(* twice, which breaks all of it when they are another pipeline's          *)
(* (README.md has the findings).  So either no two pipelines have a model  *)
(* in common, and then loads, unloads, waits, clients and InferPack itself *)
(* may fail as they like, or pipelines share models in any way and nothing *)
(* makes an activation fail.                                               *)
(***************************************************************************)

\* No two pipelines need a model in common.
Apart == \A p, q \in Pipelines : p # q => Needs(p) \cap Needs(q) = {}

\* Nothing makes an activation end otherwise than in ACTIVE.
Undisturbed ==
  /\ Unloaders = {}
  /\ {"load_fails", "wait_timeout", "cancel"} \cap Faults = {}

\* No activation is failing or has failed.
Smooth == \A p \in Pipelines : pc[p] # "fail" /\ pstate[p] # "error"

\* The references a pipeline gives back are its own.
Orderly == Undisturbed \/ (Unloaders = {} /\ Apart)

\* The models an activation has gone through, in terms of its position.
Passed(p) == {i \in 1..Len(ModelsOf[p]) : i < idx[p]}

\* An ACTIVE pipeline has all of its references, an activation those of the
\* models it has gone through and of the one it is busy with.
Collected ==
  \A p \in Pipelines :
    /\ pstate[p] = "active" => held[p] = Needs(p)
    /\ pc[p] # "none" => \A i \in Passed(p) : ModelsOf[p][i] \in held[p]
    /\ pc[p] \in CriticalPcs \cup {"lock"} => Cur(p) \in held[p]

\* The models of an ACTIVE pipeline are READY, and so are those an activation
\* has gone through.
Secured ==
  \A p \in Pipelines :
    /\ pstate[p] = "active" => \A m \in Needs(p) : mstate[m] = "ready"
    /\ pc[p] # "none" =>
         \A i \in Passed(p) : mstate[ModelsOf[p][i]] = "ready"

\* What is inductive, given IInv.
LeaseInv ==
  /\ LoopInv
  /\ Collected
  /\ Secured
  /\ RefExact

-----------------------------------------------------------------------------
(* What is left of a coroutine's steps.                                    *)

\* One step of ensure_model_ready, on the way to a READY model or out with
\* an exception.
Walk(p) ==
  /\ pc[p] \in CriticalPcs \cup {"lock"}
  /\ pc'[p] \in CriticalPcs \cup {"lock", "fail"}
  /\ UNCHANGED <<refCount, pstate, held, idx>>
  /\ \A m \in Models : mstate'[m] = "ready" <=> mstate[m] = "ready"

\* ensure_model_ready returns: its model is READY.
Secure(p) ==
  /\ pc[p] \in {"ensure", "warm"}
  /\ mstate' = [mstate EXCEPT ![Cur(p)] = "ready"]
  /\ NextModel(p)
  /\ UNCHANGED <<refCount, pstate, held>>

\* Rolling a load back takes no READY model away.
LEMMA AbortWalks ==
  ASSUME TypeOK, PositionOK, Loading, NEW p \in Pipelines,
         pc[p] \in LoadingPcs, AbortLoad(p),
         UNCHANGED <<refCount, pstate, held>>
  PROVE  Walk(p)
<1>1. Cur(p) \in Models
  BY CurrentModel DEF CriticalPcs
<1>2. mstate[Cur(p)] \in {"unloaded", "loading", "warming"}
  BY DEF Loading
<1>3. \A s \in {"unloaded", "loading", "warming"} : RollBack(s) # "ready"
  BY DEF RollBack
<1>4. mstate' = [mstate EXCEPT ![Cur(p)] = RollBack(mstate[Cur(p)])]
  BY DEF AbortLoad
<1>5. \A m \in Models : mstate'[m] = "ready" <=> mstate[m] = "ready"
  BY <1>1, <1>2, <1>3, <1>4 DEF TypeOK
<1>6. pc'[p] = "fail" /\ UNCHANGED idx
  BY DEF AbortLoad, TypeOK
<1> QED
  BY <1>5, <1>6 DEF Walk, CriticalPcs

LEMMA Course ==
  ASSUME IInv, Loading, NEW p \in Pipelines, CoroutineStep(p)
  PROVE  \/ Activate(p) \/ Deactivate(p) \/ Cancel(p) \/ ReserveModel(p)
         \/ FinishActivation(p) \/ Fail(p) \/ Walk(p) \/ Secure(p)
<1> USE DEF IInv, TypeOK, registry, counts, pipelines, locks, background,
            coroutine, CriticalPcs, LoadingPcs
<1>0. pc[p] \in CriticalPcs => Cur(p) \in Models
  BY CurrentModel
<1>1. CASE Client(p)
  BY <1>1 DEF Client
<1>2. CASE Run(p)
  <2>1. CASE FoundReady(p)
    BY <1>0, <2>1 DEF FoundReady, Reused, Secure
  <2>2. CASE FoundUnloading(p) \/ FoundNotLoaded(p)
    BY <2>2 DEF FoundUnloading, FoundNotLoaded, AcquirePermit, Walk
  <2>3. CASE BeginLoad(p)
    <3>1. mstate[Cur(p)] # "ready"
      BY <2>3 DEF BeginLoad, Loading
    <3> QED
      BY <1>0, <2>3, <3>1 DEF BeginLoad, Walk
  <2>4. CASE BeginLoadRefused(p)
    BY <2>4, AbortWalks DEF BeginLoadRefused
  <2> QED
    BY <1>2, <2>1, <2>2, <2>3, <2>4 DEF Run
<1>3. CASE Resume(p)
  <2>1. CASE GrantLock(p) \/ GrantPermit(p)
    BY <2>1 DEF GrantLock, GrantPermit, Walk
  <2>2. CASE Poll(p)
    BY <2>2 DEF Poll, PollUnloaded, PollExpires, AcquirePermit, Walk
  <2>3. CASE LoadSucceeds(p)
    <3>1. CASE CanMove(mstate[Cur(p)], "warming")
      <4>1. mstate[Cur(p)] # "ready"
        BY <2>3 DEF LoadSucceeds, Loading
      <4> QED
        BY <1>0, <2>3, <3>1, <4>1 DEF LoadSucceeds, Walk
    <3>2. CASE ~CanMove(mstate[Cur(p)], "warming")
      BY <2>3, <3>2, AbortWalks DEF LoadSucceeds
    <3> QED
      BY <3>1, <3>2
  <2>4. CASE LoadFails(p)
    BY <2>4, AbortWalks DEF LoadFails
  <2>5. CASE Warmed(p)
    <3>1. CASE CanMove(mstate[Cur(p)], "ready")
      BY <1>0, <2>5, <3>1 DEF Warmed, Secure
    <3>2. CASE ~CanMove(mstate[Cur(p)], "ready")
      BY <2>5, <3>2, AbortWalks DEF Warmed
    <3> QED
      BY <3>1, <3>2
  <2> QED
    BY <1>3, <2>1, <2>2, <2>3, <2>4, <2>5 DEF Resume, LoadDone
<1> QED
  BY <1>1, <1>2, <1>3 DEF CoroutineStep

\* A loaded model that is not unloading stays so in a coroutine's hands.
LEMMA ReadyKept ==
  ASSUME TypeOK, Loading, NEW p \in Pipelines, CoroutineStep(p),
         NEW m \in Models, mstate[m] \in {"ready", "idle"}
  PROVE  mstate'[m] \in {mstate[m], "ready"}
<1> SUFFICES ASSUME mstate'[m] # mstate[m] PROVE mstate'[m] = "ready"
  OBVIOUS
<1>1. m = Cur(p) /\ pc[p] \in CriticalPcs
  BY OwnModelOnly
<1>2. pc[p] \notin {"sem"} \cup LoadingPcs
  BY <1>1 DEF Loading, LoadingPcs
<1> USE DEF TypeOK, registry, counts, CriticalPcs, LoadingPcs
<1>3. CASE Client(p)
  BY <1>3 DEF Client, Activate, Deactivate, Cancel
<1>4. CASE Run(p)
  BY <1>1, <1>2, <1>4
     DEF Run, ReserveModel, FinishActivation, Fail, FoundReady, Reused,
         FoundUnloading, FoundNotLoaded, BeginLoad, BeginLoadRefused
<1>5. CASE Resume(p)
  BY <1>1, <1>2, <1>5
     DEF Resume, GrantLock, GrantPermit, Poll, PollUnloaded, PollExpires,
         LoadDone, LoadSucceeds, LoadFails, Warmed
<1> QED
  BY <1>3, <1>4, <1>5 DEF CoroutineStep

\* The background makes no model READY, and takes none away but one that
\* nobody references.
LEMMA BackgroundReady ==
  ASSUME Unloaders = {}, TypeOK, LoopInv, BackgroundStep, NEW m \in Models
  PROVE  \/ mstate'[m] = "ready" <=> mstate[m] = "ready"
         \/ mstate[m] = "ready" /\ mstate'[m] = "idle" /\ refCount[m] = 0
<1>1. CASE LifecycleLoop
  BY <1>1, LoopModels DEF LoopInv
<1>2. CASE ~LifecycleLoop
  BY <1>2 DEF BackgroundStep, BeginInference, EndInference, TritonRestart,
              registry
<1> QED
  BY <1>1, <1>2

-----------------------------------------------------------------------------
(* The references.                                                         *)

\* The models of a list up to a position, and one further.
LEMMA PassedMore ==
  ASSUME TypeOK, NEW p \in Pipelines, NextModel(p)
  PROVE  \A i \in 1..Len(ModelsOf[p]) :
           i < idx'[p] => i < idx[p] \/ i = idx[p]
BY PipelinesAssumption DEF TypeOK, NextModel

LEMMA NeedsListed ==
  ASSUME NEW p \in Pipelines, NEW m \in Needs(p)
  PROVE  m \in Models /\ \E i \in 1..Len(ModelsOf[p]) : m = ModelsOf[p][i]
<1>1. ModelsOf[p] \in Seq(Models)
  BY PipelinesAssumption
<1>2. DOMAIN ModelsOf[p] = 1..Len(ModelsOf[p])
  BY <1>1
<1>3. PICK i \in 1..Len(ModelsOf[p]) : m = ModelsOf[p][i]
  BY <1>2 DEF Needs, Range
<1>4. ModelsOf[p][i] \in Models
  BY <1>1
<1> QED
  BY <1>3, <1>4

LEMMA CollectedByCoroutine ==
  ASSUME IInv, LeaseInv, NEW p \in Pipelines, CoroutineStep(p)
  PROVE  Collected'
<1> USE DEF IInv, TypeOK, LeaseInv
<1> DEFINE Has(q) ==
      /\ pstate'[q] = "active" => held'[q] = Needs(q)
      /\ pc'[q] # "none" => \A i \in 1..Len(ModelsOf[q]) :
                              i < idx'[q] => ModelsOf[q][i] \in held'[q]
      /\ pc'[q] \in CriticalPcs \cup {"lock"} => Cur(q)' \in held'[q]
<1> SUFFICES ASSUME NEW q \in Pipelines PROVE Has(q)
  BY DEF Collected, Passed
<1>0. Len(ModelsOf[q]) \in Nat /\ idx[q] \in Nat \ {0}
  BY PipelinesAssumption
<1>1. CASE q # p
  <2>1. /\ pstate'[q] = pstate[q] /\ pc'[q] = pc[q] /\ idx'[q] = idx[q]
        /\ held'[q] = held[q] /\ Cur(q)' = Cur(q)
    BY <1>1, OthersStay DEF Cur
  <2> QED
    BY <2>1 DEF Collected, Passed
<1>2. CASE q = p
  <2>1. CASE Activate(p)
    BY <1>0, <1>2, <2>1 DEF Activate, CriticalPcs, LoadingPcs
  <2>2. CASE Deactivate(p)
    BY <1>2, <2>2
       DEF Deactivate, Deactivatable, PositionOK, coroutine, CriticalPcs,
           LoadingPcs
  <2>3. CASE ReserveModel(p)
    <3>1. /\ held'[p] = held[p] \cup {Cur(p)} /\ Cur(p)' = Cur(p)
          /\ idx' = idx /\ pstate' = pstate
          /\ pc[p] = "next" /\ pstate[p] = "activating"
      BY <2>3 DEF ReserveModel, Cur, PositionOK
    <3> QED
      BY <1>2, <3>1 DEF Collected, Passed
  <2>4. CASE FinishActivation(p)
    <3>1. /\ pc'[p] = "none" /\ held' = held
          /\ pc[p] = "next" /\ ~(idx[p] <= Len(ModelsOf[p]))
      BY <1>0, <1>2, <2>4
         DEF FinishActivation, Terminate, Exhausted, pipelines
    <3>2. \A i \in 1..Len(ModelsOf[p]) : i \in Passed(p)
      BY <1>0, <1>2, <3>1 DEF Passed
    <3>3. \A i \in Passed(p) : ModelsOf[p][i] \in held[p]
      BY <3>1 DEF Collected
    <3>4. Needs(p) \subseteq held[p]
      <4> SUFFICES ASSUME NEW m \in Needs(p) PROVE m \in held[p]
        OBVIOUS
      <4>1. PICK i \in 1..Len(ModelsOf[p]) : m = ModelsOf[p][i]
        BY NeedsListed
      <4> QED
        BY <3>2, <3>3, <4>1
    <3> QED
      BY <1>2, <3>1, <3>4 DEF HeldOK, CriticalPcs, LoadingPcs
  <2>5. CASE Walk(p)
    BY <1>2, <2>5 DEF Walk, Collected, Passed, Cur, CriticalPcs, LoadingPcs
  <2>6. CASE Secure(p)
    <3>1. /\ pc'[p] = "next" /\ held' = held /\ pstate' = pstate
          /\ pc[p] \in CriticalPcs /\ pc[p] # "none"
          /\ pstate[p] = "activating"
      BY <2>6 DEF Secure, NextModel, PositionOK, CriticalPcs, LoadingPcs
    <3>2. \A i \in 1..Len(ModelsOf[p]) : i < idx'[p] =>
            ModelsOf[p][i] \in held[p]
      BY <2>6, <3>1, PassedMore DEF Secure, Collected, Passed, Cur
    <3> QED
      BY <1>2, <3>1, <3>2 DEF CriticalPcs, LoadingPcs
  <2>7. CASE Fail(p)
    BY <1>2, <2>7 DEF Fail, Terminate, CriticalPcs, LoadingPcs
  <2>8. CASE Cancel(p)
    BY <1>2, <2>8
       DEF Cancel, Terminate, pipelines, PositionOK, CriticalPcs, LoadingPcs,
           SuspendedPcs
  <2> QED
    BY <2>1, <2>2, <2>3, <2>4, <2>5, <2>6, <2>7, <2>8, Course DEF LoopInv
<1> QED
  BY <1>1, <1>2

\* A model somebody has a reference to has a positive count.
LEMMA HeldCounted ==
  ASSUME RefExact, NEW p \in Pipelines, NEW m \in Models, m \in held[p]
  PROVE  refCount[m] # 0
<1>1. p \in Holders(m) /\ IsFiniteSet(Holders(m))
  BY PipelinesAssumption, FS_Subset DEF Holders
<1> QED
  BY <1>1, FS_EmptySet DEF RefExact

\* A pipeline that gives its references back takes nobody else's along: it
\* holds one to each of its models, or it is the only one that can, and a
\* count that is zero stays there.
LEMMA DropOwn ==
  ASSUME IInv, RefExact, NEW p \in Pipelines, DropReferences(p),
         Apart \/ held[p] = Needs(p), NEW m \in Models \ held[p]
  PROVE  refCount'[m] = refCount[m]
<1> USE DEF IInv, TypeOK, DropReferences
<1>1. CASE m \notin Needs(p)
  BY <1>1
<1>2. CASE m \in Needs(p)
  <2>1. Apart
    BY <1>2
  <2>2. \A q \in Pipelines \ {p} : m \notin held[q]
    BY <1>2, <2>1 DEF Apart, HeldOK
  <2>3. Holders(m) = {}
    BY <2>2 DEF Holders
  <2>4. refCount[m] = 0
    BY <2>3, FS_EmptySet DEF RefExact
  <2> QED
    BY <1>2, <2>4 DEF Decremented
<1> QED
  BY <1>1, <1>2

LEMMA DropExact ==
  ASSUME IInv, RefExact, NEW p \in Pipelines, DropReferences(p),
         Apart \/ held[p] = Needs(p)
  PROVE  RefExact'
<1> USE DEF IInv, TypeOK, DropReferences
<1> SUFFICES ASSUME NEW m \in Models
             PROVE  refCount'[m] = Cardinality(Holders(m)')
  BY DEF RefExact
<1>0. IsFiniteSet(Holders(m)) /\ refCount[m] = Cardinality(Holders(m))
  BY PipelinesAssumption, FS_Subset DEF Holders, RefExact
<1>1. Holders(m)' = Holders(m) \ {p}
  BY DEF Holders
<1>2. CASE p \in Holders(m)
  <2>1. refCount'[m] = Decremented(refCount[m])
    BY <1>2 DEF Holders, HeldOK
  <2>2. /\ Cardinality(Holders(m)') = Cardinality(Holders(m)) - 1
        /\ Cardinality(Holders(m)) \in Nat \ {0}
    BY <1>0, <1>1, <1>2, OneMoreOneLess
  <2> QED
    BY <1>0, <2>1, <2>2 DEF Decremented
<1>3. CASE p \notin Holders(m)
  <2>1. Holders(m)' = Holders(m)
    BY <1>1, <1>3
  <2>2. m \in Models \ held[p]
    BY <1>3 DEF Holders
  <2>3. refCount'[m] = refCount[m]
    BY <2>2, DropOwn
  <2> QED
    BY <1>0, <2>1, <2>3
<1> QED
  BY <1>2, <1>3

LEMMA RefExactStep ==
  ASSUME IInv, LeaseInv, Apart \/ Smooth, Next
  PROVE  RefExact'
<1> USE DEF IInv, TypeOK, LeaseInv
<1>1. ASSUME NEW p \in Pipelines, ReserveModel(p) PROVE RefExact'
  <2> SUFFICES ASSUME NEW m \in Models
               PROVE  refCount'[m] = Cardinality(Holders(m)')
    BY DEF RefExact
  <2>1. Cur(p) \notin held[p]
    BY <1>1, NextModelTyped DEF ReserveModel, HeldOK, Cur
  <2>2. CASE m = Cur(p)
    <3>1. Holders(m)' = Holders(m) \cup {p} /\ p \notin Holders(m)
      BY <1>1, <2>1, <2>2 DEF ReserveModel, Holders
    <3>2. IsFiniteSet(Holders(m))
      BY PipelinesAssumption, FS_Subset DEF Holders
    <3>3. Cardinality(Holders(m)') = Cardinality(Holders(m)) + 1
      BY <3>1, <3>2, OneMoreOneLess
    <3> QED
      BY <1>1, <2>2, <3>3 DEF ReserveModel, RefExact
  <2>3. CASE m # Cur(p)
    <3>1. Holders(m)' = Holders(m)
      BY <1>1, <2>3 DEF ReserveModel, Holders
    <3> QED
      BY <1>1, <2>3, <3>1 DEF ReserveModel, RefExact
  <2> QED
    BY <2>2, <2>3
<1>2. ASSUME NEW p \in Pipelines, Deactivate(p) PROVE RefExact'
  <2>1. Apart \/ held[p] = Needs(p)
    BY <1>2 DEF Deactivate, Deactivatable, Smooth, Collected
  <2> QED
    BY <1>2, <2>1, DropExact DEF Deactivate
<1>3. ASSUME NEW p \in Pipelines, Fail(p) PROVE RefExact'
  <2>1. Apart
    BY <1>3 DEF Fail, Smooth
  <2> QED
    BY <1>3, <2>1, DropExact DEF Fail
<1>4. CASE Restart
  <2>1. \A m \in Models : Holders(m)' = {} /\ refCount'[m] = 0
    BY <1>4 DEF Restart, Holders
  <2> QED
    BY <2>1, FS_EmptySet DEF RefExact
<1>5. CASE UNCHANGED <<refCount, held>>
  BY <1>5 DEF RefExact, Holders
<1> QED
  BY <1>1, <1>2, <1>3, <1>4, <1>5, ReferenceFrame

-----------------------------------------------------------------------------
(* The models that are referenced.                                         *)

\* A READY model stays READY as long as somebody has a reference to it.
LEMMA ReadyHeld ==
  ASSUME Unloaders = {}, IInv, LeaseInv,
         \/ BackgroundStep
         \/ \E p \in Pipelines : CoroutineStep(p),
         NEW q \in Pipelines, NEW m \in Models,
         m \in held[q], mstate[m] = "ready"
  PROVE  mstate'[m] = "ready"
<1> USE DEF IInv, LeaseInv
<1>1. refCount[m] # 0
  BY HeldCounted
<1>2. CASE BackgroundStep
  BY <1>1, <1>2, BackgroundReady
<1>3. CASE \E p \in Pipelines : CoroutineStep(p)
  BY <1>3, ReadyKept DEF LoopInv
<1> QED
  BY <1>2, <1>3

\* An activation never goes through a model that is not READY.
LEMMA OwnSecured ==
  ASSUME Unloaders = {}, IInv, LeaseInv, NEW p \in Pipelines, CoroutineStep(p),
         pc'[p] # "none", NEW i \in 1..Len(ModelsOf[p]), i < idx'[p]
  PROVE  mstate'[ModelsOf[p][i]] = "ready"
<1> USE DEF IInv, TypeOK, LeaseInv
<1>0. ModelsOf[p][i] \in Models
  BY PipelinesAssumption
<1>1. ASSUME pc[p] # "none", i < idx[p]
      PROVE  mstate'[ModelsOf[p][i]] = "ready"
  <2>1. i \in Passed(p)
    BY <1>1 DEF Passed
  <2> QED
    BY <1>0, <1>1, <2>1, ReadyHeld DEF Collected, Secured
<1>2. CASE Activate(p)
  BY <1>2 DEF Activate
<1>3. CASE Deactivate(p)
  BY <1>3 DEF Deactivate, Deactivatable, PositionOK, coroutine
<1>4. CASE ReserveModel(p)
  BY <1>1, <1>4 DEF ReserveModel
<1>5. CASE FinishActivation(p)
  BY <1>5 DEF FinishActivation, Terminate
<1>6. CASE Walk(p)
  BY <1>1, <1>6 DEF Walk, CriticalPcs, LoadingPcs
<1>7. CASE Secure(p)
  <2>1. pc[p] # "none" /\ (i < idx[p] \/ i = idx[p])
    BY <1>7, PassedMore DEF Secure
  <2>2. i = idx[p] => mstate'[ModelsOf[p][i]] = "ready"
    BY <1>0, <1>7 DEF Secure, Cur
  <2> QED
    BY <1>1, <2>1, <2>2
<1>8. CASE Cancel(p) \/ Fail(p)
  BY <1>8 DEF Cancel, Fail, Terminate
<1> QED
  BY <1>2, <1>3, <1>4, <1>5, <1>6, <1>7, <1>8, Course DEF LoopInv

\* A pipeline that is ACTIVE, or becomes so, has its models READY.
LEMMA ActiveSecured ==
  ASSUME Unloaders = {}, IInv, LeaseInv, NEW p \in Pipelines, CoroutineStep(p),
         NEW q \in Pipelines, pstate'[q] = "active", NEW m \in Needs(q)
  PROVE  mstate'[m] = "ready"
<1> USE DEF IInv, TypeOK, LeaseInv
<1>0. m \in Models
  BY NeedsListed
<1>1. CASE pstate[q] = "active"
  BY <1>0, <1>1, ReadyHeld DEF Collected, Secured
<1>2. CASE pstate[q] # "active"
  <2>1. p = q
    BY <1>2, OthersStay
  <2>2. FinishActivation(p)
    BY <1>2, <2>1, Course
       DEF LoopInv, Activate, Deactivate, Cancel, ReserveModel, Fail, Walk,
           Secure, pipelines
  <2>3. mstate' = mstate /\ pc[p] = "next" /\ ~(idx[p] <= Len(ModelsOf[p]))
    <3>1. Len(ModelsOf[p]) \in Nat /\ idx[p] \in Nat
      BY PipelinesAssumption
    <3> QED
      BY <2>2, <3>1 DEF FinishActivation, Exhausted, registry
  <2>4. PICK i \in 1..Len(ModelsOf[p]) : m = ModelsOf[p][i]
    BY <2>1, NeedsListed
  <2>5. i \in Passed(p)
    <3>1. Len(ModelsOf[p]) \in Nat /\ idx[p] \in Nat
      BY PipelinesAssumption
    <3> QED
      BY <2>3, <3>1 DEF Passed
  <2> QED
    BY <2>3, <2>4, <2>5 DEF Secured
<1> QED
  BY <1>1, <1>2

LEMMA SecuredByCoroutine ==
  ASSUME Unloaders = {}, IInv, LeaseInv, NEW p \in Pipelines, CoroutineStep(p)
  PROVE  Secured'
<1> SUFFICES ASSUME NEW q \in Pipelines, pc'[q] # "none",
                    NEW i \in 1..Len(ModelsOf[q]), i < idx'[q]
             PROVE  mstate'[ModelsOf[q][i]] = "ready"
  BY ActiveSecured DEF Secured, Passed
<1>1. CASE q = p
  BY <1>1, OwnSecured
<1>2. CASE q # p
  <2>1. pc[q] # "none" /\ i \in Passed(q)
    BY <1>2, OthersStay DEF Passed, IInv
  <2>2. ModelsOf[q][i] \in Models
    BY PipelinesAssumption
  <2> QED
    BY <2>1, <2>2, ReadyHeld DEF Secured, Collected, LeaseInv
<1> QED
  BY <1>1, <1>2

LEMMA SecuredByBackground ==
  ASSUME Unloaders = {}, IInv, LeaseInv, BackgroundStep
  PROVE  Secured' /\ Collected'
<1>1. UNCHANGED <<pstate, pc, idx, held>>
  BY BackgroundFrame
<1>2. Collected'
  BY <1>1 DEF Collected, Passed, Cur, LeaseInv
<1>3. ASSUME NEW q \in Pipelines, pstate[q] = "active", NEW m \in Needs(q)
      PROVE  mstate'[m] = "ready"
  <2>1. m \in Models
    BY NeedsListed
  <2> QED
    BY <1>3, <2>1, ReadyHeld DEF LeaseInv, Collected, Secured
<1>4. ASSUME NEW q \in Pipelines, pc[q] # "none", NEW i \in Passed(q)
      PROVE  mstate'[ModelsOf[q][i]] = "ready"
  <2>1. ModelsOf[q][i] \in Models
    BY PipelinesAssumption DEF Passed
  <2> QED
    BY <1>4, <2>1, ReadyHeld DEF LeaseInv, Collected, Secured
<1> QED
  BY <1>1, <1>2, <1>3, <1>4 DEF Secured, Passed

LEMMA LeaseInvInitially == Init => LeaseInv
<1> SUFFICES ASSUME Init PROVE LeaseInv
  OBVIOUS
<1>1. LoopInv /\ Collected /\ Secured
  BY DEF Init, LoopInv, LoopCall, InFlight, Loading, Collected, Secured,
         CriticalPcs, LoadingPcs, Callers
<1>2. RefExact
  <2>1. \A m \in Models : Holders(m) = {} /\ refCount[m] = 0
    BY DEF Init, Holders
  <2> QED
    BY <2>1, FS_EmptySet DEF RefExact
<1> QED
  BY <1>1, <1>2 DEF LeaseInv

LEMMA LeaseInvStep ==
  ASSUME Unloaders = {}, IInv, LeaseInv, Apart \/ Smooth, [Next]_vars
  PROVE  LeaseInv'
<1>1. LoopInv'
  BY ServedStep DEF LeaseInv
<1>2. CASE \E p \in Pipelines : CoroutineStep(p)
  <2>1. Next
    BY <1>2, NextByComponent DEF CoroutineStep
  <2> QED
    BY <1>1, <1>2, <2>1, CollectedByCoroutine, SecuredByCoroutine,
       RefExactStep DEF LeaseInv
<1>3. CASE BackgroundStep
  BY <1>1, <1>3, SecuredByBackground, RefExactStep, NextByComponent
     DEF LeaseInv
<1>4. CASE Restart
  <2>1. Collected' /\ Secured'
    BY <1>4 DEF Restart, Collected, Secured, CriticalPcs, LoadingPcs
  <2> QED
    BY <1>1, <1>4, <2>1, RefExactStep, NextByComponent DEF LeaseInv
<1>5. CASE UNCHANGED vars
  <2>1. Collected' /\ Secured' /\ RefExact'
    BY <1>5 DEF vars, LeaseInv, Collected, Secured, RefExact, Holders,
                Passed, Cur
  <2> QED
    BY <1>1, <2>1 DEF LeaseInv
<1> QED
  BY <1>2, <1>3, <1>4, <1>5, NextByComponent DEF CoroutineStep

-----------------------------------------------------------------------------
(* A step of the control plane is a step of the leases, or none.           *)

\* What a coroutine's step is to the leases.
LEMMA LeaseByCoroutine ==
  ASSUME Unloaders = {}, IInv, LeaseInv, NEW p \in Pipelines, CoroutineStep(p)
  PROVE  [Lease!Next]_(Lease!vars)
<1> USE DEF IInv, TypeOK, LeaseInv
<1>1. CASE Activate(p)
  BY <1>1 DEF Activate, registry, Lease!vars
<1>2. CASE Deactivate(p)
  <2>1. {q \in Pipelines : pstate'[q] = "active"}
          = {q \in Pipelines : pstate[q] = "active"} \ {p}
    BY <1>2 DEF Deactivate
  <2>2. Lease!Drop(p)
    BY <1>2, <2>1 DEF Deactivate, DropReferences, Lease!Drop
  <2> QED
    BY <2>2 DEF Lease!Next
<1>3. CASE ReserveModel(p)
  <2>1. Cur(p) \in Models /\ Cur(p) \in Needs(p) \ held[p]
    <3>1. idx[p] \in 1..Len(ModelsOf[p]) /\ ModelsOf[p] \in Seq(Models)
      BY <1>3, NextModelTyped, PipelinesAssumption DEF ReserveModel
    <3>2. Cur(p) \in Needs(p)
      BY <3>1 DEF Cur, Needs, Range
    <3> QED
      BY <1>3, <3>1, <3>2 DEF ReserveModel, HeldOK, Cur
  <2>2. Lease!Take(p, Cur(p))
    BY <1>3, <2>1 DEF ReserveModel, PositionOK, Lease!Take
  <2> QED
    BY <2>1, <2>2 DEF Lease!Next
<1>4. CASE FinishActivation(p)
  <2>1. {q \in Pipelines : pstate'[q] = "active"}
          = {q \in Pipelines : pstate[q] = "active"} \cup {p}
    BY <1>4 DEF FinishActivation
  <2>2. pstate'[p] = "active" /\ held' = held /\ mstate' = mstate
    BY <1>4 DEF FinishActivation, registry
  <2>3. held[p] = Needs(p)
    BY <2>2, CollectedByCoroutine DEF Collected
  <2>4. \A m \in Needs(p) : m \in Models /\ mstate[m] = "ready"
    BY <2>2, ActiveSecured, NeedsListed
  <2>5. Lease!Commit(p)
    BY <2>1, <2>2, <2>3, <2>4 DEF Lease!Commit
  <2> QED
    BY <2>5 DEF Lease!Next
<1>5. CASE Walk(p)
  BY <1>5 DEF Walk, Lease!vars
<1>6. CASE Secure(p)
  <2>1. Cur(p) \in Models /\ Cur(p) \in held[p]
    BY <1>6, CurrentModel DEF Secure, Collected, CriticalPcs, LoadingPcs
  <2>2. {m \in Models : mstate'[m] = "ready"}
          = {m \in Models : mstate[m] = "ready"} \cup {Cur(p)}
    BY <1>6, <2>1 DEF Secure
  <2>3. held' = held /\ pstate' = pstate
    BY <1>6 DEF Secure
  <2>4. CASE mstate[Cur(p)] = "ready"
    BY <2>1, <2>2, <2>3, <2>4 DEF Lease!vars
  <2>5. CASE mstate[Cur(p)] # "ready"
    <3>1. PICK m \in Models : m = Cur(p)
      BY <2>1
    <3>2. Lease!Serve(m)
      BY <2>1, <2>2, <2>3, <2>5, <3>1 DEF Lease!Serve
    <3> QED
      BY <3>2 DEF Lease!Next
  <2> QED
    BY <2>4, <2>5
<1>7. CASE Fail(p)
  <2>1. pstate[p] = "activating"
    BY <1>7 DEF Fail, PositionOK
  <2>2. {q \in Pipelines : pstate'[q] = "active"}
          = {q \in Pipelines : pstate[q] = "active"} \ {p}
    BY <1>7, <2>1 DEF Fail
  <2>3. Lease!Drop(p)
    BY <1>7, <2>2 DEF Fail, DropReferences, Lease!Drop
  <2> QED
    BY <2>3 DEF Lease!Next
<1>8. CASE Cancel(p)
  BY <1>8 DEF Cancel, registry, pipelines, Lease!vars
<1> QED
  BY <1>1, <1>2, <1>3, <1>4, <1>5, <1>6, <1>7, <1>8, Course DEF LoopInv

LEMMA LeaseByBackground ==
  ASSUME Unloaders = {}, IInv, LeaseInv, BackgroundStep
  PROVE  [Lease!Next]_(Lease!vars)
<1> DEFINE Ready   == {m \in Models : mstate[m] = "ready"}
           Retired == {m \in Models :
                         mstate[m] = "ready" /\ mstate'[m] # "ready"}
<1>1. {m \in Models : mstate'[m] = "ready"} = Ready \ Retired
  BY BackgroundReady DEF IInv, LeaseInv
<1>2. UNCHANGED <<held, pstate>>
  BY BackgroundFrame
<1>3. \A p \in Pipelines : held[p] \cap Retired = {}
  BY ReadyHeld
<1>4. PICK S \in SUBSET Ready : S = Retired
  OBVIOUS
<1>5. Lease!Withdraw(S)
  BY <1>1, <1>2, <1>3, <1>4 DEF Lease!Withdraw
<1> QED
  BY <1>5 DEF Lease!Next

LEMMA LeaseStep ==
  ASSUME Unloaders = {}, IInv, LeaseInv, [Next]_vars
  PROVE  [Lease!Next]_(Lease!vars)
<1>1. CASE Restart
  BY <1>1 DEF Restart, Lease!Next, Lease!Crash
<1>2. CASE UNCHANGED vars
  BY <1>2 DEF vars, Lease!vars
<1> QED
  BY <1>1, <1>2, LeaseByCoroutine, LeaseByBackground, NextByComponent
     DEF CoroutineStep

-----------------------------------------------------------------------------
(***************************************************************************)
(* Nothing fails of itself: without failing or late calls and cancelled    *)
(* clients every activation runs its course, whatever models the pipelines *)
(* share.                                                                  *)
(***************************************************************************)

\* The loop's snapshot ages, but what is in it stays loaded.
SweepOK == \A m \in sweep : mstate[m] \in {"ready", "idle"}

\* A coroutine finds its model where the step before left it.
OnCourse ==
  \A p \in Pipelines :
    /\ pc[p] \in {"sem", "begin"} => mstate[Cur(p)] = "unloaded"
    /\ pc[p] = "load" => mstate[Cur(p)] = "loading"
    /\ pc[p] = "warm" => mstate[Cur(p)] = "warming"

SmoothInv ==
  /\ Attended
  /\ SweepOK
  /\ OnCourse
  /\ Smooth

\* No refused transition and no failing call: a coroutine that finds its model
\* on course does not fail.
LEMMA StaysSmooth ==
  ASSUME Undisturbed, IInv, LoopInv, SmoothInv,
         NEW p \in Pipelines, CoroutineStep(p)
  PROVE  pc'[p] # "fail" /\ pstate'[p] # "error"
<1> USE DEF IInv, TypeOK, SmoothInv, Smooth, registry, counts, pipelines,
            coroutine
<1>1. CASE Client(p)
  BY <1>1 DEF Client, Activate, Deactivate, Cancel, Undisturbed
<1>2. CASE Run(p)
  <2>1. ~BeginLoadRefused(p) /\ ~Fail(p)
    BY DEF BeginLoadRefused, Fail, OnCourse, CanMove,
           MODEL_STATE_TRANSITIONS, ModelState
  <2>2. CASE ReserveModel(p) \/ FinishActivation(p) \/ FoundReady(p)
    BY <2>2 DEF ReserveModel, FinishActivation, Terminate, FoundReady,
                NextModel
  <2>3. CASE FoundUnloading(p) \/ FoundNotLoaded(p) \/ BeginLoad(p)
    BY <2>3 DEF FoundUnloading, FoundNotLoaded, AcquirePermit, BeginLoad
  <2> QED
    BY <1>2, <2>1, <2>2, <2>3 DEF Run
<1>3. CASE Resume(p)
  <2>1. CASE GrantLock(p) \/ GrantPermit(p) \/ Poll(p)
    BY <2>1 DEF GrantLock, GrantPermit, Poll, PollUnloaded, PollExpires,
                AcquirePermit, Undisturbed
  <2>2. CASE LoadDone(p)
    <3>1. LoadSucceeds(p)
      BY <2>2 DEF LoadDone, LoadFails, Undisturbed
    <3>2. CanMove(mstate[Cur(p)], "warming")
      BY <3>1 DEF LoadSucceeds, OnCourse, CanMove, MODEL_STATE_TRANSITIONS,
                  ModelState
    <3> QED
      BY <3>1, <3>2 DEF LoadSucceeds
  <2>3. CASE Warmed(p)
    <3>1. CanMove(mstate[Cur(p)], "ready")
      BY <2>3 DEF Warmed, OnCourse, CanMove, MODEL_STATE_TRANSITIONS,
                  ModelState
    <3> QED
      BY <2>3, <3>1 DEF Warmed, NextModel
  <2> QED
    BY <1>3, <2>1, <2>2, <2>3 DEF Resume
<1> QED
  BY <1>1, <1>2, <1>3 DEF CoroutineStep

\* Inside the lock a model is not LOADING or WARMING: nobody else can be at
\* it, which is what the comment in ensure_model_ready relies on.
LEMMA FoundAtRest ==
  ASSUME SingleLoader, Attended, NEW p \in Pipelines, pc[p] = "ensure",
         Cur(p) \in Models
  PROVE  mstate[Cur(p)] \notin {"loading", "warming"}
BY DEF SingleLoader, Attended, CriticalPcs, LoadingPcs

LEMMA OwnCourse ==
  ASSUME Undisturbed, IInv, LoopInv, SmoothInv,
         NEW p \in Pipelines, CoroutineStep(p)
  PROVE  /\ pc'[p] \in {"sem", "begin"} => mstate'[Cur(p)'] = "unloaded"
         /\ pc'[p] = "load" => mstate'[Cur(p)'] = "loading"
         /\ pc'[p] = "warm" => mstate'[Cur(p)'] = "warming"
<1> USE DEF IInv, TypeOK, SmoothInv, registry, counts, pipelines, locks,
            background, coroutine, CriticalPcs, LoadingPcs
<1>0. pc[p] \in CriticalPcs => Cur(p) \in Models
  BY CurrentModel
<1>1. pc'[p] # "fail"
  BY StaysSmooth
<1>2. CASE Activate(p) \/ Deactivate(p) \/ ReserveModel(p)
           \/ FinishActivation(p) \/ Secure(p)
  BY <1>1, <1>2
     DEF Activate, Deactivate, Deactivatable, PositionOK, ReserveModel,
         FinishActivation, Terminate, Secure, NextModel, OnCourse
<1>3. CASE Walk(p)
  <2>0. Cur(p)' = Cur(p) /\ pc[p] \in CriticalPcs \cup {"lock"}
    BY <1>3 DEF Walk, Cur
  <2>1. CASE Client(p)
    BY <1>1, <2>0, <2>1 DEF Client, Activate, Deactivate, Deactivatable,
                            PositionOK, Cancel, Undisturbed
  <2>2. CASE Run(p)
    <3>1. CASE FoundNotLoaded(p)
      <4>1. mstate[Cur(p)] = "unloaded"
        BY <1>0, <3>1, FoundAtRest DEF FoundNotLoaded
      <4> QED
        BY <1>1, <2>0, <3>1, <4>1 DEF FoundNotLoaded, AcquirePermit
    <3>2. CASE FoundUnloading(p) \/ FoundReady(p)
      BY <1>1, <2>0, <3>2 DEF FoundUnloading, FoundReady, NextModel
    <3>3. CASE BeginLoad(p)
      BY <1>0, <1>1, <2>0, <3>3 DEF BeginLoad
    <3>4. CASE BeginLoadRefused(p) \/ Fail(p)
      BY <1>1, <3>4 DEF BeginLoadRefused, AbortLoad, Fail, Smooth
    <3>5. CASE ReserveModel(p) \/ FinishActivation(p)
      BY <1>3, <3>5 DEF ReserveModel, FinishActivation, Walk
    <3> QED
      BY <2>2, <3>1, <3>2, <3>3, <3>4, <3>5 DEF Run
  <2>3. CASE Resume(p)
    <3>1. CASE GrantLock(p) \/ GrantPermit(p)
      BY <1>1, <2>0, <3>1 DEF GrantLock, GrantPermit, OnCourse
    <3>2. CASE Poll(p)
      BY <1>1, <2>0, <3>2 DEF Poll, PollUnloaded, PollExpires, AcquirePermit
    <3>3. CASE LoadDone(p)
      BY <1>0, <1>1, <2>0, <3>3
         DEF LoadDone, LoadSucceeds, LoadFails, AbortLoad
    <3>4. CASE Warmed(p)
      BY <1>1, <2>0, <3>4 DEF Warmed, AbortLoad, NextModel
    <3> QED
      BY <2>3, <3>1, <3>2, <3>3, <3>4 DEF Resume
  <2> QED
    BY <2>1, <2>2, <2>3 DEF CoroutineStep
<1>4. ~Fail(p) /\ ~Cancel(p)
  BY DEF Fail, Smooth, Cancel, Undisturbed
<1> QED
  BY <1>2, <1>3, <1>4, Course DEF LoopInv

LEMMA CourseByCoroutine ==
  ASSUME Undisturbed, IInv, LoopInv, SmoothInv,
         NEW p \in Pipelines, CoroutineStep(p)
  PROVE  OnCourse' /\ SweepOK' /\ Smooth'
<1> USE DEF IInv, SmoothInv
<1>1. OnCourse'
  <2> SUFFICES ASSUME NEW q \in Pipelines
               PROVE
         /\ pc'[q] \in {"sem", "begin"} => mstate'[Cur(q)'] = "unloaded"
         /\ pc'[q] = "load" => mstate'[Cur(q)'] = "loading"
         /\ pc'[q] = "warm" => mstate'[Cur(q)'] = "warming"
    BY DEF OnCourse
  <2>1. CASE q = p
    BY <2>1, OwnCourse
  <2>2. CASE q # p
    <3>1. pc'[q] = pc[q] /\ Cur(q)' = Cur(q)
      BY <2>2, OthersStay DEF Cur
    <3>2. pc[q] \in CriticalPcs => mstate'[Cur(q)] = mstate[Cur(q)]
      BY <2>2, OthersModel, CurrentModel
    <3> QED
      BY <3>1, <3>2 DEF OnCourse, CriticalPcs, LoadingPcs
  <2> QED
    BY <2>1, <2>2
<1>2. SweepOK'
  <2>1. sweep' \subseteq sweep /\ sweep \subseteq Models
    BY OthersStay DEF TypeOK
  <2> QED
    BY <2>1, ReadyKept DEF SweepOK, LoopInv
<1>3. Smooth'
  BY OthersStay, StaysSmooth DEF Smooth
<1> QED
  BY <1>1, <1>2, <1>3

\* What the background does to the models when nobody else unloads them.
LEMMA BackgroundModels ==
  ASSUME Undisturbed, IInv, LoopInv, SmoothInv, BackgroundStep,
         NEW m \in Models
  PROVE  \/ mstate'[m] = mstate[m]
         \/ mstate[m] = "ready" /\ mstate'[m] = "idle" /\ refCount[m] = 0
         \/ mstate[m] = "idle" /\ mstate'[m] = "unloading"
         \/ mstate[m] = "unloading" /\ mstate'[m] = "unloaded"
<1>1. CASE LifecycleLoop
  <2>1. ~(mstate[m] \in {"loading", "warming"} /\ m \in sweep)
    BY DEF SmoothInv, SweepOK
  <2> QED
    BY <1>1, <2>1, LoopModels DEF IInv, LoopInv
<1>2. CASE ~LifecycleLoop
  BY <1>2 DEF BackgroundStep, Undisturbed, BeginInference, EndInference,
              TritonRestart, registry
<1> QED
  BY <1>1, <1>2

LEMMA CourseByBackground ==
  ASSUME Undisturbed, IInv, LoopInv, SmoothInv, BackgroundStep
  PROVE  OnCourse' /\ SweepOK' /\ Smooth'
<1>1. OnCourse'
  <2> SUFFICES ASSUME NEW q \in Pipelines
               PROVE
         /\ pc[q] \in {"sem", "begin"} => mstate'[Cur(q)] = "unloaded"
         /\ pc[q] = "load" => mstate'[Cur(q)] = "loading"
         /\ pc[q] = "warm" => mstate'[Cur(q)] = "warming"
    BY BackgroundFrame DEF OnCourse, Cur
  <2>1. pc[q] \in CriticalPcs => Cur(q) \in Models
    BY CurrentModel DEF IInv
  <2> QED
    BY <2>1, BackgroundModels DEF OnCourse, SmoothInv, CriticalPcs, LoadingPcs
<1>2. SweepOK'
  <2> USE DEF IInv, TypeOK, SmoothInv, SweepOK
  <2>1. CASE Tick
    BY <2>1 DEF Tick, registry
  <2>2. CASE SweepEnd
    BY <2>2 DEF SweepEnd
  <2>3. ASSUME NEW n \in Models, SweepUnload(n) \/ SweepBusy(n)
        PROVE  SweepOK'
    <3>1. sweep' = sweep \ {n}
      BY <2>3 DEF SweepUnload, SweepBusy
    <3>2. \A m \in Models \ {n} : mstate'[m] = mstate[m]
      BY <2>3 DEF SweepUnload, SweepBusy, StartUnload, registry
    <3> QED
      BY <3>1, <3>2
  <2>4. CASE UnloadReturns(Loop)
    <3>1. sweep' = sweep
      BY <2>4 DEF UnloadReturns
    <3>2. call[Loop] \in Models /\ mstate[call[Loop]] = "unloading"
      BY <2>4 DEF UnloadReturns, LoopInv, InFlight, Callers
    <3>3. \A m \in Models \ {call[Loop]} : mstate'[m] = mstate[m]
      BY <2>4 DEF UnloadReturns
    <3> QED
      BY <3>1, <3>2, <3>3
  <2>5. CASE ~LifecycleLoop
    BY <2>5 DEF BackgroundStep, Undisturbed, BeginInference, EndInference,
                TritonRestart, registry, background
  <2> QED
    BY <2>1, <2>2, <2>3, <2>4, <2>5 DEF LifecycleLoop, Sweep
<1>3. Smooth'
  BY BackgroundFrame DEF Smooth, SmoothInv
<1> QED
  BY <1>1, <1>2, <1>3

LEMMA SmoothInvStep ==
  ASSUME Undisturbed, IInv, LoopInv, SmoothInv, [Next]_vars
  PROVE  SmoothInv'
<1>1. Attended'
  BY AttendedStep DEF SmoothInv, Undisturbed
<1>2. CASE \E p \in Pipelines : CoroutineStep(p)
  BY <1>1, <1>2, CourseByCoroutine DEF SmoothInv
<1>3. CASE BackgroundStep
  BY <1>1, <1>3, CourseByBackground DEF SmoothInv
<1>4. CASE Restart
  BY <1>1, <1>4 DEF Restart, SmoothInv, SweepOK, OnCourse, Smooth
<1>5. CASE UNCHANGED vars
  BY <1>1, <1>5 DEF vars, SmoothInv, SweepOK, OnCourse, Smooth, Cur
<1> QED
  BY <1>2, <1>3, <1>4, <1>5, NextByComponent DEF CoroutineStep

-----------------------------------------------------------------------------
(* The theorems.                                                           *)

LEMMA LeaseInvariance ==
  ASSUME Orderly
  PROVE  Spec => [](IInv /\ LeaseInv /\ (Apart \/ Smooth))
<1>1. CASE Unloaders = {} /\ Apart
  <2>1. IInv /\ LeaseInv /\ [Next]_vars => LeaseInv'
    BY <1>1, LeaseInvStep
  <2>2. Apart \/ Smooth
    BY <1>1
  <2> QED
    BY <2>1, <2>2, Invariance, LeaseInvInitially, PTL DEF Spec
<1>2. CASE Undisturbed
  <2>1. Init => SmoothInv
    BY DEF Init, SmoothInv, Attended, SweepOK, OnCourse, Smooth
  <2>2. IInv /\ LoopInv /\ SmoothInv /\ [Next]_vars => SmoothInv'
    BY <1>2, SmoothInvStep
  <2>3. IInv /\ LeaseInv /\ SmoothInv /\ [Next]_vars => LeaseInv'
    BY <1>2, LeaseInvStep DEF Undisturbed, SmoothInv
  <2>4. (LeaseInv => LoopInv) /\ (SmoothInv => Apart \/ Smooth)
    BY DEF LeaseInv, SmoothInv
  <2> QED
    BY <2>1, <2>2, <2>3, <2>4, Invariance, LeaseInvInitially, PTL DEF Spec
<1> QED
  BY <1>1, <1>2 DEF Orderly

\* ref_count is exactly the number of pipelines that rely on the model: for
\* pipelines that share models in any way as long as no activation fails, and
\* for pipelines that share none whatever fails or is cancelled.
THEOREM ReferencesExact ==
  ASSUME Orderly
  PROVE  Spec => []RefExact
BY LeaseInvariance, PTL DEF LeaseInv

\* A model leaves READY only when nobody references it, and it is woken up
\* only for somebody who does.
THEOREM ReadinessFollowsReferences ==
  ASSUME Orderly, "restart" \notin Faults
  PROVE  Spec => ReadyFollowsReferences
<1>0. Unloaders = {}
  BY DEF Orderly, Undisturbed
<1>1. IInv /\ LeaseInv /\ [Next]_vars =>
        [\A m \in Models :
           /\ mstate[m] = "ready" /\ mstate'[m] # "ready" => refCount[m] = 0
           /\ mstate[m] = "idle" /\ mstate'[m] = "ready"
                => refCount[m] > 0]_vars
  <2> SUFFICES ASSUME IInv, LeaseInv, Next, NEW m \in Models
               PROVE
          /\ mstate[m] = "ready" /\ mstate'[m] # "ready" => refCount[m] = 0
          /\ mstate[m] = "idle" /\ mstate'[m] = "ready" => refCount[m] > 0
    OBVIOUS
  <2>1. CASE BackgroundStep
    BY <1>0, <2>1, BackgroundReady DEF IInv, LeaseInv, TypeOK
  <2>2. ASSUME NEW p \in Pipelines, CoroutineStep(p),
               mstate[m] = "idle", mstate'[m] = "ready"
        PROVE  refCount[m] > 0
    <3>1. Secure(p)
      BY <2>2, Course DEF LeaseInv, LoopInv, Activate, Deactivate, Cancel,
                          ReserveModel, FinishActivation, Fail, registry,
                          Walk
    <3>2. m = Cur(p)
      BY <2>2, OwnModelOnly DEF IInv
    <3>3. m \in held[p]
      BY <3>1, <3>2 DEF Secure, LeaseInv, Collected, CriticalPcs, LoadingPcs
    <3> QED
      BY <3>3, HeldCounted DEF LeaseInv, IInv, TypeOK
  <2>3. ASSUME NEW p \in Pipelines, CoroutineStep(p), mstate[m] = "ready"
        PROVE  mstate'[m] = "ready"
    BY <2>3, ReadyKept DEF LeaseInv, LoopInv, IInv
  <2> QED
    BY <2>1, <2>2, <2>3, NextByComponent DEF CoroutineStep, Restart
<1> QED
  BY <1>1, LeaseInvariance, PTL DEF Spec, ReadyFollowsReferences

\* The control plane implements the leases: a pipeline becomes ACTIVE when it
\* holds all of its models and they are READY, and a model is withdrawn only
\* when no lease is left.  Pipelines may share models in any way as long as no
\* activation fails; pipelines that share none are promised it whatever fails.
THEOREM ImplementsLease ==
  ASSUME Orderly
  PROVE  Spec => LeaseSpec
<1>0. Unloaders = {}
  BY DEF Orderly, Undisturbed
<1>1. Init => Lease!Init
  BY DEF Init, Lease!Init
<1>2. IInv /\ LeaseInv /\ [Next]_vars => [Lease!Next]_(Lease!vars)
  BY <1>0, LeaseStep
<1> QED
  BY <1>1, <1>2, LeaseInvariance, PTL DEF Spec, LeaseSpec, Lease!Spec

\* So an ACTIVE pipeline has all of its references and all of its models are
\* READY, in every state.
THEOREM ActiveMeansServed ==
  ASSUME Orderly
  PROVE  Spec => []Lease!CommittedServed
<1>1. LeaseInv => Lease!CommittedServed
  BY NeedsListed DEF LeaseInv, Collected, Secured, Lease!CommittedServed
<1> QED
  BY <1>1, LeaseInvariance, PTL

-----------------------------------------------------------------------------
(* The comments that shared models refute.                                 *)

\* A step that takes a pipeline to ERROR is its rollback.
LEMMA OnlyFailFails ==
  ASSUME TypeOK, Next, NEW p \in Pipelines,
         pstate[p] = "activating", pstate'[p] = "error"
  PROVE  Fail(p)
<1>1. ~BackgroundStep /\ ~Restart
  BY BackgroundFrame DEF Restart
<1>2. PICK q \in Pipelines : CoroutineStep(q)
  BY <1>1, NextByComponent DEF CoroutineStep
<1>3. q = p
  BY <1>2, OthersStay
<1> QED
  BY <1>2, <1>3
     DEF TypeOK, CoroutineStep, Client, Activate, Deactivate, Cancel, Run,
         ReserveModel, FinishActivation, FoundReady, FoundUnloading,
         FoundNotLoaded, BeginLoad, BeginLoadRefused, Resume, GrantLock,
         GrantPermit, Poll, PollUnloaded, PollExpires, LoadDone,
         LoadSucceeds, LoadFails, Warmed, pipelines

\* A step that takes a pipeline to INACTIVE is its deactivation or a restart.
LEMMA OnlyDeactivates ==
  ASSUME TypeOK, Next, NEW p \in Pipelines,
         pstate[p] # "inactive", pstate'[p] = "inactive"
  PROVE  Deactivate(p) \/ Restart
<1>1. ~BackgroundStep
  BY BackgroundFrame
<1>2. CASE \E q \in Pipelines : CoroutineStep(q)
  <2>1. PICK q \in Pipelines : CoroutineStep(q)
    BY <1>2
  <2>2. q = p
    BY <2>1, OthersStay
  <2> QED
    BY <2>1, <2>2
       DEF TypeOK, CoroutineStep, Client, Activate, Cancel, Run,
           ReserveModel, FinishActivation, Fail, FoundReady, FoundUnloading,
           FoundNotLoaded, BeginLoad, BeginLoadRefused, Resume, GrantLock,
           GrantPermit, Poll, PollUnloaded, PollExpires, LoadDone,
           LoadSucceeds, LoadFails, Warmed, pipelines
<1> QED
  BY <1>1, <1>2, NextByComponent DEF CoroutineStep

\* The comment `Roll back ref counts' in activate, which a failed load of a
\* shared model refutes, is true of pipelines that share none: the rollback
\* changes no count but those of the references this activation took.
THEOREM RollbackOfOwn ==
  ASSUME Orderly
  PROVE  Spec => RollbackExact
<1>1. IInv /\ LeaseInv /\ (Apart \/ Smooth) /\ [Next]_vars =>
        [\A p \in Pipelines :
           pstate[p] = "activating" /\ pstate'[p] = "error" =>
             \A m \in Models \ held[p] : refCount'[m] = refCount[m]]_vars
  <2> SUFFICES ASSUME IInv, LeaseInv, Apart \/ Smooth, Next,
                      NEW p \in Pipelines, pstate[p] = "activating",
                      pstate'[p] = "error", NEW m \in Models \ held[p]
               PROVE  refCount'[m] = refCount[m]
    OBVIOUS
  <2>1. Fail(p)
    BY OnlyFailFails DEF IInv
  <2>2. Apart
    BY <2>1 DEF Fail, Smooth
  <2> QED
    BY <2>1, <2>2, DropOwn DEF Fail, LeaseInv
<1> QED
  BY <1>1, LeaseInvariance, PTL DEF Spec, RollbackExact

\* deactivate gives back the references of its pipeline and no other's: so it
\* is where no two pipelines share a model, and for those that do as long as
\* none of them is in ERROR.
THEOREM DeactivationOfOwn ==
  ASSUME Orderly, "restart" \notin Faults
  PROVE  Spec => DeactivateOwnReferences
<1>1. IInv /\ LeaseInv /\ (Apart \/ Smooth) /\ [Next]_vars =>
        [\A p \in Pipelines :
           pstate[p] # "inactive" /\ pstate'[p] = "inactive" =>
             \A m \in Models \ held[p] : refCount'[m] = refCount[m]]_vars
  <2> SUFFICES ASSUME IInv, LeaseInv, Apart \/ Smooth, Next,
                      NEW p \in Pipelines, pstate[p] # "inactive",
                      pstate'[p] = "inactive", NEW m \in Models \ held[p]
               PROVE  refCount'[m] = refCount[m]
    OBVIOUS
  <2>1. Deactivate(p)
    BY OnlyDeactivates DEF IInv, Restart
  <2>2. Apart \/ held[p] = Needs(p)
    BY <2>1 DEF Deactivate, Deactivatable, Smooth, LeaseInv, Collected
  <2> QED
    BY <2>1, <2>2, DropOwn DEF Deactivate, LeaseInv
<1> QED
  BY <1>1, LeaseInvariance, PTL DEF Spec, DeactivateOwnReferences
=============================================================================
