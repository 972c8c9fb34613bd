------------------------- MODULE ControlPlaneProofs -------------------------
(***************************************************************************)
(* Proofs about ControlPlane for every set of pipelines and models, every  *)
(* number of concurrent loads and every combination of faults.             *)
(*                                                                         *)
(* The inductive invariant adds to the properties what the coroutines rely *)
(* on: where a program counter implies a current model (PositionOK), that  *)
(* the code inside a model's lock owns it (LockOwned), and which models    *)
(* of its list an activation has already taken a reference to (HeldOK).    *)
(***************************************************************************)
EXTENDS ControlPlaneProperties, Counting, FiniteSetTheorems, TLAPS

\* A coroutine that is busy with a model has one, and only a pipeline that is
\* ACTIVATING has a coroutine.
PositionOK ==
  \A p \in Pipelines :
    /\ pc[p] \in CriticalPcs \cup {"lock"} => idx[p] <= Len(ModelsOf[p])
    /\ pc[p] # "none" => pstate[p] = "activating"

\* A coroutine inside the lock of its current model owns it.
LockOwned ==
  \A p \in Pipelines : pc[p] \in CriticalPcs => lockOwner[Cur(p)] = p

\* An activation has no reference yet to the models it has still to visit,
\* and a pipeline that can be activated has none at all.
HeldOK ==
  \A p \in Pipelines :
    /\ held[p] \subseteq Needs(p)
    /\ pstate[p] \in {"inactive", "error"} => held[p] = {}
    /\ pc[p] = "next" =>
         \A i \in 1..Len(ModelsOf[p]) : i >= idx[p] => ModelsOf[p][i] \notin held[p]
    /\ pc[p] \in CriticalPcs \cup {"lock"} =>
         \A i \in 1..Len(ModelsOf[p]) : i > idx[p] => ModelsOf[p][i] \notin held[p]

\* The inductive invariant.
IInv ==
  /\ TypeOK
  /\ PositionOK
  /\ LockOwned
  /\ SingleLoader
  /\ LoadBound
  /\ HeldOK
  /\ RefNoLeak

-----------------------------------------------------------------------------
(* Lemmas about the pieces.                                                *)

\* The coroutines that hold a permit of the load semaphore.
Loaders == {p \in Pipelines : pc[p] \in LoadingPcs}

\* Falling back never invents a state, and a floored count stays a count.
LEMMA PiecesTyped ==
  /\ \A s \in ModelState : RollBack(s) \in ModelState
  /\ \A s \in ModelState : UnloadBegun(s) \in ModelState
  /\ \A n \in Nat : Decremented(n) \in Nat /\ Decremented(n) <= n
BY DEF RollBack, UnloadBegun, Decremented, ModelState

\* While a coroutine holds a permit, the semaphore has room to take it back.
LEMMA PermitRoom ==
  ASSUME LoadBound, permits \in Int, NEW p \in Pipelines, pc[p] \in LoadingPcs
  PROVE  permits < MaxConcurrentLoads
<1>1. IsFiniteSet(Loaders) /\ p \in Loaders
  BY PipelinesAssumption, FS_Subset DEF Loaders
<1>2. Cardinality(Loaders) \in Nat /\ Cardinality(Loaders) # 0
  BY <1>1, FS_CardinalityType, FS_EmptySet
<1> QED
  BY <1>2, BoundsAssumption DEF LoadBound, Loaders

\* The current model of a coroutine that is busy with one.
LEMMA CurrentModel ==
  ASSUME TypeOK, PositionOK, NEW p \in Pipelines,
         pc[p] \in CriticalPcs \cup {"lock"}
  PROVE  Cur(p) \in Models /\ idx[p] \in 1..Len(ModelsOf[p])
BY PipelinesAssumption DEF TypeOK, PositionOK, Cur

\* The model an activation turns to next.
LEMMA NextModelTyped ==
  ASSUME TypeOK, NEW p \in Pipelines, ~Exhausted(p)
  PROVE  Cur(p) \in Models /\ idx[p] \in 1..Len(ModelsOf[p])
BY PipelinesAssumption DEF TypeOK, Exhausted, Cur

\* Leaving a model's lock keeps the table of owners well typed.
LEMMA ReleaseTyped ==
  ASSUME TypeOK, NEW p \in Pipelines, Release(p)
  PROVE  lockOwner' \in [Models -> Pipelines \cup {NoOne}]
BY DEF TypeOK, Release

\* The common error path of _load_model keeps what it touches well typed.
LEMMA AbortLoadTyped ==
  ASSUME TypeOK, LoadBound, NEW p \in Pipelines, pc[p] \in LoadingPcs,
         AbortLoad(p)
  PROVE  /\ mstate' \in [Models -> ModelState]
         /\ permits' \in 0..MaxConcurrentLoads
         /\ lockOwner' \in [Models -> Pipelines \cup {NoOne}]
         /\ pc' \in [Pipelines -> Pcs]
         /\ idx' \in [Pipelines -> Nat \ {0}]
<1>1. mstate' \in [Models -> ModelState]
  BY PiecesTyped DEF TypeOK, AbortLoad
<1>2. permits' \in 0..MaxConcurrentLoads
  BY PermitRoom, BoundsAssumption DEF TypeOK, AbortLoad
<1>3. lockOwner' \in [Models -> Pipelines \cup {NoOne}]
  BY ReleaseTyped DEF AbortLoad
<1>4. pc' \in [Pipelines -> Pcs] /\ idx' \in [Pipelines -> Nat \ {0}]
  BY DEF TypeOK, AbortLoad, Pcs, RunningPcs
<1> QED
  BY <1>1, <1>2, <1>3, <1>4

LEMMA Initially == Init => IInv
<1> SUFFICES ASSUME Init PROVE IInv
  OBVIOUS
<1> USE DEF Init
<1>1. TypeOK
  BY BoundsAssumption DEF TypeOK, ModelState, PipelineState, Pcs
<1>2. PositionOK /\ LockOwned /\ SingleLoader /\ HeldOK
  BY PipelinesAssumption
     DEF PositionOK, LockOwned, SingleLoader, HeldOK, CriticalPcs, LoadingPcs
<1>3. LoadBound
  <2>1. Loaders = {}
    BY DEF Loaders, LoadingPcs
  <2>2. permits = MaxConcurrentLoads /\ permits \in Nat
    BY BoundsAssumption
  <2> HIDE DEF Init
  <2> QED
    BY <2>1, <2>2, FS_EmptySet DEF LoadBound, Loaders
<1>4. RefNoLeak
  <2>1. \A m \in Models : Cardinality(Holders(m)) \in Nat
    BY PipelinesAssumption, FS_Subset, FS_CardinalityType DEF Holders
  <2> QED
    BY <2>1 DEF RefNoLeak
<1> QED
  BY <1>1, <1>2, <1>3, <1>4 DEF IInv

-----------------------------------------------------------------------------
(* Type correctness.                                                       *)

LEMMA TypeStep == TypeOK /\ LoadBound /\ [Next]_vars => TypeOK'
<1> SUFFICES ASSUME TypeOK, LoadBound, [Next]_vars PROVE TypeOK'
  OBVIOUS
<1> USE PiecesTyped, BoundsAssumption DEF TypeOK, registry, counts, pipelines, coroutine, locks,
                        background
<1>0. CASE UNCHANGED vars
  BY <1>0 DEF vars
<1>1. ASSUME NEW p \in Pipelines, Client(p) PROVE TypeOK'
  <2>1. CASE Activate(p)
    BY <2>1 DEF Activate, PipelineState, Pcs, RunningPcs
  <2>2. CASE Deactivate(p)
    BY <2>2 DEF Deactivate, DropReferences, PipelineState
  <2>3. CASE Cancel(p)
    <3>1. permits' \in 0..MaxConcurrentLoads
      BY <2>3, PermitRoom DEF Cancel
    <3>2. lockOwner' \in [Models -> Pipelines \cup {NoOne}]
      BY <2>3, ReleaseTyped DEF Cancel
    <3>3. triton' \in [Models -> BOOLEAN]
      BY <2>3 DEF Cancel
    <3> QED
      BY <2>3, <3>1, <3>2, <3>3 DEF Cancel, Terminate, Pcs
  <2> QED
    BY <1>1, <2>1, <2>2, <2>3 DEF Client
<1>2. ASSUME NEW p \in Pipelines, Run(p) PROVE TypeOK'
  <2>1. CASE ReserveModel(p)
    <3>1. Cur(p) \in Models
      BY <2>1, NextModelTyped DEF ReserveModel
    <3> QED
      BY <2>1, <3>1 DEF ReserveModel, Pcs, RunningPcs, SuspendedPcs
  <2>2. CASE FinishActivation(p)
    BY <2>2 DEF FinishActivation, Terminate, PipelineState, Pcs
  <2>3. CASE Fail(p)
    BY <2>3 DEF Fail, DropReferences, Terminate, PipelineState, Pcs
  <2>4. CASE FoundReady(p)
    <3>1. lockOwner' \in [Models -> Pipelines \cup {NoOne}]
      BY <2>4, ReleaseTyped DEF FoundReady
    <3>2. mstate' \in [Models -> ModelState]
      BY <2>4 DEF FoundReady, Reused, ModelState
    <3> QED
      BY <2>4, <3>1, <3>2 DEF FoundReady, NextModel, Pcs, RunningPcs
  <2>5. CASE FoundUnloading(p)
    BY <2>5 DEF FoundUnloading, Pcs, SuspendedPcs
  <2>6. CASE FoundNotLoaded(p)
    BY <2>6 DEF FoundNotLoaded, AcquirePermit, PermitIsFree, Pcs, SuspendedPcs,
                RunningPcs
  <2>7. CASE BeginLoad(p)
    BY <2>7 DEF BeginLoad, ModelState, Pcs, SuspendedPcs
  <2>8. CASE BeginLoadRefused(p)
    BY <2>8, AbortLoadTyped DEF BeginLoadRefused, LoadingPcs
  <2> QED
    BY <1>2, <2>1, <2>2, <2>3, <2>4, <2>5, <2>6, <2>7, <2>8 DEF Run
<1>3. ASSUME NEW p \in Pipelines, Resume(p) PROVE TypeOK'
  <2>1. CASE GrantLock(p)
    BY <2>1 DEF GrantLock, Pcs, RunningPcs
  <2>2. CASE GrantPermit(p)
    BY <2>2 DEF GrantPermit, Pcs, RunningPcs
  <2>3. CASE PollUnloaded(p)
    BY <2>3 DEF PollUnloaded, AcquirePermit, PermitIsFree, Pcs, SuspendedPcs,
                RunningPcs
  <2>4. CASE PollExpires(p)
    BY <2>4 DEF PollExpires, Release, Pcs, RunningPcs
  <2>5. CASE LoadSucceeds(p)
    <3>1. CASE CanMove(mstate[Cur(p)], "warming")
      BY <2>5, <3>1 DEF LoadSucceeds, ModelState, Pcs, SuspendedPcs
    <3>2. CASE ~CanMove(mstate[Cur(p)], "warming")
      BY <2>5, <3>2, AbortLoadTyped DEF LoadSucceeds, LoadingPcs
    <3> QED
      BY <3>1, <3>2
  <2>6. CASE LoadFails(p)
    <3>1. triton' \in [Models -> BOOLEAN]
      BY <2>6 DEF LoadFails
    <3> QED
      BY <2>6, <3>1, AbortLoadTyped DEF LoadFails, LoadingPcs
  <2>7. CASE Warmed(p)
    <3>1. CASE CanMove(mstate[Cur(p)], "ready")
      BY <2>7, <3>1, PermitRoom, ReleaseTyped
         DEF Warmed, NextModel, LoadingPcs, ModelState, Pcs, RunningPcs
    <3>2. CASE ~CanMove(mstate[Cur(p)], "ready")
      BY <2>7, <3>2, AbortLoadTyped DEF Warmed, LoadingPcs
    <3> QED
      BY <3>1, <3>2
  <2> QED
    BY <1>3, <2>1, <2>2, <2>3, <2>4, <2>5, <2>6, <2>7 DEF Resume, Poll, LoadDone
<1>4. CASE LifecycleLoop
  <2>1. CASE Tick
    BY <2>1 DEF Tick
  <2>2. ASSUME NEW m \in Models, SweepUnload(m) PROVE TypeOK'
    BY <2>2 DEF SweepUnload, StartUnload, Callers
  <2>3. ASSUME NEW m \in Models, SweepBusy(m) PROVE TypeOK'
    BY <2>3 DEF SweepBusy
  <2>4. CASE SweepEnd
    BY <2>4 DEF SweepEnd, ModelState
  <2>5. CASE UnloadReturns(Loop)
    BY <2>5 DEF UnloadReturns, Callers
  <2> QED
    BY <1>4, <2>1, <2>2, <2>3, <2>4, <2>5 DEF LifecycleLoop, Sweep
<1>5. ASSUME NEW u \in Unloaders, UnloadReturns(u) PROVE TypeOK'
  BY <1>5 DEF UnloadReturns, Callers
<1>6. ASSUME NEW u \in Unloaders, NEW m \in Models, RequestUnload(u, m)
      PROVE  TypeOK'
  BY <1>6 DEF RequestUnload, StartUnload, Callers
<1>7. ASSUME NEW m \in Models, BeginInference(m) \/ EndInference(m)
      PROVE  TypeOK'
  <2>1. CASE BeginInference(m)
    BY <2>1 DEF BeginInference
  <2>2. CASE EndInference(m)
    BY <2>2 DEF EndInference, Decremented
  <2> QED
    BY <1>7, <2>1, <2>2
<1>8. CASE Restart
  BY <1>8 DEF Restart, ModelState, PipelineState, Pcs
<1>9. CASE TritonRestart
  BY <1>9 DEF TritonRestart
<1> QED
  BY <1>0, <1>1, <1>2, <1>3, <1>4, <1>5, <1>6, <1>7, <1>8, <1>9 DEF Next

-----------------------------------------------------------------------------
(* Steps by component.  The lifecycle loop, request_unload, the inference  *)
(* counters and Triton leave pipelines, coroutines and locks alone.        *)

BackgroundStep ==
  \/ LifecycleLoop
  \/ \E u \in Unloaders : UnloadReturns(u)
  \/ \E u \in Unloaders, m \in Models : RequestUnload(u, m)
  \/ \E m \in Models : BeginInference(m) \/ EndInference(m)
  \/ TritonRestart

LEMMA NextByComponent ==
  Next <=> \/ \E p \in Pipelines : Client(p) \/ Run(p) \/ Resume(p)
           \/ BackgroundStep
           \/ Restart
BY DEF Next, BackgroundStep

LEMMA BackgroundFrame ==
  BackgroundStep \/ UNCHANGED vars =>
    UNCHANGED <<refCount, pstate, pc, idx, held, lockOwner, permits>>
<1> USE DEF registry, counts, pipelines, coroutine, locks, background
<1>1. LifecycleLoop =>
        UNCHANGED <<refCount, pstate, pc, idx, held, lockOwner, permits>>
  BY DEF LifecycleLoop, Tick, Sweep, SweepUnload, SweepBusy, SweepEnd,
         UnloadReturns
<1> QED
  BY <1>1 DEF BackgroundStep, UnloadReturns, RequestUnload, BeginInference,
              EndInference, TritonRestart, vars

LEMMA PositionStep == TypeOK /\ PositionOK /\ [Next]_vars => PositionOK'
<1> SUFFICES ASSUME TypeOK, PositionOK, [Next]_vars PROVE PositionOK'
  OBVIOUS
<1> USE DEF TypeOK, PositionOK, counts, registry, pipelines, coroutine, locks,
            background, CriticalPcs, LoadingPcs
<1>1. ASSUME NEW p \in Pipelines, Client(p) PROVE PositionOK'
  BY <1>1 DEF Client, Activate, Deactivate, Deactivatable, Cancel, Terminate
<1>2. ASSUME NEW p \in Pipelines, Run(p) PROVE PositionOK'
  <2>1. CASE ReserveModel(p)
    BY <2>1, NextModelTyped DEF ReserveModel
  <2>2. CASE FinishActivation(p) \/ Fail(p)
    BY <2>2 DEF FinishActivation, Fail, Terminate
  <2>3. CASE FoundReady(p)
    BY <2>3 DEF FoundReady, NextModel
  <2>4. CASE FoundUnloading(p) \/ FoundNotLoaded(p)
    BY <2>4 DEF FoundUnloading, FoundNotLoaded, AcquirePermit
  <2>5. CASE BeginLoad(p) \/ BeginLoadRefused(p)
    BY <2>5 DEF BeginLoad, BeginLoadRefused, AbortLoad
  <2> QED
    BY <1>2, <2>1, <2>2, <2>3, <2>4, <2>5 DEF Run
<1>3. ASSUME NEW p \in Pipelines, Resume(p) PROVE PositionOK'
  <2>1. CASE GrantLock(p) \/ GrantPermit(p)
    BY <2>1 DEF GrantLock, GrantPermit
  <2>2. CASE PollUnloaded(p) \/ PollExpires(p)
    BY <2>2 DEF PollUnloaded, PollExpires, AcquirePermit
  <2>3. CASE LoadSucceeds(p) \/ LoadFails(p)
    BY <2>3 DEF LoadSucceeds, LoadFails, AbortLoad
  <2>4. CASE Warmed(p)
    BY <2>4 DEF Warmed, AbortLoad, NextModel
  <2> QED
    BY <1>3, <2>1, <2>2, <2>3, <2>4 DEF Resume, Poll, LoadDone
<1>4. CASE BackgroundStep \/ UNCHANGED vars
  BY <1>4, BackgroundFrame
<1>5. CASE Restart
  BY <1>5 DEF Restart
<1> QED
  BY <1>1, <1>2, <1>3, <1>4, <1>5, NextByComponent

-----------------------------------------------------------------------------
(* Mutual exclusion in the locks of the models.                            *)

Mutex == LockOwned /\ SingleLoader

\* What an action of p's coroutine may do to the locks: stay outside or
\* inside, enter the lock of its current model, or leave it.
StayOutside(p) ==
  /\ pc[p] \notin CriticalPcs /\ pc'[p] \notin CriticalPcs
  /\ UNCHANGED lockOwner
StayInside(p) ==
  /\ pc[p] \in CriticalPcs /\ pc'[p] \in CriticalPcs /\ idx'[p] = idx[p]
  /\ UNCHANGED lockOwner
Enter(p) ==
  /\ pc[p] \notin CriticalPcs /\ pc'[p] \in CriticalPcs /\ idx'[p] = idx[p]
  /\ lockOwner[Cur(p)] = NoOne
  /\ lockOwner' = [lockOwner EXCEPT ![Cur(p)] = p]
Leave(p) ==
  /\ pc[p] \in CriticalPcs /\ pc'[p] \notin CriticalPcs
  /\ Release(p)

\* An action that does one of these to the locks, and leaves the other
\* coroutines where they are, preserves mutual exclusion.
LEMMA MutexPreserved ==
  ASSUME TypeOK, PositionOK, Mutex, NEW p \in Pipelines,
         \A q \in Pipelines \ {p} : pc'[q] = pc[q] /\ idx'[q] = idx[q],
         pc[p] \in CriticalPcs \cup {"lock"} \/ pc'[p] \notin CriticalPcs
           \/ ~Exhausted(p),
         StayOutside(p) \/ StayInside(p) \/ Enter(p) \/ Leave(p)
  PROVE  Mutex'
<1> USE DEF TypeOK, Mutex, LockOwned, SingleLoader, Cur
<1>1. NoOne \notin Pipelines
  BY PipelinesAssumption
<1>2. CASE StayOutside(p)
  BY <1>1, <1>2 DEF StayOutside
<1>3. CASE StayInside(p)
  BY <1>1, <1>3 DEF StayInside
<1>4. CASE Enter(p)
  <2>1. Cur(p) \in Models
    BY <1>4, CurrentModel, NextModelTyped DEF Enter
  <2>2. \A q \in Pipelines \ {p} : pc[q] \in CriticalPcs => Cur(q) # Cur(p)
    BY <1>1, <1>4 DEF Enter
  <2> QED
    BY <1>1, <1>4, <2>1, <2>2 DEF Enter
<1>5. CASE Leave(p)
  <2>1. Cur(p) \in Models
    BY <1>5, CurrentModel DEF Leave
  <2>2. \A q \in Pipelines \ {p} : pc[q] \in CriticalPcs => Cur(q) # Cur(p)
    BY <1>5 DEF Leave
  <2> QED
    BY <1>1, <1>5, <2>1, <2>2 DEF Leave, Release
<1> QED
  BY <1>2, <1>3, <1>4, <1>5

\* Every action of a coroutine is of one of the four kinds.
LEMMA MutexStep == TypeOK /\ PositionOK /\ Mutex /\ [Next]_vars => Mutex'
<1> SUFFICES ASSUME TypeOK, PositionOK, Mutex, [Next]_vars PROVE Mutex'
  OBVIOUS
<1> DEFINE Kind(p) ==
      /\ \A q \in Pipelines \ {p} : pc'[q] = pc[q] /\ idx'[q] = idx[q]
      /\ \/ pc[p] \in CriticalPcs \cup {"lock"}
         \/ pc'[p] \notin CriticalPcs
         \/ ~Exhausted(p)
      /\ StayOutside(p) \/ StayInside(p) \/ Enter(p) \/ Leave(p)
<1>0. ASSUME NEW p \in Pipelines, Kind(p) PROVE Mutex'
  BY <1>0, MutexPreserved
<1> HIDE DEF Kind
<1>1. ASSUME NEW p \in Pipelines, Client(p) PROVE Kind(p)
  <2> USE DEF TypeOK, registry, pipelines, coroutine, locks, CriticalPcs,
              LoadingPcs, Kind
  <2>1. CASE Activate(p)
    BY <2>1 DEF Activate, PositionOK, StayOutside
  <2>2. CASE Deactivate(p)
    BY <2>2 DEF Deactivate, Deactivatable, PositionOK, StayOutside
  <2>3. CASE Cancel(p)
    BY <2>3 DEF Cancel, Terminate, StayOutside, Leave
  <2> QED
    BY <1>1, <2>1, <2>2, <2>3 DEF Client
<1>2. ASSUME NEW p \in Pipelines, Run(p) PROVE Kind(p)
  <2> USE DEF TypeOK, registry, pipelines, coroutine, locks, CriticalPcs,
              LoadingPcs, Kind
  <2>1. CASE ReserveModel(p)
    BY <2>1 DEF ReserveModel, LockIsFree, StayOutside, Enter
  <2>2. CASE FinishActivation(p) \/ Fail(p)
    BY <2>2 DEF FinishActivation, Fail, Terminate, StayOutside
  <2>3. CASE FoundReady(p)
    BY <2>3 DEF FoundReady, NextModel, Leave
  <2>4. CASE FoundUnloading(p) \/ FoundNotLoaded(p)
    BY <2>4 DEF FoundUnloading, FoundNotLoaded, AcquirePermit, StayInside
  <2>5. CASE BeginLoad(p) \/ BeginLoadRefused(p)
    BY <2>5 DEF BeginLoad, BeginLoadRefused, AbortLoad, StayInside, Leave
  <2> QED
    BY <1>2, <2>1, <2>2, <2>3, <2>4, <2>5 DEF Run
<1>3. ASSUME NEW p \in Pipelines, Resume(p) PROVE Kind(p)
  <2> USE DEF TypeOK, registry, pipelines, coroutine, locks, CriticalPcs,
              LoadingPcs, Kind
  <2>1. CASE GrantLock(p)
    BY <2>1 DEF GrantLock, Enter
  <2>2. CASE GrantPermit(p) \/ PollUnloaded(p)
    BY <2>2 DEF GrantPermit, PollUnloaded, AcquirePermit, StayInside
  <2>3. CASE PollExpires(p) \/ LoadFails(p)
    BY <2>3 DEF PollExpires, LoadFails, AbortLoad, Leave
  <2>4. CASE LoadSucceeds(p)
    BY <2>4 DEF LoadSucceeds, AbortLoad, StayInside, Leave
  <2>5. CASE Warmed(p)
    BY <2>5 DEF Warmed, AbortLoad, NextModel, Leave
  <2> QED
    BY <1>3, <2>1, <2>2, <2>3, <2>4, <2>5 DEF Resume, Poll, LoadDone
<1>4. CASE BackgroundStep \/ UNCHANGED vars
  BY <1>4, BackgroundFrame DEF Mutex, LockOwned, SingleLoader, Cur
<1>5. CASE Restart
  BY <1>5 DEF Restart, Mutex, LockOwned, SingleLoader, CriticalPcs, LoadingPcs
<1> QED
  BY <1>0, <1>1, <1>2, <1>3, <1>4, <1>5, NextByComponent

-----------------------------------------------------------------------------
(* The load semaphore.                                                     *)

\* What an action of p's coroutine may do to the semaphore: nothing, take a
\* permit on entering a load, or give it back on leaving one.
KeepPermit(p) ==
  /\ pc[p] \in LoadingPcs <=> pc'[p] \in LoadingPcs
  /\ UNCHANGED permits
TakePermit(p) ==
  /\ pc[p] \notin LoadingPcs /\ pc'[p] \in LoadingPcs
  /\ permits > 0 /\ permits' = permits - 1
GivePermit(p) ==
  /\ pc[p] \in LoadingPcs /\ pc'[p] \notin LoadingPcs
  /\ permits' = permits + 1

LEMMA LoadBoundPreserved ==
  ASSUME TypeOK, LoadBound, NEW p \in Pipelines,
         \A q \in Pipelines \ {p} : pc'[q] = pc[q],
         KeepPermit(p) \/ TakePermit(p) \/ GivePermit(p)
  PROVE  LoadBound'
<1> USE DEF TypeOK, Loaders
<1>1. IsFiniteSet(Loaders) /\ Cardinality(Loaders) \in Nat
  BY PipelinesAssumption, FS_Subset, FS_CardinalityType
<1>2. CASE KeepPermit(p)
  <2>1. Loaders' = Loaders
    BY <1>2 DEF KeepPermit
  <2> QED
    BY <1>2, <2>1 DEF KeepPermit, LoadBound
<1>3. CASE TakePermit(p)
  <2>1. Loaders' = Loaders \cup {p} /\ p \notin Loaders
    BY <1>3 DEF TakePermit
  <2>2. Cardinality(Loaders') = Cardinality(Loaders) + 1
    BY <1>1, <2>1, OneMoreOneLess
  <2> QED
    BY <1>1, <1>3, <2>2, BoundsAssumption DEF TakePermit, LoadBound
<1>4. CASE GivePermit(p)
  <2>1. Loaders' = Loaders \ {p} /\ p \in Loaders
    BY <1>4 DEF GivePermit
  <2>2. Cardinality(Loaders') = Cardinality(Loaders) - 1
    BY <1>1, <2>1, OneMoreOneLess
  <2> QED
    BY <1>1, <1>4, <2>2, BoundsAssumption DEF GivePermit, LoadBound
<1> QED
  BY <1>2, <1>3, <1>4

LEMMA LoadBoundStep ==
  TypeOK /\ PositionOK /\ LoadBound /\ [Next]_vars => LoadBound'
<1> SUFFICES ASSUME TypeOK, PositionOK, LoadBound, [Next]_vars PROVE LoadBound'
  OBVIOUS
<1> DEFINE Kind(p) ==
      /\ \A q \in Pipelines \ {p} : pc'[q] = pc[q]
      /\ KeepPermit(p) \/ TakePermit(p) \/ GivePermit(p)
<1>0. ASSUME NEW p \in Pipelines, Kind(p) PROVE LoadBound'
  BY <1>0, LoadBoundPreserved
<1> HIDE DEF Kind
<1>1. ASSUME NEW p \in Pipelines, Client(p) PROVE Kind(p)
  BY <1>1 DEF TypeOK, PositionOK, locks, coroutine, LoadingPcs, Kind, Client,
              Activate, Deactivate, Deactivatable, Cancel, Terminate,
              KeepPermit, GivePermit
<1>2. ASSUME NEW p \in Pipelines, Run(p) PROVE Kind(p)
  <2> USE DEF TypeOK, locks, LoadingPcs, Kind
  <2>1. CASE ReserveModel(p) \/ FinishActivation(p) \/ Fail(p)
    BY <2>1 DEF ReserveModel, FinishActivation, Fail, Terminate, KeepPermit
  <2>2. CASE FoundReady(p) \/ FoundUnloading(p)
    BY <2>2 DEF FoundReady, FoundUnloading, NextModel, KeepPermit
  <2>3. CASE FoundNotLoaded(p)
    BY <2>3 DEF FoundNotLoaded, AcquirePermit, PermitIsFree, KeepPermit,
                TakePermit
  <2>4. CASE BeginLoad(p) \/ BeginLoadRefused(p)
    BY <2>4 DEF BeginLoad, BeginLoadRefused, AbortLoad, KeepPermit, GivePermit
  <2> QED
    BY <1>2, <2>1, <2>2, <2>3, <2>4 DEF Run
<1>3. ASSUME NEW p \in Pipelines, Resume(p) PROVE Kind(p)
  <2> USE DEF TypeOK, locks, LoadingPcs, Kind
  <2>1. CASE GrantLock(p) \/ GrantPermit(p)
    BY <2>1 DEF GrantLock, GrantPermit, KeepPermit, TakePermit
  <2>2. CASE PollUnloaded(p) \/ PollExpires(p)
    BY <2>2 DEF PollUnloaded, PollExpires, AcquirePermit, PermitIsFree,
                KeepPermit, TakePermit
  <2>3. CASE LoadSucceeds(p) \/ LoadFails(p)
    BY <2>3 DEF LoadSucceeds, LoadFails, AbortLoad, KeepPermit, GivePermit
  <2>4. CASE Warmed(p)
    BY <2>4 DEF Warmed, AbortLoad, NextModel, GivePermit
  <2> QED
    BY <1>3, <2>1, <2>2, <2>3, <2>4 DEF Resume, Poll, LoadDone
<1>4. CASE BackgroundStep \/ UNCHANGED vars
  BY <1>4, BackgroundFrame DEF LoadBound
<1>5. CASE Restart
  <2>1. Loaders' = {} /\ permits' = MaxConcurrentLoads
    BY <1>5 DEF Restart, Loaders, LoadingPcs
  <2> QED
    BY <2>1, FS_EmptySet, BoundsAssumption DEF LoadBound, Loaders
<1> QED
  BY <1>0, <1>1, <1>2, <1>3, <1>4, <1>5, NextByComponent

-----------------------------------------------------------------------------
(* References.                                                             *)

LEMMA HeldStep == TypeOK /\ PositionOK /\ HeldOK /\ [Next]_vars => HeldOK'
<1> SUFFICES ASSUME TypeOK, PositionOK, HeldOK, [Next]_vars PROVE HeldOK'
  OBVIOUS
<1> USE DEF TypeOK, HeldOK, registry, counts, pipelines, coroutine, locks,
            CriticalPcs, LoadingPcs, Needs
<1>1. ASSUME NEW p \in Pipelines, Client(p) PROVE HeldOK'
  <2>1. CASE Activate(p)
    BY <2>1 DEF Activate
  <2>2. CASE Deactivate(p)
    BY <2>2 DEF Deactivate, DropReferences
  <2>3. CASE Cancel(p)
    BY <2>3 DEF Cancel, Terminate
  <2> QED
    BY <1>1, <2>1, <2>2, <2>3 DEF Client
<1>2. ASSUME NEW p \in Pipelines, Run(p) PROVE HeldOK'
  <2>1. CASE ReserveModel(p)
    <3>1. idx[p] \in 1..Len(ModelsOf[p])
      BY <2>1, NextModelTyped DEF ReserveModel
    <3>2. Cur(p) \in Range(ModelsOf[p])
      BY <3>1, PipelinesAssumption DEF Cur, Range
    <3>3. \A i \in 1..Len(ModelsOf[p]) :
            i > idx[p] => ModelsOf[p][i] \notin held[p] \cup {Cur(p)}
      <4>1. \A i, j \in 1..Len(ModelsOf[p]) :
              ModelsOf[p][i] = ModelsOf[p][j] => i = j
        BY PipelinesAssumption DEF IsInjective
      <4>2. \A i \in 1..Len(ModelsOf[p]) :
              i > idx[p] => ModelsOf[p][i] \notin held[p]
        BY <2>1 DEF ReserveModel
      <4> QED
        BY <3>1, <4>1, <4>2 DEF Cur
    <3>4. /\ held' = [held EXCEPT ![p] = @ \cup {Cur(p)}]
          /\ pc'[p] \in {"ensure", "lock"}
          /\ \A q \in Pipelines \ {p} : pc'[q] = pc[q]
          /\ UNCHANGED <<idx, pstate>>
      BY <2>1 DEF ReserveModel
    <3>5. pstate[p] = "activating"
      BY <2>1 DEF ReserveModel, PositionOK
    <3> QED
      BY <3>2, <3>3, <3>4, <3>5
  <2>2. CASE FinishActivation(p)
    BY <2>2 DEF FinishActivation, Terminate
  <2>3. CASE Fail(p)
    BY <2>3 DEF Fail, DropReferences, Terminate
  <2>4. CASE FoundReady(p)
    BY <2>4 DEF FoundReady, NextModel
  <2>5. CASE FoundUnloading(p) \/ FoundNotLoaded(p)
    BY <2>5 DEF FoundUnloading, FoundNotLoaded, AcquirePermit
  <2>6. CASE BeginLoad(p) \/ BeginLoadRefused(p)
    BY <2>6 DEF BeginLoad, BeginLoadRefused, AbortLoad
  <2> QED
    BY <1>2, <2>1, <2>2, <2>3, <2>4, <2>5, <2>6 DEF Run
<1>3. ASSUME NEW p \in Pipelines, Resume(p) PROVE HeldOK'
  <2>1. CASE GrantLock(p) \/ GrantPermit(p)
    BY <2>1 DEF GrantLock, GrantPermit
  <2>2. CASE PollUnloaded(p) \/ PollExpires(p)
    BY <2>2 DEF PollUnloaded, PollExpires, AcquirePermit
  <2>3. CASE LoadSucceeds(p) \/ LoadFails(p)
    <3>1. /\ pc' = [pc EXCEPT ![p] = "warm"] \/ pc' = [pc EXCEPT ![p] = "fail"]
          /\ UNCHANGED <<idx, pstate, held>>
          /\ pc[p] = "load"
      BY <2>3 DEF LoadSucceeds, LoadFails, AbortLoad
    <3> QED
      BY <3>1
  <2>4. CASE Warmed(p)
    <3>1. CASE CanMove(mstate[Cur(p)], "ready")
      BY <2>4, <3>1 DEF Warmed, NextModel
    <3>2. CASE ~CanMove(mstate[Cur(p)], "ready")
      BY <2>4, <3>2 DEF Warmed, AbortLoad
    <3> QED
      BY <3>1, <3>2
  <2> QED
    BY <1>3, <2>1, <2>2, <2>3, <2>4 DEF Resume, Poll, LoadDone
<1>4. CASE BackgroundStep \/ UNCHANGED vars
  BY <1>4, BackgroundFrame
<1>5. CASE Restart
  BY <1>5 DEF Restart
<1> QED
  BY <1>1, <1>2, <1>3, <1>4, <1>5, NextByComponent

\* The counts and the references behind them change in three actions only.
LEMMA ReferenceFrame ==
  Next => \/ \E p \in Pipelines :
               ReserveModel(p) \/ Fail(p) \/ Deactivate(p)
          \/ Restart
          \/ UNCHANGED <<refCount, held>>
<1> USE DEF registry, counts, pipelines
<1>1. ASSUME NEW p \in Pipelines, Client(p) \/ Run(p) \/ Resume(p)
      PROVE  \/ ReserveModel(p) \/ Fail(p) \/ Deactivate(p)
             \/ UNCHANGED <<refCount, held>>
  <2>1. CASE Client(p)
    BY <2>1 DEF Client, Activate, Cancel
  <2>2. CASE Run(p)
    BY <2>2 DEF Run, FinishActivation, FoundReady, FoundUnloading,
                FoundNotLoaded, BeginLoad, BeginLoadRefused
  <2>3. CASE Resume(p)
    BY <2>3 DEF Resume, GrantLock, GrantPermit, Poll, PollUnloaded,
                PollExpires, LoadDone, LoadSucceeds, LoadFails, Warmed
  <2> QED
    BY <1>1, <2>1, <2>2, <2>3
<1> QED
  BY <1>1, NextByComponent, BackgroundFrame

\* Giving back references one does not hold cannot raise a count over the
\* number of holders: the floor at zero and held[p] \subseteq Needs(p) do it.
LEMMA DropKeepsBound ==
  ASSUME TypeOK, HeldOK, RefNoLeak, NEW p \in Pipelines, DropReferences(p)
  PROVE  RefNoLeak'
<1> SUFFICES ASSUME NEW m \in Models
             PROVE  refCount'[m] <= Cardinality(Holders(m)')
  BY DEF RefNoLeak
<1>1. Holders(m)' = Holders(m) \ {p}
  BY DEF Holders, DropReferences, TypeOK
<1>2. IsFiniteSet(Holders(m))
  BY PipelinesAssumption, FS_Subset DEF Holders
<1>3. refCount[m] \in Nat /\ refCount[m] <= Cardinality(Holders(m))
  BY DEF TypeOK, RefNoLeak
<1>4. CASE p \in Holders(m)
  <2>1. refCount'[m] = Decremented(refCount[m])
    BY <1>4 DEF DropReferences, Holders, HeldOK
  <2>2. Cardinality(Holders(m)') = Cardinality(Holders(m)) - 1
        /\ Cardinality(Holders(m)) \in Nat \ {0}
    BY <1>1, <1>2, <1>4, OneMoreOneLess
  <2> QED
    BY <1>3, <2>1, <2>2 DEF Decremented
<1>5. CASE p \notin Holders(m)
  <2>1. Holders(m)' = Holders(m) /\ Cardinality(Holders(m)) \in Nat
    BY <1>1, <1>2, <1>5, FS_CardinalityType
  <2>2. refCount'[m] \in Nat /\ refCount'[m] <= refCount[m]
    BY <1>3 DEF DropReferences, Decremented
  <2> QED
    BY <1>3, <2>1, <2>2
<1> QED
  BY <1>4, <1>5

LEMMA RefStep ==
  TypeOK /\ PositionOK /\ HeldOK /\ RefNoLeak /\ [Next]_vars => RefNoLeak'
<1> SUFFICES ASSUME TypeOK, PositionOK, HeldOK, RefNoLeak, [Next]_vars
             PROVE  RefNoLeak'
  OBVIOUS
<1>0. \A m \in Models : IsFiniteSet(Holders(m))
  BY PipelinesAssumption, FS_Subset DEF Holders
<1>1. ASSUME NEW p \in Pipelines, ReserveModel(p) PROVE RefNoLeak'
  <2> SUFFICES ASSUME NEW m \in Models
               PROVE  refCount'[m] <= Cardinality(Holders(m)')
    BY DEF RefNoLeak
  <2>1. Cur(p) \notin held[p]
    BY <1>1, NextModelTyped DEF ReserveModel, HeldOK, Cur, TypeOK
  <2>2. refCount[m] \in Nat /\ refCount[m] <= Cardinality(Holders(m))
    BY DEF TypeOK, RefNoLeak
  <2>3. CASE m = Cur(p)
    <3>1. Holders(m)' = Holders(m) \cup {p} /\ p \notin Holders(m)
      BY <1>1, <2>1, <2>3 DEF ReserveModel, Holders, TypeOK
    <3>2. /\ Cardinality(Holders(m)') = Cardinality(Holders(m)) + 1
          /\ Cardinality(Holders(m)) \in Nat
      BY <1>0, <3>1, OneMoreOneLess
    <3>3. refCount'[m] = refCount[m] + 1
      BY <1>1, <2>3 DEF ReserveModel, TypeOK
    <3> QED
      BY <2>2, <3>2, <3>3
  <2>4. CASE m # Cur(p)
    <3>1. Holders(m)' = Holders(m)
      BY <1>1, <2>4 DEF ReserveModel, Holders, TypeOK
    <3>2. refCount'[m] = refCount[m]
      BY <1>1, <2>4 DEF ReserveModel, TypeOK
    <3> QED
      BY <2>2, <3>1, <3>2
  <2> QED
    BY <2>3, <2>4
<1>2. ASSUME NEW p \in Pipelines, Fail(p) \/ Deactivate(p) PROVE RefNoLeak'
  BY <1>2, DropKeepsBound DEF Fail, Deactivate
<1>3. CASE Restart
  <2>1. \A m \in Models : Holders(m)' = {} /\ refCount'[m] = 0
    BY <1>3 DEF Restart, Holders
  <2> QED
    BY <2>1, FS_EmptySet DEF RefNoLeak
<1>4. CASE UNCHANGED <<refCount, held>>
  BY <1>4 DEF RefNoLeak, Holders
<1> QED
  BY <1>1, <1>2, <1>3, <1>4, ReferenceFrame DEF vars

-----------------------------------------------------------------------------
(* The unloads.                                                            *)

\* The loop has an unload in flight only while it waits for it.
LoopCall == loop # "unload" => call[Loop] = NoOne

LEMMA LoopCallStep == TypeOK /\ LoopCall /\ [Next]_vars => LoopCall'
<1> SUFFICES ASSUME TypeOK, LoopCall, [Next]_vars PROVE LoopCall'
  OBVIOUS
<1> USE DEF TypeOK, LoopCall, background, Callers
<1>1. CASE LifecycleLoop
  BY <1>1, BoundsAssumption DEF LifecycleLoop, Tick, Sweep, SweepUnload,
     SweepBusy, SweepEnd, UnloadReturns, StartUnload
<1>2. ASSUME NEW u \in Unloaders,
             UnloadReturns(u) \/ \E m \in Models : RequestUnload(u, m)
      PROVE  LoopCall'
  BY <1>2, BoundsAssumption DEF UnloadReturns, RequestUnload, StartUnload
<1>3. CASE Restart
  BY <1>3 DEF Restart
<1>4. CASE UNCHANGED <<loop, call>>
  BY <1>4
<1>5. ASSUME NEW p \in Pipelines, Client(p) \/ Run(p) \/ Resume(p)
      PROVE  UNCHANGED <<loop, call>>
  BY <1>5 DEF Client, Activate, Deactivate, Cancel, Run, ReserveModel,
     FinishActivation, Fail, FoundReady, FoundUnloading, FoundNotLoaded,
     BeginLoad, BeginLoadRefused, Resume, GrantLock, GrantPermit, Poll,
     PollUnloaded, PollExpires, LoadDone, LoadSucceeds, LoadFails, Warmed
<1>6. CASE \/ TritonRestart \/ UNCHANGED vars
           \/ \E m \in Models : BeginInference(m) \/ EndInference(m)
  BY <1>6 DEF TritonRestart, BeginInference, EndInference, vars
<1> QED
  BY <1>1, <1>2, <1>3, <1>4, <1>5, <1>6 DEF Next

\* Only _unload_model takes a model to UNLOADING, and not under an inference;
\* whatever else happens to a model leads elsewhere.
StartsUnloading(m) == mstate[m] # "unloading" /\ mstate'[m] = "unloading"

LEMMA CoroutinesSpareModels ==
  ASSUME TypeOK, NEW p \in Pipelines, Client(p) \/ Run(p) \/ Resume(p)
  PROVE  \A m \in Models : ~StartsUnloading(m)
<1> USE DEF TypeOK, StartsUnloading, registry, counts, RollBack
<1>1. CASE Client(p)
  BY <1>1 DEF Client, Activate, Deactivate, Cancel
<1>2. CASE Run(p)
  BY <1>2 DEF Run, ReserveModel, FinishActivation, Fail, FoundReady, Reused,
     FoundUnloading, FoundNotLoaded, BeginLoad, BeginLoadRefused, AbortLoad
<1>3. CASE GrantLock(p) \/ GrantPermit(p) \/ Poll(p)
  BY <1>3 DEF GrantLock, GrantPermit, Poll, PollUnloaded, PollExpires
<1>4. CASE LoadDone(p) \/ Warmed(p)
  BY <1>4 DEF LoadDone, LoadSucceeds, LoadFails, Warmed, AbortLoad
<1> QED
  BY <1>1, <1>2, <1>3, <1>4 DEF Resume

LEMMA UnloadStarts ==
  ASSUME TypeOK, [Next]_vars, NEW m \in Models, StartsUnloading(m)
  PROVE  /\ activeInf[m] = 0
         /\ \E u \in Callers : call' = [call EXCEPT ![u] = m]
<1> USE DEF TypeOK, StartsUnloading
<1>1. ASSUME NEW u \in Callers, NEW n \in Models, StartUnload(u, n), ~Busy(n)
      PROVE  /\ activeInf[m] = 0
             /\ \E v \in Callers : call' = [call EXCEPT ![v] = m]
  <2>1. m = n /\ CanMove(mstate[m], "unloading")
    BY <1>1 DEF StartUnload, UnloadBegun, RollBack
  <2>2. activeInf[n] = 0
    BY <1>1, BoundsAssumption DEF Busy
  <2>3. call' = [call EXCEPT ![u] = n]
    BY <1>1, <2>1 DEF StartUnload
  <2> QED
    BY <2>1, <2>2, <2>3
<1>2. CASE LifecycleLoop
  <2>1. PICK n \in Models : SweepUnload(n)
    BY <1>2 DEF LifecycleLoop, Tick, Sweep, SweepBusy, SweepEnd,
                UnloadReturns, RollBack, registry
  <2> QED
    BY <1>1, <2>1 DEF SweepUnload, Callers
<1>3. CASE \E u \in Unloaders, n \in Models : RequestUnload(u, n)
  BY <1>1, <1>3 DEF RequestUnload, Callers
<1>4. CASE \/ \E u \in Unloaders : UnloadReturns(u)
           \/ \E n \in Models : BeginInference(n) \/ EndInference(n)
           \/ Restart \/ TritonRestart \/ UNCHANGED vars
  BY <1>4 DEF UnloadReturns, RollBack, BeginInference, EndInference, Restart,
              TritonRestart, registry, vars
<1> QED
  BY <1>2, <1>3, <1>4, CoroutinesSpareModels DEF Next

\* A call in flight stays so until it returns, and a returning call leaves no
\* model UNLOADING.
LEMMA CallsStay ==
  ASSUME TypeOK, LoopCall, [Next]_vars, NEW m \in Models, NEW u \in Callers,
         call[u] = m, mstate'[m] = "unloading"
  PROVE  call'[u] = m
<1>0. m # NoOne
  BY PipelinesAssumption
<1>1. CASE UNCHANGED call
  BY <1>1
<1>2. ASSUME NEW v \in Callers, UnloadReturns(v) PROVE call'[u] = m
  <2>1. CASE v = u
    <3>1. mstate'[m] = RollBack(mstate[m])
      BY <1>2, <2>1 DEF UnloadReturns, TypeOK
    <3>2. FALSE
      BY <3>1 DEF RollBack, CanMove, MODEL_STATE_TRANSITIONS, ModelState, TypeOK
    <3> QED
      BY <3>2
  <2> QED
    BY <1>2, <2>1 DEF UnloadReturns, TypeOK
<1>3. ASSUME NEW v \in Callers, NEW n \in Models, StartUnload(v, n),
             call[v] = NoOne
      PROVE  call'[u] = m
  BY <1>0, <1>3 DEF StartUnload, TypeOK
<1>4. CASE LifecycleLoop
  <2>1. ASSUME NEW n \in Models, SweepUnload(n) PROVE call'[u] = m
    BY <1>3, <2>1 DEF SweepUnload, LoopCall, Callers
  <2> QED
    BY <1>1, <1>2, <1>4, <2>1
       DEF LifecycleLoop, Tick, Sweep, SweepBusy, SweepEnd, Callers
<1>5. CASE \/ \E v \in Unloaders : UnloadReturns(v)
           \/ \E v \in Unloaders, n \in Models : RequestUnload(v, n)
  BY <1>2, <1>3, <1>5 DEF RequestUnload, Callers
<1>6. CASE Restart
  BY <1>6 DEF Restart
<1>7. ASSUME NEW p \in Pipelines, Client(p) \/ Run(p) \/ Resume(p)
      PROVE  UNCHANGED call
  BY <1>7 DEF background, Client, Activate, Deactivate, Cancel, Run,
     ReserveModel, FinishActivation, Fail, FoundReady, FoundUnloading,
     FoundNotLoaded, BeginLoad, BeginLoadRefused, Resume, GrantLock,
     GrantPermit, Poll, PollUnloaded, PollExpires, LoadDone, LoadSucceeds,
     LoadFails, Warmed
<1>8. CASE \/ TritonRestart \/ UNCHANGED vars
           \/ \E n \in Models : BeginInference(n) \/ EndInference(n)
  BY <1>1, <1>8 DEF background, TritonRestart, BeginInference, EndInference,
                    vars
<1> QED
  BY <1>1, <1>4, <1>5, <1>6, <1>7, <1>8 DEF Next

LEMMA UnloadsStep ==
  TypeOK /\ LoopCall /\ UnloadsInFlight /\ [Next]_vars => UnloadsInFlight'
<1> SUFFICES ASSUME TypeOK, LoopCall, UnloadsInFlight, [Next]_vars,
                    NEW m \in Models, mstate'[m] = "unloading"
             PROVE  \E u \in Callers : call'[u] = m
  BY DEF UnloadsInFlight
<1>1. CASE StartsUnloading(m)
  BY <1>1, UnloadStarts DEF TypeOK
<1>2. CASE mstate[m] = "unloading"
  BY <1>2, CallsStay DEF UnloadsInFlight
<1> QED
  BY <1>1, <1>2 DEF StartsUnloading

-----------------------------------------------------------------------------
(* The theorems.                                                           *)

\* The inductive invariant holds in every reachable state, for every set of
\* pipelines and models, every number of permits and every set of faults.
THEOREM Invariance == Spec => []IInv
<1>1. IInv /\ [Next]_vars => IInv'
  BY TypeStep, PositionStep, MutexStep, LoadBoundStep, HeldStep, RefStep
     DEF IInv, Mutex
<1> QED
  BY Initially, <1>1, PTL DEF Spec

\* The state stays well typed: in particular the load semaphore never leaves
\* 0..max_concurrent_loads, under every combination of faults.
THEOREM TypeCorrect == Spec => []TypeOK
BY Invariance, PTL DEF IInv

\* _loading_locks exclude: no two coroutines are ever inside
\* ensure_model_ready's lock of one model, and a taken lock has its owner
\* inside it.
THEOREM MutualExclusion == Spec => []SingleLoader
BY Invariance, PTL DEF IInv

\* max_concurrent_loads is respected and no exit of _load_model, by success,
\* error or cancellation, leaks or duplicates a permit.
THEOREM LoadsBounded == Spec => []LoadBound
BY Invariance, PTL DEF IInv

\* No reference is ever leaked: ref_count stays at or below the number of
\* pipelines that hold one, whatever fails or is cancelled.
THEOREM NoReferenceLeak == Spec => []RefNoLeak
BY Invariance, PTL DEF IInv

\* _unload_model never starts on a model with running inferences, however old
\* the loop's snapshot of the idle models is.
THEOREM InferencesSpared == Spec => UnloadSparesInference
<1>1. TypeOK /\ [Next]_vars =>
        [\A m \in Models :
           mstate[m] # "unloading" /\ mstate'[m] = "unloading"
             => activeInf[m] = 0]_vars
  BY UnloadStarts DEF StartsUnloading
<1> QED
  BY TypeCorrect, <1>1, PTL DEF Spec, UnloadSparesInference

\* A model is UNLOADING only while somebody waits for Triton's answer, so a
\* coroutine that polls for UNLOADED polls for something that will come.
THEOREM UnloadsAttended == Spec => []UnloadsInFlight
<1>1. Init => LoopCall /\ UnloadsInFlight
  BY DEF Init, LoopCall, UnloadsInFlight, Callers
<1>2. TypeOK /\ LoopCall /\ UnloadsInFlight /\ [Next]_vars
        => LoopCall' /\ UnloadsInFlight'
  BY LoopCallStep, UnloadsStep
<1> QED
  BY <1>1, <1>2, TypeCorrect, PTL DEF Spec
=============================================================================
