--------------------------- MODULE InferPackProofs ---------------------------
(***************************************************************************)
(* The whole service is one of the systems ControlPlane and Executor       *)
(* describe, for every value of the constants: so what is proved of the    *)
(* planes apart holds in the service, where the executions of the one are  *)
(* the inferences of the other.                                            *)
(***************************************************************************)
EXTENDS InferPack, ServingProofs

\* E and EP are the same instance of Executor, the second with its proofs.
EP == INSTANCE ExecutorProofs

-----------------------------------------------------------------------------
(* The two instances agree.                                                *)

LEMMA SameCardinality == \A S : EP!Cardinality(S) = Cardinality(S)
BY DEF EP!Cardinality, Cardinality

LEMMA SameFinite == \A S : EP!IsFiniteSet(S) <=> IsFiniteSet(S)
BY DEF EP!IsFiniteSet, IsFiniteSet

LEMMA SameConstants == EP!ConstantsOK
BY SystemAssumption
   DEF E!ConstantsOK, EP!ConstantsOK, E!IsFiniteSet, EP!IsFiniteSet

LEMMA SameStage ==
  \A e \in Executions :
    /\ E!Stage(e) = EP!Stage(e)
    /\ E!AllDone(e) <=> EP!AllDone(e)
    /\ E!Attempts(E!Stage(e)) = EP!Attempts(EP!Stage(e))
    /\ E!Valid(e) <=> EP!Valid(e)
BY DEF E!Stage, EP!Stage, E!AllDone, EP!AllDone, E!Stages, EP!Stages,
       E!Attempts, EP!Attempts, E!Valid, EP!Valid

LEMMA SameNext == E!Next <=> EP!Next
BY DEF E!Next, EP!Next, E!Submit, EP!Submit, E!Work, EP!Work,
       E!Cancel, EP!Cancel, E!Finished, EP!Finished,
       E!SlotIsFree, EP!SlotIsFree, E!GrantSlot, EP!GrantSlot, E!End, EP!End,
       E!Succeed, EP!Succeed, E!UnknownStage, EP!UnknownStage,
       E!NoAttempt, EP!NoAttempt, E!StartStage, EP!StartStage,
       E!Abort, EP!Abort, E!Complete, EP!Complete, E!Miss, EP!Miss,
       E!Retry, EP!Retry, E!Reject, EP!Reject, E!Compute, EP!Compute,
       E!StartInference, EP!StartInference, E!EndInference, EP!EndInference,
       E!InferReturns, EP!InferReturns, E!InferFails, EP!InferFails,
       E!TimeOut, EP!TimeOut, E!Stage, EP!Stage, E!Stages, EP!Stages,
       E!AllDone, EP!AllDone, E!Valid, EP!Valid, E!Attempts, EP!Attempts,
       E!Ended, EP!Ended, E!vars, EP!vars, E!request, EP!request

\* So what ExecutorProofs says of the one holds of the other.
LEMMA SameSpec == E!Spec => EP!Spec
<1>1. E!Init <=> EP!Init
  BY DEF E!Init, EP!Init
<1>2. [E!Next]_(E!vars) <=> [EP!Next]_(EP!vars)
  BY SameNext DEF E!vars, EP!vars, E!request, EP!request
<1> QED
  BY <1>1, <1>2, PTL DEF E!Spec, EP!Spec

LEMMA ExecutorInvariance == E!Spec => []EP!IInv
BY SameSpec, SameConstants, EP!Invariance, PTL

-----------------------------------------------------------------------------
(* The execution plane.                                                    *)

LEMMA CoroutineCounts ==
  ASSUME NEW p \in Pipelines, Client(p) \/ Run(p) \/ Resume(p)
  PROVE  UNCHANGED activeInf
<1> USE DEF registry, counts
<1>1. CASE Client(p)
  BY <1>1 DEF Client, Activate, Deactivate, Cancel
<1>2. CASE Run(p)
  BY <1>2 DEF Run, ReserveModel, FinishActivation, Fail, FoundReady,
     FoundUnloading, FoundNotLoaded, BeginLoad, BeginLoadRefused
<1>3. CASE Resume(p)
  BY <1>3 DEF Resume, GrantLock, GrantPermit, Poll, PollUnloaded,
     PollExpires, LoadDone, LoadSucceeds, LoadFails, Warmed
<1> QED
  BY <1>1, <1>2, <1>3

LEMMA ControlSteps ==
  ASSUME ControlStep
  PROVE  Next /\ UNCHANGED <<activeInf, execution>>
<1>1. CASE LifecycleLoop
  BY <1>1 DEF ControlStep, LifecycleLoop, Tick, Sweep, SweepUnload, SweepBusy,
     SweepEnd, UnloadReturns, registry, counts, Next
<1>2. CASE \E p \in Pipelines : Client(p) \/ Run(p) \/ Resume(p)
  BY <1>2, CoroutineCounts DEF ControlStep, Next
<1> QED
  BY <1>1, <1>2 DEF ControlStep, Background, ActivateBy, CancelActivation,
                    Client

\* Each refusal has its reason, and some their server.
LEMMA Refusal ==
  ASSUME NEW e \in Executions, RefuseRequest(e)
  PROVE  /\ at[e] = "new"
         /\ UNCHANGED <<vars, execution, caller>>
         /\ \E why \in Refusals :
              /\ refused' = [refused EXCEPT ![e] = why]
              /\ why = "no_form" => Transport[e] = "http"
              /\ why \in {"bad_inputs", "no_mapping"} => Transport[e] = "grpc"
BY DEF RefuseRequest, RefuseForm, RefuseInputs, CrashOnInputs, RefuseName,
       RefuseInactive, Refuse, Arriving, Refusals

LEMMA ExecutorSteps == [SystemNext]_allVars => [E!Next]_(E!vars)
<1> SUFFICES ASSUME [SystemNext]_allVars PROVE [E!Next]_(E!vars)
  OBVIOUS
<1> USE DEF E!vars, E!request, execution
<1>1. CASE ControlStep
  BY <1>1, ControlSteps
<1>2. ASSUME NEW e \in Executions, ExecutionStep(e)
      PROVE  [E!Next]_(E!vars)
  <2>1. CASE RefuseRequest(e)
    BY <2>1, Refusal DEF vars
  <2>2. CASE Admit(e) \/ Work(e) \/ HangUp(e)
    BY <2>2 DEF Admit, Work, HangUp, E!Next
  <2> QED
    BY <1>2, <2>1, <2>2 DEF ExecutionStep
<1>3. CASE UNCHANGED allVars
  BY <1>3 DEF allVars, vars
<1> QED
  BY <1>1, <1>2, <1>3 DEF SystemNext

LEMMA Executes == SystemSpec => E!Spec
<1>1. SystemInit => E!Init
  BY DEF SystemInit
<1> QED
  BY <1>1, ExecutorSteps, PTL DEF SystemSpec, E!Spec

-----------------------------------------------------------------------------
(* The control plane.                                                      *)

\* What a step of an execution is to the inference counters.
Begins(e) ==
  /\ at[e] = "attempt"
  /\ E!Stage(e).model # NoModel
  /\ activeInf' = [activeInf EXCEPT ![E!Stage(e).model] = @ + 1]

Ends(e) == at[e] = "infer" /\ E!EndInference(e)

LEMMA ExecutionCounts ==
  ASSUME NEW e \in Executions, E!Work(e) \/ E!Cancel(e)
  PROVE  UNCHANGED activeInf \/ Begins(e) \/ Ends(e)
<1>1. CASE E!Cancel(e)
  BY <1>1 DEF E!Cancel, Ends
<1>2. CASE E!Work(e)
  BY <1>2 DEF E!Work, E!GrantSlot, E!Succeed, E!UnknownStage, E!NoAttempt,
     E!StartStage, E!Retry, E!Reject, E!Compute, E!StartInference, Begins,
     E!InferReturns, E!InferFails, E!TimeOut, Ends
<1> QED
  BY <1>1, <1>2

LEMMA ModelCalled ==
  ASSUME EP!IInv, NEW e \in Executions,
         at[e] = "infer" \/ (at[e] = "attempt" /\ E!Stage(e).model # NoModel)
  PROVE  E!Stage(e).model \in Models
<1>1. ~EP!AllDone(e) /\ EP!Stage(e).model # NoModel
  BY SameStage DEF EP!IInv, EP!PositionOK, EP!Position
<1>2. EP!Stage(e).model \in Models \cup {NoModel}
  BY <1>1, SameConstants, EP!StageTyped DEF EP!IInv
<1> QED
  BY <1>1, <1>2, SameStage

Calling(m) == {e \in Executions : at[e] = "infer" /\ E!Stage(e).model = m}
Inside     == {e \in Executions : at[e] \in E!InSlot}

\* The counters are exact, and the semaphore bounds the executions behind them.
LEMMA CountsMeaning ==
  ASSUME EP!IInv
  PROVE  /\ \A m \in Models : activeInf[m] = Cardinality(Calling(m))
         /\ Cardinality(Inside) <= MaxConcurrentExecutions
         /\ \A m \in Models : Calling(m) \subseteq Inside
         /\ IsFiniteSet(Inside)
<1>1. \A m \in Models : activeInf[m] = Cardinality(Calling(m))
  BY SameCardinality, SameStage DEF EP!IInv, EP!InferenceBalance, Calling
<1>2. Cardinality(Inside) = MaxConcurrentExecutions - slots
  BY SameCardinality
     DEF EP!IInv, EP!SlotBound, Inside, EP!InSlot, E!InSlot
<1>3. slots \in Nat /\ MaxConcurrentExecutions \in Nat
  BY SameConstants DEF EP!IInv, EP!TypeOK, EP!ConstantsOK
<1>4. IsFiniteSet(Executions)
  BY SameConstants, SameFinite DEF EP!ConstantsOK
<1>5. IsFiniteSet(Inside)
  BY <1>4, FS_Subset DEF Inside
<1>6. \A m \in Models : Calling(m) \subseteq Inside
  BY DEF Calling, Inside, E!InSlot
<1> QED
  BY <1>1, <1>2, <1>3, <1>5, <1>6

\* Whoever is about to call a model is inside the semaphore and not counted.
LEMMA RoomToCall ==
  ASSUME EP!IInv, NEW e \in Executions, at[e] = "attempt", NEW m \in Models
  PROVE  activeInf[m] < MaxActive
<1> USE CountsMeaning
<1>1. e \in Inside /\ Calling(m) \subseteq Inside \ {e}
  BY DEF Inside, Calling, E!InSlot
<1>2. /\ Cardinality(Inside) \in Nat
      /\ Cardinality(Inside \ {e}) = Cardinality(Inside) - 1
  BY <1>1, OneMoreOneLess
<1>3. IsFiniteSet(Inside \ {e})
  BY FS_Subset
<1>4. Cardinality(Calling(m)) \in Nat
      /\ Cardinality(Calling(m)) <= Cardinality(Inside \ {e})
  BY <1>1, <1>3, FS_Subset, FS_CardinalityType
<1>5. MaxConcurrentExecutions \in Nat /\ MaxActive \in Nat
  BY SameConstants, BoundsAssumption DEF EP!ConstantsOK
<1> QED
  BY <1>2, <1>4, <1>5, SystemAssumption

\* Whoever calls a model is counted.
LEMMA CallCounted ==
  ASSUME EP!IInv, NEW e \in Executions, at[e] = "infer",
         E!Stage(e).model \in Models
  PROVE  activeInf[E!Stage(e).model] > 0
<1> DEFINE m == E!Stage(e).model
<1>1. e \in Calling(m) /\ IsFiniteSet(Calling(m))
  BY CountsMeaning, FS_Subset DEF Calling
<1>2. Cardinality(Calling(m)) \in Nat /\ Cardinality(Calling(m)) # 0
  BY <1>1, OneMoreOneLess
<1> QED
  BY <1>2, CountsMeaning

\* The loop's snapshot is one of models.
SweepTyped == sweep \subseteq Models

LEMMA ControlKeepsSweep ==
  ASSUME SweepTyped, ControlStep
  PROVE  SweepTyped'
<1> USE DEF SweepTyped, background
<1>1. CASE LifecycleLoop
  BY <1>1 DEF LifecycleLoop, Tick, Sweep, SweepUnload, SweepBusy, SweepEnd,
              UnloadReturns
<1>2. ASSUME NEW p \in Pipelines, Client(p) \/ Run(p) \/ Resume(p)
      PROVE  SweepTyped'
  <2>1. CASE Client(p)
    BY <2>1 DEF Client, Activate, Deactivate, Cancel
  <2>2. CASE Run(p)
    BY <2>2 DEF Run, ReserveModel, FinishActivation, Fail, FoundReady,
       FoundUnloading, FoundNotLoaded, BeginLoad, BeginLoadRefused
  <2>3. CASE Resume(p)
    BY <2>3 DEF Resume, GrantLock, GrantPermit, Poll, PollUnloaded,
       PollExpires, LoadDone, LoadSucceeds, LoadFails, Warmed
  <2> QED
    BY <1>2, <2>1, <2>2, <2>3
<1> QED
  BY <1>1, <1>2 DEF ControlStep, Background, ActivateBy, CancelActivation,
                    Client

\* A step of an execution is an inference that begins or ends, or nothing.
LEMMA ExecutionIsInference ==
  ASSUME EP!IInv, SweepTyped, Quiet, NEW e \in Executions,
         E!Work(e) \/ E!Cancel(e), Touched, UNCHANGED settled
  PROVE  [Next]_vars
<1> USE DEF SweepTyped, Touched, settled, pipelines, coroutine, locks
<1>0. activeInf \in [Models -> Nat]
  BY DEF EP!IInv, EP!TypeOK
<1>1. CASE UNCHANGED activeInf
  BY <1>1 DEF vars
<1>2. CASE Begins(e)
  <2>1. PICK m \in Models : m = E!Stage(e).model
    BY <1>2, ModelCalled DEF Begins
  <2>2. activeInf[m] < MaxActive
    BY <1>2, RoomToCall DEF Begins
  <2>3. activeInf' = [activeInf EXCEPT ![m] = @ + 1]
    BY <1>2, <2>1 DEF Begins
  <2>4. sweep' = sweep \ {m}
    BY <1>0, <2>3
  <2>5. BeginInference(m)
    BY <2>2, <2>3, <2>4 DEF BeginInference
  <2> QED
    BY <2>5 DEF Next
<1>3. CASE Ends(e)
  <2>1. PICK m \in Models : m = E!Stage(e).model
    BY <1>3, ModelCalled DEF Ends
  <2>2. activeInf[m] > 0
    BY <1>3, <2>1, CallCounted DEF Ends
  <2>3. activeInf' = [activeInf EXCEPT ![m] = Decremented(@)]
    BY <1>3, <2>1 DEF Ends, E!EndInference, Decremented
  <2>4. sweep' = sweep \ {m}
    BY <1>0, <2>2, <2>3 DEF Decremented
  <2>5. EndInference(m)
    BY <2>2, <2>3, <2>4 DEF EndInference
  <2> QED
    BY <2>5 DEF Next
<1> QED
  BY <1>1, <1>2, <1>3, ExecutionCounts

LEMMA ServiceSteps ==
  EP!IInv /\ SweepTyped /\ [SystemNext]_allVars => [Next]_vars /\ SweepTyped'
<1> SUFFICES ASSUME EP!IInv, SweepTyped, [SystemNext]_allVars
             PROVE  [Next]_vars /\ SweepTyped'
  OBVIOUS
<1>1. CASE ControlStep
  BY <1>1, ControlSteps, ControlKeepsSweep
<1>2. ASSUME NEW e \in Executions, ExecutionStep(e)
      PROVE  [Next]_vars /\ SweepTyped'
  <2>1. CASE RefuseRequest(e)
    BY <2>1, Refusal DEF vars, SweepTyped
  <2>2. CASE Admit(e)
    BY <2>2 DEF Admit, E!Submit, settled, vars, SweepTyped, pipelines,
                coroutine, locks
  <2>3. CASE Work(e) \/ HangUp(e)
    <3>1. SweepTyped'
      BY <2>3 DEF Work, HangUp, Touched, SweepTyped
    <3> QED
      BY <2>3, <3>1, ExecutionIsInference DEF Work, HangUp
  <2> QED
    BY <1>2, <2>1, <2>2, <2>3 DEF ExecutionStep
<1>3. CASE UNCHANGED allVars
  BY <1>3 DEF allVars, vars, SweepTyped
<1> QED
  BY <1>1, <1>2, <1>3 DEF SystemNext

-----------------------------------------------------------------------------
(* The composition.                                                        *)

\* Every behaviour of the service is one of ControlPlane and one of Executor:
\* the gates between them (the state check of execute_pipeline, the semaphore,
\* begin_inference and end_inference) only leave out behaviours of either.
THEOREM Composition == SystemSpec => PlanesKept
<1>1. SystemInit => Init /\ SweepTyped
  BY DEF SystemInit, Init, SweepTyped
<1>2. SystemSpec => []EP!IInv
  BY Executes, ExecutorInvariance, PTL
<1> QED
  BY <1>1, <1>2, ServiceSteps, Executes, PTL DEF SystemSpec, Spec, PlanesKept

\* So the service inherits the inductive invariants of both planes, under
\* every fault: locks, permits, references, slots and counters stay in order.
THEOREM ServiceInvariance == SystemSpec => [](IInv /\ EP!IInv)
BY Composition, Executes, ExecutorInvariance, Invariance, PTL DEF PlanesKept

\* And the executor's promise reaches the clients: behind HTTP and gRPC, a
\* request is a job of PipelineJobs, one that never starts if it is refused.
THEOREM RequestsAreJobs == SystemSpec => EP!JobSpec
<1>1. EP!Spec => EP!JobSpec
  BY SameConstants, EP!ImplementsJobs
<1> QED
  BY <1>1, Executes, SameSpec, PTL

-----------------------------------------------------------------------------
(* Who is stuck in ACTIVATING.                                             *)

LEMMA StuckStep ==
  ASSUME TypeOK, PositionOK, caller \in [Pipelines -> Servers \cup {"none"}],
         StuckOnlyByGrpc, [SystemNext]_allVars
  PROVE  /\ caller' \in [Pipelines -> Servers \cup {"none"}]
         /\ StuckOnlyByGrpc'
<1> USE DEF StuckOnlyByGrpc
<1>1. ASSUME NEW p \in Pipelines, NEW server \in Servers,
             ActivateBy(server, p)
      PROVE  /\ caller' \in [Pipelines -> Servers \cup {"none"}]
             /\ StuckOnlyByGrpc'
  BY <1>1 DEF ActivateBy, Activate, TypeOK
<1>2. ASSUME NEW p \in Pipelines, CancelActivation(p)
      PROVE  UNCHANGED caller /\ StuckOnlyByGrpc'
  BY <1>2 DEF CancelActivation, CancelledBy, Cancel, Terminate, pipelines,
              TypeOK
<1>3. ASSUME NEW p \in Pipelines, Deactivate(p) \/ Run(p) \/ Resume(p),
             UNCHANGED caller
      PROVE  StuckOnlyByGrpc'
  <2>1. \A q \in Pipelines \ {p} : pc'[q] = pc[q] /\ pstate'[q] = pstate[q]
    BY <1>3, OthersStay DEF CoroutineStep, Client
  <2>2. CASE Deactivate(p)
    BY <1>3, <2>2 DEF Deactivate, coroutine, TypeOK
  <2>3. CASE FinishActivation(p) \/ Fail(p)
    BY <1>3, <2>1, <2>3 DEF FinishActivation, Fail, TypeOK
  <2>4. CASE (Run(p) \/ Resume(p)) /\ ~FinishActivation(p) /\ ~Fail(p)
    <3>1. pc'[p] # "none"
      BY <2>4 DEF Run, ReserveModel, FoundReady, FoundUnloading,
         FoundNotLoaded, BeginLoad, BeginLoadRefused, Resume, GrantLock,
         GrantPermit, Poll, PollUnloaded, PollExpires, LoadDone,
         LoadSucceeds, LoadFails, Warmed, AbortLoad, NextModel,
         AcquirePermit, TypeOK
    <3> QED
      BY <1>3, <2>1, <3>1
  <2> QED
    BY <1>3, <2>2, <2>3, <2>4
<1>4. CASE LifecycleLoop /\ UNCHANGED caller
  BY <1>4, BackgroundFrame DEF BackgroundStep
<1>5. ASSUME NEW e \in Executions, ExecutionStep(e)
      PROVE  UNCHANGED <<caller, pc, pstate>>
  BY <1>5, Refusal DEF ExecutionStep, Admit, Work, HangUp, settled, pipelines,
     coroutine, service, vars
<1>6. CASE UNCHANGED allVars
  BY <1>6 DEF allVars, vars, service
<1>7. CASE ControlStep
  BY <1>1, <1>2, <1>3, <1>4, <1>7 DEF ControlStep, Background
<1> QED
  BY <1>5, <1>6, <1>7 DEF SystemNext

-----------------------------------------------------------------------------
(* What a status says.                                                     *)

\* A refused request was not executed, only HTTP refuses a form, and only gRPC
\* refuses inputs or cancels.
Answers ==
  \A e \in Executions :
    /\ refused[e] # "no" => at[e] = "new"
    /\ refused[e] = "no_form" => Transport[e] = "http"
    /\ refused[e] \in {"bad_inputs", "no_mapping"} => Transport[e] = "grpc"
    /\ at[e] = "cancelled" => Transport[e] = "grpc"

AnswersInv == Answers /\ refused \in [Executions -> Refusals \cup {"no"}]

\* Where a step of an execution leads.
LEMMA PlaceAfter ==
  ASSUME EP!TypeOK, NEW e \in Executions
  PROVE  /\ E!Submit(e) => \E x \in {"stage", "queued"} :
                             at' = [at EXCEPT ![e] = x]
         /\ E!Work(e) => /\ at[e] # "new"
                         /\ \E x \in EP!Places \ {"new", "cancelled"} :
                              at' = [at EXCEPT ![e] = x]
         /\ E!Cancel(e) => /\ at[e] # "new"
                           /\ at' = [at EXCEPT ![e] = "cancelled"]
<1> USE DEF EP!Places, EP!Ended, EP!InSlot, E!End, E!Abort, E!Complete, E!Miss
<1>1. ASSUME E!Submit(e)
      PROVE  \E x \in {"stage", "queued"} : at' = [at EXCEPT ![e] = x]
  BY <1>1 DEF E!Submit
<1>2. ASSUME E!Cancel(e)
      PROVE  at[e] # "new" /\ at' = [at EXCEPT ![e] = "cancelled"]
  BY <1>2 DEF E!Cancel
<1>3. ASSUME E!Work(e)
      PROVE  /\ at[e] # "new"
             /\ \E x \in EP!Places \ {"new", "cancelled"} :
                  at' = [at EXCEPT ![e] = x]
  BY <1>3 DEF E!Work, E!GrantSlot, E!Succeed, E!UnknownStage, E!NoAttempt,
     E!StartStage, E!Retry, E!Reject, E!Compute, E!StartInference,
     E!InferReturns, E!InferFails, E!TimeOut
<1> QED
  BY <1>1, <1>2, <1>3

LEMMA AnswersStep ==
  ASSUME EP!TypeOK, AnswersInv, [SystemNext]_allVars
  PROVE  AnswersInv'
<1> USE DEF AnswersInv, Answers, EP!TypeOK
<1>1. CASE ControlStep \/ UNCHANGED allVars
  BY <1>1 DEF ControlStep, allVars, execution, service
<1>2. ASSUME NEW e \in Executions, ExecutionStep(e) PROVE AnswersInv'
  <2>1. CASE RefuseRequest(e)
    BY <2>1, Refusal DEF execution, Refusals
  <2>2. CASE Admit(e)
    BY <2>2, PlaceAfter DEF Admit, Arriving, service
  <2>3. CASE Work(e)
    BY <2>3, PlaceAfter DEF Work, service
  <2>4. CASE HangUp(e)
    BY <2>4, PlaceAfter DEF HangUp, service
  <2> QED
    BY <1>2, <2>1, <2>2, <2>3, <2>4 DEF ExecutionStep
<1> QED
  BY <1>1, <1>2 DEF SystemNext

LEMMA StatusMeaning ==
  ASSUME EP!IInv, AnswersInv
  PROVE  StatusTruthful
<1> SUFFICES ASSUME NEW e \in Executions, Answered(e)
             PROVE  /\ Status(e) \in Unexecuted => at[e] = "new"
                    /\ Status(e) \in {"200", "OK"} =>
                         at[e] \in {"succeeded", "failed"}
                    /\ Status(e) = "200" =>
                         E!AllDone(e) /\ E!AllCompleted(results[e])
  BY DEF StatusTruthful
<1>1. Transport[e] \in {"http", "grpc"}
  BY SystemAssumption
<1>2. CASE refused[e] # "no"
  <2>1. /\ at[e] = "new" /\ refused[e] \in Refusals
        /\ refused[e] = "no_form" => Transport[e] = "http"
        /\ refused[e] \in {"bad_inputs", "no_mapping"} => Transport[e] = "grpc"
    BY <1>2 DEF AnswersInv, Answers
  <2>2. Status(e) \notin {"200", "OK"}
    BY <1>1, <1>2, <2>1 DEF Status, Outcome, Refusals, HttpStatus, GrpcStatus
  <2> QED
    BY <2>1, <2>2
<1>3. CASE refused[e] = "no"
  <2>1. at[e] \in {"succeeded", "failed", "crashed", "cancelled"}
    BY <1>3 DEF Answered, Outcome, Refusals, E!Ended, EP!IInv, EP!TypeOK,
                EP!Places, EP!InSlot, EP!Ended
  <2>2. at[e] = "cancelled" => Transport[e] = "grpc"
    BY DEF AnswersInv, Answers
  <2>3. /\ Status(e) \notin Unexecuted
        /\ Status(e) \in {"200", "OK"} => at[e] \in {"succeeded", "failed"}
        /\ Status(e) = "200" => at[e] = "succeeded"
    BY <1>1, <1>3, <2>1, <2>2
       DEF Status, Outcome, HttpStatus, GrpcStatus, Unexecuted
  <2>4. at[e] = "succeeded" => E!AllDone(e) /\ E!AllCompleted(results[e])
    BY SameStage DEF EP!IInv, EP!OutcomeShape, EP!AllCompleted, E!AllCompleted
  <2> QED
    BY <2>1, <2>3, <2>4
<1> QED
  BY <1>2, <1>3

-----------------------------------------------------------------------------
(* What clients see.                                                       *)

\* An activation that is stuck in ACTIVATING without a coroutine was asked for
\* by a gRPC client that went away, whatever else failed.
THEOREM StuckIsGrpc == SystemSpec => []StuckOnlyByGrpc
<1> DEFINE I == /\ caller \in [Pipelines -> Servers \cup {"none"}]
                /\ StuckOnlyByGrpc
<1>1. SystemInit => I
  BY DEF SystemInit, Init, StuckOnlyByGrpc
<1>2. IInv /\ I /\ [SystemNext]_allVars => I'
  BY StuckStep DEF IInv
<1> QED
  BY <1>1, <1>2, ServiceInvariance, PTL DEF SystemSpec

\* A status that says that nothing was executed is true, 200 and OK are sent
\* for executions that ended only, and 200 means that every stage was completed.
THEOREM StatusesTruthful == SystemSpec => []StatusTruthful
<1>1. SystemInit => AnswersInv
  BY DEF SystemInit, E!Init, AnswersInv, Answers
<1>2. EP!IInv /\ AnswersInv /\ [SystemNext]_allVars => AnswersInv'
  BY AnswersStep DEF EP!IInv
<1> QED
  BY <1>1, <1>2, StatusMeaning, ServiceInvariance, PTL DEF SystemSpec

\* What InferPack knows of the models of an ACTIVE pipeline is true of Triton.
LEMMA ActiveLoaded ==
  ASSUME Secured, ServedIsLoaded, NEW p \in Pipelines, pstate[p] = "active",
         NEW m \in Needs(p), m \in Models
  PROVE  mstate[m] = "ready" /\ triton[m]
BY DEF Secured, ServedIsLoaded

LEMMA ServiceSecured ==
  ASSUME Orderly, "triton_restart" \notin Faults
  PROVE  SystemSpec => [](EP!IInv /\ Secured /\ ServedIsLoaded)
<1>1. Spec => []LeaseInv
  BY LeaseInvariance, PTL
<1>2. Spec => []ServedIsLoaded
  BY ServedLoaded DEF Orderly, Undisturbed
<1>3. LeaseInv => Secured
  BY DEF LeaseInv
<1> QED
  BY <1>1, <1>2, <1>3, Composition, ServiceInvariance, PTL DEF PlanesKept

\* An execution starts only while every model its pipeline needs is READY and
\* loaded, as long as Triton keeps its models and no failing activation gives
\* back the references of another pipeline.
THEOREM AdmissionServed ==
  ASSUME Orderly, "triton_restart" \notin Faults
  PROVE  SystemSpec => AdmittedServed
<1> DEFINE Starts(e)    == at[e] = "new" /\ at'[e] # "new"
           AllServed(e) == \A m \in Needs(pipeline[e]) :
                             mstate[m] = "ready" /\ triton[m]
<1>1. ASSUME EP!IInv, Secured, ServedIsLoaded, [SystemNext]_allVars,
             NEW e \in Executions, Starts(e)
      PROVE  AllServed(e)
  <2>1. pipeline[e] \in Pipelines /\ EP!TypeOK
    BY <1>1 DEF EP!IInv, EP!TypeOK
  <2>2. Needs(pipeline[e]) \subseteq Models
    BY <2>1, NeedsListed
  <2>3. pstate[pipeline[e]] = "active"
    <3>1. PICK f \in Executions : ExecutionStep(f)
      BY <1>1 DEF SystemNext, ControlStep, allVars, execution
    <3>2. CASE RefuseRequest(f)
      BY <1>1, <3>2, Refusal DEF execution
    <3>3. CASE Admit(f)
      BY <1>1, <2>1, <3>3, PlaceAfter DEF Admit, EP!TypeOK
    <3>4. CASE Work(f) \/ HangUp(f)
      BY <1>1, <2>1, <3>4, PlaceAfter DEF Work, HangUp, EP!TypeOK
    <3> QED
      BY <3>1, <3>2, <3>3, <3>4 DEF ExecutionStep
  <2> QED
    BY <1>1, <2>1, <2>2, <2>3, ActiveLoaded
<1>2. EP!IInv /\ Secured /\ ServedIsLoaded /\ [SystemNext]_allVars =>
        [\A e \in Executions : at[e] = "new" /\ at'[e] # "new" =>
           \A m \in Needs(pipeline[e]) :
             mstate[m] = "ready" /\ triton[m]]_allVars
  BY <1>1
<1> QED
  BY <1>2, ServiceSecured, PTL DEF SystemSpec, AdmittedServed

\* Every stage infers with a model that its pipeline lists.
StagesListed ==
  \A p \in Pipelines : \A i \in 1..Len(StagesOf[p]) :
    StagesOf[p][i].model \in Needs(p) \cup {NoModel}

\* An execution under an ACTIVE pipeline calls only models that Triton serves,
\* whoever idles, unloads, deactivates, fails or hangs up meanwhile: for
\* pipelines with no model in common under every fault but a restart of
\* Triton, for others as long as no activation fails.
THEOREM CallsServed ==
  ASSUME Orderly, "triton_restart" \notin Faults, StagesListed
  PROVE  SystemSpec => []ActiveServes
<1>1. ASSUME EP!IInv, Secured, ServedIsLoaded PROVE ActiveServes
  <2> SUFFICES ASSUME NEW e \in Executions, at[e] = "infer",
                      pstate[pipeline[e]] = "active"
               PROVE  /\ mstate[E!Stage(e).model] = "ready"
                      /\ triton[E!Stage(e).model]
    BY DEF ActiveServes
  <2>1. E!Stage(e).model \in Models
    BY <1>1, ModelCalled
  <2>2. pipeline[e] \in Pipelines /\ results[e] \in Seq(EP!StageStatus)
    BY <1>1 DEF EP!IInv, EP!TypeOK
  <2>3. /\ Len(results[e]) <= Len(StagesOf[pipeline[e]])
        /\ Len(results[e]) # Len(StagesOf[pipeline[e]])
    BY <1>1 DEF EP!IInv, EP!PositionOK, EP!Position, EP!AllDone, EP!Stages
  <2>4. Len(StagesOf[pipeline[e]]) \in Nat
    BY <2>2, SameConstants DEF EP!ConstantsOK
  <2>5. Len(results[e]) + 1 \in 1..Len(StagesOf[pipeline[e]])
    BY <2>2, <2>3, <2>4
  <2>6. E!Stage(e).model \in Needs(pipeline[e]) \cup {NoModel}
    BY <2>2, <2>5 DEF StagesListed, E!Stage, E!Stages
  <2>7. NoModel \notin Models
    BY SystemAssumption DEF E!ConstantsOK
  <2> QED
    BY <1>1, <2>1, <2>2, <2>6, <2>7, ActiveLoaded
<1> QED
  BY <1>1, ServiceSecured, PTL
=============================================================================
