------------------------------ MODULE Executor ------------------------------
(***************************************************************************)
(* The execution plane of InferPack: PipelineExecutor.execute with its     *)
(* semaphore, the stage runner with its timeouts, retries and validation,  *)
(* and the inference bracket (begin_inference ... finally end_inference)   *)
(* that the model stages keep around their calls to Triton.                *)
(*                                                                         *)
(* Each execution is one coroutine.  Its steps are cut at every point      *)
(* where another execution can run: the semaphore, the call to a stage     *)
(* (asyncio.wait_for makes the stage a task of its own on the Python the   *)
(* image is built on), the calls to Triton and the back-off sleep.         *)
(*                                                                         *)
(* Abstractions.  A context value is its key: a stage reads some keys and  *)
(* writes some.  The calls to Triton one stage makes between               *)
(* begin_inference and end_inference are one call, because nothing changes *)
(* between them.  Durations are left out; a stage that waits for Triton    *)
(* may exceed its timeout at any moment, a stage that never suspends       *)
(* cannot be interrupted at all.                                           *)
(***************************************************************************)
EXTENDS CoreTypes, Integers, Sequences, FiniteSets

CONSTANTS
  Executions,      \* the requests; each is executed at most once
  Pipelines,       \* the pipelines that may be requested
  StagesOf,        \* PipelineDefinition.stages: a sequence of stages
  Models,          \* the models the stages infer with
  Keys,            \* the keys of contexts
  Inputs,          \* the sets of keys a request may bring
  MaxConcurrentExecutions,  \* ExecutionConfig.max_concurrent_executions
  DefaultRetries,  \* ExecutionConfig.default_max_retries
  NoModel          \* the model of a stage that does not infer

\* A stage: is its type registered, the keys it needs and produces, may its
\* validation refuse what a key holds, the model it calls, and max_retries.
ConstantsOK ==
  /\ IsFiniteSet(Executions)
  /\ NoModel \notin Models
  /\ Inputs \subseteq SUBSET Keys
  /\ MaxConcurrentExecutions \in Nat \ {0}
  /\ DefaultRetries \in Int
  /\ \A pl \in Pipelines : Len(StagesOf[pl]) \in Nat
  /\ \A pl \in Pipelines : \A i \in 1..Len(StagesOf[pl]) :
       /\ StagesOf[pl][i].known \in BOOLEAN
       /\ StagesOf[pl][i].choosy \in BOOLEAN
       /\ StagesOf[pl][i].reads \subseteq Keys
       /\ StagesOf[pl][i].writes \subseteq Keys
       /\ StagesOf[pl][i].model \in Models \cup {NoModel}
       /\ StagesOf[pl][i].retries \in Int

ASSUME ExecutorAssumption == ConstantsOK

VARIABLES
  at,          \* where an execution is
  pipeline,    \* the pipeline it runs
  given,       \* the keys the request brought
  data,        \* PipelineExecutionContext.data: the keys it holds
  results,     \* stage_results: the status of each recorded stage
  attempt,     \* run_stage's loop variable
  slots,       \* value of the executor's semaphore
  activeInf    \* ModelInfo.active_inferences

request == <<pipeline, given>>
vars == <<at, pipeline, given, data, results, attempt, slots, activeInf>>

\* Inside `async with self._semaphore'.
InSlot == {"stage", "attempt", "infer", "backoff"}
Ended  == {"succeeded", "failed", "crashed", "cancelled"}
Places == {"new", "queued"} \cup InSlot \cup Ended

Init ==
  /\ at = [e \in Executions |-> "new"]
  /\ pipeline \in [Executions -> Pipelines]
  /\ given \in [Executions -> Inputs]
  /\ data = [e \in Executions |-> {}]
  /\ results = [e \in Executions |-> <<>>]
  /\ attempt = [e \in Executions |-> 0]
  /\ slots = MaxConcurrentExecutions
  /\ activeInf = [m \in Models |-> 0]

Stages(e)  == StagesOf[pipeline[e]]
\* Every recorded stage but a failing last one was completed, and a failing
\* one ends the execution: the loop's position follows from the results.
Stage(e)   == Stages(e)[Len(results[e]) + 1]
AllDone(e) == Len(results[e]) = Len(Stages(e))

-----------------------------------------------------------------------------
(* PipelineExecutor.execute: the semaphore.                                *)

\* Mutant: executions are not limited.
SlotIgnored == TRUE

\* asyncio.Semaphore.acquire returns without suspending.
SlotIsFree == slots > 0 /\ \A e \in Executions : at[e] # "queued"

Submit(e) ==
  /\ at[e] = "new"
  /\ data' = [data EXCEPT ![e] = given[e]]
  /\ IF SlotIsFree
       THEN at' = [at EXCEPT ![e] = "stage"] /\ slots' = slots - 1
       ELSE at' = [at EXCEPT ![e] = "queued"] /\ UNCHANGED slots
  /\ UNCHANGED <<request, results, attempt, activeInf>>

GrantSlot(e) ==
  /\ at[e] = "queued"
  /\ slots > 0
  /\ at' = [at EXCEPT ![e] = "stage"]
  /\ slots' = slots - 1
  /\ UNCHANGED <<request, data, results, attempt, activeInf>>

\* Mutant: the slot is not given back.
EndKeepsSlot(e, how) ==
  /\ at' = [at EXCEPT ![e] = how]
  /\ UNCHANGED slots

\* _run returns a result: the `async with' gives the slot back.
End(e, how) ==
  /\ at' = [at EXCEPT ![e] = how]
  /\ slots' = slots + 1

-----------------------------------------------------------------------------
(* PipelineExecutor._run: the loop over the stages.                        *)

Succeed(e) ==
  /\ at[e] = "stage"
  /\ AllDone(e)
  /\ End(e, "succeeded")
  /\ UNCHANGED <<request, data, results, attempt, activeInf>>

\* A stage type nobody registered: the execution fails, no result recorded.
UnknownStage(e) ==
  /\ at[e] = "stage"
  /\ ~AllDone(e)
  /\ ~Stage(e).known
  /\ End(e, "failed")
  /\ UNCHANGED <<request, data, results, attempt, activeInf>>

\* max_retries + 1, where a negative max_retries means the default.
Attempts(s) == (IF s.retries < 0 THEN DefaultRetries ELSE s.retries) + 1

\* A negative default leaves no attempt: the loop body that binds t0 never
\* runs, and run_stage dies of an UnboundLocalError instead of returning.
NoAttempt(e) ==
  /\ at[e] = "stage"
  /\ ~AllDone(e)
  /\ Stage(e).known
  /\ Attempts(Stage(e)) < 1
  /\ End(e, "crashed")
  /\ UNCHANGED <<request, data, results, attempt, activeInf>>

StartStage(e) ==
  /\ at[e] = "stage"
  /\ ~AllDone(e)
  /\ Stage(e).known
  /\ Attempts(Stage(e)) >= 1
  /\ attempt' = [attempt EXCEPT ![e] = 1]
  /\ at' = [at EXCEPT ![e] = "attempt"]
  /\ UNCHANGED <<request, data, results, slots, activeInf>>

\* Mutant: the loop goes on after a stage that failed.
AbortAndGoOn(e, status) ==
  /\ results' = [results EXCEPT ![e] = Append(@, status)]
  /\ at' = [at EXCEPT ![e] = "stage"]
  /\ UNCHANGED <<data, attempt, slots>>

\* run_stage returns a result that is not COMPLETED: recorded, then aborted.
Abort(e, status) ==
  /\ results' = [results EXCEPT ![e] = Append(@, status)]
  /\ End(e, "failed")
  /\ UNCHANGED <<data, attempt>>

-----------------------------------------------------------------------------
(* run_stage.                                                              *)

\* Mutant: what the stage produced is lost.
CompleteWithoutMerge(e) ==
  /\ results' = [results EXCEPT ![e] = Append(@, "completed")]
  /\ at' = [at EXCEPT ![e] = "stage"]
  /\ UNCHANGED <<data, attempt, slots>>

\* The stage returned: merge its keys into the context and record it.
Complete(e) ==
  /\ data' = [data EXCEPT ![e] = @ \cup Stage(e).writes]
  /\ results' = [results EXCEPT ![e] = Append(@, "completed")]
  /\ at' = [at EXCEPT ![e] = "stage"]
  /\ UNCHANGED <<attempt, slots>>

\* The attempt failed: back off and retry, or give up with this status.
Miss(e, status) ==
  IF attempt[e] < Attempts(Stage(e))
    THEN /\ at' = [at EXCEPT ![e] = "backoff"]
         /\ UNCHANGED <<data, results, attempt, slots>>
    ELSE Abort(e, status)

Retry(e) ==
  /\ at[e] = "backoff"
  /\ attempt' = [attempt EXCEPT ![e] = @ + 1]
  /\ at' = [at EXCEPT ![e] = "attempt"]
  /\ UNCHANGED <<request, data, results, slots, activeInf>>

Valid(e) == Stage(e).reads \subseteq data[e]

\* StageValidationError: a key is missing, or its value is refused (an empty
\* list of embeddings).  Never retried.
Reject(e) ==
  /\ at[e] = "attempt"
  /\ Stage(e).choosy \/ ~Valid(e)
  /\ Abort(e, "failed")
  /\ UNCHANGED <<request, activeInf>>

\* A stage that only computes: once it runs, its timeout cannot interrupt it.
Compute(e) ==
  /\ at[e] = "attempt"
  /\ Valid(e)
  /\ Stage(e).model = NoModel
  /\ Complete(e) \/ Miss(e, "failed")
  /\ UNCHANGED <<request, activeInf>>

-----------------------------------------------------------------------------
(* The model stages (face_detection, face_feature_extraction).             *)

StartInference(e) ==
  /\ at[e] = "attempt"
  /\ Valid(e)
  /\ Stage(e).model # NoModel
  /\ activeInf' = [activeInf EXCEPT ![Stage(e).model] = @ + 1]
  /\ at' = [at EXCEPT ![e] = "infer"]
  /\ UNCHANGED <<request, data, results, attempt, slots>>

\* Mutant: no `finally' around the call.
EndInferenceForgotten(e) == UNCHANGED activeInf

\* end_inference in the `finally': on return, on error and on cancellation.
EndInference(e) ==
  LET m == Stage(e).model IN
  activeInf' = [activeInf EXCEPT ![m] = IF @ > 0 THEN @ - 1 ELSE 0]

\* Triton's answer is decoded, or decoding it fails.
InferReturns(e) ==
  /\ at[e] = "infer"
  /\ EndInference(e)
  /\ Complete(e) \/ Miss(e, "failed")
  /\ UNCHANGED request

\* The call raises (connection lost, model not loaded, bad request).
InferFails(e) ==
  /\ at[e] = "infer"
  /\ EndInference(e)
  /\ Miss(e, "failed")
  /\ UNCHANGED request

\* wait_for cancels the stage and raises TimeoutError.
TimeOut(e) ==
  /\ at[e] = "infer"
  /\ EndInference(e)
  /\ Miss(e, "timed_out")
  /\ UNCHANGED request

\* The RPC is cancelled: CancelledError passes every `except Exception'.
Cancel(e) ==
  /\ \/ /\ at[e] = "queued"
        /\ at' = [at EXCEPT ![e] = "cancelled"]
        /\ UNCHANGED <<slots, activeInf>>
     \/ /\ at[e] = "infer"
        /\ EndInference(e)
        /\ End(e, "cancelled")
     \/ /\ at[e] \in {"attempt", "backoff"}
        /\ End(e, "cancelled")
        /\ UNCHANGED activeInf
  /\ UNCHANGED <<request, data, results, attempt>>

-----------------------------------------------------------------------------
Work(e) ==
  \/ GrantSlot(e) \/ Succeed(e) \/ UnknownStage(e) \/ NoAttempt(e)
  \/ StartStage(e)
  \/ Retry(e) \/ Reject(e) \/ Compute(e) \/ StartInference(e)
  \/ InferReturns(e) \/ InferFails(e) \/ TimeOut(e)

\* Every request that comes has been answered; nothing is left to do.
Finished ==
  /\ \A e \in Executions : at[e] \in Ended
  /\ UNCHANGED vars

Next ==
  \/ \E e \in Executions : Submit(e) \/ Work(e) \/ Cancel(e)
  \/ Finished

Spec == Init /\ [][Next]_vars

(***************************************************************************)
(* Fairness.  A coroutine that can run is run, and a queued one is woken   *)
(* when slots come free again and again (asyncio's waiter queue is first   *)
(* come first served).  Triton owes nothing: while a stage waits for it    *)
(* the timeout stays possible, and that is enough.                         *)
(***************************************************************************)
FairSpec == Spec /\ \A e \in Executions : SF_vars(Work(e))

-----------------------------------------------------------------------------
(* Properties.                                                             *)

\* The types of the state.
TypeOK ==
  /\ at \in [Executions -> Places]
  /\ pipeline \in [Executions -> Pipelines]
  /\ given \in [Executions -> Inputs]
  /\ data \in [Executions -> SUBSET Keys]
  /\ results \in [Executions -> Seq(StageStatus)]
  /\ attempt \in [Executions -> Nat]
  /\ slots \in 0..MaxConcurrentExecutions
  /\ activeInf \in [Models -> Nat]

\* max_concurrent_executions is respected, and no way out of an execution
\* (result, unknown stage, cancellation) loses or duplicates a slot.
SlotBound ==
  /\ Cardinality({e \in Executions : at[e] \in InSlot})
       = MaxConcurrentExecutions - slots
  /\ slots >= 0

\* active_inferences counts exactly the executions that are inside a call to
\* the model: timeouts, errors and cancellations included.  The lifecycle
\* loop's decision to unload rests on it.
InferenceBalance ==
  \A m \in Models :
    activeInf[m] =
      Cardinality({e \in Executions : at[e] = "infer" /\ Stage(e).model = m})

AllCompleted(s) == \A i \in 1..Len(s) : s[i] = "completed"

\* The result tells the truth: success means that every stage was completed
\* in order; a failure has one failing stage and it is the last recorded one,
\* or stopped in front of a stage of unknown type; only a stage without an
\* attempt crashes the request; any other execution has only completed stages
\* behind it.
OutcomeShape ==
  \A e \in Executions :
    /\ at[e] = "succeeded" => AllDone(e)
    /\ at[e] # "failed" => AllCompleted(results[e])
    /\ at[e] = "crashed" => ~AllDone(e) /\ Attempts(Stage(e)) < 1
    /\ at[e] = "failed" =>
         \/ AllCompleted(results[e]) /\ ~AllDone(e) /\ ~Stage(e).known
         \/ /\ results[e] # <<>>
            /\ AllCompleted(SubSeq(results[e], 1, Len(results[e]) - 1))
            /\ results[e][Len(results[e])] \in {"failed", "timed_out"}

\* The context is the request's inputs and what the completed stages wrote,
\* and nothing of a failed, retried or timed-out attempt.
DataFlow ==
  \A e \in Executions : at[e] # "new" =>
    data[e] = given[e] \cup
      UNION {Stages(e)[i].writes :
               i \in {j \in 1..Len(results[e]) : results[e][j] = "completed"}}

\* max_retries bounds the attempts at a stage, and an attempt calls the model
\* only with its inputs present.
AttemptsBounded ==
  \A e \in Executions : at[e] \in {"attempt", "infer", "backoff"} =>
    /\ attempt[e] >= 1
    /\ Stage(e).retries >= 0 => attempt[e] <= Stage(e).retries + 1
    /\ at[e] = "infer" => Stage(e).reads \subseteq data[e]

\* Every stage reads what the inputs or the stages before it provide.
WellWired(stages, keys) ==
  \A i \in 1..Len(stages) :
    stages[i].reads \subseteq
      keys \cup UNION {stages[j].writes : j \in 1..i - 1}

\* Whatever failed, was retried or waited meanwhile, a stage of a well-wired
\* pipeline finds every key it needs.
KeysFlow ==
  \A e \in Executions :
    at[e] = "attempt" /\ WellWired(Stages(e), given[e]) => Valid(e)

-----------------------------------------------------------------------------
(* What the executor promises: PipelineJobs.                               *)

\* The stages an execution went through: a stage that failed is the last one
\* of its results.
Passed(e) ==
  IF results[e] # <<>> /\ results[e][Len(results[e])] # "completed"
    THEN Len(results[e]) - 1
    ELSE Len(results[e])

Phase(e) ==
  IF at[e] \in {"new", "queued"} THEN "waiting"
  ELSE IF at[e] \in InSlot THEN "working"
  ELSE at[e]

\* execute builds the context out of the request's inputs.
Context(e) == IF at[e] = "new" THEN given[e] ELSE data[e]

jobPhase   == [e \in Executions |-> Phase(e)]
jobPassed  == [e \in Executions |-> Passed(e)]
jobContext == [e \in Executions |-> Context(e)]

Job == INSTANCE PipelineJobs WITH
  Jobs    <- Executions,
  Workers <- MaxConcurrentExecutions,
  asked   <- pipeline,
  brought <- given,
  phase   <- jobPhase,
  passed  <- jobPassed,
  context <- jobContext,
  free    <- slots

\* Whoever sends a request sees a job, and no semaphore, attempt, retry or
\* timeout: it waits for a slot, its stages take effect in order, each whole
\* or not at all, it ends once, in success exactly behind its last stage, and
\* every end gives one slot back.
JobSpec == Job!Spec
=============================================================================
