--------------------------- MODULE ExecutorProofs ---------------------------
(***************************************************************************)
(* Proofs about Executor for every finite set of executions, every list of *)
(* stages and every number of slots.                                       *)
(*                                                                         *)
(* Every action is a step of one execution, so each part of the invariant  *)
(* is shown in two halves: what the steps of an execution do to the state  *)
(* it speaks of (its "kind"), and that each kind preserves it.             *)
(***************************************************************************)
EXTENDS Executor, Counting, FiniteSetTheorems, TLAPS

\* An execution that works on a stage has one, of a registered type; while it
\* infers, the stage has a model and its inputs are there; and the attempts
\* are counted.
Position(e) ==
  /\ Len(results[e]) <= Len(Stages(e))
  /\ at[e] = "new" => results[e] = <<>>
  /\ at[e] \in {"attempt", "infer", "backoff"} =>
       /\ ~AllDone(e)
       /\ attempt[e] \in 1..Attempts(Stage(e))
  /\ at[e] = "backoff" => attempt[e] < Attempts(Stage(e))
  /\ at[e] = "infer" => Stage(e).model # NoModel /\ Valid(e)
PositionOK == \A e \in Executions : Position(e)

\* The inductive invariant.
IInv ==
  /\ TypeOK
  /\ PositionOK
  /\ SlotBound
  /\ InferenceBalance
  /\ DataFlow
  /\ OutcomeShape

-----------------------------------------------------------------------------
(* Lemmas about the pieces.                                                *)

Move(e) == Submit(e) \/ Work(e) \/ Cancel(e)

LEMMA NextByExecution == Next <=> (\E e \in Executions : Move(e)) \/ Finished
BY DEF Next, Move

\* The stage an execution stands at is a stage of its pipeline.
LEMMA StageTyped ==
  ASSUME TypeOK, PositionOK, NEW e \in Executions
  PROVE  /\ Len(results[e]) \in Nat /\ Len(Stages(e)) \in Nat
         /\ ~AllDone(e) =>
              /\ Stage(e).writes \subseteq Keys
              /\ Stage(e).model \in Models \cup {NoModel}
              /\ Stage(e).retries \in Int
              /\ Attempts(Stage(e)) \in Int
BY ExecutorAssumption DEF ConstantsOK, TypeOK, PositionOK, Position, AllDone,
                          Stage, Stages, Attempts

\* An execution inside the semaphore leaves room to give its slot back.
LEMMA SlotRoom ==
  ASSUME TypeOK, SlotBound, NEW e \in Executions, at[e] \in InSlot
  PROVE  slots + 1 \in 0..MaxConcurrentExecutions
<1> DEFINE S == {f \in Executions : at[f] \in InSlot}
<1>1. IsFiniteSet(S) /\ e \in S
  BY ExecutorAssumption, FS_Subset DEF ConstantsOK
<1>2. Cardinality(S) \in Nat /\ Cardinality(S) # 0
  BY <1>1, OneMoreOneLess
<1> QED
  BY <1>2, ExecutorAssumption DEF ConstantsOK, TypeOK, SlotBound

\* Everything a step of e changes of the executions is e's.
Others(e) ==
  /\ UNCHANGED request
  /\ \A f \in Executions \ {e} :
       /\ at'[f] = at[f] /\ attempt'[f] = attempt[f]
       /\ data'[f] = data[f] /\ results'[f] = results[f]

LEMMA OnlyOneMoves ==
  ASSUME TypeOK, NEW e \in Executions, Move(e)
  PROVE  Others(e)
<1> USE DEF TypeOK, Others, End, Abort, Complete, Miss
<1>1. CASE Submit(e) \/ Cancel(e) \/ GrantSlot(e) \/ Succeed(e)
             \/ UnknownStage(e) \/ NoAttempt(e) \/ StartStage(e) \/ Retry(e)
             \/ StartInference(e)
  BY <1>1 DEF Submit, Cancel, GrantSlot, Succeed, UnknownStage, NoAttempt,
              StartStage, Retry, StartInference
<1>2. CASE Reject(e) \/ Compute(e)
  BY <1>2 DEF Reject, Compute
<1>3. CASE InferReturns(e) \/ InferFails(e) \/ TimeOut(e)
  BY <1>3 DEF InferReturns, InferFails, TimeOut
<1> QED
  BY <1>1, <1>2, <1>3 DEF Move, Work

-----------------------------------------------------------------------------
(* Type correctness.                                                       *)

\* The three ways out of an attempt keep the state well typed.
LEMMA WaysOutTyped ==
  ASSUME TypeOK, PositionOK, SlotBound, NEW e \in Executions,
         at[e] \in {"attempt", "infer"},
         NEW status \in StageStatus,
         Complete(e) \/ Miss(e, status) \/ Abort(e, status)
  PROVE  /\ at' \in [Executions -> Places]
         /\ data' \in [Executions -> SUBSET Keys]
         /\ results' \in [Executions -> Seq(StageStatus)]
         /\ attempt' \in [Executions -> Nat]
         /\ slots' \in 0..MaxConcurrentExecutions
<1> USE DEF TypeOK, Places, InSlot, Ended
<1>1. Stage(e).writes \subseteq Keys
  BY StageTyped DEF PositionOK, Position
<1>2. CASE Complete(e)
  BY <1>1, <1>2 DEF Complete, StageStatus
<1>3. CASE Abort(e, status)
  BY <1>3, SlotRoom DEF Abort, End
<1>4. CASE Miss(e, status)
  <2>1. Abort(e, status)
          \/ /\ at' = [at EXCEPT ![e] = "backoff"]
             /\ UNCHANGED <<data, results, attempt, slots>>
    BY <1>4 DEF Miss
  <2> QED
    BY <1>3, <2>1
<1> QED
  BY <1>2, <1>3, <1>4

\* Leaving a call to a model keeps its counter a count.
LEMMA EndInferenceTyped ==
  ASSUME TypeOK, NEW e \in Executions, EndInference(e)
  PROVE  activeInf' \in [Models -> Nat]
<1>1. activeInf \in [Models -> Nat]
  BY DEF TypeOK
<1>2. PICK m : activeInf' = [activeInf EXCEPT
                               ![m] = IF @ > 0 THEN @ - 1 ELSE 0]
  BY DEF EndInference
<1>3. \A n \in Nat : (IF n > 0 THEN n - 1 ELSE 0) \in Nat
  OBVIOUS
<1> QED
  BY <1>1, <1>2, <1>3

LEMMA TypeStep ==
  TypeOK /\ PositionOK /\ SlotBound /\ [Next]_vars => TypeOK'
<1> SUFFICES ASSUME TypeOK, PositionOK, SlotBound, [Next]_vars PROVE TypeOK'
  OBVIOUS
<1>1. ASSUME NEW e \in Executions, Move(e) PROVE TypeOK'
  <2> USE DEF TypeOK, Places, InSlot, Ended, request
  <2>1. CASE Submit(e) \/ GrantSlot(e)
    <3>1. given[e] \in SUBSET Keys
      BY ExecutorAssumption DEF ConstantsOK
    <3>2. slots > 0 => slots - 1 \in 0..MaxConcurrentExecutions
      BY ExecutorAssumption DEF ConstantsOK
    <3> QED
      BY <2>1, <3>1, <3>2 DEF Submit, GrantSlot, SlotIsFree
  <2>2. CASE Succeed(e) \/ UnknownStage(e) \/ NoAttempt(e)
    BY <2>2, SlotRoom DEF Succeed, UnknownStage, NoAttempt, End
  <2>3. CASE StartStage(e) \/ Retry(e)
    <3>1. \E n \in Nat : attempt' = [attempt EXCEPT ![e] = n]
      BY <2>3 DEF StartStage, Retry
    <3>2. /\ at' = [at EXCEPT ![e] = "attempt"]
          /\ UNCHANGED <<request, data, results, slots, activeInf>>
      BY <2>3 DEF StartStage, Retry
    <3> QED
      BY <3>1, <3>2
  <2>4. CASE Reject(e) \/ Compute(e)
    BY <2>4, WaysOutTyped DEF Reject, Compute, StageStatus
  <2>5. CASE StartInference(e)
    <3>1. Stage(e).model \in Models
      BY <2>5, StageTyped DEF StartInference, PositionOK, Position
    <3> QED
      BY <2>5, <3>1 DEF StartInference
  <2>6. CASE InferReturns(e) \/ InferFails(e) \/ TimeOut(e)
    <3>1. at[e] = "infer" /\ EndInference(e) /\ UNCHANGED request
      BY <2>6 DEF InferReturns, InferFails, TimeOut
    <3>2. \E status \in StageStatus : Complete(e) \/ Miss(e, status)
      BY <2>6 DEF InferReturns, InferFails, TimeOut, StageStatus
    <3> QED
      BY <3>1, <3>2, WaysOutTyped, EndInferenceTyped
  <2>7. CASE Cancel(e)
    BY <2>7, SlotRoom, EndInferenceTyped DEF Cancel, End
  <2> QED
    BY <1>1, <2>1, <2>2, <2>3, <2>4, <2>5, <2>6, <2>7 DEF Move, Work
<1>2. CASE UNCHANGED vars
  BY <1>2 DEF TypeOK, vars, request
<1> QED
  BY <1>1, <1>2, NextByExecution DEF Finished

-----------------------------------------------------------------------------
(* The semaphore.                                                          *)

SlotHolders == {e \in Executions : at[e] \in InSlot}

\* What a step of e may do to the semaphore.
KeepSlot(e) == (at[e] \in InSlot <=> at'[e] \in InSlot) /\ UNCHANGED slots
TakeSlot(e) ==
  /\ at[e] \notin InSlot /\ at'[e] \in InSlot
  /\ slots > 0 /\ slots' = slots - 1
GiveSlot(e) ==
  /\ at[e] \in InSlot /\ at'[e] \notin InSlot
  /\ slots' = slots + 1

LEMMA SlotKinds ==
  ASSUME TypeOK, NEW e \in Executions, Move(e)
  PROVE  KeepSlot(e) \/ TakeSlot(e) \/ GiveSlot(e)
<1> USE DEF TypeOK, InSlot, KeepSlot, TakeSlot, GiveSlot, End, Abort, Complete,
            Miss
<1>1. CASE Submit(e) \/ GrantSlot(e) \/ Succeed(e) \/ UnknownStage(e)
             \/ NoAttempt(e) \/ StartStage(e) \/ Retry(e) \/ StartInference(e)
  BY <1>1 DEF Submit, GrantSlot, SlotIsFree, Succeed, UnknownStage,
              NoAttempt, StartStage, Retry, StartInference
<1>2. CASE Reject(e) \/ Compute(e)
  BY <1>2 DEF Reject, Compute
<1>3. CASE InferReturns(e) \/ InferFails(e) \/ TimeOut(e)
  BY <1>3 DEF InferReturns, InferFails, TimeOut
<1>4. CASE Cancel(e)
  BY <1>4 DEF Cancel
<1> QED
  BY <1>1, <1>2, <1>3, <1>4 DEF Move, Work

LEMMA SlotStep == TypeOK /\ SlotBound /\ [Next]_vars => SlotBound'
<1> SUFFICES ASSUME TypeOK, SlotBound, [Next]_vars PROVE SlotBound'
  OBVIOUS
<1>1. IsFiniteSet(SlotHolders) /\ Cardinality(SlotHolders) \in Nat
  BY ExecutorAssumption, FS_Subset, FS_CardinalityType
     DEF ConstantsOK, SlotHolders
<1>2. slots \in Nat /\ MaxConcurrentExecutions \in Nat
  BY ExecutorAssumption DEF ConstantsOK, TypeOK
<1>3. ASSUME NEW e \in Executions, Move(e) PROVE SlotBound'
  <2>1. \A f \in Executions \ {e} : at'[f] = at[f]
    BY <1>3, OnlyOneMoves DEF Others
  <2>2. CASE KeepSlot(e)
    <3>1. SlotHolders' = SlotHolders
      BY <2>1, <2>2 DEF KeepSlot, SlotHolders
    <3> QED
      BY <2>2, <3>1 DEF KeepSlot, SlotBound, SlotHolders
  <2>3. CASE TakeSlot(e)
    <3>1. SlotHolders' = SlotHolders \cup {e} /\ e \notin SlotHolders
      BY <2>1, <2>3 DEF TakeSlot, SlotHolders
    <3>2. Cardinality(SlotHolders') = Cardinality(SlotHolders) + 1
      BY <1>1, <3>1, OneMoreOneLess
    <3> QED
      BY <1>1, <1>2, <2>3, <3>2 DEF TakeSlot, SlotBound, SlotHolders
  <2>4. CASE GiveSlot(e)
    <3>1. SlotHolders' = SlotHolders \ {e} /\ e \in SlotHolders
      BY <2>1, <2>4 DEF GiveSlot, SlotHolders
    <3>2. Cardinality(SlotHolders') = Cardinality(SlotHolders) - 1
      BY <1>1, <3>1, OneMoreOneLess
    <3> QED
      BY <1>1, <1>2, <2>4, <3>2 DEF GiveSlot, SlotBound, SlotHolders
  <2> QED
    BY <1>3, <2>2, <2>3, <2>4, SlotKinds
<1>4. CASE UNCHANGED vars
  BY <1>4 DEF SlotBound, vars
<1> QED
  BY <1>3, <1>4, NextByExecution DEF Finished

-----------------------------------------------------------------------------
(* The inference counters.                                                 *)

Inferring(m) == {e \in Executions : at[e] = "infer" /\ Stage(e).model = m}

\* What a step of e may do to the counters.
NoInference(e) ==
  at[e] # "infer" /\ at'[e] # "infer" /\ UNCHANGED activeInf
EntersInference(e) ==
  /\ at[e] # "infer" /\ at'[e] = "infer"
  /\ UNCHANGED results
  /\ activeInf' = [activeInf EXCEPT ![Stage(e).model] = @ + 1]
LeavesInference(e) ==
  at[e] = "infer" /\ at'[e] # "infer" /\ EndInference(e)

LEMMA InferenceKinds ==
  ASSUME TypeOK, NEW e \in Executions, Move(e)
  PROVE  NoInference(e) \/ EntersInference(e) \/ LeavesInference(e)
<1> USE DEF TypeOK, NoInference, EntersInference, LeavesInference, End, Abort,
            Complete, Miss
<1>1. CASE Submit(e) \/ GrantSlot(e) \/ Succeed(e) \/ UnknownStage(e)
             \/ NoAttempt(e) \/ StartStage(e) \/ Retry(e) \/ StartInference(e)
  BY <1>1 DEF Submit, GrantSlot, Succeed, UnknownStage, NoAttempt,
              StartStage, Retry, StartInference
<1>2. CASE Reject(e) \/ Compute(e)
  BY <1>2 DEF Reject, Compute
<1>3. CASE InferReturns(e) \/ InferFails(e) \/ TimeOut(e)
  BY <1>3 DEF InferReturns, InferFails, TimeOut
<1>4. CASE Cancel(e)
  BY <1>4 DEF Cancel
<1> QED
  BY <1>1, <1>2, <1>3, <1>4 DEF Move, Work

\* The stage of an execution depends on its own results alone.
LEMMA StageFrame ==
  ASSUME TypeOK, NEW f \in Executions, results'[f] = results[f],
         UNCHANGED request
  PROVE  /\ Stage(f)' = Stage(f) /\ Stages(f)' = Stages(f)
         /\ AllDone(f)' <=> AllDone(f)
BY DEF Stage, Stages, AllDone, request

LEMMA InferenceStep ==
  TypeOK /\ PositionOK /\ InferenceBalance /\ [Next]_vars => InferenceBalance'
<1> SUFFICES ASSUME TypeOK, PositionOK, InferenceBalance, [Next]_vars
             PROVE  InferenceBalance'
  OBVIOUS
<1>1. \A m \in Models : /\ activeInf[m] = Cardinality(Inferring(m))
                        /\ activeInf[m] \in Nat /\ IsFiniteSet(Inferring(m))
  BY ExecutorAssumption, FS_Subset
     DEF ConstantsOK, TypeOK, InferenceBalance, Inferring
<1>2. ASSUME NEW e \in Executions, Move(e), NEW m \in Models
      PROVE  activeInf'[m] = Cardinality(Inferring(m)')
  <2>1. \A f \in Executions \ {e} :
          at'[f] = at[f] /\ Stage(f)' = Stage(f)
    BY <1>2, OnlyOneMoves, StageFrame DEF Others
  <2>2. CASE NoInference(e)
    <3>1. Inferring(m)' = Inferring(m)
      BY <2>1, <2>2 DEF NoInference, Inferring
    <3> QED
      BY <1>1, <2>2, <3>1 DEF NoInference
  <2>3. CASE EntersInference(e)
    <3>1. Stage(e)' = Stage(e)
      BY <1>2, <2>3, OnlyOneMoves, StageFrame DEF EntersInference, Others
    <3>2. CASE Stage(e).model = m
      <4>1. Inferring(m)' = Inferring(m) \cup {e} /\ e \notin Inferring(m)
        BY <2>1, <2>3, <3>1, <3>2 DEF EntersInference, Inferring
      <4>2. activeInf'[m] = activeInf[m] + 1
        BY <2>3, <3>2 DEF EntersInference, TypeOK
      <4> QED
        BY <1>1, <4>1, <4>2, OneMoreOneLess
    <3>3. CASE Stage(e).model # m
      <4>1. Inferring(m)' = Inferring(m)
        BY <2>1, <2>3, <3>1, <3>3 DEF EntersInference, Inferring
      <4>2. activeInf'[m] = activeInf[m]
        BY <2>3, <3>3 DEF EntersInference, TypeOK
      <4> QED
        BY <1>1, <4>1, <4>2
    <3> QED
      BY <3>2, <3>3
  <2>4. CASE LeavesInference(e)
    <3>1. CASE Stage(e).model = m
      <4>1. Inferring(m)' = Inferring(m) \ {e} /\ e \in Inferring(m)
        BY <2>1, <2>4, <3>1 DEF LeavesInference, Inferring
      <4>2. activeInf'[m] = IF activeInf[m] > 0 THEN activeInf[m] - 1 ELSE 0
        BY <2>4, <3>1 DEF LeavesInference, EndInference, TypeOK
      <4> QED
        BY <1>1, <4>1, <4>2, OneMoreOneLess
    <3>2. CASE Stage(e).model # m
      <4>1. Inferring(m)' = Inferring(m)
        BY <2>1, <2>4, <3>2 DEF LeavesInference, Inferring
      <4>2. activeInf'[m] = activeInf[m]
        BY <2>4, <3>2 DEF LeavesInference, EndInference, TypeOK
      <4> QED
        BY <1>1, <4>1, <4>2
    <3> QED
      BY <3>1, <3>2
  <2> QED
    BY <1>2, <2>2, <2>3, <2>4, InferenceKinds
<1>3. CASE UNCHANGED vars
  BY <1>3 DEF InferenceBalance, vars, request, Stage, Stages
<1> QED
  BY <1>2, <1>3, NextByExecution DEF Finished, InferenceBalance, Inferring

-----------------------------------------------------------------------------
(* The position of an execution in its pipeline.                           *)

\* The three ways out of an attempt: the stage is recorded or tried again.
LEMMA WaysOutPositioned ==
  ASSUME TypeOK, PositionOK, NEW e \in Executions, UNCHANGED request,
         at[e] \in {"attempt", "infer"}, NEW status \in StageStatus,
         Complete(e) \/ Miss(e, status) \/ Abort(e, status)
  PROVE  Position(e)'
<1> USE StageTyped DEF TypeOK, Position
<1>1. Position(e) /\ ~AllDone(e)
  BY DEF PositionOK
<1>2. CASE /\ results'[e] \in {Append(results[e], s) : s \in StageStatus}
           /\ at'[e] \in {"stage", "failed"}
  <2>1. Len(results'[e]) = Len(results[e]) + 1
    BY <1>2
  <2>2. Stages(e)' = Stages(e)
    BY DEF Stages, request
  <2> QED
    BY <1>1, <1>2, <2>1, <2>2 DEF AllDone
<1>3. CASE /\ UNCHANGED <<results, attempt>>
           /\ at'[e] = "backoff" /\ attempt[e] < Attempts(Stage(e))
  <2>1. Stage(e)' = Stage(e) /\ Stages(e)' = Stages(e) /\ ~AllDone(e)'
    BY <1>1, <1>3, StageFrame
  <2>2. Attempts(Stage(e))' = Attempts(Stage(e))
    BY <2>1 DEF Attempts
  <2> QED
    BY <1>1, <1>3, <2>1, <2>2
<1> QED
  BY <1>2, <1>3 DEF Complete, Miss, Abort, End, StageStatus

LEMMA PositionStep == TypeOK /\ PositionOK /\ [Next]_vars => PositionOK'
<1> SUFFICES ASSUME TypeOK, PositionOK, [Next]_vars PROVE PositionOK'
  OBVIOUS
<1>1. ASSUME NEW f \in Executions, UNCHANGED request, UNCHANGED at[f],
             UNCHANGED results[f], UNCHANGED attempt[f], UNCHANGED data[f]
      PROVE  Position(f)'
  <2>1. /\ Stage(f)' = Stage(f) /\ Stages(f)' = Stages(f)
        /\ AllDone(f)' <=> AllDone(f)
    BY <1>1, StageFrame
  <2>2. Attempts(Stage(f))' = Attempts(Stage(f))
    BY <2>1 DEF Attempts
  <2> QED
    BY <1>1, <2>1, <2>2 DEF PositionOK, Position, Valid
<1>2. ASSUME NEW e \in Executions, Move(e) PROVE Position(e)'
  <2>1. UNCHANGED request /\ Position(e)
    BY <1>2, OnlyOneMoves DEF Others, PositionOK
  <2>2. UNCHANGED results =>
          /\ Stage(e)' = Stage(e) /\ Stages(e)' = Stages(e)
          /\ AllDone(e)' <=> AllDone(e)
          /\ Attempts(Stage(e))' = Attempts(Stage(e))
    BY <2>1, StageFrame DEF Attempts
  <2>3. CASE Submit(e) \/ GrantSlot(e) \/ Succeed(e) \/ UnknownStage(e)
               \/ NoAttempt(e) \/ Cancel(e)
    BY <2>1, <2>2, <2>3 DEF TypeOK, Position, Submit, GrantSlot, Succeed,
                            UnknownStage, NoAttempt, Cancel, End
  <2>4. CASE StartStage(e)
    BY <2>1, <2>2, <2>4, StageTyped DEF TypeOK, Position, StartStage
  <2>5. CASE Retry(e)
    BY <2>1, <2>2, <2>5, StageTyped DEF TypeOK, Position, Retry
  <2>6. CASE StartInference(e)
    BY <2>1, <2>2, <2>6 DEF TypeOK, Position, StartInference, Valid
  <2>7. CASE Reject(e) \/ Compute(e) \/ InferReturns(e) \/ InferFails(e)
               \/ TimeOut(e)
    BY <2>1, <2>7, WaysOutPositioned DEF Reject, Compute, InferReturns,
       InferFails, TimeOut, StageStatus
  <2> QED
    BY <1>2, <2>3, <2>4, <2>5, <2>6, <2>7 DEF Move, Work
<1>3. ASSUME NEW e \in Executions, Move(e) PROVE PositionOK'
  BY <1>1, <1>2, <1>3, OnlyOneMoves DEF PositionOK, Others
<1>4. CASE UNCHANGED vars
  <2>1. /\ UNCHANGED request
        /\ \A f \in Executions : /\ UNCHANGED at[f] /\ UNCHANGED results[f]
                                 /\ UNCHANGED attempt[f] /\ UNCHANGED data[f]
    BY <1>4 DEF vars, request
  <2> QED
    BY <1>1, <2>1 DEF PositionOK
<1> QED
  BY <1>3, <1>4, NextByExecution DEF Finished

-----------------------------------------------------------------------------
(* What flows through the context, and the outcome.                        *)

\* The positions of the completed stages in a list of results.
Completed(r) == {j \in 1..Len(r) : r[j] = "completed"}

\* Recording a stage adds its position when it was completed, and nothing
\* else; the results before it stay.
LEMMA Recorded ==
  ASSUME NEW r \in Seq(StageStatus), NEW s \in StageStatus
  PROVE  /\ Append(r, s) \in Seq(StageStatus)
         /\ Len(Append(r, s)) = Len(r) + 1
         /\ Append(r, s)[Len(r) + 1] = s
         /\ \A j \in 1..Len(r) : Append(r, s)[j] = r[j]
         /\ SubSeq(Append(r, s), 1, Len(r)) = r
         /\ s = "completed" =>
              Completed(Append(r, s)) = Completed(r) \cup {Len(r) + 1}
         /\ s # "completed" => Completed(Append(r, s)) = Completed(r)
<1>1. /\ Len(r) \in Nat /\ Append(r, s) \in Seq(StageStatus)
      /\ Len(Append(r, s)) = Len(r) + 1 /\ Append(r, s)[Len(r) + 1] = s
      /\ \A j \in 1..Len(r) : Append(r, s)[j] = r[j]
  OBVIOUS
<1>2. SubSeq(Append(r, s), 1, Len(r)) = r
  OBVIOUS
<1> QED
  BY <1>1, <1>2 DEF Completed

\* What the completed stages of an execution wrote.
Written(e) == UNION {Stages(e)[i].writes : i \in Completed(results[e])}

Flow(e) == at[e] # "new" => data[e] = given[e] \cup Written(e)

LEMMA FlowMeaning ==
  /\ DataFlow <=> \A e \in Executions : Flow(e)
  /\ DataFlow' <=> \A e \in Executions : Flow(e)'
BY DEF DataFlow, Flow, Written, Completed

LEMMA FlowStep ==
  TypeOK /\ PositionOK /\ DataFlow /\ [Next]_vars => DataFlow'
<1> SUFFICES ASSUME TypeOK, PositionOK, DataFlow, [Next]_vars PROVE DataFlow'
  OBVIOUS
<1>1. ASSUME NEW f \in Executions, UNCHANGED request, UNCHANGED at[f],
             UNCHANGED results[f], UNCHANGED data[f]
      PROVE  Flow(f)'
  BY <1>1, FlowMeaning DEF Flow, Written, Stages, request
<1>2. ASSUME NEW e \in Executions, Move(e) PROVE Flow(e)'
  <2>1. UNCHANGED request /\ Flow(e) /\ Stages(e)' = Stages(e)
    BY <1>2, OnlyOneMoves, FlowMeaning DEF Others, Stages, request
  <2>2. CASE Submit(e)
    <3>1. results'[e] = <<>> /\ data'[e] = given'[e]
      BY <2>2 DEF Submit, PositionOK, Position, TypeOK, request
    <3>2. Written(e)' = {}
      BY <3>1 DEF Written, Completed
    <3> QED
      BY <3>1, <3>2 DEF Flow
  <2>3. CASE at[e] # "new" /\ UNCHANGED <<data, results>>
    BY <2>1, <2>3 DEF Flow, Written, request
  <2>4. ASSUME NEW s \in StageStatus, s # "completed", at[e] # "new",
               Abort(e, s)
        PROVE  Flow(e)'
    <3>1. results'[e] = Append(results[e], s) /\ UNCHANGED data
      BY <2>4 DEF Abort, TypeOK
    <3>2. Written(e)' = Written(e)
      BY <2>1, <2>4, <3>1, Recorded DEF Written, TypeOK
    <3> QED
      BY <2>1, <2>4, <3>1, <3>2 DEF Flow, request
  <2>5. ASSUME at[e] \in {"attempt", "infer"}, Complete(e) PROVE Flow(e)'
    <3>1. /\ results'[e] = Append(results[e], "completed")
          /\ data'[e] = data[e] \cup Stage(e).writes
      BY <2>5 DEF Complete, TypeOK
    <3>2. Completed(results'[e]) = Completed(results[e])
                                     \cup {Len(results[e]) + 1}
      BY <3>1, Recorded DEF TypeOK, StageStatus
    <3>3. Written(e)' = Written(e) \cup Stage(e).writes
      BY <2>1, <3>2 DEF Written, Stage
    <3> QED
      BY <2>1, <2>5, <3>1, <3>3 DEF Flow, request
  <2>6. CASE \E s \in StageStatus : s # "completed" /\ Miss(e, s)
                                      /\ at[e] # "new"
    BY <2>3, <2>4, <2>6 DEF Miss
  <2>7. CASE Reject(e) \/ Compute(e)
    BY <2>4, <2>5, <2>6, <2>7 DEF Reject, Compute, StageStatus
  <2>8. CASE InferReturns(e) \/ InferFails(e) \/ TimeOut(e)
    BY <2>5, <2>6, <2>8 DEF InferReturns, InferFails, TimeOut, StageStatus
  <2>9. CASE GrantSlot(e) \/ Succeed(e) \/ UnknownStage(e) \/ NoAttempt(e)
               \/ StartStage(e) \/ Retry(e) \/ StartInference(e) \/ Cancel(e)
    BY <2>3, <2>9 DEF GrantSlot, Succeed, UnknownStage, NoAttempt,
                      StartStage, Retry, StartInference, Cancel
  <2> QED
    BY <1>2, <2>2, <2>7, <2>8, <2>9 DEF Move, Work
<1>3. ASSUME NEW e \in Executions, Move(e) PROVE \A f \in Executions : Flow(f)'
  BY <1>1, <1>2, <1>3, OnlyOneMoves DEF Others
<1>4. CASE UNCHANGED vars
  <2>1. /\ UNCHANGED request
        /\ \A f \in Executions : /\ UNCHANGED at[f] /\ UNCHANGED results[f]
                                 /\ UNCHANGED data[f]
    BY <1>4 DEF vars, request
  <2> QED
    BY <1>1, <2>1, FlowMeaning
<1> QED
  BY <1>3, <1>4, NextByExecution, FlowMeaning DEF Finished

Outcome(e) ==
  /\ at[e] = "succeeded" => AllDone(e)
  /\ at[e] # "failed" => AllCompleted(results[e])
  /\ at[e] = "crashed" => ~AllDone(e) /\ Attempts(Stage(e)) < 1
  /\ at[e] = "failed" =>
       \/ AllCompleted(results[e]) /\ ~AllDone(e) /\ ~Stage(e).known
       \/ /\ results[e] # <<>>
          /\ AllCompleted(SubSeq(results[e], 1, Len(results[e]) - 1))
          /\ results[e][Len(results[e])] \in {"failed", "timed_out"}

LEMMA OutcomeMeaning ==
  /\ OutcomeShape <=> \A e \in Executions : Outcome(e)
  /\ OutcomeShape' <=> \A e \in Executions : Outcome(e)'
BY DEF OutcomeShape, Outcome

LEMMA OutcomeStep ==
  TypeOK /\ PositionOK /\ OutcomeShape /\ [Next]_vars => OutcomeShape'
<1> SUFFICES ASSUME TypeOK, PositionOK, OutcomeShape, [Next]_vars
             PROVE  OutcomeShape'
  OBVIOUS
<1>1. ASSUME NEW f \in Executions, UNCHANGED request, UNCHANGED at[f],
             UNCHANGED results[f]
      PROVE  Outcome(f)'
  BY <1>1, OutcomeMeaning, StageFrame DEF Outcome, Attempts
<1>2. ASSUME NEW e \in Executions, Move(e) PROVE Outcome(e)'
  <2>1. UNCHANGED request /\ Outcome(e) /\ Stages(e)' = Stages(e)
    BY <1>2, OnlyOneMoves, OutcomeMeaning DEF Others, Stages, request
  <2>2. UNCHANGED results =>
          /\ Stage(e)' = Stage(e) /\ (AllDone(e)' <=> AllDone(e))
    BY <2>1, StageFrame
  <2>3. CASE /\ at[e] # "failed"
             /\ at'[e] \notin {"succeeded", "failed", "crashed"}
             /\ UNCHANGED results
    BY <2>1, <2>3 DEF Outcome
  <2>4. ASSUME NEW s \in {"failed", "timed_out"}, at[e] # "failed",
               Abort(e, s)
        PROVE  Outcome(e)'
    <3>1. results'[e] = Append(results[e], s) /\ at'[e] = "failed"
      BY <2>4 DEF Abort, End, TypeOK
    <3>2. /\ Len(results'[e]) = Len(results[e]) + 1 /\ Len(results[e]) \in Nat
          /\ results'[e][Len(results[e]) + 1] = s
          /\ SubSeq(results'[e], 1, Len(results[e])) = results[e]
      BY <3>1, Recorded DEF TypeOK, StageStatus
    <3>3. AllCompleted(results[e]) /\ Len(results'[e]) - 1 = Len(results[e])
      BY <2>1, <2>4, <3>2 DEF Outcome
    <3>4. results'[e] # <<>> /\ results'[e][Len(results'[e])] = s
      BY <3>2
    <3>5. AllCompleted(SubSeq(results'[e], 1, Len(results'[e]) - 1))
      BY <3>2, <3>3
    <3> QED
      BY <2>4, <3>1, <3>4, <3>5 DEF Outcome
  <2>5. ASSUME at[e] \in {"attempt", "infer"}, Complete(e) PROVE Outcome(e)'
    <3>1. results'[e] = Append(results[e], "completed") /\ at'[e] = "stage"
      BY <2>5 DEF Complete, TypeOK
    <3>2. AllCompleted(results'[e])
      BY <2>1, <2>5, <3>1, Recorded DEF Outcome, AllCompleted, TypeOK,
                                       StageStatus
    <3> QED
      BY <3>1, <3>2 DEF Outcome
  <2>6. CASE \E s \in {"failed", "timed_out"} : Miss(e, s) /\ at[e] # "failed"
    BY <2>3, <2>4, <2>6 DEF Miss, TypeOK
  <2>7. CASE Reject(e) \/ Compute(e)
    BY <2>4, <2>5, <2>6, <2>7 DEF Reject, Compute
  <2>8. CASE InferReturns(e) \/ InferFails(e) \/ TimeOut(e)
    BY <2>5, <2>6, <2>8 DEF InferReturns, InferFails, TimeOut
  <2>9. CASE Submit(e) \/ GrantSlot(e) \/ StartStage(e) \/ Retry(e)
               \/ StartInference(e) \/ Cancel(e)
    BY <2>3, <2>9 DEF Submit, GrantSlot, StartStage, Retry, StartInference,
                      Cancel, End, TypeOK
  <2>10. CASE Succeed(e) \/ UnknownStage(e) \/ NoAttempt(e)
    BY <2>1, <2>2, <2>10 DEF Succeed, UnknownStage, NoAttempt, End, TypeOK,
                             Outcome, Attempts
  <2> QED
    BY <1>2, <2>7, <2>8, <2>9, <2>10 DEF Move, Work
<1>3. ASSUME NEW e \in Executions, Move(e)
      PROVE  \A f \in Executions : Outcome(f)'
  BY <1>1, <1>2, <1>3, OnlyOneMoves DEF Others
<1>4. CASE UNCHANGED vars
  <2>1. /\ UNCHANGED request
        /\ \A f \in Executions : UNCHANGED at[f] /\ UNCHANGED results[f]
    BY <1>4 DEF vars, request
  <2> QED
    BY <1>1, <2>1, OutcomeMeaning
<1> QED
  BY <1>3, <1>4, NextByExecution, OutcomeMeaning DEF Finished

-----------------------------------------------------------------------------
(* The theorems.                                                           *)

LEMMA Initially == Init => IInv
<1> SUFFICES ASSUME Init PROVE IInv
  OBVIOUS
<1> USE DEF Init
<1>1. TypeOK
  BY ExecutorAssumption DEF ConstantsOK, TypeOK, Places
<1>2. PositionOK
  BY ExecutorAssumption DEF ConstantsOK, PositionOK, Position, Stages
<1>3. SlotBound
  <2>1. SlotHolders = {}
    BY DEF SlotHolders, InSlot
  <2>2. slots = MaxConcurrentExecutions /\ slots \in Nat
    BY ExecutorAssumption DEF ConstantsOK
  <2> HIDE DEF Init
  <2> QED
    BY <2>1, <2>2, FS_EmptySet DEF SlotBound, SlotHolders
<1>4. InferenceBalance
  <2>1. \A m \in Models : Inferring(m) = {}
    BY DEF Inferring
  <2> QED
    BY <2>1, FS_EmptySet DEF InferenceBalance, Inferring
<1>5. DataFlow /\ OutcomeShape
  BY DEF DataFlow, OutcomeShape, AllCompleted
<1> QED
  BY <1>1, <1>2, <1>3, <1>4, <1>5 DEF IInv

\* The inductive invariant holds in every reachable state, for every set of
\* executions, every pipeline and every number of slots.
THEOREM Invariance == Spec => []IInv
<1>1. IInv /\ [Next]_vars => IInv'
  BY TypeStep, PositionStep, SlotStep, InferenceStep, FlowStep, OutcomeStep
     DEF IInv
<1> QED
  BY Initially, <1>1, PTL DEF Spec

\* The state of the executor stays well typed.
THEOREM TypeCorrect == Spec => []TypeOK
BY Invariance, PTL DEF IInv

\* max_concurrent_executions is respected, and every way out of an execution
\* gives exactly one slot back.
THEOREM SlotsBounded == Spec => []SlotBound
BY Invariance, PTL DEF IInv

\* active_inferences counts the calls in progress exactly, so it returns to
\* zero whatever times out, fails or is cancelled.
THEOREM InferencesBalanced == Spec => []InferenceBalance
BY Invariance, PTL DEF IInv

\* The context holds the inputs and what completed stages wrote, and nothing
\* of an attempt that failed or timed out.
THEOREM ContextExact == Spec => []DataFlow
BY Invariance, PTL DEF IInv

\* A PipelineResult says what happened: success only after every stage, a
\* failure right behind the one stage that failed or in front of an unknown
\* stage type.
THEOREM OutcomeTruthful == Spec => []OutcomeShape
BY Invariance, PTL DEF IInv

\* The attempts at a stage are within max_retries + 1, and a model is called
\* with the stage's inputs present.
THEOREM RetriesBounded == Spec => []AttemptsBounded
<1>1. TypeOK /\ PositionOK => AttemptsBounded
  BY StageTyped DEF AttemptsBounded, PositionOK, Position, Attempts, Valid
<1> QED
  BY <1>1, Invariance, PTL DEF IInv

\* A stage of a pipeline whose keys are wired from its inputs on is never
\* refused for a missing key, whichever pipeline it is.
THEOREM KeysFound == Spec => []KeysFlow
<1>1. ASSUME IInv, NEW e \in Executions, at[e] = "attempt",
             WellWired(Stages(e), given[e])
      PROVE  Valid(e)
  <2> DEFINE n == Len(results[e])
  <2>1. n \in Nat /\ Len(Stages(e)) \in Nat /\ n + 1 \in 1..Len(Stages(e))
    BY <1>1, StageTyped DEF IInv, PositionOK, Position, AllDone
  <2>2. \A j \in 1..n : results[e][j] = "completed"
    BY <1>1 DEF IInv, OutcomeShape, AllCompleted
  <2>3. data[e] = given[e] \cup UNION {Stages(e)[i].writes : i \in 1..n}
    <3>1. {j \in 1..n : results[e][j] = "completed"} = 1..n
      BY <2>2
    <3> QED
      BY <1>1, <3>1 DEF IInv, DataFlow
  <2>4. Stage(e).reads \subseteq
          given[e] \cup UNION {Stages(e)[j].writes : j \in 1..(n + 1) - 1}
    BY <1>1, <2>1 DEF WellWired, Stage
  <2>5. (n + 1) - 1 = n
    BY <2>1
  <2> QED
    BY <2>3, <2>4, <2>5 DEF Valid
<1>2. IInv => KeysFlow
  BY <1>1 DEF KeysFlow
<1> QED
  BY <1>2, Invariance, PTL

-----------------------------------------------------------------------------
(* The executor implements PipelineJobs.  A step of an execution is the    *)
(* same step of its job, or none the requester sees.                       *)

\* The jobs of the others do not change.
LEMMA JobFrame ==
  ASSUME NEW e \in Executions, Others(e)
  PROVE  /\ jobPhase' = [jobPhase EXCEPT ![e] = Phase(e)']
         /\ jobPassed' = [jobPassed EXCEPT ![e] = Passed(e)']
         /\ jobContext' = [jobContext EXCEPT ![e] = Context(e)']
         /\ UNCHANGED <<pipeline, given>>
<1>1. UNCHANGED <<pipeline, given>>
  BY DEF Others, request
<1>2. ASSUME NEW f \in Executions, f # e
      PROVE  Phase(f)' = Phase(f) /\ Passed(f)' = Passed(f)
               /\ Context(f)' = Context(f)
  BY <1>2 DEF Others, request, Phase, Passed, Context
<1> QED
  BY <1>1, <1>2 DEF jobPhase, jobPassed, jobContext

\* What the requester sees of an execution that has a slot.
LEMMA Working ==
  ASSUME IInv, NEW e \in Executions, at[e] \in InSlot
  PROVE  /\ jobPhase[e] = "working"
         /\ jobPassed[e] = Len(results[e]) /\ Len(results[e]) \in Nat
         /\ jobContext[e] = data[e]
         /\ Len(Stages(e)) \in Nat
         /\ jobPassed[e] = Len(Stages(e)) <=> AllDone(e)
         /\ Len(results[e]) <= Len(Stages(e))
         /\ at[e] # "stage" => ~AllDone(e)
<1>1. AllCompleted(results[e])
  BY DEF IInv, OutcomeShape, InSlot
<1>2. Len(results[e]) \in Nat /\ Len(Stages(e)) \in Nat
  BY StageTyped DEF IInv
<1>3. Passed(e) = Len(results[e])
  BY <1>1, <1>2 DEF Passed, AllCompleted, IInv, TypeOK
<1>4. Phase(e) = "working" /\ Context(e) = data[e]
  BY DEF Phase, Context, InSlot
<1>5. /\ Len(results[e]) <= Len(Stages(e))
      /\ at[e] # "stage" => ~AllDone(e)
  BY DEF IInv, PositionOK, Position, InSlot
<1> QED
  BY <1>2, <1>3, <1>4, <1>5 DEF jobPhase, jobPassed, jobContext, AllDone

\* A step inside the slot that changes no result and no context.
LEMMA Unseen ==
  ASSUME NEW e \in Executions, Others(e), at[e] \in InSlot, at'[e] \in InSlot,
         UNCHANGED <<data, results, slots>>
  PROVE  UNCHANGED Job!vars
<1>1. /\ Phase(e)' = Phase(e) /\ Passed(e)' = Passed(e)
      /\ Context(e)' = Context(e)
  BY DEF Phase, Passed, Context, InSlot
<1>2. /\ jobPhase' = jobPhase /\ jobPassed' = jobPassed
      /\ jobContext' = jobContext
  BY <1>1, JobFrame DEF jobPhase, jobPassed, jobContext
<1> QED
  BY <1>2, JobFrame DEF Job!vars

\* The end of an execution that records nothing.
LEMMA EndFinishes ==
  ASSUME IInv, NEW e \in Executions, Others(e), at[e] \in InSlot,
         NEW how \in Ended, End(e, how), UNCHANGED <<data, results>>,
         (how = "succeeded") <=> AllDone(e)
  PROVE  Job!Finish(e, how)
<1>1. at'[e] = how /\ slots' = slots + 1
  BY DEF End, IInv, TypeOK
<1>2. Phase(e)' = how /\ Passed(e)' = Passed(e) /\ Context(e)' = Context(e)
  BY <1>1 DEF Phase, Passed, Context, InSlot, Ended
<1>3. /\ jobPhase' = [jobPhase EXCEPT ![e] = how]
      /\ jobPassed' = jobPassed /\ jobContext' = jobContext
  BY <1>2, JobFrame DEF jobPassed, jobContext
<1> QED
  BY <1>1, <1>3, JobFrame, Working DEF Job!Finish, Job!Stages, Stages

\* A stage that failed is recorded and ends the job.
LEMMA AbortFinishes ==
  ASSUME IInv, NEW e \in Executions, Others(e),
         at[e] \in {"attempt", "infer"},
         NEW status \in {"failed", "timed_out"}, Abort(e, status)
  PROVE  Job!Finish(e, "failed")
<1>1. /\ at'[e] = "failed" /\ slots' = slots + 1 /\ data' = data
      /\ results'[e] = Append(results[e], status)
  BY DEF Abort, End, IInv, TypeOK
<1>2. at[e] \in InSlot /\ at[e] # "stage"
  BY DEF InSlot
<1>3. Passed(e)' = jobPassed[e]
  <2>1. /\ Len(results'[e]) = Len(results[e]) + 1
        /\ results'[e][Len(results[e]) + 1] = status
    BY <1>1, Recorded DEF IInv, TypeOK, StageStatus
  <2>2. results'[e] # <<>> /\ results'[e][Len(results'[e])] # "completed"
    BY <1>2, <2>1, Working
  <2> QED
    BY <1>2, <2>1, <2>2, Working DEF Passed
<1>4. Phase(e)' = "failed" /\ Context(e)' = jobContext[e]
  BY <1>1, <1>2, Working DEF Phase, Context, InSlot
<1>5. /\ jobPhase' = [jobPhase EXCEPT ![e] = "failed"]
      /\ jobPassed' = jobPassed /\ jobContext' = jobContext
  BY <1>3, <1>4, JobFrame DEF jobPassed, jobContext
<1> QED
  BY <1>1, <1>2, <1>5, JobFrame, Working DEF Job!Finish, Job!Stages, Stages

\* A stage that returned takes effect as a whole.
LEMMA CompletePasses ==
  ASSUME IInv, NEW e \in Executions, Others(e),
         at[e] \in {"attempt", "infer"}, Complete(e)
  PROVE  Job!PassStage(e)
<1>1. /\ at'[e] = "stage" /\ slots' = slots
      /\ data'[e] = data[e] \cup Stage(e).writes
      /\ results'[e] = Append(results[e], "completed")
  BY DEF Complete, IInv, TypeOK
<1>2. at[e] \in InSlot /\ at[e] # "stage"
  BY DEF InSlot
<1>3. Passed(e)' = jobPassed[e] + 1
  <2>1. /\ Len(results'[e]) = Len(results[e]) + 1
        /\ results'[e][Len(results[e]) + 1] = "completed"
    BY <1>1, Recorded DEF IInv, TypeOK, StageStatus
  <2> QED
    BY <1>2, <2>1, Working DEF Passed
<1>4. /\ Phase(e)' = jobPhase[e]
      /\ Context(e)' = jobContext[e] \cup Stage(e).writes
  BY <1>1, <1>2, Working DEF Phase, Context, InSlot
<1>5. Stage(e) = Job!Stages(e)[jobPassed[e] + 1]
  BY <1>2, Working DEF Stage, Stages, Job!Stages
<1>6. /\ jobPhase' = jobPhase
      /\ jobPassed' = [jobPassed EXCEPT ![e] = @ + 1]
      /\ jobContext' = [jobContext EXCEPT
                          ![e] = @ \cup Job!Stages(e)[jobPassed[e] + 1].writes]
  BY <1>3, <1>4, <1>5, JobFrame DEF jobPhase
<1>7. jobPassed[e] < Len(Job!Stages(e))
  BY <1>2, Working DEF Job!Stages, Stages
<1> QED
  BY <1>1, <1>2, <1>6, <1>7, JobFrame, Working DEF Job!PassStage

\* A failed attempt is retried unseen or ends the job.
LEMMA MissIsUnseen ==
  ASSUME IInv, NEW e \in Executions, Others(e),
         at[e] \in {"attempt", "infer"},
         NEW status \in {"failed", "timed_out"}, Miss(e, status)
  PROVE  Job!Finish(e, "failed") \/ UNCHANGED Job!vars
<1>1. CASE Abort(e, status)
  BY <1>1, AbortFinishes
<1>2. CASE /\ at' = [at EXCEPT ![e] = "backoff"]
           /\ UNCHANGED <<data, results, attempt, slots>>
  BY <1>2, Unseen DEF InSlot, IInv, TypeOK
<1> QED
  BY <1>1, <1>2 DEF Miss

JobStep(e) ==
  \/ Job!Start(e) \/ Job!GiveUp(e) \/ Job!PassStage(e)
  \/ \E how \in Ended : Job!Finish(e, how)
  \/ UNCHANGED Job!vars

\* The steps in front of the slot.
LEMMA WaitingSteps ==
  ASSUME IInv, NEW e \in Executions, Others(e),
         \/ Submit(e) \/ GrantSlot(e)
         \/ Cancel(e) /\ at[e] = "queued"
  PROVE  JobStep(e)
<1>1. /\ jobPhase[e] = "waiting" /\ UNCHANGED results
      /\ jobContext[e] = Context(e)
  BY DEF jobPhase, jobContext, Phase, Submit, GrantSlot, Cancel
<1>2. Passed(e)' = Passed(e) /\ Context(e)' = Context(e)
  BY <1>1 DEF Submit, GrantSlot, Cancel, Passed, Context, IInv, TypeOK,
              Others, request
<1>3. UNCHANGED <<jobPassed, jobContext>>
  BY <1>2, JobFrame DEF jobPassed, jobContext
<1>4. CASE at'[e] = "stage" /\ slots > 0 /\ slots' = slots - 1
  <2>1. Phase(e)' = "working"
    BY <1>4 DEF Phase, InSlot
  <2> QED
    BY <1>1, <1>3, <1>4, <2>1, JobFrame DEF JobStep, Job!Start
<1>5. CASE at'[e] = "queued" /\ UNCHANGED slots
  <2>1. Phase(e)' = jobPhase[e]
    BY <1>1, <1>5 DEF Phase
  <2>2. jobPhase' = jobPhase
    BY <2>1, JobFrame DEF jobPhase
  <2> QED
    BY <1>3, <1>5, <2>2, JobFrame DEF JobStep, Job!vars
<1>6. CASE at'[e] = "cancelled" /\ UNCHANGED slots
  <2>1. Phase(e)' = "cancelled"
    BY <1>6 DEF Phase, InSlot
  <2> QED
    BY <1>1, <1>3, <1>6, <2>1, JobFrame DEF JobStep, Job!GiveUp
<1> QED
  BY <1>4, <1>5, <1>6 DEF Submit, GrantSlot, Cancel, SlotIsFree, IInv, TypeOK

LEMMA MoveIsJobStep ==
  ASSUME IInv, NEW e \in Executions, Move(e)
  PROVE  JobStep(e)
<1>1. Others(e)
  BY OnlyOneMoves DEF IInv
<1>2. CASE Submit(e) \/ GrantSlot(e) \/ (Cancel(e) /\ at[e] = "queued")
  BY <1>1, <1>2, WaitingSteps
<1>3. CASE Succeed(e) \/ UnknownStage(e) \/ NoAttempt(e)
  <2>1. at[e] \in InSlot /\ UNCHANGED <<data, results>>
    BY <1>3 DEF Succeed, UnknownStage, NoAttempt, InSlot
  <2>2. \E how \in Ended :
          End(e, how) /\ ((how = "succeeded") <=> AllDone(e))
    BY <1>3 DEF Succeed, UnknownStage, NoAttempt, Ended
  <2> QED
    BY <1>1, <2>1, <2>2, EndFinishes DEF JobStep
<1>4. CASE Cancel(e) /\ at[e] # "queued"
  <2>1. /\ at[e] \in InSlot /\ at[e] # "stage" /\ End(e, "cancelled")
        /\ UNCHANGED <<data, results>>
    BY <1>4 DEF Cancel, InSlot
  <2>2. ~AllDone(e) /\ "cancelled" \in Ended /\ "cancelled" # "succeeded"
    BY <2>1, Working DEF Ended
  <2> QED
    BY <1>1, <2>1, <2>2, EndFinishes DEF JobStep
<1>5. CASE StartStage(e) \/ Retry(e) \/ StartInference(e)
  BY <1>1, <1>5, Unseen DEF StartStage, Retry, StartInference, InSlot, IInv,
                            TypeOK, JobStep
<1>6. CASE Reject(e) \/ Compute(e)
  BY <1>1, <1>6, AbortFinishes, CompletePasses, MissIsUnseen
     DEF Reject, Compute, JobStep, Ended
<1>7. CASE InferReturns(e) \/ InferFails(e) \/ TimeOut(e)
  BY <1>1, <1>7, CompletePasses, MissIsUnseen
     DEF InferReturns, InferFails, TimeOut, JobStep, Ended
<1> QED
  BY <1>2, <1>3, <1>4, <1>5, <1>6, <1>7 DEF Move, Work

\* The executor with its semaphore, attempts, retries, timeouts and
\* cancellations implements PipelineJobs.
THEOREM ImplementsJobs == Spec => JobSpec
<1>1. Init => Job!Init
  BY DEF Init, Job!Init, jobPhase, jobPassed, jobContext, Phase, Passed,
         Context
<1>2. ASSUME IInv, NEW e \in Executions, JobStep(e)
      PROVE  [Job!Next]_(Job!vars)
  BY <1>2 DEF JobStep, Job!Next, Job!Ends, Ended
<1>3. ASSUME UNCHANGED vars PROVE UNCHANGED Job!vars
  BY <1>3 DEF vars, Job!vars, jobPhase, jobPassed, jobContext, Phase, Passed,
              Context
<1>4. IInv /\ [Next]_vars => [Job!Next]_(Job!vars)
  BY <1>2, <1>3, MoveIsJobStep, NextByExecution DEF Finished
<1> QED
  BY <1>1, <1>4, Invariance, PTL DEF Spec, JobSpec, Job!Spec
=============================================================================
