---------------------------- MODULE PipelineJobs ----------------------------
(***************************************************************************)
(* What the executor promises whoever sends it a request, without          *)
(* attempts, timeouts, inferences or a queue: a job waits for one of a     *)
(* fixed number of workers, goes through the stages of its pipeline in     *)
(* order, each of them all or nothing, and ends once and for all, in       *)
(* success exactly when it went through all of them; a worker is given     *)
(* back by whatever end.                                                   *)
(***************************************************************************)
EXTENDS Naturals, Sequences

CONSTANTS Jobs, Pipelines, StagesOf, Inputs, Workers

VARIABLES
  asked,    \* the pipeline each job is for
  brought,  \* the keys it came with
  phase,    \* "waiting", "working" or how it ended
  passed,   \* how many stages it went through
  context,  \* the keys it has
  free      \* the workers nobody occupies

vars == <<asked, brought, phase, passed, context, free>>

Ends == {"succeeded", "failed", "crashed", "cancelled"}

Init ==
  /\ asked \in [Jobs -> Pipelines]
  /\ brought \in [Jobs -> Inputs]
  /\ phase = [j \in Jobs |-> "waiting"]
  /\ passed = [j \in Jobs |-> 0]
  /\ context = brought
  /\ free = Workers

Stages(j) == StagesOf[asked[j]]

Start(j) ==
  /\ phase[j] = "waiting"
  /\ free > 0
  /\ phase' = [phase EXCEPT ![j] = "working"]
  /\ free' = free - 1
  /\ UNCHANGED <<asked, brought, passed, context>>

GiveUp(j) ==
  /\ phase[j] = "waiting"
  /\ phase' = [phase EXCEPT ![j] = "cancelled"]
  /\ UNCHANGED <<asked, brought, passed, context, free>>

PassStage(j) ==
  /\ phase[j] = "working"
  /\ passed[j] < Len(Stages(j))
  /\ passed' = [passed EXCEPT ![j] = @ + 1]
  /\ context' = [context EXCEPT ![j] = @ \cup Stages(j)[passed[j] + 1].writes]
  /\ UNCHANGED <<asked, brought, phase, free>>

Finish(j, how) ==
  /\ phase[j] = "working"
  /\ (how = "succeeded") <=> (passed[j] = Len(Stages(j)))
  /\ phase' = [phase EXCEPT ![j] = how]
  /\ free' = free + 1
  /\ UNCHANGED <<asked, brought, passed, context>>

Next ==
  \E j \in Jobs :
    \/ Start(j) \/ GiveUp(j) \/ PassStage(j)
    \/ \E how \in Ends : Finish(j, how)

Spec == Init /\ [][Next]_vars
=============================================================================
