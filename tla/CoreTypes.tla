------------------------------ MODULE CoreTypes ------------------------------
(***************************************************************************)
(* The shared vocabulary of inferpack/core/types.py: the lifecycle states  *)
(* of a model with the table of legal transitions, the activation states   *)
(* of a pipeline, and the statuses the execution plane gives a stage.      *)
(***************************************************************************)

ModelState ==
  {"unloaded", "loading", "warming", "ready", "idle", "unloading"}

\* The table the registry consults before every change of a model's state.
MODEL_STATE_TRANSITIONS ==
  [s \in ModelState |->
     CASE s = "unloaded"  -> {"loading"}
       [] s = "loading"   -> {"warming", "unloaded"}
       [] s = "warming"   -> {"ready", "unloaded"}
       [] s = "ready"     -> {"idle"}
       [] s = "idle"      -> {"ready", "unloading"}
       [] s = "unloading" -> {"unloaded"}]

\* ModelRegistry.transition succeeds exactly when this holds; otherwise it
\* raises ModelStateError and changes nothing.
CanMove(from, to) == to \in MODEL_STATE_TRANSITIONS[from]

\* "deactivating" is assigned and overwritten within one synchronous run of
\* deactivate, so no other coroutine ever observes it.
PipelineState ==
  {"inactive", "activating", "active", "deactivating", "error"}

\* The statuses run_stage returns; the enum's other members are never assigned.
StageStatus == {"completed", "failed", "timed_out"}
=============================================================================
