--------------------------- MODULE MCControlPlane ---------------------------
(***************************************************************************)
(* Instances of ControlPlane for TLC.  The shared instance has the two     *)
(* built-in pipelines (pipelines/builtins/*.yaml) and a custom one that    *)
(* needs their models in the opposite order; in the disjoint instance no   *)
(* two pipelines have a model in common.                                   *)
(***************************************************************************)
EXTENDS ControlPlaneProperties, TLC

SharedPipelines == {"face_detection", "face_comparison", "custom"}
SharedModels == {"scrfd", "arcface"}
SharedModelsOf ==
     "face_detection"  :> <<"scrfd">>
  @@ "face_comparison" :> <<"scrfd", "arcface">>
  @@ "custom"          :> <<"arcface", "scrfd">>

\* The two pipelines that take the same models in opposite orders.
OppositePipelines == {"face_comparison", "custom"}
OppositeModelsOf == [p \in OppositePipelines |-> SharedModelsOf[p]]

\* The built-in pipelines alone.
BuiltinPipelines == {"face_detection", "face_comparison"}
BuiltinModelsOf ==
     "face_detection"  :> <<"scrfd">>
  @@ "face_comparison" :> <<"scrfd", "arcface">>

DisjointModelsOf ==
     "face_detection"  :> <<"scrfd">>
  @@ "face_comparison" :> <<"arcface", "landmarks">>
DisjointModels == {"scrfd", "arcface", "landmarks"}

NoFaults == {}
AllFaults == FaultKinds
LoadFailure == {"load_fails"}
Cancellation == {"cancel"}
TritonFaults == {"load_fails", "unload_fails", "wait_timeout"}
ProcessFaults == TritonFaults \cup {"cancel", "restart"}
=============================================================================
