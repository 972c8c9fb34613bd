---------------------------- MODULE MCInferPack ----------------------------
(***************************************************************************)
(* Instances of InferPack for TLC: two pipelines of one model each, as     *)
(* short as stages can be with a call to Triton among them.                *)
(***************************************************************************)
EXTENDS InferPack, TLC

TwoPipelines == {"face_detection", "custom"}
TwoModels == {"scrfd", "landmarks"}
TwoModelsOf == "face_detection" :> <<"scrfd">> @@ "custom" :> <<"landmarks">>

Infer(model) ==
  [known |-> TRUE, choosy |-> FALSE, reads |-> {"image_bytes"},
   writes |-> {"detections"}, model |-> model, retries |-> 0]
TwoStages ==
  "face_detection" :> <<Infer("scrfd")>> @@ "custom" :> <<Infer("landmarks")>>

\* A pipeline with a model, and one that only computes, with the default
\* number of retries.
LivePipelines == {"face_detection", "report"}
LiveModels == {"scrfd"}
LiveModelsOf == "face_detection" :> <<"scrfd">> @@ "report" :> <<>>
LiveStages ==
  "face_detection" :> <<Infer("scrfd")>>
  @@ "report" :> <<[Infer(NoModel) EXCEPT !.retries = -1]>>
\* A configuration nobody validates: default_max_retries = -1.
NegativeRetries == -1

BothServers == "e1" :> "http" @@ "e2" :> "grpc"
DetectionRoute == "face_detection" :> {"image_bytes"}
TheKeys == {"image_bytes", "detections"}
OnlyImages == {{"image_bytes"}}

SystemFaults == {"load_fails", "unload_fails", "wait_timeout", "cancel"}
TritonFaults == {"load_fails", "unload_fails", "wait_timeout"}
=============================================================================
