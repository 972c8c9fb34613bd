----------------------------- MODULE MCExecutor -----------------------------
(***************************************************************************)
(* Instances of Executor for TLC: a built-in pipeline, stage by stage as   *)
(* pipelines/builtins/*.yaml wires its keys (the defaults of the stage     *)
(* classes filled in), a custom pipeline with a stage type that is not     *)
(* registered, and one whose stage gets no attempt.                        *)
(***************************************************************************)
EXTENDS Executor, TLC, Functions

Compute0(reads, writes) ==
  [known |-> TRUE, choosy |-> FALSE, reads |-> reads, writes |-> writes,
   model |-> NoModel, retries |-> 0]
Infer1(model, reads, writes) ==
  [known |-> TRUE, choosy |-> FALSE, reads |-> reads, writes |-> writes,
   model |-> model, retries |-> 1]

\* feature_comparison refuses an empty list of embeddings.
Compare(key1, key2) ==
  [Compute0({key1, key2}, {"similarity_score", "is_match"})
     EXCEPT !.choosy = TRUE]

FaceDetection ==
  << Compute0({"image_bytes"}, {"preprocessed_image", "det_scale"}),
     Infer1("scrfd", {"preprocessed_image"}, {"detections"}),
     Compute0({"detections"}, {"detections", "num_detections"}) >>

\* The four stages of one image, with the suffix of its keys.
OneFace(image, pre, det, crop, emb) ==
  << Compute0({image}, {pre}),
     Infer1("scrfd", {pre}, {det}),
     Compute0({image, det}, {crop}),
     Infer1("arcface", {crop}, {emb}) >>

FaceComparison ==
  OneFace("image_bytes_1", "preprocessed_image_1", "detections_1",
          "cropped_faces_1", "embeddings_1")
  \o OneFace("image_bytes_2", "preprocessed_image_2", "detections_2",
             "cropped_faces_2", "embeddings_2")
  \o << Compare("embeddings_1", "embeddings_2") >>

Custom ==
  << Infer1("scrfd", {"image_bytes"}, {"detections"}),
     [Compute0({"detections"}, {"report"}) EXCEPT !.retries = 1],
     [Compute0({"report"}, {"mail"}) EXCEPT !.known = FALSE] >>

\* A negative max_retries, and a negative default nobody validates.
Report ==
  << [Compute0({"image_bytes"}, {"report"}) EXCEPT !.retries = -1] >>
NegativeRetries == -1

\* The keys of both files are wired from the images on.
ASSUME BuiltinsWired ==
  /\ WellWired(FaceDetection, {"image_bytes"})
  /\ WellWired(FaceComparison, {"image_bytes_1", "image_bytes_2"})

MixedStages ==
  "face_comparison" :> FaceComparison @@ "custom" :> Custom
    @@ "report" :> Report

ExecModels == {"scrfd", "arcface"}
\* What one pipeline needs the other cannot do with.
SomeImages == {{"image_bytes"}, {"image_bytes_1", "image_bytes_2"}}
AllKeys ==
  UNION SomeImages \cup
    UNION {s.reads \cup s.writes : s \in Range(FaceComparison \o Custom)}
=============================================================================
