----------------------------- MODULE FaceLists -----------------------------
(***************************************************************************)
(* The lists that go through the built-in pipelines: detections, best      *)
(* first as greedy_nms returns them (module Nms), their crops              *)
(* (region_crop.py), the embeddings of the crops, asked of the model one   *)
(* by one or in batches (arcface_extraction.py), and the comparison of the *)
(* first of each image (feature_comparison.py); or, in face_detection, the *)
(* best detections (detection_postprocess.py).                             *)
(*                                                                         *)
(* A face is its place among those of its image.  Similarities are         *)
(* counted in tenths; which one two faces have is up to the network.       *)
(***************************************************************************)
EXTENDS Integers, Sequences, SequencesExt

CONSTANTS
  MaxFaces,      \* bound on the faces the network finds on an image
  MaxDetections, \* max_faces of the stage
  Batching,      \* enable_triton_batching
  BatchSize,     \* triton_batch_size
  Similarities,  \* the cosines two embeddings may have
  Threshold      \* similarity_threshold

\* What the constants have to be.
ListsAssumption ==
  /\ {MaxFaces, MaxDetections} \subseteq Nat
  /\ BatchSize \in Nat \ {0}
  /\ Similarities \subseteq -10..10

Images == {1, 2}

VARIABLES
  pipeline,    \* "face_detection" or "face_comparison"
  image,       \* the image it is at
  stage,       \* the stage that runs; "done" or "failed"
  detections, crops, embeddings,  \* by image
  at,          \* the faces extraction has embedded so far
  result       \* what the last stage returns: compared, score and match
vars == <<pipeline, image, stage, detections, crops, embeddings, at, result>>

NoResult == [compared |-> <<>>, score |-> 0, match |-> FALSE]

Init ==
  /\ pipeline \in {"face_detection", "face_comparison"}
  /\ image = 1
  /\ stage = "detect"
  /\ detections = [i \in Images |-> <<>>]
  /\ crops = [i \in Images |-> <<>>]
  /\ embeddings = [i \in Images |-> <<>>]
  /\ at = 0
  /\ result = NoResult

Detect ==
  /\ stage = "detect"
  /\ \E n \in 0..MaxFaces :
       detections' = [detections EXCEPT ![image] = [k \in 1..n |-> k]]
  /\ stage' = IF pipeline = "face_detection" THEN "postprocess" ELSE "crop"
  /\ UNCHANGED <<pipeline, image, crops, embeddings, at, result>>

\* sorted, by confidence.
Sorted(set) ==
  CHOOSE s \in SetToSeqs(set) : \A i, j \in DOMAIN s : i < j => s[i] < s[j]

\* [:max_detections].
Top(list) ==
  SubSeq(Sorted(Range(list)), 1,
         IF Len(list) < MaxDetections THEN Len(list) ELSE MaxDetections)

Postprocess ==
  /\ stage = "postprocess"
  /\ detections' = [detections EXCEPT ![image] = Top(@)]
  /\ stage' = "done"
  /\ UNCHANGED <<pipeline, image, crops, embeddings, at, result>>

Crop ==
  /\ stage = "crop"
  /\ crops' = [crops EXCEPT ![image] = detections[image]]
  /\ stage' = "extract"
  /\ at' = 0
  /\ UNCHANGED <<pipeline, image, detections, embeddings, result>>

-----------------------------------------------------------------------------
(* ArcFaceExtractionStage.execute: one step for each answer of Triton.     *)

Faces == crops[image]
InBatches == Batching /\ Len(Faces) > 1

Step == IF InBatches THEN BatchSize ELSE 1

\* Mutant: one face too many in each batch.
ChunkTooLong ==
  SubSeq(Faces, at + 1,
         IF at + Step < Len(Faces) THEN at + Step + 1 ELSE Len(Faces))

Chunk ==
  SubSeq(Faces, at + 1,
         IF at + Step < Len(Faces) THEN at + Step ELSE Len(Faces))

Extends(vectors) ==
  /\ stage = "extract"
  /\ at < Len(Faces)
  /\ embeddings' = [embeddings EXCEPT ![image] = @ \o vectors]
  /\ at' = at + Step
  /\ UNCHANGED <<pipeline, image, stage, detections, crops, result>>

\* A row for each face, of length 1 or, where it is zero, left as it is.
Embed ==
  \E zeros \in SUBSET (1..Len(Chunk)) :
    Extends([k \in 1..Len(Chunk) |->
               [face |-> Chunk[k],
                vector |-> IF k \in zeros THEN "zero" ELSE "unit"]])

\* The answer holds neither triton_output_name nor "output": its default, an
\* empty list, is taken for the embedding of the face or of the whole batch.
EmbedNothing == Extends(<<[face |-> Chunk[1], vector |-> "empty"]>>)

Extracted ==
  /\ stage = "extract"
  /\ at >= Len(Faces)
  /\ IF image = 1 THEN image' = 2 /\ stage' = "detect"
                  ELSE image' = image /\ stage' = "compare"
  /\ UNCHANGED <<pipeline, detections, crops, embeddings, at, result>>

\* The image cannot be cropped, Triton cannot be reached: the stage raises.
StageFails ==
  /\ stage \in {"detect", "crop", "extract"}
  /\ stage' = "failed"
  /\ UNCHANGED <<pipeline, image, detections, crops, embeddings, at, result>>

-----------------------------------------------------------------------------
(* FeatureComparisonStage.                                                 *)

HaveEmbeddings == \A i \in Images : embeddings[i] # <<>>

\* Mutant: the last embedding of each image.
LastOf(i) == embeddings[i][Len(embeddings[i])]

FirstOf(i) == embeddings[i][1]

\* _cosine_similarity is 0.0 if a norm is 0, that of an empty vector too.
Cosines ==
  IF \A i \in Images : FirstOf(i).vector = "unit" THEN Similarities ELSE {0}

Compare ==
  /\ stage = "compare"
  /\ HaveEmbeddings
  /\ \E score \in Cosines :
       result' = [compared |-> [i \in Images |-> FirstOf(i)],
                  score |-> score, match |-> score >= Threshold]
  /\ stage' = "done"
  /\ UNCHANGED <<pipeline, image, detections, crops, embeddings, at>>

\* `No embeddings in ...': StageValidationError.
CompareFails ==
  /\ stage = "compare"
  /\ ~HaveEmbeddings
  /\ stage' = "failed"
  /\ UNCHANGED <<pipeline, image, detections, crops, embeddings, at, result>>

Ended == stage \in {"done", "failed"} /\ UNCHANGED vars

Next ==
  \/ Detect \/ Postprocess \/ Crop \/ Embed \/ EmbedNothing \/ Extracted
  \/ StageFails \/ Compare \/ CompareFails \/ Ended

Spec == Init /\ [][Next]_vars

-----------------------------------------------------------------------------
Nothing(i) == \E k \in DOMAIN embeddings[i] : embeddings[i][k].vector = "empty"

\* The places up to the first answer with nothing, its own included.
Leading(i) ==
  {k \in DOMAIN embeddings[i] :
     \A j \in 1..k - 1 : embeddings[i][j].vector # "empty"}

\* The n-th embedding is that of the n-th detection, whatever the batches; if
\* there are answers with nothing, up to the first of them.  Behind it the
\* places no longer say whose the embeddings are: such an answer to a batch
\* leaves one vector for all of its faces.
Aligned ==
  stage = "compare" => \A i \in Images :
    /\ Nothing(i) \/ [k \in DOMAIN embeddings[i] |-> embeddings[i][k].face]
                       = detections[i]
    /\ \A k \in Leading(i) : embeddings[i][k].face = k

\* What counts is the most confident faces: the two that are compared are the
\* best of their images, and face_detection returns the best detections.
BestFirst ==
  stage = "done" =>
    IF pipeline = "face_comparison"
      THEN \A i \in Images : result.compared[i].face = 1
      ELSE \A k \in DOMAIN detections[1] : detections[1][k] = k
=============================================================================
