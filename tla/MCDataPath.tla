----------------------------- MODULE MCDataPath -----------------------------
(***************************************************************************)
(* The values DataPath_parts.cfg gives the constants of DataPath.  The     *)
(* small ones are in the cfg: a canvas of side 4 and images that fit it,   *)
(* are larger or so thin that a side vanishes; three faces in batches of   *)
(* two, a full one and one that is not.                                    *)
(***************************************************************************)
EXTENDS DataPath

(* Nms: a square, squares that overlap it by three fifths and by a third,  *)
(* one within it, a distant one, two without area and one turned inside    *)
(* out.                                                                    *)

XYXY(x1, y1, x2, y2) == [x1 |-> x1, y1 |-> y1, x2 |-> x2, y2 |-> y2]

Squares ==
  {XYXY(0, 0, 4, 4), XYXY(1, 0, 5, 4), XYXY(2, 0, 6, 4), XYXY(1, 1, 2, 2),
   XYXY(9, 9, 12, 12), XYXY(3, 3, 3, 3), XYXY(7, 0, 7, 4), XYXY(4, 0, 2, 4)}

-----------------------------------------------------------------------------
(* ScrfdOutputs: two strides with 8 and 2 anchors, and answers that are    *)
(* complete or lack a tensor, with another tensor or without, under four   *)
(* ways to name them.                                                      *)

TwoStrides == <<8, 2>>
KindsAndStrides == {"score", "box", "landmark"} \X {1, 2}

\* Names as configured, with the suffix, partly with it, and all different.
Naming(way, k) ==
  CASE way = "configured" -> [base |-> k, reshaped |-> FALSE]
    [] way = "suffix"     -> [base |-> k, reshaped |-> TRUE]
    [] way = "some"       -> [base |-> k, reshaped |-> k[1] = "box"]
    [] way = "renamed"    -> [base |-> <<k[1], k[2] + 10>>, reshaped |-> FALSE]

\* Landmarks as rows of ten, or as five pairs: then the rows are of two.
Made(k, way, pairs) ==
  [name |-> Naming(way, k),
   cols |-> IF k[1] = "landmark" THEN IF pairs THEN 2 ELSE 10
            ELSE IF k[1] = "box" THEN 4 ELSE 1,
   rows |-> TwoStrides[k[2]] * (IF k[1] = "landmark" /\ pairs THEN 5 ELSE 1),
   holds |-> k]

Another(cols, rows) ==
  [name |-> [base |-> <<"other", 1>>, reshaped |-> TRUE], cols |-> cols,
   rows |-> rows, holds |-> <<"other", 1>>]

Full(way, pairs) == {Made(k, way, pairs) : k \in KindsAndStrides}
Lacking(way, pairs) ==
  {Full(way, pairs) \ {t} : t \in Full(way, pairs)}
Extras == {{}} \cup {{Another(c, r)} : c \in {1, 4, 10}, r \in {1, 4, 9}}

SomeAnswers ==
  UNION {{full \cup extra :
            full \in Lacking(way, pairs) \cup {Full(way, pairs)},
            extra \in Extras} :
         way \in {"configured", "suffix", "some", "renamed"},
         pairs \in BOOLEAN}

-----------------------------------------------------------------------------
(* Regions: boxes that begin before the canvas, on the image, in the       *)
(* padding or beyond, ends swapped too.  FaceLists: cosines on both sides  *)
(* of the threshold, and at it.                                            *)

SomePlaces == {-1, 0, 2, 3, 5}
Cosines == {-3, 0, 5, 6, 10}

-----------------------------------------------------------------------------
(* Responses: what the stages of the built-in pipelines leave in the       *)
(* context (pipelines/builtins/*.yaml), with lists shorter than, as long   *)
(* as and longer than the 20 items a list may keep.                        *)

Key(stem, i) == [stem |-> stem, image |-> i]
Value(kind, n) == [kind |-> kind, n |-> n]
Listed(kind, n) == Value(IF n = 0 THEN "list" ELSE kind, n)

\* What was computed for an image on which n faces were found.
Computed(stem, n) ==
  CASE stem = "image_bytes"        -> Value("bytes", 0)
    [] stem = "preprocessed_image" -> Value("array", 0)
    [] stem = "original_size"      -> Value("pair", 0)
    [] stem = "det_scale"          -> Value("number", 0)
    [] stem = "detections"         -> Listed("dicts", n)
    [] stem = "cropped_faces"      -> Listed("arrays", n)
    [] stem = "embeddings"         -> Listed("arrays", n)
    [] OTHER                       -> Value("number", 0)

Detecting ==
  {"image_bytes", "preprocessed_image", "original_size", "det_scale",
   "detections"}
Extracting == Detecting \cup {"cropped_faces", "embeddings"}

\* Data under the given keys, with n[i] faces on image i.
Data(keys, n) ==
  [k \in keys |->
     LET v == Computed(k.stem, n[k.image])
     IN [kind |-> v.kind, n |-> v.n, of |-> k]]

\* What feature_comparison returns.
Scored == {"similarity_score", "is_match", "is_same_person"}

Flat(stems) == {Key(stem, 0) : stem \in stems}
Paired == {Key(stem, i) : stem \in Extracting, i \in {1, 2}}

Counts == {1, 5, 20, 21}
FacesOf == [0..2 -> Counts]

DetectionData ==
  {Data(Flat(Detecting \cup {"num_detections", "num_faces"}),
        [i \in 0..2 |-> n]) : n \in Counts \cup {0}}
ComparisonData ==
  {Data(Paired \cup Flat(Scored), n) : n \in FacesOf}
\* A face_comparison of one image under flat keys.
LegacyData ==
  {Data(Flat(Detecting \cup Scored), [i \in 0..2 |-> n]) : n \in Counts}

Returned(name, data) ==
  {[pipeline |-> name, transport |-> t, data |-> d] :
     t \in {"http", "grpc"}, d \in data}

BuiltinOutputs ==
  Returned("face_detection", DetectionData)
    \cup Returned("face_comparison", ComparisonData \cup LegacyData)
=============================================================================
