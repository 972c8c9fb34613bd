----------------------------- MODULE Responses -----------------------------
(***************************************************************************)
(* What becomes of the output of an execution that succeeded:              *)
(* make_json_safe summarises and groups it (api/shared/                    *)
(* pipeline_service.py), an HTTP route fits it into the schema of its      *)
(* pipeline (routes_pipelines.py, schemas.py), and the gRPC servicer dumps *)
(* it as it is (servicer.py).  Failed executions are in module InferPack.  *)
(*                                                                         *)
(* A key is a stem and the image its suffix _1 or _2 names, 0 if neither.  *)
(* A value is its kind, its length if it is a list, and the key it was     *)
(* computed under, by which the properties know it again:                  *)
(*   array, arrays   an ndarray; a list of them, not empty                 *)
(*   dicts, list     a list of dicts, not empty; any other list            *)
(*   pair, number    a tuple of integers; a number or a Boolean            *)
(*   nan, bytes      a float that is not a number; a bytes object          *)
(*   summary, text   the dict and the string that stand for the above      *)
(* The content of a dict is converted in the same way and is left out.     *)
(* Left out, too, are the scores, which every answer takes as they are     *)
(* from the comparison section (HTTP would look for them among the         *)
(* remaining keys as well, but grouping leaves none there), and the        *)
(* stages' durations in the answers of gRPC.                               *)
(***************************************************************************)
EXTENDS Naturals, Functions

CONSTANTS
  Outputs,        \* what executions return: pipeline, transport and data
  MaxListItems    \* the 20 items make_json_safe leaves a list

\* What the stages of the built-in pipelines leave under the keys an answer
\* shows.
Left ==
  [original_size |-> "pair", det_scale |-> "number", detections |-> "dicts",
   preprocessed_image |-> "array", cropped_faces |-> "arrays",
   embeddings |-> "arrays"]

Values(key) ==
  [kind : {"array", "arrays", "dicts", "list", "pair", "number", "nan",
           "bytes"},
   n : Nat, of : {key}]

Empty(v) == v.kind = "list" /\ v.n = 0

\* What the constants have to be: the HTTP routes execute the two built-in
\* pipelines.  None of their stages returns a value under the key
\* `comparison', only an image without faces has an empty list (a comparison
\* that succeeds has embeddings of both), and face_detection has one image.
OutputsAssumption ==
  /\ MaxListItems \in Nat
  /\ \A o \in Outputs :
       /\ \A k \in DOMAIN o.data : o.data[k] \in Values(k)
       /\ o.transport = "http" =>
            /\ o.pipeline \in {"face_detection", "face_comparison"}
            /\ o.pipeline = "face_detection" =>
                 \A k \in DOMAIN o.data : k.image = 0
            /\ \A k \in DOMAIN o.data :
                 /\ k.stem # "comparison"
                 /\ k.stem \in DOMAIN Left =>
                      \/ o.data[k].kind = Left[k.stem]
                      \/ k.stem = "detections" /\ Empty(o.data[k])

Images == {1, 2}
ComparisonKeys == {"similarity_score", "is_match", "is_same_person"}
Nothing == << >>  \* an empty dict

VARIABLES
  output,    \* the result of the execution
  safe,      \* safe_flat
  sections,  \* the groups: by image, comparison, and the remaining keys
  answer,    \* the status of the answer and the details it shows by image
  step       \* "returned", "summarised", "grouped" or "answered"
vars == <<output, safe, sections, answer, step>>

NoSections ==
  [images |-> [i \in Images |-> Nothing], comparison |-> Nothing,
   rest |-> Nothing]
NoAnswer == [status |-> "none", images |-> [i \in Images |-> Nothing]]

Init ==
  /\ output \in Outputs
  /\ safe = Nothing
  /\ sections = NoSections
  /\ answer = NoAnswer
  /\ step = "returned"

-----------------------------------------------------------------------------
(* make_json_safe.                                                         *)

SafeKind(v) ==
  CASE v.kind \in {"array", "arrays"} -> "summary"
    [] v.kind = "list" /\ v.n > MaxListItems -> "summary"
    [] v.kind = "bytes" -> "text"
    [] OTHER -> v.kind

Summarise ==
  /\ step = "returned"
  /\ safe' = [k \in {k \in DOMAIN output.data : k.stem # "image_bytes"} |->
                [output.data[k] EXCEPT !.kind = SafeKind(output.data[k])]]
  /\ step' = "summarised"
  /\ UNCHANGED <<output, sections, answer>>

\* The values of the keys in S, by their stems.
Stems(S) == [stem \in {k.stem : k \in S} |->
               safe[CHOOSE k \in S : k.stem = stem]]

Group ==
  /\ step = "summarised"
  /\ LET Of(i) == {k \in DOMAIN safe : k.image = i}
         compared == {k \in Of(0) : k.stem \in ComparisonKeys}
         overwritten ==
           {k \in Of(0) : k.stem = "comparison" /\ compared # {}}
     IN sections' =
          [images     |-> [i \in Images |-> Stems(Of(i))],
           comparison |-> Stems(compared),
           rest       |-> Stems(Of(0) \ (compared \cup overwritten))]
  /\ step' = "grouped"
  /\ UNCHANGED <<output, safe, answer>>

-----------------------------------------------------------------------------
(* The schemas of the HTTP routes.                                         *)

ImageInfo ==
  [original_size |-> "pair", det_scale |-> "number", detections |-> "dicts",
   preprocessed_image |-> "summary", cropped_faces |-> "summary",
   embeddings |-> "summary"]
Fits(details) ==
  \A f \in DOMAIN details :
    \/ details[f].kind = ImageInfo[f]
    \/ f = "detections" /\ Empty(details[f])

\* Mutant: the section of the first image is used for both.
FirstSection(i) == sections.images[1]

Section(i) == sections.images[i]

\* Flat keys are taken for the first image if it has no section.  Those with a
\* suffix, which the fallback looks for first, are never left in the rest.
FlatKeys ==
  LET flat == Restrict(sections.rest,
                DOMAIN sections.rest \cap
                  {"original_size", "det_scale", "detections"})
  IN IF \A f \in DOMAIN flat : Empty(flat[f]) THEN Nothing ELSE flat

ComparisonImage(i) ==
  IF Section(i) # Nothing
    THEN Restrict(Section(i), DOMAIN Section(i) \cap DOMAIN ImageInfo)
    ELSE IF i = 1 THEN FlatKeys ELSE Nothing

DetectionImage(i) ==
  IF i = 1
    THEN Restrict(sections.rest, DOMAIN sections.rest \cap {"detections"})
    ELSE Nothing

Respond(images) ==
  /\ step = "grouped"
  /\ output.transport = "http"
  /\ answer' =
       IF \A i \in Images : Fits(images[i])
         THEN [status |-> "200", images |-> images]
         ELSE [NoAnswer EXCEPT !.status = "500"]
  /\ step' = "answered"
  /\ UNCHANGED <<output, safe, sections>>

FaceDetection ==
  /\ output.pipeline = "face_detection"
  /\ Respond([i \in Images |-> DetectionImage(i)])

FaceComparison ==
  /\ output.pipeline = "face_comparison"
  /\ Respond([i \in Images |-> ComparisonImage(i)])

\* _execute_pipeline_by_name: json.dumps takes all that is left but what only
\* the stages of other packages return.
Dump ==
  /\ step = "grouped"
  /\ output.transport = "grpc"
  /\ answer' = [status |-> "OK", images |-> sections.images]
  /\ step' = "answered"
  /\ UNCHANGED <<output, safe, sections>>

Ended == step = "answered" /\ UNCHANGED vars

Next ==
  Summarise \/ Group \/ FaceDetection \/ FaceComparison \/ Dump \/ Ended

Spec == Init /\ [][Next]_vars

-----------------------------------------------------------------------------
(* Properties.                                                             *)

\* Whatever number of faces an execution found, it is answered, its output
\* fitting the schema of the route.  And `Face-comparison branches keep
\* separate keys to avoid collisions': what an answer shows of an image was computed for
\* that image, or is the only value there is, and nothing that was computed for
\* it is missing.
OwnDetails ==
  step = "answered" =>
    /\ answer.status # "500"
    /\ \A i \in Images :
         /\ \A f \in DOMAIN answer.images[i] :
              LET origin == answer.images[i][f].of
              IN /\ origin.stem = f
                 /\ origin.image = i \/ (i = 1 /\ origin.image = 0)
         /\ \A k \in DOMAIN output.data :
              k.image = i /\ k.stem \in DOMAIN ImageInfo =>
                k.stem \in DOMAIN answer.images[i]
=============================================================================
