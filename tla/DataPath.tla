------------------------------ MODULE DataPath ------------------------------
(***************************************************************************)
(* What happens to the data of a request on its way through the stages and *)
(* out of the server: the tensors of an answer of the network              *)
(* (ScrfdOutputs), the boxes that overlap (Nms), the region of a box       *)
(* (Regions), the lists of faces (FaceLists) and the answer to the client  *)
(* (Responses).  The five share no state: a behaviour moves one of them,   *)
(* and the others rest in one of their initial states.                     *)
(***************************************************************************)
EXTENDS Nms

CONSTANTS
  Anchors, Answers,                               \* as in ScrfdOutputs
  Target, Sides, Places,                          \* as in Regions
  MaxFaces, MaxDetections, Batching, BatchSize, Similarities, Threshold,
                                                  \* as in FaceLists
  Outputs, MaxListItems                           \* as in Responses

VARIABLES
  part,                                           \* what the behaviour moves
  raw, names, stride, decoded, decoding,          \* as in ScrfdOutputs
  size, detscale, found, region, cropping,        \* as in Regions
  pipeline, image, stage, detections, crops, embeddings, at, result,
                                                  \* as in FaceLists
  output, safe, sections, answer, step            \* as in Responses
scrfdVars == <<raw, names, stride, decoded, decoding>>
regionVars == <<size, detscale, found, region, cropping>>
faceVars ==
  <<pipeline, image, stage, detections, crops, embeddings, at, result>>
responseVars == <<output, safe, sections, answer, step>>
dataVars ==
  <<part, vars, scrfdVars, regionVars, faceVars, responseVars>>

Scrfd == INSTANCE ScrfdOutputs WITH stage <- decoding
Region == INSTANCE Regions WITH box <- found, stage <- cropping
Faces == INSTANCE FaceLists
Reply == INSTANCE Responses

\* What each part asks of its constants.
ASSUME DataAssumption ==
  /\ Scrfd!AnchorsAssumption
  /\ Scrfd!AnswersAssumption
  /\ Region!TargetAssumption
  /\ Faces!ListsAssumption
  /\ Reply!OutputsAssumption

-----------------------------------------------------------------------------
(* An initial state of each part, for it to rest in.                       *)

ScrfdRests == raw = (CHOOSE a \in Answers : TRUE) /\ Scrfd!Init

NmsRests ==
  /\ box = [b \in Boxes |-> CHOOSE s \in Shapes : TRUE]
  /\ score = [b \in Boxes |-> CHOOSE s \in Scores : TRUE]
  /\ rank = CHOOSE r \in [Boxes -> 1..Cardinality(Boxes)] : Sorted(r)
  /\ Init

RegionRests ==
  size = [a \in Region!Axes |-> CHOOSE n \in Sides : TRUE] /\ Region!Init

FacesRest == pipeline = "face_detection" /\ Faces!Init

ReplyRests == output = (CHOOSE o \in Outputs : TRUE) /\ Reply!Init

Starts(name, init, rest) == IF part = name THEN init ELSE rest

DataInit ==
  /\ part \in {"scrfd", "nms", "region", "faces", "reply"}
  /\ Starts("scrfd", Scrfd!Init, ScrfdRests)
  /\ Starts("nms", Init, NmsRests)
  /\ Starts("region", Region!Init, RegionRests)
  /\ Starts("faces", Faces!Init, FacesRest)
  /\ Starts("reply", Reply!Init, ReplyRests)

DataNext ==
  /\ UNCHANGED part
  /\ \/ /\ part = "scrfd"
        /\ Scrfd!Next
        /\ UNCHANGED <<vars, regionVars, faceVars, responseVars>>
     \/ /\ part = "nms"
        /\ Next
        /\ UNCHANGED <<scrfdVars, regionVars, faceVars, responseVars>>
     \/ /\ part = "region"
        /\ Region!Next
        /\ UNCHANGED <<vars, scrfdVars, faceVars, responseVars>>
     \/ /\ part = "faces"
        /\ Faces!Next
        /\ UNCHANGED <<vars, scrfdVars, regionVars, responseVars>>
     \/ /\ part = "reply"
        /\ Reply!Next
        /\ UNCHANGED <<vars, scrfdVars, regionVars, faceVars>>

DataSpec == DataInit /\ [][DataNext]_dataVars

-----------------------------------------------------------------------------
(* The properties of the parts; GreedyKept is that of Nms.                 *)

\* As in ScrfdOutputs.
OwnTensors == Scrfd!OwnTensors

\* As in Regions.
RegionCovers == Region!RegionCovers

\* As in Regions.
FailsForReason == Region!FailsForReason

\* As in FaceLists.
Aligned == Faces!Aligned

\* As in FaceLists.
BestFirst == Faces!BestFirst

\* As in Responses.
OwnDetails == Reply!OwnDetails
=============================================================================
