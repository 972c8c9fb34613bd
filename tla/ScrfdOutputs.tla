---------------------------- MODULE ScrfdOutputs ----------------------------
(***************************************************************************)
(* SCRFDDetectionStage._decode_scrfd (stages/face/scrfd_detection.py): the *)
(* model answers with a score, a box and a landmark tensor for each        *)
(* stride, under names that depend on how it was exported.  The stage has  *)
(* to find out which is which and decode stride after stride.              *)
(*                                                                         *)
(* A name is a base and whether "_reshaped" is appended to it.  A tensor   *)
(* is its rows and columns, leading dimensions of 1 removed and the others *)
(* merged, and, for the properties, what it really holds.                  *)
(***************************************************************************)
EXTENDS Naturals, FiniteSets, SequencesExt

CONSTANTS
  Anchors,   \* the anchors of each stride, by feat_sizes and num_anchors
  Answers    \* the raw outputs the model may give: sets of tensors

Strides == DOMAIN Anchors
Columns == [score |-> 1, box |-> 4, landmark |-> 10]
Kinds == DOMAIN Columns

\* score_names, box_names, landmark_names.
Configured(kind, s) == [base |-> <<kind, s>>, reshaped |-> FALSE]

\* What the constants have to be.
AnchorsAssumption ==
  /\ Anchors \in Seq(Nat \ {0})
  /\ Anchors # <<>>
  \* The defaults, 12800, 3200 and 800, grow smaller as well.
  /\ \A s, t \in Strides : s < t => Anchors[s] > Anchors[t]

\* An answer is a finite dict with at most one tensor for a kind and a stride.
\* What the stage goes by is no pretence: a tensor under a configured name is
\* the one that name is for, and among those with the columns of a kind that
\* of a stride is known by its rows.
AnswersAssumption ==
  \A tensors \in Answers :
    /\ IsFiniteSet(tensors)
    /\ \A t, u \in tensors :
         t.name = u.name \/ (t.holds = u.holds /\ t.holds[1] \in Kinds)
           => t = u
    /\ \A t \in tensors :
         /\ {t.rows, t.cols} \subseteq Nat
         /\ t.holds \in STRING \X Nat
         /\ t.holds[1] \in Kinds => t.holds[2] \in Strides
         /\ \A kind \in Kinds, s \in Strides :
              /\ t.name = Configured(kind, s) => t.holds = <<kind, s>>
              /\ t.cols = Columns[kind] =>
                   (t.rows = Anchors[s] <=> t.holds = <<kind, s>>)

VARIABLES
  raw,      \* the tensors of the answer
  names,    \* the names taken for a kind, by stride; there may be too few
  stride,   \* the stride to decode next
  decoded,  \* the tensors that detections were read from, by stride
  stage     \* "names", "decode", "done" or "failed"
vars == <<raw, names, stride, decoded, stage>>

Init ==
  /\ raw \in Answers
  /\ names = [kind \in Kinds |-> <<>>]
  /\ stride = 1
  /\ decoded = {}
  /\ stage = "names"

RawNames == {t.name : t \in raw}
Tensor(name) == CHOOSE t \in raw : t.name = name

-----------------------------------------------------------------------------
(* _infer_output_names.                                                    *)

Group(kind) == {t \in raw : t.cols = Columns[kind]}

ShapesTell ==
  /\ \A kind \in Kinds : Group(kind) # {}
  /\ Cardinality(raw) >= 3 * Cardinality(Strides)

\* Descending anchor counts; equal ones stay in the order of the answer, of
\* which nothing is known.
Orders(kind) ==
  {s \in SetToSeqs(Group(kind)) :
     \A i, j \in DOMAIN s : i < j => s[i].rows >= s[j].rows}

\* sort_keys(info[columns])[:num_strides].
FirstNames(kind) ==
  {[i \in DOMAIN s \cap Strides |-> s[i].name] : s \in Orders(kind)}

NamesByShape ==
  /\ stage = "names"
  /\ ShapesTell
  /\ \E scores \in FirstNames("score"), boxes \in FirstNames("box"),
        landmarks \in FirstNames("landmark") :
       names' = [score |-> scores, box |-> boxes, landmark |-> landmarks]
  /\ stage' = "decode"
  /\ UNCHANGED <<raw, stride, decoded>>

\* rev leads from the names with the suffix to those without, and is looked up
\* with a configured name, which has none: it is found only as it is.
Found(kind, s) == Configured(kind, s) \in RawNames

SuffixTells ==
  /\ \E name \in RawNames : name.reshaped
  /\ \A kind \in Kinds, s \in Strides : Found(kind, s)

NamesBySuffix ==
  /\ stage = "names"
  /\ ~ShapesTell
  /\ SuffixTells
  /\ names' = [kind \in Kinds |-> [s \in Strides |-> Configured(kind, s)]]
  /\ stage' = "decode"
  /\ UNCHANGED <<raw, stride, decoded>>

NamesConfigured ==
  /\ stage = "names"
  /\ ~ShapesTell
  /\ ~SuffixTells
  /\ names' = [kind \in Kinds |-> [s \in Strides |-> Configured(kind, s)]]
  /\ stage' = "decode"
  /\ UNCHANGED <<raw, stride, decoded>>

-----------------------------------------------------------------------------
(* The loop over the strides.                                              *)

\* A list that is too short (IndexError), a name that is not there (KeyError).
Named(kind) ==
  stride \in DOMAIN names[kind] /\ names[kind][stride] \in RawNames
AllNamed == \A kind \in Kinds : Named(kind)

Of(kind) == Tensor(names[kind][stride])

\* reshape(-1, columns) works on any tensor the columns divide.
Reshapes(kind) == (Of(kind).rows * Of(kind).cols) % Columns[kind] = 0
Rows(kind) == (Of(kind).rows * Of(kind).cols) \div Columns[kind]

\* Mutant: rows are cut to what the mask has.
CutToFit == \A kind \in Kinds : Reshapes(kind)

\* A mask selects only from what has as many rows: scores, boxes, landmarks
\* and the anchors of the stride.
Fits ==
  \A kind \in Kinds : Reshapes(kind) /\ Rows(kind) = Anchors[stride]

\* Some scores reach the threshold.
DecodeStride ==
  /\ stage = "decode"
  /\ stride \in Strides
  /\ AllNamed
  /\ Fits
  /\ decoded' = decoded \cup {<<stride, [kind \in Kinds |-> Of(kind)]>>}
  /\ stride' = stride + 1
  /\ UNCHANGED <<raw, names, stage>>

\* None does: the other tensors are reshaped and not looked at.
SkipStride ==
  /\ stage = "decode"
  /\ stride \in Strides
  /\ AllNamed
  /\ \A kind \in Kinds : Reshapes(kind)
  /\ stride' = stride + 1
  /\ UNCHANGED <<raw, names, decoded, stage>>

DecodeFails ==
  /\ stage = "decode"
  /\ stride \in Strides
  /\ ~(AllNamed /\ Fits)
  /\ stage' = "failed"
  /\ UNCHANGED <<raw, names, stride, decoded>>

Decoded ==
  /\ stage = "decode"
  /\ stride \notin Strides
  /\ stage' = "done"
  /\ UNCHANGED <<raw, names, stride, decoded>>

Ended == stage \in {"done", "failed"} /\ UNCHANGED vars

Next ==
  \/ NamesByShape \/ NamesBySuffix \/ NamesConfigured
  \/ DecodeStride \/ SkipStride \/ DecodeFails \/ Decoded \/ Ended

Spec == Init /\ [][Next]_vars

-----------------------------------------------------------------------------
Holds(kind, s) == {t \in raw : t.holds = <<kind, s>>}
Complete == \A kind \in Kinds, s \in Strides : Holds(kind, s) # {}
Plain == \A t \in raw : t.holds[1] \in Kinds /\ t.cols = Columns[t.holds[1]]

\* Detections are never put together from tensors of different strides or
\* kinds: the answer is understood or the stage fails.  And `Auto-detect output
\* tensor names by shape when the model uses different names': a complete
\* answer is understood, whatever its names.
OwnTensors ==
  /\ \A d \in decoded : \A kind \in Kinds : d[2][kind].holds = <<kind, d[1]>>
  /\ Complete /\ Plain => stage # "failed"
=============================================================================
