-------------------------------- MODULE Nms --------------------------------
(***************************************************************************)
(* greedy_nms (stages/_utils/nms.py): of boxes that overlap, the one with  *)
(* the highest score is kept.  One step is one turn of its loop.           *)
(*                                                                         *)
(* Coordinates are integers and the threshold is Num/Den, so that IoU is   *)
(* compared exactly.  Boxes may have no area, or x2 < x1: they are what a  *)
(* network regresses, and nothing filters them on the way.                 *)
(***************************************************************************)
EXTENDS Integers, Sequences, FiniteSets

CONSTANTS
  Boxes,      \* the indices of the boxes
  Num, Den,   \* iou_threshold = Num / Den
  Shapes,     \* the boxes a network may give: [x1, y1, x2, y2]
  Scores      \* the scores it may give them

ASSUME NmsAssumption ==
  /\ Num \in Nat
  /\ Den \in Nat \ {0}
  /\ Scores \subseteq Int
  /\ IsFiniteSet(Boxes)

VARIABLES
  box, score,  \* the arguments
  rank,        \* the place of each box in scores.argsort()[::-1]
  order,       \* the boxes still in order
  keep         \* the list that is returned
vars == <<box, score, rank, order, keep>>

\* Any order by descending score: argsort does not keep equal scores in place.
Sorted(r) ==
  /\ \A i, j \in Boxes : i # j => r[i] # r[j]
  /\ \A i, j \in Boxes : r[i] < r[j] => score[i] >= score[j]

Init ==
  /\ box \in [Boxes -> Shapes]
  /\ score \in [Boxes -> Scores]
  /\ rank \in [Boxes -> 1..Cardinality(Boxes)]
  /\ Sorted(rank)
  /\ order = Boxes
  /\ keep = <<>>

Most(a, b) == IF a >= b THEN a ELSE b
Least(a, b) == IF a <= b THEN a ELSE b

Area(b) == (b.x2 - b.x1) * (b.y2 - b.y1)

Inter(a, b) ==
  Most(0, Least(a.x2, b.x2) - Most(a.x1, b.x1))
  * Most(0, Least(a.y2, b.y2) - Most(a.y1, b.y1))

\* iou <= iou_threshold.  Over a union of 0 the quotient is nan or infinite,
\* and the comparison is false.
Survives(i, j) ==
  LET inter == Inter(box[i], box[j])
      union == Area(box[i]) + Area(box[j]) - inter
  IN  \/ union > 0 /\ inter * Den <= Num * union
      \/ union < 0 /\ inter * Den >= Num * union

\* Mutant: a box is compared with the next one only.
LeftAfterNext(i) ==
  {j \in order \ {i} :
     Survives(i, j) \/ \E k \in order \ {i} : rank[k] < rank[j]}

Left(i) == {j \in order \ {i} : Survives(i, j)}

First(i) == \A j \in order : rank[i] <= rank[j]

Turn ==
  \E i \in order :
    /\ First(i)
    /\ keep' = Append(keep, i)
    /\ order' = Left(i)
    /\ UNCHANGED <<box, score, rank>>

Return == order = {} /\ UNCHANGED vars

Next == Turn \/ Return

Spec == Init /\ [][Next]_vars

-----------------------------------------------------------------------------
Kept == {keep[n] : n \in DOMAIN keep}

\* The list is what a greedy reader expects: a box is in it exactly if no box
\* in it that is ranked higher suppresses it.
GreedyKept ==
  order = {} =>
    \A j \in Boxes :
      j \in Kept <=>
        \A i \in Kept : rank[i] < rank[j] => Survives(i, j)

\* `Indices of boxes to keep, sorted by descending score': what comes first in
\* the list is the best detection, and no box is in it twice.
KeptSorted ==
  \A n, m \in DOMAIN keep :
    n < m => rank[keep[n]] < rank[keep[m]] /\ score[keep[n]] >= score[keep[m]]
=============================================================================
