--------------------------- MODULE DataPathProofs ---------------------------
(***************************************************************************)
(* Proofs about DataPath: for every number of faces and strides, every     *)
(* canvas and image, every size of batch and every answer of the networks  *)
(* that is as DataAssumption has it.                                       *)
(***************************************************************************)
EXTENDS DataPath, FiniteSetTheorems, SequenceTheorems, WellFoundedInduction,
        TLAPS

-----------------------------------------------------------------------------
(* Lists that are sorted.                                                  *)

\* Numbers that ascend from one to the next have a least one: what induction
\* would show is shown of the least number for which it fails.
LEMMA LeastNumber ==
  ASSUME NEW T \in SUBSET Nat, T # {}
  PROVE  \E m \in T : \A k \in T : m <= k
<1>1. PICK m \in T : \A k \in T : ~(<<k, m>> \in OpToRel(<, Nat))
  <2> HIDE DEF OpToRel
  <2> QED BY NatLessThanWellFounded, WFMin
<1>2. ASSUME NEW k \in T, k < m PROVE FALSE
  <2>1. <<k, m>> \in OpToRel(<, Nat)
    BY <1>2 DEF OpToRel
  <2> QED  BY <1>1, <2>1
<1>3. \A k \in T : m <= k
  BY <1>2
<1> QED  BY <1>3

\* A list of n different numbers up to n that ascend is that of all of them.
LEMMA AscendingIsIdentity ==
  ASSUME NEW n \in Nat, NEW h \in [1..n -> 1..n],
         \A i, j \in 1..n : i < j => h[i] < h[j]
  PROVE  \A i \in 1..n : h[i] = i
<1>1. \A i \in 1..n : h[i] >= i
  <2> SUFFICES ASSUME NEW x \in 1..n, h[x] < x PROVE FALSE
    OBVIOUS
  <2> DEFINE T == {i \in 1..n : h[i] < i}
  <2>1. PICK m \in T : \A k \in T : m <= k
    <3>1. T \in SUBSET Nat /\ T # {}
      OBVIOUS
    <3> HIDE DEF T
    <3> QED  BY <3>1, LeastNumber
  <2>2. m \in 1..n /\ h[m] < m /\ m # 1
    OBVIOUS
  <2>3. m - 1 \in 1..n /\ m - 1 \notin T
    BY <2>1, <2>2
  <2> QED  BY <2>2, <2>3
<1>2. \A i \in 1..n : h[i] <= i
  <2> SUFFICES ASSUME NEW x \in 1..n, h[x] > x PROVE FALSE
    OBVIOUS
  <2> DEFINE T == {k \in Nat : n - k \in 1..n /\ h[n - k] > n - k}
  <2>1. PICK m \in T : \A k \in T : m <= k
    <3>1. n - x \in T
      OBVIOUS
    <3>2. T \in SUBSET Nat /\ T # {}
      BY <3>1
    <3> HIDE DEF T
    <3> QED  BY <3>2, LeastNumber
  <2>2. m \in Nat /\ n - m \in 1..n /\ h[n - m] > n - m /\ n - m # n
    OBVIOUS
  <2>3. m \in 1..n /\ n - (m - 1) \in 1..n /\ m - 1 \in Nat
    BY <2>2
  <2>4. n - (m - 1) = n - m + 1 /\ n - m < n - (m - 1)
    BY <2>3
  <2>5. h[n - m] < h[n - (m - 1)]
    BY <2>2, <2>3, <2>4
  <2>6. h[n - (m - 1)] \in 1..n /\ h[n - m] \in 1..n
    BY <2>2, <2>3
  <2>7. h[n - (m - 1)] > n - (m - 1)
    BY <2>2, <2>4, <2>5, <2>6
  <2>8. m - 1 \in T
    BY <2>3, <2>7
  <2>9. m <= m - 1
    BY <2>1, <2>8
  <2> QED  BY <2>2, <2>9
<1> QED  BY <1>1, <1>2

-----------------------------------------------------------------------------
(* Nms: for any boxes, scores and threshold, degenerate boxes included,    *)
(* and any order of equal scores.                                          *)

NmsTypes ==
  /\ rank \in [Boxes -> Int]
  /\ score \in [Boxes -> Int]
  /\ order \subseteq Boxes
  /\ keep \in Seq(Boxes)

\* What is kept comes before all that is left, and suppresses none of it.
KeptBefore ==
  \A i \in Kept, j \in order : rank[i] < rank[j] /\ Survives(i, j)

KeptApart ==
  \A i, j \in Kept : rank[i] < rank[j] => Survives(i, j)

DroppedFor ==
  \A j \in Boxes \ (Kept \cup order) :
    \E i \in Kept : rank[i] < rank[j] /\ ~Survives(i, j)

NmsInv ==
  /\ NmsTypes
  /\ Sorted(rank)
  /\ KeptBefore
  /\ KeptApart
  /\ DroppedFor
  /\ KeptSorted

\* Nothing is kept or dropped at the start.
LEMMA NmsStart == Init => NmsInv
<1> SUFFICES ASSUME Init PROVE NmsInv
  OBVIOUS
<1>1. Cardinality(Boxes) \in Nat
  BY NmsAssumption, FS_CardinalityType
<1>2. NmsTypes
  <2>1. rank \in [Boxes -> Int]
    BY <1>1 DEF Init
  <2>2. score \in [Boxes -> Int]
    BY NmsAssumption DEF Init
  <2>3. keep \in Seq(Boxes)
    BY EmptySeq DEF Init
  <2> QED  BY <2>1, <2>2, <2>3 DEF Init, NmsTypes
<1>3. Kept = {}
  BY DEF Init, Kept
<1>4. KeptSorted
  BY DEF Init, KeptSorted
<1> QED  BY <1>2, <1>3, <1>4
         DEF Init, NmsInv, KeptBefore, KeptApart, DroppedFor

\* One turn adds the box it takes to what is kept.
LEMMA TurnKeeps ==
  ASSUME NmsTypes, NEW i \in Boxes, keep' = Append(keep, i)
  PROVE  /\ keep' \in Seq(Boxes)
         /\ Kept' = Kept \cup {i}
         /\ DOMAIN keep' = DOMAIN keep \cup {Len(keep) + 1}
         /\ keep'[Len(keep) + 1] = i
         /\ \A n \in DOMAIN keep : keep'[n] = keep[n] /\ n < Len(keep) + 1
         /\ DOMAIN keep \subseteq Int /\ Len(keep) + 1 \in Int
<1>1. /\ Len(keep) \in Nat
      /\ DOMAIN keep = 1..Len(keep)
      /\ keep \in Seq(Boxes)
  BY LenProperties DEF NmsTypes
<1>2. /\ keep' \in Seq(Boxes)
      /\ Len(keep') = Len(keep) + 1
      /\ \A n \in 1..Len(keep) : keep'[n] = keep[n]
      /\ keep'[Len(keep) + 1] = i
  BY <1>1, AppendProperties
<1>3. DOMAIN keep' = 1..Len(keep) + 1
  BY <1>2, LenProperties
<1>4. DOMAIN keep' = DOMAIN keep \cup {Len(keep) + 1}
  BY <1>1, <1>3
<1>5. Kept' = Kept \cup {i}
  BY <1>1, <1>2, <1>4 DEF Kept
<1> QED  BY <1>1, <1>2, <1>4, <1>5

\* A turn takes the best box that is left and drops what it suppresses.
LEMMA NmsTurn == NmsInv /\ Turn => NmsInv'
<1> SUFFICES ASSUME NmsInv, Turn PROVE NmsInv'
  OBVIOUS
<1>1. PICK i \in order :
        /\ First(i)
        /\ keep' = Append(keep, i)
        /\ order' = Left(i)
        /\ UNCHANGED <<box, score, rank>>
  BY DEF Turn
<1> USE DEF NmsInv
<1>2. i \in Boxes /\ \A j \in Boxes : rank[j] \in Int
  BY DEF NmsTypes
<1>3. /\ keep' \in Seq(Boxes)
      /\ Kept' = Kept \cup {i}
      /\ DOMAIN keep' = DOMAIN keep \cup {Len(keep) + 1}
      /\ keep'[Len(keep) + 1] = i
      /\ \A n \in DOMAIN keep : keep'[n] = keep[n] /\ n < Len(keep) + 1
      /\ DOMAIN keep \subseteq Int /\ Len(keep) + 1 \in Int
  BY <1>1, <1>2, TurnKeeps
<1>4. order' = {j \in order \ {i} : Survives(i, j)}
  BY <1>1 DEF Left
<1>5. \A j, k : Survives(j, k)' <=> Survives(j, k)
  BY <1>1 DEF Survives
<1>6. Kept \subseteq Boxes
  BY DEF NmsTypes, Kept
<1>7. \A j \in order \ {i} : rank[i] < rank[j]
  BY <1>1, <1>2 DEF First, Sorted, NmsTypes
<1>8. NmsTypes'
  BY <1>1, <1>3, <1>4 DEF NmsTypes
<1>9. Sorted(rank)'
  BY <1>1 DEF Sorted
<1>10. KeptBefore'
  BY <1>1, <1>3, <1>4, <1>5, <1>7 DEF KeptBefore
<1>11. KeptApart'
  <2> SUFFICES ASSUME NEW j \in Kept', NEW k \in Kept', rank'[j] < rank'[k]
               PROVE  Survives(j, k)
    BY <1>5 DEF KeptApart
  <2>1. CASE j \in Kept /\ k \in Kept
    BY <1>1, <2>1 DEF KeptApart
  <2>2. CASE j \in Kept /\ k = i
    BY <2>2 DEF KeptBefore
  <2>3. CASE j = i
    BY <1>1, <1>2, <1>3, <1>6, <2>3 DEF KeptBefore
  <2> QED  BY <1>3, <2>1, <2>2, <2>3
<1>12. DroppedFor'
  <2> SUFFICES ASSUME NEW j \in Boxes, j \notin Kept', j \notin order'
               PROVE  \E k \in Kept' : rank[k] < rank[j] /\ ~Survives(k, j)
    BY <1>1, <1>5 DEF DroppedFor
  <2>1. CASE j \in order
    BY <1>3, <1>4, <1>7, <2>1
  <2>2. CASE j \notin order
    BY <1>3, <2>2 DEF DroppedFor
  <2> QED  BY <2>1, <2>2
<1>13. KeptSorted'
  <2> SUFFICES ASSUME NEW n \in DOMAIN keep', NEW m \in DOMAIN keep', n < m
               PROVE  /\ rank[keep'[n]] < rank[keep'[m]]
                      /\ score[keep'[n]] >= score[keep'[m]]
    BY <1>1 DEF KeptSorted
  <2>1. CASE n \in DOMAIN keep /\ m \in DOMAIN keep
    BY <1>3, <2>1 DEF KeptSorted
  <2>2. CASE n \in DOMAIN keep /\ m = Len(keep) + 1
    <3>1. keep[n] \in Kept /\ keep'[n] = keep[n] /\ keep'[m] = i
      BY <1>3, <2>2 DEF Kept
    <3>2. rank[keep[n]] < rank[i]
      BY <3>1 DEF KeptBefore
    <3> QED  BY <1>2, <1>6, <3>1, <3>2 DEF Sorted
  <2>3. CASE n = Len(keep) + 1
    BY <1>3, <2>3
  <2> QED  BY <1>3, <2>1, <2>2, <2>3
<1> QED  BY <1>8, <1>9, <1>10, <1>11, <1>12, <1>13

\* The last state only repeats itself.
LEMMA NmsStep == NmsInv /\ [Next]_vars => NmsInv'
<1> SUFFICES ASSUME NmsInv, [Next]_vars PROVE NmsInv'
  OBVIOUS
<1>1. CASE Turn  BY <1>1, NmsTurn
<1>2. CASE UNCHANGED vars
  <2>1. \A j, k : Survives(j, k)' <=> Survives(j, k)
    BY <1>2 DEF vars, Survives
  <2>2. Kept' = Kept
    BY <1>2 DEF vars, Kept
  <2> QED  BY <1>2, <2>1, <2>2
           DEF vars, NmsInv, NmsTypes, Sorted, KeptBefore, KeptApart,
               DroppedFor,
               KeptSorted
<1> QED  BY <1>1, <1>2 DEF Next, Return

\* greedy_nms keeps a box exactly if no better box it keeps suppresses it
\* (nms.py, the loop over order).
THEOREM GreedyTheorem == Spec => []GreedyKept
<1>1. NmsInv => GreedyKept
  BY DEF NmsInv, KeptApart, DroppedFor, GreedyKept
<1> QED  BY NmsStart, NmsStep, <1>1, PTL DEF Spec

\* The list it returns is by descending score and names no box twice.
THEOREM SortedTheorem == Spec => []KeptSorted
<1>1. NmsInv => KeptSorted
  BY DEF NmsInv
<1> QED  BY NmsStart, NmsStep, <1>1, PTL DEF Spec

-----------------------------------------------------------------------------
(* ScrfdOutputs.                                                           *)

\* The tensor of a kind and a stride, of the shape it should have.
Proper(t, kind, s) ==
  /\ t.holds = <<kind, s>>
  /\ t.cols = Scrfd!Columns[kind]
  /\ t.rows = Anchors[s]

LEMMA KindNames ==
  /\ Scrfd!Kinds = {"score", "box", "landmark"}
  /\ \A kind \in Scrfd!Kinds : Scrfd!Columns[kind] \in {1, 4, 10}
  /\ \A k, l \in Scrfd!Kinds : Scrfd!Columns[k] = Scrfd!Columns[l] => k = l
  /\ Scrfd!Columns["score"] = 1
  /\ Scrfd!Columns["box"] = 4
  /\ Scrfd!Columns["landmark"] = 10
BY DEF Scrfd!Kinds, Scrfd!Columns

LEMMA StrideNumbers ==
  \E n \in Nat \ {0} : /\ Scrfd!Strides = 1..n
                       /\ \A s \in 1..n : Anchors[s] \in Nat \ {0}
                       /\ \A s, t \in 1..n : s < t => Anchors[s] > Anchors[t]
<1>1. Anchors \in Seq(Nat \ {0}) /\ Anchors # <<>>
  BY DataAssumption DEF Scrfd!AnchorsAssumption
<1>2. /\ Len(Anchors) \in Nat \ {0} /\ DOMAIN Anchors = 1..Len(Anchors)
      /\ \A s \in 1..Len(Anchors) : Anchors[s] \in Nat \ {0}
  BY <1>1
<1> QED
  BY <1>2, DataAssumption DEF Scrfd!AnchorsAssumption, Scrfd!Strides

\* What AnswersAssumption says of the answer at hand.
LEMMA Tensors ==
  ASSUME raw \in Answers
  PROVE  /\ IsFiniteSet(raw)
         /\ \A t, u \in raw : t.name = u.name => t = u
         /\ \A t, u \in raw :
              t.holds = u.holds /\ t.holds[1] \in Scrfd!Kinds => t = u
<1>1. Scrfd!AnswersAssumption
  BY DataAssumption
<1>2. Scrfd!IsFiniteSet(raw) <=> IsFiniteSet(raw)
  BY DEF Scrfd!IsFiniteSet, IsFiniteSet
<1> QED  BY <1>1, <1>2 DEF Scrfd!AnswersAssumption

LEMMA TensorFacts ==
  ASSUME raw \in Answers, NEW t \in raw
  PROVE  /\ t.rows \in Nat /\ t.cols \in Nat
         /\ t.holds = <<t.holds[1], t.holds[2]>>
         /\ t.holds[1] \in Scrfd!Kinds => t.holds[2] \in Scrfd!Strides
         /\ \A kind \in Scrfd!Kinds, s \in Scrfd!Strides :
              /\ t.name = Scrfd!Configured(kind, s) => t.holds = <<kind, s>>
              /\ t.cols = Scrfd!Columns[kind] =>
                   (t.rows = Anchors[s] <=> t.holds = <<kind, s>>)
<1>1. Scrfd!AnswersAssumption
  BY DataAssumption
<1>2. /\ t.rows \in Nat /\ t.cols \in Nat
      /\ t.holds = <<t.holds[1], t.holds[2]>>
      /\ t.holds[1] \in Scrfd!Kinds => t.holds[2] \in Scrfd!Strides
  BY <1>1 DEF Scrfd!AnswersAssumption
<1>3. ASSUME NEW kind \in Scrfd!Kinds, NEW s \in Scrfd!Strides
      PROVE  /\ t.name = Scrfd!Configured(kind, s) => t.holds = <<kind, s>>
             /\ t.cols = Scrfd!Columns[kind] =>
                  (t.rows = Anchors[s] <=> t.holds = <<kind, s>>)
  BY <1>1 DEF Scrfd!AnswersAssumption
<1> QED  BY <1>2, <1>3

\* A name of a tensor leads to it.
LEMMA TensorOf ==
  ASSUME raw \in Answers, NEW t \in raw
  PROVE  Scrfd!Tensor(t.name) = t
<1>1. \A u \in raw : u.name = t.name => u = t
  BY Tensors
<1> QED  BY <1>1 DEF Scrfd!Tensor

LEMMA NameLeads ==
  ASSUME raw \in Answers, NEW name \in Scrfd!RawNames
  PROVE  Scrfd!Tensor(name) \in raw /\ Scrfd!Tensor(name).name = name
<1>1. PICK t \in raw : t.name = name
  BY DEF Scrfd!RawNames
<1> QED  BY <1>1, TensorOf

\* The tensors of a kind, in a complete answer of no others: one for each
\* stride.
LEMMA GroupOfComplete ==
  ASSUME raw \in Answers, Scrfd!Complete, Scrfd!Plain, NEW kind \in Scrfd!Kinds
  PROVE  /\ \A t \in Scrfd!Group(kind) :
              /\ t \in raw
              /\ t.holds[2] \in Scrfd!Strides
              /\ Proper(t, kind, t.holds[2])
         /\ \A s \in Scrfd!Strides : \E t \in Scrfd!Group(kind) :
              t.holds = <<kind, s>>
         /\ \A t, u \in Scrfd!Group(kind) : t.holds[2] = u.holds[2] => t = u
<1>1. ASSUME NEW t \in Scrfd!Group(kind)
      PROVE  /\ t \in raw
             /\ t.holds[2] \in Scrfd!Strides
             /\ t.holds = <<kind, t.holds[2]>>
             /\ Proper(t, kind, t.holds[2])
  <2>1. t \in raw /\ t.cols = Scrfd!Columns[kind]
    BY DEF Scrfd!Group
  <2>2. /\ t.holds[1] \in Scrfd!Kinds
        /\ t.cols = Scrfd!Columns[t.holds[1]]
    BY <2>1 DEF Scrfd!Plain
  <2>3. t.holds[1] = kind
    BY <2>1, <2>2, KindNames
  <2>4. t.holds[2] \in Scrfd!Strides /\ t.holds = <<t.holds[1], t.holds[2]>>
    BY <2>1, <2>2, TensorFacts
  <2>5. t.rows = Anchors[t.holds[2]]
    BY <2>1, <2>3, <2>4, TensorFacts
  <2> QED  BY <2>1, <2>3, <2>4, <2>5 DEF Proper
<1>2. ASSUME NEW s \in Scrfd!Strides
      PROVE  \E t \in Scrfd!Group(kind) : t.holds = <<kind, s>>
  <2>1. PICK t \in raw : t.holds = <<kind, s>>
    BY DEF Scrfd!Complete, Scrfd!Holds
  <2>2. t.cols = Scrfd!Columns[kind]
    BY <2>1 DEF Scrfd!Plain
  <2> QED  BY <2>1, <2>2 DEF Scrfd!Group
<1>3. ASSUME NEW t \in Scrfd!Group(kind), NEW u \in Scrfd!Group(kind),
             t.holds[2] = u.holds[2]
      PROVE  t = u
  <2>1. t.holds = u.holds /\ t.holds[1] = kind /\ t \in raw /\ u \in raw
    BY <1>1, <1>3
  <2> QED  BY <2>1, Tensors
<1> QED  BY <1>1, <1>2, <1>3

LEMMA SameCardinality ==
  ASSUME NEW S PROVE Scrfd!Cardinality(S) = Cardinality(S)
BY DEF Scrfd!Cardinality, Cardinality

\* Sorted by their rows, they are in the order of the strides.
LEMMA RowsTellStrides ==
  ASSUME raw \in Answers, Scrfd!Complete, Scrfd!Plain,
         NEW kind \in Scrfd!Kinds, NEW list \in Scrfd!FirstNames(kind)
  PROVE  \A s \in Scrfd!Strides :
           /\ s \in DOMAIN list
           /\ \E t \in raw : t.name = list[s] /\ Proper(t, kind, s)
<1> DEFINE G == Scrfd!Group(kind)
<1>1. PICK n \in Nat \ {0} :
        /\ Scrfd!Strides = 1..n
        /\ \A s \in 1..n : Anchors[s] \in Nat \ {0}
        /\ \A s, t \in 1..n : s < t => Anchors[s] > Anchors[t]
  BY StrideNumbers
<1>2. /\ \A t \in G : /\ t \in raw
                      /\ t.holds[2] \in 1..n
                      /\ Proper(t, kind, t.holds[2])
      /\ \A s \in 1..n : \E t \in G : t.holds = <<kind, s>>
      /\ \A t, u \in G : t.holds[2] = u.holds[2] => t = u
  BY <1>1, GroupOfComplete
<1>3. Scrfd!Cardinality(G) = n
  <2> DEFINE f == [t \in G |-> t.holds[2]]
  <2>1. f \in Bijection(G, 1..n)
    <3>1. f \in Injection(G, 1..n)
      <4>1. \A t \in G : t.holds[2] \in 1..n
        BY <1>2
      <4>2. f \in [G -> 1..n]
        BY <4>1
      <4>3. ASSUME NEW t \in G, NEW u \in G, f[t] = f[u] PROVE t = u
        <5>1. t.holds[2] = u.holds[2]
          BY <4>3
        <5> QED  BY <1>2, <5>1
      <4> HIDE DEF f, G
      <4> QED  BY <4>2, <4>3 DEF Injection, IsInjective
    <3>2. \A s \in 1..n : \E t \in G : f[t] = s
      <4> SUFFICES ASSUME NEW s \in 1..n PROVE \E t \in G : f[t] = s
        OBVIOUS
      <4>1. PICK t \in G : t.holds = <<kind, s>>
        BY <1>2
      <4>2. f[t] = s
        BY <4>1
      <4> QED  BY <4>2
    <3> QED  BY <3>1, <3>2 DEF Bijection, Surjection, Injection
  <2>2. IsFiniteSet(G)
    <3>1. G \in SUBSET raw /\ IsFiniteSet(raw)
      BY Tensors DEF Scrfd!Group
    <3> QED  BY <3>1, FS_Subset
  <2>3. Cardinality(1..n) = Cardinality(G)
    <3> HIDE DEF f, G
    <3> QED  BY <2>1, <2>2, FS_Bijection DEF ExistsBijection
  <2>4. Cardinality(1..n) = n
    BY FS_Interval
  <2> QED  BY <2>3, <2>4, SameCardinality
<1>4. PICK o \in Scrfd!Orders(kind) :
        list = [i \in DOMAIN o \cap Scrfd!Strides |-> o[i].name]
  BY DEF Scrfd!FirstNames
<1>5. /\ o \in [1..n -> G]
      /\ \A i, j \in 1..n : i # j => o[i] # o[j]
      /\ \A i, j \in 1..n : i < j => o[i].rows >= o[j].rows
  BY <1>3, <1>4 DEF Scrfd!Orders, Scrfd!SetToSeqs
<1> HIDE DEF G
<1> DEFINE h == [i \in 1..n |-> o[i].holds[2]]
<1>6. h \in [1..n -> 1..n]
  BY <1>2, <1>5
<1>7. ASSUME NEW i \in 1..n, NEW j \in 1..n, i < j PROVE h[i] < h[j]
  <2>1. /\ o[i] \in G /\ o[j] \in G /\ o[i] # o[j]
        /\ o[i].rows >= o[j].rows
    BY <1>5, <1>7
  <2>2. h[i] # h[j]
    BY <1>2, <2>1
  <2>3. Anchors[h[i]] >= Anchors[h[j]]
    BY <1>2, <2>1 DEF Proper
  <2>4. h[i] \in 1..n /\ h[j] \in 1..n
    BY <1>6
  <2> HIDE DEF h
  <2>5. ~(h[j] < h[i])
    <3> SUFFICES ASSUME h[j] < h[i] PROVE FALSE
      OBVIOUS
    <3>1. Anchors[h[j]] > Anchors[h[i]]
      BY <1>1, <2>4
    <3>2. Anchors[h[j]] \in Nat /\ Anchors[h[i]] \in Nat
      BY <1>1, <2>4
    <3> QED  BY <2>3, <3>1, <3>2
  <2> QED  BY <2>2, <2>4, <2>5
<1>8. \A i \in 1..n : h[i] = i
  <2> HIDE DEF h
  <2> QED  BY <1>6, <1>7, AscendingIsIdentity
<1>9. ASSUME NEW s \in 1..n
      PROVE  /\ s \in DOMAIN list
             /\ \E t \in raw : t.name = list[s] /\ Proper(t, kind, s)
  <2>1. /\ o[s] \in G /\ o[s].holds[2] = s
    BY <1>5, <1>8
  <2>2. s \in DOMAIN list /\ list[s] = o[s].name
    BY <1>1, <1>4, <1>5
  <2> QED  BY <1>2, <2>1, <2>2
<1> QED  BY <1>1, <1>9

\* Three things are three.
LEMMA ThreeElements ==
  ASSUME NEW a, NEW b, NEW c, a # b, a # c, b # c
  PROVE  IsFiniteSet({a, b, c}) /\ Cardinality({a, b, c}) = 3
<1>1. IsFiniteSet({a}) /\ Cardinality({a}) = 1
  BY FS_Singleton
<1>2. IsFiniteSet({a, b}) /\ Cardinality({a, b}) = 2
  <2>1. {a} \cup {b} = {a, b} /\ b \notin {a}
    OBVIOUS
  <2>2. /\ IsFiniteSet({a} \cup {b})
        /\ Cardinality({a} \cup {b}) = Cardinality({a}) + 1
    BY ONLY <1>1, <2>1, FS_AddElement
  <2> QED  BY ONLY <1>1, <2>1, <2>2
<1>3. {a, b} \cup {c} = {a, b, c} /\ c \notin {a, b}
  OBVIOUS
<1>4. /\ IsFiniteSet({a, b} \cup {c})
      /\ Cardinality({a, b} \cup {c}) = Cardinality({a, b}) + 1
  <2> DEFINE S == {a, b}
  <2>1. IsFiniteSet(S) /\ c \notin S
    BY <1>2, <1>3
  <2> HIDE DEF S
  <2>2. IsFiniteSet(S \cup {c}) /\ Cardinality(S \cup {c}) = Cardinality(S) + 1
    BY ONLY <2>1, FS_AddElement
  <2> QED  BY <2>2 DEF S
<1> QED  BY ONLY <1>2, <1>3, <1>4

\* Shapes tell in a complete answer of no other tensors.
LEMMA CompleteTells ==
  ASSUME raw \in Answers, Scrfd!Complete, Scrfd!Plain
  PROVE  Scrfd!ShapesTell
<1>1. PICK n \in Nat \ {0} : Scrfd!Strides = 1..n
  BY StrideNumbers
<1>2. ASSUME NEW kind \in Scrfd!Kinds PROVE Scrfd!Group(kind) # {}
  <2>1. 1 \in Scrfd!Strides
    BY <1>1
  <2> QED  BY <2>1, GroupOfComplete
<1>3. Scrfd!Cardinality(raw) >= 3 * Scrfd!Cardinality(Scrfd!Strides)
  <2> DEFINE K == {"score", "box", "landmark"}
             f == [t \in raw |-> t.holds]
  <2>1. f \in Surjection(raw, K \X (1..n))
    <3>1. \A t \in raw : t.holds \in K \X (1..n)
      <4> SUFFICES ASSUME NEW t \in raw PROVE t.holds \in K \X (1..n)
        OBVIOUS
      <4>1. t.holds[1] \in K
        BY KindNames DEF Scrfd!Plain
      <4>2. t.holds[2] \in 1..n /\ t.holds = <<t.holds[1], t.holds[2]>>
        BY <1>1, <4>1, TensorFacts, KindNames
      <4> QED  BY <4>1, <4>2
    <3>2. \A k \in K, s \in 1..n : \E t \in raw : t.holds = <<k, s>>
      <4>1. \A k \in Scrfd!Kinds, s \in Scrfd!Strides :
              Scrfd!Holds(k, s) # {}
        BY DEF Scrfd!Complete
      <4>2. \A k \in K, s \in 1..n : Scrfd!Holds(k, s) # {}
        BY <1>1, <4>1, KindNames
      <4> QED  BY <4>2 DEF Scrfd!Holds
    <3>3. ASSUME NEW p \in K \X (1..n) PROVE \E t \in raw : f[t] = p
      <4>1. PICK k \in K, s \in 1..n : p = <<k, s>>
        OBVIOUS
      <4>2. PICK t \in raw : t.holds = p
        BY <3>2, <4>1
      <4> QED  BY <4>2
    <3> QED  BY <3>1, <3>3 DEF Surjection
  <2>2. IsFiniteSet(K) /\ Cardinality(K) = 3
    BY ThreeElements, "score" # "box", "score" # "landmark", "box" # "landmark"
  <2>3. IsFiniteSet(1..n) /\ Cardinality(1..n) = n
    BY FS_Interval
  <2>4. Cardinality(K \X (1..n)) = 3 * n
    <3> HIDE DEF K
    <3>1. Cardinality(K \X (1..n)) = Cardinality(K) * Cardinality(1..n)
      BY <2>2, <2>3, FS_Product, ZenonT(30)
    <3> QED  BY <2>2, <2>3, <3>1
  <2>5. Cardinality(K \X (1..n)) <= Cardinality(raw)
    <3>1. IsFiniteSet(raw)
      BY Tensors
    <3> HIDE DEF K, f
    <3> QED  BY <2>1, <3>1, FS_Surjection
  <2>6. Cardinality(raw) \in Nat
    BY Tensors, FS_CardinalityType
  <2> QED  BY <1>1, <2>3, <2>4, <2>5, <2>6, SameCardinality
<1> QED  BY <1>2, <1>3 DEF Scrfd!ShapesTell

\* How the list of a kind was made: of names for its tensors.
ListOf(kind) ==
  \A s \in DOMAIN names[kind] : names[kind][s] \in Scrfd!RawNames =>
    \/ Scrfd!Tensor(names[kind][s]).cols = Scrfd!Columns[kind]
    \/ names[kind][s] = Scrfd!Configured(kind, s)

\* A list that names the tensor of each stride.
Names(kind) ==
  \A s \in Scrfd!Strides :
    /\ s \in DOMAIN names[kind]
    /\ \E t \in raw : t.name = names[kind][s] /\ Proper(t, kind, s)

ScrfdInv ==
  /\ raw \in Answers
  /\ decoding \in {"names", "decode", "done", "failed"}
  /\ \A kind \in Scrfd!Kinds :
       decoding = "decode" =>
         /\ ListOf(kind)
         /\ Scrfd!Complete /\ Scrfd!Plain => Names(kind)
  /\ OwnTensors

\* A list of the names of some tensors of its kind, or of configured names.
LEMMA FirstNamesOf ==
  ASSUME raw \in Answers, NEW kind, NEW list \in Scrfd!FirstNames(kind)
  PROVE  \A s \in DOMAIN list :
           Scrfd!Tensor(list[s]).cols = Scrfd!Columns[kind]
<1>1. PICK o \in Scrfd!Orders(kind) :
        list = [i \in DOMAIN o \cap Scrfd!Strides |-> o[i].name]
  BY DEF Scrfd!FirstNames
<1>2. ASSUME NEW s \in DOMAIN list
      PROVE  Scrfd!Tensor(list[s]).cols = Scrfd!Columns[kind]
  <2>1. s \in DOMAIN o /\ list[s] = o[s].name
    BY <1>1
  <2>2. o[s] \in Scrfd!Group(kind)
    BY <2>1 DEF Scrfd!Orders, Scrfd!SetToSeqs
  <2>3. o[s] \in raw /\ o[s].cols = Scrfd!Columns[kind]
    BY <2>2 DEF Scrfd!Group
  <2> QED  BY <2>1, <2>3, TensorOf
<1> QED  BY <1>2

\* What is decoded is the tensors of the stride.
LEMMA FittingOwn ==
  ASSUME ScrfdInv, decoding = "decode", stride \in Scrfd!Strides,
         Scrfd!AllNamed, Scrfd!Fits, NEW kind \in Scrfd!Kinds
  PROVE  Scrfd!Of(kind).holds = <<kind, stride>>
<1>1. /\ stride \in DOMAIN names[kind]
      /\ names[kind][stride] \in Scrfd!RawNames
  BY DEF Scrfd!AllNamed, Scrfd!Named
<1>2. PICK t \in raw : t = Scrfd!Of(kind) /\ t.name = names[kind][stride]
  BY <1>1, NameLeads DEF Scrfd!Of, ScrfdInv
<1>3. CASE t.name = Scrfd!Configured(kind, stride)
  BY <1>2, <1>3, TensorFacts DEF ScrfdInv
<1>4. CASE t.cols = Scrfd!Columns[kind]
  <2>1. t.rows \in Nat /\ t.cols \in {1, 4, 10}
    BY <1>4, TensorFacts, KindNames DEF ScrfdInv
  <2>2. (t.rows * t.cols) \div t.cols = t.rows
    <3> PICK r \in Nat : r = t.rows
      BY <2>1
    <3>1. (r * 1) \div 1 = r /\ (r * 4) \div 4 = r /\ (r * 10) \div 10 = r
      OBVIOUS
    <3> QED  BY <2>1, <3>1
  <2>3. (t.rows * t.cols) \div Scrfd!Columns[kind] = Anchors[stride]
    BY <1>2 DEF Scrfd!Fits, Scrfd!Rows
  <2>4. t.rows = Anchors[stride]
    BY <1>4, <2>2, <2>3
  <2> QED  BY <1>2, <1>4, <2>4, TensorFacts DEF ScrfdInv
<1>5. \/ t.cols = Scrfd!Columns[kind]
      \/ t.name = Scrfd!Configured(kind, stride)
  BY <1>1, <1>2 DEF ScrfdInv, ListOf, Scrfd!Of
<1> QED  BY <1>3, <1>4, <1>5

\* Under a name for each of its tensors, all of a stride fit.
LEMMA NamedFit ==
  ASSUME ScrfdInv, stride \in Scrfd!Strides,
         \A kind \in Scrfd!Kinds : Names(kind)
  PROVE  Scrfd!AllNamed /\ Scrfd!Fits
<1> SUFFICES ASSUME NEW kind \in Scrfd!Kinds
             PROVE  /\ Scrfd!Named(kind)
                    /\ Scrfd!Reshapes(kind)
                    /\ Scrfd!Rows(kind) = Anchors[stride]
  BY DEF Scrfd!AllNamed, Scrfd!Fits
<1>1. /\ stride \in DOMAIN names[kind]
      /\ \E t \in raw :
           t.name = names[kind][stride] /\ Proper(t, kind, stride)
  BY DEF Names
<1>2. PICK t \in raw :
        t.name = names[kind][stride] /\ Proper(t, kind, stride)
  BY <1>1
<1>3. Scrfd!Named(kind)
  BY <1>1, <1>2 DEF Scrfd!Named, Scrfd!RawNames
<1>4. Scrfd!Of(kind) = t
  BY <1>2, TensorOf DEF Scrfd!Of, ScrfdInv
<1>5. /\ t.cols = Scrfd!Columns[kind] /\ t.rows = Anchors[stride]
      /\ t.cols \in {1, 4, 10} /\ t.rows \in Nat
  BY <1>2, KindNames, TensorFacts DEF Proper, ScrfdInv
<1>6. /\ (t.rows * t.cols) % t.cols = 0
      /\ (t.rows * t.cols) \div t.cols = t.rows
  <2> PICK r \in Nat : r = t.rows
    BY <1>5
  <2>1. /\ (r * 1) \div 1 = r /\ (r * 4) \div 4 = r /\ (r * 10) \div 10 = r
        /\ (r * 1) % 1 = 0 /\ (r * 4) % 4 = 0 /\ (r * 10) % 10 = 0
    OBVIOUS
  <2> QED  BY <1>5, <2>1
<1> QED
  BY <1>3, <1>4, <1>5, <1>6 DEF Scrfd!Reshapes, Scrfd!Rows

LEMMA NamesKept ==
  ASSUME UNCHANGED <<raw, names>>, NEW kind
  PROVE  /\ ListOf(kind) => ListOf(kind)'
         /\ Names(kind) => Names(kind)'
         /\ (Scrfd!Complete /\ Scrfd!Plain)' = (Scrfd!Complete /\ Scrfd!Plain)
<1>1. raw' = raw /\ names' = names
  OBVIOUS
<1>2. \A name : Scrfd!Tensor(name)' = Scrfd!Tensor(name)
  BY <1>1 DEF Scrfd!Tensor
<1>3. Scrfd!RawNames' = Scrfd!RawNames
  BY <1>1 DEF Scrfd!RawNames
<1>4. ListOf(kind) => ListOf(kind)'
  <2> SUFFICES ASSUME ListOf(kind), NEW s \in DOMAIN names'[kind],
                      names'[kind][s] \in Scrfd!RawNames'
               PROVE  (\/ Scrfd!Tensor(names[kind][s]).cols
                            = Scrfd!Columns[kind]
                       \/ names[kind][s] = Scrfd!Configured(kind, s))'
    BY DEF ListOf
  <2>1. PICK name : name = names[kind][s]
    OBVIOUS
  <2>2. \/ Scrfd!Tensor(name).cols = Scrfd!Columns[kind]
        \/ name = Scrfd!Configured(kind, s)
    BY <1>1, <1>3, <2>1 DEF ListOf
  <2>3. Scrfd!Tensor(name)' = Scrfd!Tensor(name)
    BY <1>2
  <2> QED  BY <1>1, <2>1, <2>2, <2>3 DEF Scrfd!Tensor
<1>5. Names(kind) => Names(kind)'
  BY <1>1 DEF Names, Proper
<1>6. (Scrfd!Complete /\ Scrfd!Plain)' = (Scrfd!Complete /\ Scrfd!Plain)
  BY <1>1 DEF Scrfd!Complete, Scrfd!Plain, Scrfd!Holds
<1> QED  BY <1>4, <1>5, <1>6

LEMMA ScrfdStep == ScrfdInv /\ [Scrfd!Next]_(Scrfd!vars) => ScrfdInv'
<1> SUFFICES ASSUME ScrfdInv, [Scrfd!Next]_(Scrfd!vars) PROVE ScrfdInv'
  OBVIOUS
<1> USE DEF OwnTensors, Scrfd!OwnTensors, Scrfd!Complete, Scrfd!Plain,
            Scrfd!Holds
<1>1. CASE Scrfd!NamesByShape
  <2>1. PICK scores \in Scrfd!FirstNames("score"),
             boxes \in Scrfd!FirstNames("box"),
             landmarks \in Scrfd!FirstNames("landmark") :
          names' = [score |-> scores, box |-> boxes, landmark |-> landmarks]
    BY <1>1 DEF Scrfd!NamesByShape
  <2>2. decoding' = "decode" /\ UNCHANGED <<raw, stride, decoded>>
        /\ decoding = "names"
    BY <1>1 DEF Scrfd!NamesByShape
  <2>3. ASSUME NEW kind \in Scrfd!Kinds
        PROVE  names'[kind] \in Scrfd!FirstNames(kind)
    BY <2>1, KindNames
  <2>4. ASSUME NEW kind \in Scrfd!Kinds
        PROVE  /\ ListOf(kind)'
               /\ Scrfd!Complete /\ Scrfd!Plain => Names(kind)'
    <3>1. PICK list \in Scrfd!FirstNames(kind) : list = names'[kind]
      BY <2>3
    <3>2. ListOf(kind)'
      <4>1. \A s \in DOMAIN list :
              Scrfd!Tensor(list[s]).cols = Scrfd!Columns[kind]
        BY FirstNamesOf DEF ScrfdInv
      <4>2. \A name : Scrfd!Tensor(name)' = Scrfd!Tensor(name)
        BY <2>2 DEF Scrfd!Tensor
      <4> QED  BY <3>1, <4>1, <4>2 DEF ListOf
    <3>3. ASSUME Scrfd!Complete, Scrfd!Plain PROVE Names(kind)'
      <4>1. \A s \in Scrfd!Strides :
              /\ s \in DOMAIN list
              /\ \E t \in raw : t.name = list[s] /\ Proper(t, kind, s)
        BY <3>3, RowsTellStrides DEF ScrfdInv
      <4> QED  BY <2>2, <3>1, <4>1 DEF Names, Proper
    <3> QED  BY <3>2, <3>3
  <2> QED  BY <2>2, <2>4 DEF ScrfdInv
<1>2. CASE Scrfd!NamesBySuffix \/ Scrfd!NamesConfigured
  <2>1. /\ decoding = "names" /\ decoding' = "decode"
        /\ UNCHANGED <<raw, stride, decoded>>
        /\ ~Scrfd!ShapesTell
        /\ names' = [kind \in Scrfd!Kinds |->
                      [s \in Scrfd!Strides |-> Scrfd!Configured(kind, s)]]
    BY <1>2 DEF Scrfd!NamesBySuffix, Scrfd!NamesConfigured
  <2>2. ~(Scrfd!Complete /\ Scrfd!Plain)
    BY <2>1, CompleteTells DEF ScrfdInv
  <2>3. \A kind \in Scrfd!Kinds : ListOf(kind)'
    BY <2>1 DEF ListOf
  <2>4. ~(Scrfd!Complete /\ Scrfd!Plain)'
    BY <2>1, <2>2
  <2>5. OwnTensors'
    BY <2>1 DEF ScrfdInv
  <2> QED  BY <2>1, <2>3, <2>4, <2>5 DEF ScrfdInv
<1>3. CASE Scrfd!DecodeStride
  <2>1. /\ decoding = "decode" /\ stride \in Scrfd!Strides
        /\ Scrfd!AllNamed /\ Scrfd!Fits
        /\ decoded' = decoded \cup
             {<<stride, [kind \in Scrfd!Kinds |-> Scrfd!Of(kind)]>>}
        /\ UNCHANGED <<raw, names, decoding>>
    BY <1>3 DEF Scrfd!DecodeStride
  <2>2. \A kind \in Scrfd!Kinds : Scrfd!Of(kind).holds = <<kind, stride>>
    BY <2>1, FittingOwn
  <2>3. \A d \in decoded' : \A kind \in Scrfd!Kinds :
          d[2][kind].holds = <<kind, d[1]>>
    BY <2>1, <2>2 DEF ScrfdInv
  <2>4. \A kind \in Scrfd!Kinds :
          /\ ListOf(kind)'
          /\ (Scrfd!Complete /\ Scrfd!Plain)' => Names(kind)'
    BY <2>1, NamesKept DEF ScrfdInv
  <2> QED  BY <2>1, <2>3, <2>4 DEF ScrfdInv
<1>4. CASE Scrfd!SkipStride
  <2>1. /\ decoding = "decode"
        /\ UNCHANGED <<raw, names, decoded, decoding>>
    BY <1>4 DEF Scrfd!SkipStride
  <2>2. \A kind \in Scrfd!Kinds :
          /\ ListOf(kind)'
          /\ (Scrfd!Complete /\ Scrfd!Plain)' => Names(kind)'
    BY <2>1, NamesKept DEF ScrfdInv
  <2> QED  BY <2>1, <2>2 DEF ScrfdInv
<1>5. CASE Scrfd!DecodeFails
  <2>1. /\ decoding = "decode" /\ stride \in Scrfd!Strides
        /\ ~(Scrfd!AllNamed /\ Scrfd!Fits)
        /\ decoding' = "failed"
        /\ UNCHANGED <<raw, names, stride, decoded>>
    BY <1>5 DEF Scrfd!DecodeFails
  <2>2. ~(Scrfd!Complete /\ Scrfd!Plain)
    BY <2>1, NamedFit DEF ScrfdInv
  <2>3. ~(Scrfd!Complete /\ Scrfd!Plain)'
    BY <2>1, <2>2
  <2> QED  BY <2>1, <2>3 DEF ScrfdInv
<1>6. CASE Scrfd!Decoded
  BY <1>6 DEF Scrfd!Decoded, ScrfdInv
<1>7. CASE Scrfd!Ended \/ UNCHANGED Scrfd!vars
  <2>1. UNCHANGED <<raw, names, stride, decoded, decoding>>
    BY <1>7 DEF Scrfd!Ended, Scrfd!vars
  <2>2. \A kind \in Scrfd!Kinds :
          /\ ListOf(kind) => ListOf(kind)'
          /\ Names(kind) => Names(kind)'
    BY <2>1, NamesKept
  <2> QED  BY <2>1, <2>2 DEF ScrfdInv
<1> QED
  BY <1>1, <1>2, <1>3, <1>4, <1>5, <1>6, <1>7 DEF Scrfd!Next

\* Whatever answer the detector gives, of the kind that AnswersAssumption has:
\* _decode_scrfd never puts a detection together from tensors of different
\* strides or kinds, and never fails on a complete answer, however it is named
\* and ordered.
THEOREM TensorsUnderstood == Scrfd!Spec => []OwnTensors
<1>1. Scrfd!Init => ScrfdInv
  BY DEF Scrfd!Init, ScrfdInv, OwnTensors, Scrfd!OwnTensors
<1>2. ScrfdInv => OwnTensors
  BY DEF ScrfdInv
<1> QED  BY <1>1, <1>2, ScrfdStep, PTL DEF Scrfd!Spec

-----------------------------------------------------------------------------
(* Regions.                                                                *)

\* Division by a positive number.
LEMMA Division ==
  ASSUME NEW n \in Int, NEW d \in Nat \ {0}
  PROVE  /\ n \div d \in Int
         /\ d * (n \div d) <= n
         /\ n < d * (n \div d) + d
         /\ n >= 0 => n \div d >= 0
OBVIOUS

LEMMA DivisionGrows ==
  ASSUME NEW m \in Int, NEW n \in Int, NEW d \in Nat \ {0}, m <= n
  PROVE  m \div d <= n \div d
OBVIOUS

\* int, of a length in 1/(10 Target) pixels, towards zero.
LEMMA Truncation ==
  ASSUME NEW n \in Int
  PROVE  /\ Region!Trunc(n) \in Int
         /\ n < 10 * ((Region!Trunc(n) + 1) * Target)
         /\ n >= 0 => /\ 0 <= Region!Trunc(n)
                      /\ 10 * (Region!Trunc(n) * Target) <= n
         /\ n <= 0 => Region!Trunc(n) <= 0
<1> PICK t : t = Region!Trunc(n)
  OBVIOUS
<1>1. /\ Target \in Nat \ {0}
      /\ 10 * Target \in Nat \ {0}
  BY DataAssumption DEF Region!TargetAssumption
<1> DEFINE d == 10 * Target
<1>2. \A q \in Int : /\ 10 * (q * Target) = d * q
                     /\ 10 * ((q + 1) * Target) = d * q + d
  BY <1>1
<1>3. CASE n >= 0
  <2> DEFINE q == n \div d
  <2>1. Region!Trunc(n) = q
    BY <1>3 DEF Region!Trunc
  <2>2. q \in Int /\ d * q <= n /\ n < d * q + d /\ q >= 0
    <3> HIDE DEF d
    <3> QED  BY <1>1, <1>3, Division DEF d
  <2>3. n <= 0 => q <= 0
    <3>1. n <= 0 => n = 0
      BY <1>3
    <3>2. 0 \div d = 0
      BY <1>1
    <3> QED  BY <3>1, <3>2
  <2> HIDE DEF d, q
  <2> QED  BY <1>2, <1>3, <2>1, <2>2, <2>3
<1>4. CASE n < 0
  <2> DEFINE q == (-n) \div d
  <2>1. Region!Trunc(n) = -q
    BY <1>4 DEF Region!Trunc
  <2>2. q \in Int /\ d * q <= -n /\ q >= 0
    <3> HIDE DEF d
    <3>1. -n \in Int /\ -n >= 0 /\ d \in Nat \ {0}
      BY <1>1, <1>4 DEF d
    <3> QED  BY <3>1, Division
  <2>3. d * (-q) = -(d * q) /\ d * q \in Int /\ d \in Nat \ {0}
    BY <1>1, <2>2
  <2> HIDE DEF d, q
  <2> QED  BY <1>2, <1>4, <2>1, <2>2, <2>3
<1> QED  BY <1>3, <1>4

LEMMA TruncationGrows ==
  ASSUME NEW m \in Int, NEW n \in Int, 0 <= m, m <= n
  PROVE  Region!Trunc(m) <= Region!Trunc(n)
<1>1. 10 * Target \in Nat \ {0}
  BY DataAssumption DEF Region!TargetAssumption
<1> QED  BY <1>1, DivisionGrows DEF Region!Trunc

RegionInv ==
  /\ size \in [Region!Axes -> Nat \ {0}]
  /\ cropping \in {"preprocess", "detect", "crop", "cropped", "failed"}
  /\ cropping \in {"detect", "crop", "cropped"} => detscale = Region!Longer
  /\ cropping \in {"crop", "cropped"} => found \in [Region!Axes -> Int \X Int]
  /\ cropping = "cropped" =>
       /\ Region!Upright
       /\ region = [a \in Region!Axes |->
                      <<Region!Trunc(Region!Near(a)),
                        Region!Trunc(Region!Far(a))>>]
  /\ cropping = "failed" =>
       \/ \E a \in Region!Axes : Region!OnCanvas(a) = 0
       \/ /\ detscale = Region!Longer
          /\ found \in [Region!Axes -> Int \X Int]
          /\ ~Region!Upright

LEMMA RegionStep == RegionInv /\ [Region!Next]_(Region!vars) => RegionInv'
<1> SUFFICES ASSUME RegionInv, [Region!Next]_(Region!vars) PROVE RegionInv'
  OBVIOUS
<1>1. CASE Region!Preprocess
  BY <1>1 DEF Region!Preprocess, RegionInv, Region!Longer
<1>2. CASE Region!PreprocessFails
  BY <1>2 DEF Region!PreprocessFails, RegionInv, Region!Longer,
     Region!OnCanvas
<1>3. CASE Region!Detect
  BY <1>3, DataAssumption
     DEF Region!Detect, RegionInv, Region!Longer, Region!TargetAssumption
<1>4. CASE Region!Crop
  BY <1>4 DEF Region!Crop, RegionInv, Region!Longer, Region!Upright,
     Region!Near, Region!Far, Region!OnImage
<1>5. CASE Region!CropFails
  BY <1>5 DEF Region!CropFails, RegionInv, Region!Longer, Region!Upright,
     Region!Near, Region!Far, Region!OnImage
<1>6. CASE Region!Ended \/ UNCHANGED Region!vars
  <2>1. UNCHANGED <<size, detscale, found, region, cropping>>
    BY <1>6 DEF Region!Ended, Region!vars
  <2> QED  BY <2>1 DEF RegionInv, Region!Longer, Region!Upright,
     Region!Near, Region!Far, Region!OnImage, Region!OnCanvas
<1> QED
  BY <1>1, <1>2, <1>3, <1>4, <1>5, <1>6 DEF Region!Next

\* Where the ends of a box lie on the image, and its ends with a margin.
LEMMA EndsOfBox ==
  ASSUME RegionInv, NEW a \in Region!Axes,
         detscale = Region!Longer,
         found \in [Region!Axes -> Int \X Int]
  PROVE  \E u, v \in Int :
           /\ u = Region!SeenAt(found[a][1]) /\ v = Region!SeenAt(found[a][2])
           /\ found[a][1] <= found[a][2] => u <= v
           /\ found[a][2] >= 0 => v >= 0
           /\ Region!Near(a) = Region!Most(0, 11 * u - v)
           /\ Region!Far(a) =
                Region!Least(10 * (size[a] * Target), 11 * v - u)
           /\ size[a] * Target \in Nat
           /\ size[a] \in Nat /\ Target \in Nat \ {0}
<1>1. Target \in Nat \ {0} /\ size[a] \in Nat
  BY DataAssumption DEF Region!TargetAssumption, RegionInv
<1>2. Region!Longer \in Nat \ {0}
  BY DEF RegionInv, Region!Longer, Region!Most, Region!Axes
<1>3. PICK l \in Nat \ {0}, b \in Int, c \in Int :
        l = Region!Longer /\ b = found[a][1] /\ c = found[a][2]
  BY <1>2
<1>4. /\ b * l \in Int /\ c * l \in Int
      /\ b <= c => b * l <= c * l
      /\ c >= 0 => c * l >= 0
  OBVIOUS
<1>5. /\ b * l = Region!SeenAt(found[a][1])
      /\ c * l = Region!SeenAt(found[a][2])
      /\ Region!OnImage(found[a][1]) = b * l
      /\ Region!OnImage(found[a][2]) = c * l
  BY <1>3 DEF Region!SeenAt, Region!OnImage
<1>6. size[a] * 10 * Target = 10 * (size[a] * Target)
      /\ size[a] * Target \in Nat
  BY <1>1
<1>7. /\ Region!Near(a) = Region!Most(0, 11 * (b * l) - c * l)
      /\ Region!Far(a) =
           Region!Least(10 * (size[a] * Target), 11 * (c * l) - b * l)
  BY <1>5, <1>6 DEF Region!Near, Region!Far
<1> QED  BY <1>1, <1>3, <1>4, <1>5, <1>6, <1>7

\* Where an image of any size has any box on the canvas: what is cut out lies
\* within the image and covers what was found on it.
THEOREM RegionsCover == Region!Spec => []RegionCovers
<1>1. Region!Init => RegionInv
  BY DataAssumption
     DEF Region!Init, RegionInv, Region!TargetAssumption
<1>2. RegionInv => RegionCovers
  <2> SUFFICES ASSUME RegionInv, cropping = "cropped", NEW a \in Region!Axes
               PROVE
    /\ 0 <= region[a][1]
    /\ region[a][1] <= region[a][2]
    /\ region[a][2] <= size[a]
    /\ found[a][1] <= found[a][2] =>
         /\ region[a][1] * Target
              <= Region!Most(0, Region!SeenAt(found[a][1]))
         /\ (region[a][2] + 1) * Target
              > Region!Least(size[a] * Target, Region!SeenAt(found[a][2]))
    BY DEF RegionCovers, Region!RegionCovers
  <2>1. PICK u \in Int, v \in Int :
           /\ u = Region!SeenAt(found[a][1]) /\ v = Region!SeenAt(found[a][2])
           /\ found[a][1] <= found[a][2] => u <= v
           /\ Region!Near(a) = Region!Most(0, 11 * u - v)
           /\ Region!Far(a) =
                Region!Least(10 * (size[a] * Target), 11 * v - u)
    BY EndsOfBox DEF RegionInv
  <2>2. PICK edge \in Nat, s \in Nat, t \in Nat \ {0} :
           s = size[a] /\ t = Target /\ edge = s * t
    BY EndsOfBox DEF RegionInv
  <2>3. PICK near \in Int, far \in Int :
           near = Region!Near(a) /\ far = Region!Far(a)
    BY <2>1, <2>2 DEF Region!Most, Region!Least
  <2>4. /\ near >= 0 /\ near >= 11 * u - v
        /\ near = 0 \/ near = 11 * u - v
        /\ far <= 10 * edge /\ far <= 11 * v - u
        /\ far = 10 * edge \/ far = 11 * v - u
    BY <2>1, <2>2, <2>3 DEF Region!Most, Region!Least
  <2>5. PICK i \in Int, j \in Int :
          i = Region!Trunc(near) /\ j = Region!Trunc(far)
    BY Truncation
  <2>6. /\ region[a][1] = i /\ region[a][2] = j
        /\ i <= j
    BY <2>3, <2>5 DEF RegionInv, Region!Upright
  <2>7. 0 <= i /\ 10 * (i * t) <= near /\ far < 10 * ((j + 1) * t)
    BY <2>2, <2>4, <2>5, Truncation
  <2>8. j <= s
    <3>1. CASE far >= 0
      <4>1. 10 * (j * t) <= far
        BY <2>2, <2>5, <3>1, Truncation
      <4>2. j * t <= s * t
        <5>1. j * t \in Int
          OBVIOUS
        <5> QED  BY <2>2, <2>4, <4>1, <5>1
      <4> QED  BY <4>2
    <3>2. CASE far < 0
      BY <2>5, <3>2, Truncation
    <3> QED  BY <3>1, <3>2
  <2>9. ASSUME u <= v
        PROVE  /\ i * t <= Region!Most(0, u)
               /\ (j + 1) * t > Region!Least(edge, v)
    <3>1. i * t \in Int /\ (j + 1) * t \in Int
      OBVIOUS
    <3> QED  BY <2>4, <2>7, <2>9, <3>1 DEF Region!Most, Region!Least
  <2> QED  BY <2>1, <2>2, <2>6, <2>7, <2>8, <2>9
<1> QED  BY <1>1, <1>2, RegionStep, PTL DEF Region!Spec

\* An image fails to be preprocessed or cropped only if it has a side that
\* vanishes on the canvas, or a box that lies outside it or is inside out.
THEOREM FailuresExplained == Region!Spec => []FailsForReason
<1>1. Region!Init => RegionInv
  BY DataAssumption
     DEF Region!Init, RegionInv, Region!TargetAssumption
<1>2. RegionInv => FailsForReason
  <2> SUFFICES ASSUME RegionInv, cropping = "failed",
                      \A a \in Region!Axes :
                        /\ Region!OnCanvas(a) # 0
                        /\ ~(found[a][2] < found[a][1])
                        /\ ~(found[a][2] < 0)
                        /\ ~(Region!SeenAt(found[a][1]) > size[a] * Target)
               PROVE  FALSE
    BY DEF FailsForReason, Region!FailsForReason
  <2>1. /\ detscale = Region!Longer
        /\ found \in [Region!Axes -> Int \X Int]
        /\ ~Region!Upright
    BY DEF RegionInv
  <2>2. PICK a \in Region!Axes :
          ~(Region!Trunc(Region!Near(a)) <= Region!Trunc(Region!Far(a)))
    BY <2>1 DEF Region!Upright
  <2>3. PICK u \in Int, v \in Int :
           /\ u = Region!SeenAt(found[a][1]) /\ v = Region!SeenAt(found[a][2])
           /\ found[a][1] <= found[a][2] => u <= v
           /\ found[a][2] >= 0 => v >= 0
           /\ Region!Near(a) = Region!Most(0, 11 * u - v)
           /\ Region!Far(a) =
                Region!Least(10 * (size[a] * Target), 11 * v - u)
           /\ size[a] * Target \in Nat
    BY <2>1, EndsOfBox
  <2>4. u <= v /\ v >= 0 /\ u <= size[a] * Target
    BY <2>1, <2>3
  <2>5. /\ Region!Near(a) \in Int /\ Region!Far(a) \in Int
        /\ 0 <= Region!Near(a) /\ Region!Near(a) <= Region!Far(a)
    BY <2>3, <2>4 DEF Region!Most, Region!Least
  <2> QED  BY <2>2, <2>5, TruncationGrows
<1> QED  BY <1>1, <1>2, RegionStep, PTL DEF Region!Spec

-----------------------------------------------------------------------------
(* FaceLists.                                                              *)

\* All the faces up to n, best first.
Best(n) == [k \in 1..n |-> k]

LEMMA BestList ==
  ASSUME NEW n \in Nat
  PROVE  /\ Best(n) \in Seq(Nat)
         /\ Len(Best(n)) = n
         /\ DOMAIN Best(n) = 1..n
         /\ \A k \in 1..n : Best(n)[k] = k
<1>1. Best(n) \in [1..n -> Nat]
  BY DEF Best
<1>2. Best(n) \in Seq(Nat)
  BY <1>1
<1> QED  BY <1>1, <1>2 DEF Best

LEMMA SortedNumbers ==
  ASSUME NEW n \in Nat
  PROVE  Faces!Sorted(1..n) = Best(n)
<1> DEFINE Ascends(s) == \A i, j \in DOMAIN s : i < j => s[i] < s[j]
<1>1. Faces!Cardinality(1..n) = n
  <2>1. Cardinality(1..n) = n
    BY FS_Interval
  <2> QED  BY <2>1 DEF Faces!Cardinality, Cardinality
<1>2. Best(n) \in Faces!SetToSeqs(1..n) /\ Ascends(Best(n))
  BY <1>1 DEF Faces!SetToSeqs, Best
<1>3. ASSUME NEW s \in Faces!SetToSeqs(1..n), Ascends(s)
      PROVE  s = Best(n)
  <2>1. s \in [1..n -> 1..n]
    BY <1>1 DEF Faces!SetToSeqs
  <2>2. \A i \in 1..n : s[i] = i
    BY <1>3, <2>1, AscendingIsIdentity
  <2> QED  BY <2>1, <2>2 DEF Best
<1>4. Faces!Sorted(1..n) =
        CHOOSE s \in Faces!SetToSeqs(1..n) : Ascends(s)
  BY DEF Faces!Sorted
<1> HIDE DEF Ascends
<1> QED  BY <1>2, <1>3, <1>4

LEMMA TopOfBest ==
  ASSUME NEW n \in Nat
  PROVE  \E m \in Nat : Faces!Top(Best(n)) = Best(m)
<1>1. Faces!Range(Best(n)) = 1..n
  BY DEF Faces!Range, Best
<1>2. Len(Best(n)) = n
  BY BestList
<1>3. MaxDetections \in Nat
  BY DataAssumption DEF Faces!ListsAssumption
<1>4. PICK m \in Nat :
        m = (IF n < MaxDetections THEN n ELSE MaxDetections) /\ m <= n
  BY <1>3
<1>5. Faces!Top(Best(n)) = SubSeq(Best(n), 1, m)
  BY <1>1, <1>2, <1>4, SortedNumbers DEF Faces!Top
<1>6. SubSeq(Best(n), 1, m) = [k \in 1..m |-> Best(n)[k]]
  BY <1>4, BestList
<1>7. SubSeq(Best(n), 1, m) = Best(m)
  BY <1>4, <1>6, BestList DEF Best
<1> QED  BY <1>5, <1>7

Embeddings == [face : Nat, vector : {"unit", "zero", "empty"}]

\* The embeddings of image i so far, of n faces, are those of its best faces.
InStep(i, n) ==
  /\ Len(embeddings[i]) = n
  /\ \A k \in 1..n : embeddings[i][k].face = k

FaceTypes ==
  /\ pipeline \in {"face_detection", "face_comparison"}
  /\ image \in Faces!Images
  /\ stage \in {"detect", "postprocess", "crop", "extract", "compare", "done",
                "failed"}
  /\ DOMAIN detections = Faces!Images
  /\ \A i \in Faces!Images : \E n \in Nat : detections[i] = Best(n)
  /\ DOMAIN crops = Faces!Images
  /\ embeddings \in [Faces!Images -> Seq(Embeddings)]
  /\ at \in Nat

\* Which stages a pipeline has, and which image they are at.
Course ==
  /\ pipeline = "face_detection" =>
       stage \in {"detect", "postprocess", "done", "failed"}
  /\ pipeline = "face_comparison" => stage # "postprocess"
  /\ stage = "compare" => image = 2

\* Images to come, the image extraction is at, and those it is through with.
ToCome ==
  /\ stage \in {"detect", "crop"} => embeddings[image] = <<>>
  /\ image = 1 => embeddings[2] = <<>>

Extracting ==
  stage = "extract" =>
    /\ crops[image] = detections[image]
    /\ embeddings[image] = <<>> => at = 0
    /\ \/ Faces!Nothing(image)
       \/ InStep(image, IF at < Len(crops[image]) THEN at
                        ELSE Len(crops[image]))

Extracted(i) ==
  Faces!Nothing(i) \/ InStep(i, Len(detections[i]))

Through ==
  /\ image = 2 /\ stage \in {"detect", "crop", "extract", "compare"} =>
       Extracted(1)
  /\ stage = "compare" => Extracted(2)

\* Up to the first answer with nothing, the n-th embedding is that of the n-th
\* face; so what comparison is given is the embedding of the best one.
InPlace ==
  \A i \in Faces!Images : \A k \in Faces!Leading(i) :
    embeddings[i][k].face = k

FaceInv ==
  /\ FaceTypes /\ Course /\ ToCome /\ Extracting /\ Through /\ InPlace
  /\ BestFirst

LEMMA FaceInit == Faces!Init => FaceInv
<1> SUFFICES ASSUME Faces!Init PROVE FaceInv
  OBVIOUS
<1>1. Best(0) = <<>>
  BY BestList
<1>2. FaceTypes
  BY <1>1 DEF Faces!Init, FaceTypes, Faces!Images
<1> QED
  BY <1>2 DEF Faces!Init, FaceInv, Course, ToCome, Extracting, Through,
     InPlace, Faces!Leading, Faces!Images, BestFirst, Faces!BestFirst

\* What an answer of Triton adds to the embeddings of an image.
LEMMA Appended ==
  ASSUME NEW old \in Seq(Embeddings), NEW new \in Seq(Embeddings)
  PROVE  /\ old \o new \in Seq(Embeddings)
         /\ Len(old \o new) = Len(old) + Len(new)
         /\ \A k \in 1..Len(old) : (old \o new)[k] = old[k]
         /\ \A k \in 1..Len(new) : (old \o new)[Len(old) + k] = new[k]
         /\ DOMAIN (old \o new) = 1..(Len(old) + Len(new))
OBVIOUS

\* The faces that are asked for next.
LEMMA NextChunk ==
  ASSUME FaceInv, stage = "extract", at < Len(Faces!Faces)
  PROVE  \E len \in Nat :
           /\ len = Len(Faces!Faces)
           /\ Len(Faces!Chunk) =
                (IF at + Faces!Step < len THEN at + Faces!Step ELSE len) - at
           /\ Len(Faces!Chunk) \in Nat \ {0}
           /\ \A k \in 1..Len(Faces!Chunk) : Faces!Chunk[k] = at + k
           /\ Faces!Step \in Nat \ {0}
<1>1. PICK len \in Nat : detections[image] = Best(len)
  BY DEF FaceInv, FaceTypes
<1>2. Faces!Faces = Best(len)
  BY <1>1 DEF FaceInv, Extracting, Faces!Faces
<1>3. PICK jump \in Nat \ {0} : jump = Faces!Step
  BY DataAssumption DEF Faces!Step, Faces!ListsAssumption
<1>4. at \in Nat /\ at < len
  BY <1>2, BestList DEF FaceInv, FaceTypes
<1>5. PICK last \in Nat :
        /\ last = IF at + jump < len THEN at + jump ELSE len
        /\ at < last /\ last <= len
  BY <1>4
<1>6. Faces!Chunk = SubSeq(Best(len), at + 1, last)
  BY <1>2, <1>3, <1>5, BestList DEF Faces!Chunk
<1>7. /\ Len(SubSeq(Best(len), at + 1, last)) = last - at
      /\ \A k \in 1..(last - at) :
           SubSeq(Best(len), at + 1, last)[k] = Best(len)[at + k]
  <2>1. PICK s \in Seq(Nat) : s = Best(len) /\ Len(s) = len
    BY BestList
  <2>2. PICK a \in Nat : a = at /\ a < last /\ last <= Len(s)
    BY <1>4, <1>5, <2>1
  <2>3. /\ Len(SubSeq(s, a + 1, last)) = last - a
        /\ \A k \in 1..(last - a) : SubSeq(s, a + 1, last)[k] = s[a + k]
    BY <2>2
  <2> QED  BY <2>1, <2>2, <2>3
<1>8. \A k \in 1..(last - at) : Best(len)[at + k] = at + k
  <2>1. \A k \in 1..(last - at) : at + k \in 1..len
    BY <1>4, <1>5
  <2> QED  BY <2>1, BestList
<1>9. /\ Len(Faces!Chunk) = last - at
      /\ last - at \in Nat \ {0}
      /\ \A k \in 1..Len(Faces!Chunk) : Faces!Chunk[k] = at + k
  <2>1. last - at \in Nat \ {0}
    BY <1>4, <1>5
  <2>2. Len(Faces!Chunk) = last - at
    BY <1>6, <1>7
  <2>3. \A k \in 1..(last - at) : Faces!Chunk[k] = at + k
    BY <1>6, <1>7, <1>8
  <2> QED  BY <2>1, <2>2, <2>3
<1>10. len = Len(Faces!Faces)
  BY <1>2, BestList
<1> QED
  BY <1>3, <1>5, <1>9, <1>10

\* What the answer is that Triton gives for a chunk of the faces.
LEMMA Embedded ==
  ASSUME FaceInv, NEW new \in Seq(Embeddings), Faces!Extends(new), new # <<>>,
         at < Len(Faces!Faces) => new[1].face = at + 1,
         \/ Len(new) = 1 /\ new[1].vector = "empty"
         \/ /\ Len(new) = Len(Faces!Chunk)
            /\ \A k \in 1..Len(new) : new[k].face = Faces!Chunk[k]
  PROVE  FaceInv'
<1>1. /\ stage = "extract" /\ at < Len(Faces!Faces)
      /\ embeddings' = [embeddings EXCEPT ![image] = @ \o new]
      /\ at' = at + Faces!Step
      /\ UNCHANGED <<pipeline, image, stage, detections, crops, result>>
  BY DEF Faces!Extends
<1>2. PICK len \in Nat :
        /\ len = Len(crops[image])
        /\ Len(Faces!Chunk) =
             (IF at + Faces!Step < len THEN at + Faces!Step ELSE len) - at
        /\ Len(Faces!Chunk) \in Nat \ {0}
        /\ \A k \in 1..Len(Faces!Chunk) : Faces!Chunk[k] = at + k
        /\ Faces!Step \in Nat \ {0}
  BY <1>1, NextChunk DEF Faces!Faces
<1>3. /\ image \in Faces!Images /\ pipeline = "face_comparison"
      /\ embeddings \in [Faces!Images -> Seq(Embeddings)]
      /\ at \in Nat /\ at < len
  BY <1>1, <1>2 DEF FaceInv, FaceTypes, Course, Faces!Faces
<1>4. PICK old \in Seq(Embeddings) : old = embeddings[image]
  BY <1>3
<1>5. /\ old \o new \in Seq(Embeddings)
      /\ Len(old \o new) = Len(old) + Len(new)
      /\ \A k \in 1..Len(old) : (old \o new)[k] = old[k]
      /\ \A k \in 1..Len(new) : (old \o new)[Len(old) + k] = new[k]
      /\ DOMAIN (old \o new) = 1..(Len(old) + Len(new))
  BY Appended
<1>6. /\ embeddings'[image] = old \o new
      /\ \A i \in Faces!Images \ {image} : embeddings'[i] = embeddings[i]
      /\ embeddings' \in [Faces!Images -> Seq(Embeddings)]
  BY <1>1, <1>3, <1>4, <1>5
<1>7. Len(new) \in Nat \ {0} /\ DOMAIN new = 1..Len(new)
      /\ Len(old) \in Nat /\ DOMAIN old = 1..Len(old)
  OBVIOUS
<1>8. FaceTypes'
  BY <1>1, <1>2, <1>3, <1>6 DEF FaceInv, FaceTypes
<1>9. Course'
  BY <1>1 DEF FaceInv, Course
<1>10. ToCome'
  BY <1>1, <1>3, <1>6 DEF FaceInv, ToCome, Faces!Images
<1>11. Extracting'
  <2>1. crops'[image] = detections'[image]
    BY <1>1 DEF FaceInv, Extracting
  <2>2. embeddings'[image] # <<>>
    BY <1>5, <1>6, <1>7
  <2>3. ASSUME ~Faces!Nothing(image)'
        PROVE  InStep(image, IF at < Len(crops[image]) THEN at
                             ELSE Len(crops[image]))'
    <3>1. \A k \in 1..(Len(old) + Len(new)) :
            (old \o new)[k].vector # "empty"
      BY <1>1, <1>5, <1>6, <2>3 DEF Faces!Nothing
    <3>2. \A k \in 1..Len(old) : old[k].vector # "empty"
      BY <1>5, <1>7, <3>1
    <3>3. \A k \in 1..Len(new) : new[k].vector # "empty"
      <4>1. \A k \in 1..Len(new) : Len(old) + k \in 1..(Len(old) + Len(new))
        BY <1>7
      <4> QED  BY <1>5, <3>1, <4>1
    <3>4. Len(old) = at /\ \A k \in 1..at : old[k].face = k
      BY <1>1, <1>2, <1>3, <1>4, <1>7, <3>2
         DEF FaceInv, Extracting, InStep, Faces!Nothing
    <3>5. /\ Len(new) = Len(Faces!Chunk)
          /\ \A k \in 1..Len(new) : new[k].face = at + k
      BY <1>2, <1>7, <3>3
    <3>6. PICK a \in Nat, l \in Nat, jump \in Nat :
            a = at /\ l = Len(new) /\ jump = Faces!Step
      BY <1>2, <1>3, <1>7
    <3>7. \A k \in 1..(a + l) : (old \o new)[k].face = k
      <4> SUFFICES ASSUME NEW k \in 1..(a + l) PROVE (old \o new)[k].face = k
        OBVIOUS
      <4>1. CASE k \in 1..a
        BY <1>5, <3>4, <3>6, <4>1
      <4>2. CASE k \notin 1..a
        <5>1. k - a \in 1..l /\ a + (k - a) = k
          BY <3>6, <4>2
        <5>2. (old \o new)[a + (k - a)] = new[k - a]
          BY <1>5, <3>4, <3>6, <5>1
        <5>3. new[k - a].face = a + (k - a)
          BY <3>5, <3>6, <5>1
        <5> QED  BY <5>1, <5>2, <5>3
      <4> QED  BY <4>1, <4>2
    <3>8. Len(old \o new) = a + l
      BY <1>5, <3>4, <3>6
    <3>9. at' = a + jump /\ Len(crops'[image']) = len
      BY <1>1, <1>2, <3>6
    <3>10. a + l = IF a + jump < len THEN a + jump ELSE len
      BY <1>2, <3>5, <3>6
    <3> QED
      BY <1>1, <1>6, <3>7, <3>8, <3>9, <3>10 DEF InStep
  <2> QED  BY <1>1, <2>1, <2>2, <2>3 DEF Extracting
<1>12. Through'
  BY <1>1, <1>3, <1>6
     DEF FaceInv, Through, Extracted, Faces!Nothing, InStep, Faces!Images
<1>13. InPlace'
  <2>1. ASSUME NEW k \in 1..(Len(old) + Len(new)),
               \A j \in 1..k - 1 : (old \o new)[j].vector # "empty"
        PROVE  (old \o new)[k].face = k
    <3>1. CASE k \in 1..Len(old)
      <4>1. \A j \in 1..k - 1 : j \in 1..Len(old) /\ old[j].vector # "empty"
        BY <1>5, <1>7, <2>1, <3>1
      <4>2. k \in Faces!Leading(image)
        BY <1>4, <1>7, <3>1, <4>1 DEF Faces!Leading
      <4> QED  BY <1>3, <1>4, <1>5, <3>1, <4>2 DEF FaceInv, InPlace
    <3>2. CASE k \notin 1..Len(old)
      <4>1. PICK n \in 1..Len(new) : k = Len(old) + n
        <5>1. k - Len(old) \in 1..Len(new) /\ k = Len(old) + (k - Len(old))
          BY <1>7, <3>2
        <5> QED  BY <5>1
      <4>2. \A j \in 1..Len(old) : old[j].vector # "empty"
        BY <1>5, <1>7, <2>1, <4>1
      <4>3. Len(old) = at
        BY <1>1, <1>2, <1>3, <1>4, <1>7, <4>2
           DEF FaceInv, Extracting, InStep, Faces!Nothing
      <4>4. new[n].face = at + n
        BY <1>1, <1>2, <1>7, <4>1 DEF Faces!Faces
      <4> QED  BY <1>5, <4>1, <4>3, <4>4
    <3> QED  BY <3>1, <3>2
  <2>2. ASSUME NEW i \in Faces!Images, NEW k \in Faces!Leading(i)'
        PROVE  embeddings'[i][k].face = k
    <3>1. CASE i = image
      BY <1>5, <1>6, <2>1, <2>2, <3>1 DEF Faces!Leading
    <3>2. CASE i # image
      <4>1. embeddings'[i] = embeddings[i]
        BY <1>6, <2>2, <3>2
      <4>2. k \in Faces!Leading(i)
        BY <2>2, <4>1 DEF Faces!Leading
      <4> QED  BY <4>1, <4>2 DEF FaceInv, InPlace
    <3> QED  BY <3>1, <3>2
  <2> QED
    BY <2>2 DEF InPlace, Faces!Images
<1>14. BestFirst'
  BY <1>1 DEF BestFirst, Faces!BestFirst
<1> QED
  BY <1>8, <1>9, <1>10, <1>11, <1>12, <1>13, <1>14 DEF FaceInv

LEMMA FaceStep == FaceInv /\ [Faces!Next]_(Faces!vars) => FaceInv'
<1> SUFFICES ASSUME FaceInv, [Faces!Next]_(Faces!vars) PROVE FaceInv'
  OBVIOUS
<1> USE DEF Faces!Images
<1>1. CASE Faces!Detect
  <2>1. /\ stage = "detect"
        /\ image \in {1, 2}
        /\ stage' \in {"postprocess", "crop"}
        /\ pipeline = "face_detection" <=> stage' = "postprocess"
        /\ UNCHANGED <<pipeline, image, crops, embeddings, at, result>>
    BY <1>1 DEF Faces!Detect, FaceInv, FaceTypes
  <2>2. PICK n \in Nat : detections' = [detections EXCEPT ![image] = Best(n)]
    <3>1. PICK n \in 0..MaxFaces :
            detections' = [detections EXCEPT ![image] = [k \in 1..n |-> k]]
      BY <1>1 DEF Faces!Detect
    <3>2. n \in Nat
      BY DataAssumption DEF Faces!ListsAssumption
    <3> QED  BY <3>1, <3>2 DEF Best
  <2>3. FaceTypes'
    BY <2>1, <2>2 DEF FaceInv, FaceTypes
  <2>4. Through'
    <3>1. image = 2 => detections'[1] = detections[1]
      BY <2>2 DEF FaceInv, FaceTypes
    <3> QED
      BY <2>1, <3>1
         DEF FaceInv, Through, Extracted, Faces!Nothing, InStep
  <2> QED
    BY <2>1, <2>3, <2>4 DEF FaceInv, FaceTypes, Course, ToCome, Extracting,
       InPlace, Faces!Leading, BestFirst, Faces!BestFirst
<1>2. CASE Faces!Postprocess
  <2>1. /\ stage = "postprocess" /\ stage' = "done"
        /\ pipeline = "face_detection"
        /\ image \in {1, 2}
        /\ UNCHANGED <<pipeline, image, crops, embeddings, at, result>>
        /\ detections' =
             [detections EXCEPT ![image] = Faces!Top(detections[image])]
    BY <1>2 DEF Faces!Postprocess, FaceInv, FaceTypes, Course
  <2>2. PICK n \in Nat : detections[image] = Best(n)
    BY <2>1 DEF FaceInv, FaceTypes
  <2>3. PICK m \in Nat : detections' = [detections EXCEPT ![image] = Best(m)]
    BY <2>1, <2>2, TopOfBest
  <2>4. FaceTypes'
    BY <2>1, <2>3 DEF FaceInv, FaceTypes
  <2>5. BestFirst'
    <3>1. PICK n1 \in Nat : detections'[1] = Best(n1)
      BY <2>4 DEF FaceTypes
    <3> QED  BY <2>1, <3>1, BestList DEF BestFirst, Faces!BestFirst
  <2> QED
    BY <2>1, <2>4, <2>5 DEF FaceInv, Course, ToCome, Extracting, Through,
       InPlace, Faces!Leading
<1>3. CASE Faces!Crop
  <2>1. FaceTypes'
    BY <1>3 DEF Faces!Crop, FaceInv, FaceTypes
  <2>2. Extracting'
    <3>1. /\ crops'[image] = detections[image]
          /\ embeddings[image] = <<>>
      BY <1>3 DEF Faces!Crop, FaceInv, FaceTypes, ToCome
    <3>2. PICK n \in Nat : detections[image] = Best(n)
      BY DEF FaceInv, FaceTypes
    <3>3. Len(crops'[image]) \in Nat
      BY <3>1, <3>2, BestList
    <3> QED
      BY <1>3, <3>1, <3>3 DEF Faces!Crop, Extracting, InStep
  <2> QED
    BY <1>3, <2>1, <2>2 DEF Faces!Crop, FaceInv, Course, ToCome, Through,
       Extracted, Faces!Nothing, InStep, InPlace, Faces!Leading, BestFirst,
       Faces!BestFirst
<1>4. CASE Faces!Embed
  <2>1. PICK zeros \in SUBSET (1..Len(Faces!Chunk)) :
          Faces!Extends([k \in 1..Len(Faces!Chunk) |->
            [face |-> Faces!Chunk[k],
             vector |-> IF k \in zeros THEN "zero" ELSE "unit"]])
    BY <1>4 DEF Faces!Embed
  <2> DEFINE new == [k \in 1..Len(Faces!Chunk) |->
            [face |-> Faces!Chunk[k],
             vector |-> IF k \in zeros THEN "zero" ELSE "unit"]]
  <2>2. stage = "extract" /\ at < Len(Faces!Faces)
    BY <2>1 DEF Faces!Extends
  <2>3. PICK c \in Nat \ {0} :
          /\ c = Len(Faces!Chunk)
          /\ \A k \in 1..c : Faces!Chunk[k] = at + k
    BY <2>2, NextChunk
  <2>4. at \in Nat
    BY DEF FaceInv, FaceTypes
  <2>5. new = [k \in 1..c |->
            [face |-> at + k,
             vector |-> IF k \in zeros THEN "zero" ELSE "unit"]]
    BY <2>3
  <2>6. /\ new \in Seq(Embeddings) /\ Len(new) = c
        /\ \A k \in 1..c : new[k].face = at + k
    <3> HIDE DEF new
    <3>1. new \in [1..c -> Embeddings]
      BY <2>4, <2>5 DEF Embeddings
    <3> QED  BY <2>3, <2>5, <3>1
  <2>7. /\ new # <<>> /\ new[1].face = at + 1
        /\ \A k \in 1..Len(new) : new[k].face = Faces!Chunk[k]
    <3> HIDE DEF new
    <3> QED  BY <2>3, <2>6
  <2>8. Faces!Extends(new)
    BY <2>1
  <2> HIDE DEF new
  <2> QED  BY <2>3, <2>6, <2>7, <2>8, Embedded
<1>5. CASE Faces!EmbedNothing
  <2> DEFINE new == <<[face |-> Faces!Chunk[1], vector |-> "empty"]>>
  <2>1. Faces!Extends(new)
    BY <1>5 DEF Faces!EmbedNothing
  <2>2. stage = "extract" /\ at < Len(Faces!Faces)
    BY <2>1 DEF Faces!Extends
  <2>3. Faces!Chunk[1] = at + 1 /\ at \in Nat
    <3>1. PICK c \in Nat \ {0} : \A k \in 1..c : Faces!Chunk[k] = at + k
      BY <2>2, NextChunk
    <3> QED  BY <3>1 DEF FaceInv, FaceTypes
  <2>4. [face |-> Faces!Chunk[1], vector |-> "empty"] \in Embeddings
    BY <2>3 DEF Embeddings
  <2>5. /\ new \in Seq(Embeddings) /\ new # <<>>
        /\ new[1].face = at + 1
        /\ Len(new) = 1 /\ new[1].vector = "empty"
    BY <2>3, <2>4
  <2> HIDE DEF new
  <2> QED  BY <2>1, <2>5, Embedded
<1>6. CASE Faces!Extracted
  <2>1. /\ stage = "extract" /\ at >= Len(crops[image])
        /\ pipeline = "face_comparison"
        /\ image \in {1, 2}
        /\ UNCHANGED <<pipeline, detections, crops, embeddings, at, result>>
        /\ \/ image = 1 /\ image' = 2 /\ stage' = "detect"
           \/ image = 2 /\ image' = 2 /\ stage' = "compare"
    BY <1>6
       DEF Faces!Extracted, Faces!Faces, FaceInv, FaceTypes, Course
  <2>2. PICK n \in Nat : detections[image] = Best(n)
    BY DEF FaceInv, FaceTypes
  <2>3. Len(crops[image]) = n /\ Len(detections[image]) = n
    BY <2>1, <2>2, BestList DEF FaceInv, Extracting
  <2>4. Extracted(image)
    BY <2>1, <2>3 DEF FaceInv, FaceTypes, Extracting, Extracted
  <2>5. Through'
    BY <2>1, <2>4
       DEF FaceInv, Through, Extracted, Faces!Nothing, InStep
  <2>6. FaceTypes'
    BY <2>1 DEF FaceInv, FaceTypes
  <2>7. ToCome'
    BY <2>1 DEF FaceInv, ToCome
  <2> QED
    BY <2>1, <2>5, <2>6, <2>7 DEF FaceInv, Course, Extracting, InPlace,
       Faces!Leading, BestFirst, Faces!BestFirst
<1>7. CASE Faces!StageFails \/ Faces!CompareFails
  BY <1>7 DEF Faces!StageFails, Faces!CompareFails, FaceInv, FaceTypes,
     Course, ToCome, Extracting, Through, InPlace, Faces!Leading, BestFirst,
     Faces!BestFirst
<1>8. CASE Faces!Compare
  <2>1. /\ stage = "compare" /\ stage' = "done"
        /\ \A i \in {1, 2} : embeddings[i] # <<>>
        /\ UNCHANGED <<pipeline, image, detections, crops, embeddings, at>>
        /\ pipeline = "face_comparison"
    BY <1>8 DEF Faces!Compare, Faces!HaveEmbeddings, FaceInv, FaceTypes,
       Course
  <2>2. result'.compared = [i \in {1, 2} |-> embeddings[i][1]]
    BY <1>8 DEF Faces!Compare, Faces!FirstOf
  <2>3. \A i \in {1, 2} : embeddings[i][1].face = 1
    <3> SUFFICES ASSUME NEW i \in {1, 2} PROVE embeddings[i][1].face = 1
      OBVIOUS
    <3>1. embeddings[i] \in Seq(Embeddings) /\ embeddings[i] # <<>>
      BY <2>1 DEF FaceInv, FaceTypes
    <3>2. 1 \in Faces!Leading(i)
      BY <3>1 DEF Faces!Leading
    <3> QED  BY <3>2 DEF FaceInv, InPlace
  <2>4. BestFirst'
    BY <2>1, <2>2, <2>3 DEF BestFirst, Faces!BestFirst
  <2> QED
    BY <2>1, <2>4 DEF FaceInv, FaceTypes, Course, ToCome, Extracting,
       Through, InPlace, Faces!Leading
<1>9. CASE Faces!Ended \/ UNCHANGED Faces!vars
  <2>1. UNCHANGED <<pipeline, image, stage, detections, crops, embeddings, at,
                    result>>
    BY <1>9 DEF Faces!Ended, Faces!vars
  <2> QED
    BY <2>1 DEF FaceInv, FaceTypes, Course, ToCome, Extracting, Through,
       Extracted, Faces!Nothing, InStep, InPlace, Faces!Leading, BestFirst,
       Faces!BestFirst
<1> QED
  BY <1>1, <1>2, <1>3, <1>4, <1>5, <1>6, <1>7, <1>8, <1>9 DEF Faces!Next

\* Whatever the size of a batch: the embeddings of an image are those of its
\* detections, in their order, up to the first answer with nothing if there is
\* one.
THEOREM EmbeddingsAligned == Faces!Spec => []Aligned
<1>1. FaceInv => Aligned
  <2> SUFFICES ASSUME FaceInv, stage = "compare", NEW i \in Faces!Images
               PROVE  /\ \/ Faces!Nothing(i)
                         \/ [k \in DOMAIN embeddings[i] |->
                               embeddings[i][k].face] = detections[i]
                      /\ \A k \in Faces!Leading(i) : embeddings[i][k].face = k
    BY DEF Aligned, Faces!Aligned
  <2>1. ASSUME ~Faces!Nothing(i)
        PROVE  [k \in DOMAIN embeddings[i] |-> embeddings[i][k].face]
                 = detections[i]
    <3>1. InStep(i, Len(detections[i]))
      BY <2>1 DEF FaceInv, Through, Extracted, Course, Faces!Images
    <3>2. PICK n \in Nat : detections[i] = Best(n) /\ Len(detections[i]) = n
      BY BestList DEF FaceInv, FaceTypes
    <3>3. DOMAIN embeddings[i] = 1..n
      <4>1. embeddings[i] \in Seq(Embeddings)
        BY DEF FaceInv, FaceTypes
      <4> QED  BY <3>1, <3>2, <4>1 DEF InStep
    <3> QED  BY <3>1, <3>2, <3>3 DEF InStep, Best
  <2> QED
    BY <2>1 DEF FaceInv, InPlace
<1> QED  BY <1>1, FaceInit, FaceStep, PTL DEF Faces!Spec

\* What face_comparison compares are the best faces of the two images, and
\* what face_detection returns are the best detections.
THEOREM BestCompared == Faces!Spec => []BestFirst
<1>1. FaceInv => BestFirst
  BY DEF FaceInv
<1> QED  BY <1>1, FaceInit, FaceStep, PTL DEF Faces!Spec

-----------------------------------------------------------------------------
(* Responses.                                                              *)

Shown == DOMAIN Reply!ImageInfo

\* What make_json_safe makes of the values.
SafeInv ==
  step # "returned" =>
    /\ DOMAIN safe = {k \in DOMAIN output.data : k.stem # "image_bytes"}
    /\ \A k \in DOMAIN safe :
         /\ safe[k].kind = Reply!SafeKind(output.data[k])
         /\ safe[k].n = output.data[k].n
         /\ safe[k].of = output.data[k].of

\* Where the values of image i go, and where those that remain come from.
SectionOf(i) ==
  /\ DOMAIN sections.images[i] =
       {k.stem : k \in {k \in DOMAIN safe : k.image = i}}
  /\ \A f \in DOMAIN sections.images[i] : \E k \in DOMAIN safe :
       k.image = i /\ k.stem = f /\ sections.images[i][f] = safe[k]

SectionsInv ==
  step \in {"grouped", "answered"} =>
    /\ \A i \in Reply!Images : SectionOf(i)
    /\ \A f \in DOMAIN sections.rest : \E k \in DOMAIN safe :
         k.image = 0 /\ k.stem = f /\ sections.rest[f] = safe[k]

ReplyInv ==
  /\ output \in Outputs
  /\ step \in {"returned", "summarised", "grouped", "answered"}
  /\ SafeInv
  /\ SectionsInv
  /\ OwnDetails

\* The values under the keys of a set, by their stems.
LEMMA ByStem ==
  ASSUME NEW S
  PROVE  /\ DOMAIN Reply!Stems(S) = {k.stem : k \in S}
         /\ \A f \in DOMAIN Reply!Stems(S) : \E k \in S :
              k.stem = f /\ Reply!Stems(S)[f] = safe[k]
<1>1. DOMAIN Reply!Stems(S) = {k.stem : k \in S}
  BY DEF Reply!Stems
<1>2. ASSUME NEW f \in DOMAIN Reply!Stems(S)
      PROVE  \E k \in S : k.stem = f /\ Reply!Stems(S)[f] = safe[k]
  <2>1. \E k \in S : k.stem = f
    BY <1>1
  <2>2. PICK key : key = CHOOSE k \in S : k.stem = f
    OBVIOUS
  <2>3. key \in S /\ key.stem = f
    BY <2>1, <2>2
  <2>4. Reply!Stems(S)[f] = safe[key]
    BY <1>1, <2>2 DEF Reply!Stems
  <2> QED  BY <2>3, <2>4
<1> QED  BY <1>1, <1>2

\* A value that was computed for image i fits the schema of what is shown.
LEMMA ValueFits ==
  ASSUME ReplyInv, output.transport = "http", step # "returned",
         NEW k \in DOMAIN safe, k.stem \in Shown
  PROVE  \/ safe[k].kind = Reply!ImageInfo[k.stem]
         \/ k.stem = "detections" /\ Reply!Empty(safe[k])
<1> USE DEF Reply!ImageInfo, Reply!Left, Shown
<1>1. /\ k \in DOMAIN output.data
      /\ safe[k].kind = Reply!SafeKind(output.data[k])
      /\ safe[k].n = output.data[k].n
  BY DEF ReplyInv, SafeInv
<1>2. /\ output.data[k] \in Reply!Values(k)
      /\ \/ output.data[k].kind = Reply!Left[k.stem]
         \/ k.stem = "detections" /\ Reply!Empty(output.data[k])
      /\ MaxListItems \in Nat
  BY <1>1, DataAssumption DEF Reply!OutputsAssumption, ReplyInv
<1>3. CASE output.data[k].kind = Reply!Left[k.stem]
  <2> PICK kind : kind = output.data[k].kind
    OBVIOUS
  <2>1. safe[k].kind = CASE kind \in {"array", "arrays"} -> "summary"
                         [] kind = "list" /\ output.data[k].n > MaxListItems
                              -> "summary"
                         [] kind = "bytes" -> "text"
                         [] OTHER -> kind
    BY <1>1 DEF Reply!SafeKind
  <2>2. CASE k.stem \in {"preprocessed_image", "cropped_faces", "embeddings"}
    <3>1. kind \in {"array", "arrays"}
      BY <1>3, <2>2
    <3>2. safe[k].kind = "summary"
      BY <2>1, <3>1
    <3> QED  BY <2>2, <3>2
  <2>3. CASE k.stem \in {"original_size", "det_scale", "detections"}
    <3>1. /\ kind \in {"pair", "number", "dicts"}
          /\ kind = Reply!ImageInfo[k.stem]
      BY <1>3, <2>3
    <3>2. safe[k].kind = kind
      BY <2>1, <3>1
    <3> QED  BY <3>1, <3>2
  <2> QED  BY <2>2, <2>3
<1>4. CASE k.stem = "detections" /\ Reply!Empty(output.data[k])
  BY <1>1, <1>2, <1>4 DEF Reply!SafeKind, Reply!Empty
<1> QED  BY <1>2, <1>3, <1>4

\* Details that hold what was computed for their image, under its name.
Own(details, i) ==
  \A f \in DOMAIN details : \E k \in DOMAIN safe :
    /\ k.image = i \/ (i = 1 /\ k.image = 0)
    /\ k.stem = f
    /\ details[f] = safe[k]

Whole(details, i) ==
  \A k \in DOMAIN output.data :
    k.image = i /\ k.stem \in Shown => k.stem \in DOMAIN details

\* An answer made of such details is as OwnDetails has it.
LEMMA OwnAnswer ==
  ASSUME ReplyInv, step = "grouped", UNCHANGED output,
         answer'.status # "500",
         \A i \in Reply!Images :
           Own(answer'.images[i], i) /\ Whole(answer'.images[i], i)
  PROVE  OwnDetails'
<1>1. ASSUME NEW i \in Reply!Images, NEW f \in DOMAIN answer'.images[i]
      PROVE  LET origin == answer'.images[i][f].of
             IN /\ origin.stem = f
                /\ origin.image = i \/ (i = 1 /\ origin.image = 0)
  <2>1. PICK k \in DOMAIN safe :
          /\ k.image = i \/ (i = 1 /\ k.image = 0)
          /\ k.stem = f
          /\ answer'.images[i][f] = safe[k]
    BY DEF Own
  <2>2. safe[k].of = k
    <3>1. k \in DOMAIN output.data /\ safe[k].of = output.data[k].of
      BY DEF ReplyInv, SafeInv
    <3>2. output.data[k] \in Reply!Values(k)
      BY <3>1, DataAssumption DEF Reply!OutputsAssumption, ReplyInv
    <3> QED  BY <3>1, <3>2 DEF Reply!Values
  <2> QED  BY <2>1, <2>2
<1>2. \A i \in Reply!Images : Whole(answer'.images[i], i)
  OBVIOUS
<1> QED
  BY <1>1, <1>2 DEF OwnDetails, Reply!OwnDetails, Whole, Shown

LEMMA NothingHeld == DOMAIN Reply!Nothing = {}
BY DEF Reply!Nothing

LEMMA RespondStep ==
  ASSUME ReplyInv, NEW images, Reply!Respond(images),
         DOMAIN images = Reply!Images,
         \A i \in Reply!Images :
           /\ Own(images[i], i) /\ Whole(images[i], i)
           /\ DOMAIN images[i] \subseteq Shown
  PROVE  ReplyInv'
<1>1. /\ step = "grouped" /\ step' = "answered"
      /\ output.transport = "http"
      /\ UNCHANGED <<output, safe, sections>>
  BY DEF Reply!Respond
<1>2. \A i \in Reply!Images : Reply!Fits(images[i])
  <2> SUFFICES ASSUME NEW i \in Reply!Images, NEW f \in DOMAIN images[i]
               PROVE  \/ images[i][f].kind = Reply!ImageInfo[f]
                      \/ f = "detections" /\ Reply!Empty(images[i][f])
    BY DEF Reply!Fits
  <2>1. PICK k \in DOMAIN safe : k.stem = f /\ images[i][f] = safe[k]
    BY DEF Own
  <2>2. \/ safe[k].kind = Reply!ImageInfo[k.stem]
        \/ k.stem = "detections" /\ Reply!Empty(safe[k])
    BY <1>1, <2>1, ValueFits
  <2> QED  BY <2>1, <2>2
<1>3. answer' = [status |-> "200", images |-> images]
  BY <1>2 DEF Reply!Respond
<1>4. OwnDetails'
  <2>1. answer'.status # "500" /\ answer'.images = images
    BY <1>3
  <2> QED  BY <1>1, <2>1, OwnAnswer
<1> QED
  BY <1>1, <1>3, <1>4 DEF ReplyInv, SafeInv, SectionsInv, SectionOf

LEMMA ReplyStep == ReplyInv /\ [Reply!Next]_(Reply!vars) => ReplyInv'
<1> SUFFICES ASSUME ReplyInv, [Reply!Next]_(Reply!vars) PROVE ReplyInv'
  OBVIOUS
<1>1. CASE Reply!Summarise
  <2> DEFINE Lasting == {k \in DOMAIN output.data : k.stem # "image_bytes"}
  <2>1. /\ step = "returned" /\ step' = "summarised"
        /\ UNCHANGED <<output, sections, answer>>
        /\ safe' = [k \in Lasting |-> [output.data[k] EXCEPT
                      !.kind = Reply!SafeKind(output.data[k])]]
    BY <1>1 DEF Reply!Summarise
  <2>2. \A k \in DOMAIN output.data :
          output.data[k] \in [kind : {"array", "arrays", "dicts", "list",
                                      "pair", "number", "nan", "bytes"},
                              n : Nat, of : {k}]
    BY DataAssumption
       DEF Reply!OutputsAssumption, Reply!Values, ReplyInv
  <2>3. \A k \in Lasting :
          /\ safe'[k].kind = Reply!SafeKind(output.data[k])
          /\ safe'[k].n = output.data[k].n
          /\ safe'[k].of = output.data[k].of
    <3> SUFFICES ASSUME NEW k \in Lasting
                 PROVE  /\ safe'[k].kind = Reply!SafeKind(output.data[k])
                        /\ safe'[k].n = output.data[k].n
                        /\ safe'[k].of = output.data[k].of
      OBVIOUS
    <3>1. PICK kind : kind = Reply!SafeKind(output.data[k])
      OBVIOUS
    <3>2. safe'[k] = [output.data[k] EXCEPT !.kind = kind]
      BY <2>1, <3>1
    <3>3. output.data[k] \in [kind : {"array", "arrays", "dicts", "list",
                                      "pair", "number", "nan", "bytes"},
                              n : Nat, of : {k}]
      BY <2>2
    <3> QED  BY <3>1, <3>2, <3>3
  <2>4. SafeInv'
    <3>1. DOMAIN safe' = Lasting
      BY <2>1
    <3> QED  BY <2>1, <2>3, <3>1 DEF SafeInv, Reply!SafeKind
  <2> QED
    BY <2>1, <2>4
       DEF ReplyInv, SectionsInv, OwnDetails, Reply!OwnDetails
<1>2. CASE Reply!Group
  <2> DEFINE Of(i) == {k \in DOMAIN safe : k.image = i}
             Compared == {k \in Of(0) : k.stem \in Reply!ComparisonKeys}
             Overwritten ==
               {k \in Of(0) : k.stem = "comparison" /\ Compared # {}}
             Rest == Of(0) \ (Compared \cup Overwritten)
  <2>1. /\ step = "summarised" /\ step' = "grouped"
        /\ UNCHANGED <<output, safe, answer>>
        /\ sections' =
             [images     |-> [i \in Reply!Images |-> Reply!Stems(Of(i))],
              comparison |-> Reply!Stems(Compared),
              rest       |-> Reply!Stems(Rest)]
    BY <1>2 DEF Reply!Group
  <2>2. /\ \A i \in Reply!Images : sections'.images[i] = Reply!Stems(Of(i))
        /\ sections'.rest = Reply!Stems(Rest)
    BY <2>1
  <2>3. \A i \in Reply!Images : SectionOf(i)'
    <3> SUFFICES ASSUME NEW i \in Reply!Images PROVE SectionOf(i)'
      OBVIOUS
    <3>1. PICK section : section = Reply!Stems(Of(i))
      OBVIOUS
    <3>2. /\ DOMAIN section = {k.stem : k \in Of(i)}
          /\ \A f \in DOMAIN section : \E k \in Of(i) :
               k.stem = f /\ section[f] = safe[k]
      <4> HIDE DEF Of
      <4> QED  BY <3>1, ByStem
    <3>3. sections'.images[i] = section /\ safe' = safe
      BY <2>1, <2>2, <3>1
    <3> QED  BY <3>2, <3>3 DEF SectionOf
  <2>4. \A f \in DOMAIN sections'.rest : \E k \in DOMAIN safe :
          k.image = 0 /\ k.stem = f /\ sections'.rest[f] = safe[k]
    <3>1. \A f \in DOMAIN Reply!Stems(Rest) : \E k \in Rest :
            k.stem = f /\ Reply!Stems(Rest)[f] = safe[k]
      <4> HIDE DEF Rest
      <4> QED  BY ByStem
    <3>2. \A k \in Rest : k \in DOMAIN safe /\ k.image = 0
      OBVIOUS
    <3> HIDE DEF Rest
    <3> QED  BY <2>2, <3>1, <3>2
  <2>5. SafeInv'
    BY <2>1 DEF ReplyInv, SafeInv, Reply!SafeKind
  <2> QED
    BY <2>1, <2>3, <2>4, <2>5
       DEF ReplyInv, SectionsInv, OwnDetails, Reply!OwnDetails
<1>3. CASE Reply!FaceDetection
  <2> DEFINE images == [i \in Reply!Images |-> Reply!DetectionImage(i)]
  <2>1. /\ output.pipeline = "face_detection" /\ Reply!Respond(images)
        /\ step = "grouped" /\ output.transport = "http"
    BY <1>3 DEF Reply!FaceDetection, Reply!Respond
  <2>2. \A k \in DOMAIN output.data : k.image = 0
    BY <2>1, DataAssumption DEF ReplyInv, Reply!OutputsAssumption
  <2>3. ASSUME NEW i \in Reply!Images
        PROVE  /\ Own(images[i], i) /\ Whole(images[i], i)
               /\ DOMAIN images[i] \subseteq Shown
    <3>1. images[i] = Reply!DetectionImage(i)
      OBVIOUS
    <3>2. /\ DOMAIN images[i] \subseteq {"detections"}
          /\ \A f \in DOMAIN images[i] :
               i = 1 /\ f \in DOMAIN sections.rest
                 /\ images[i][f] = sections.rest[f]
      BY <3>1, NothingHeld DEF Reply!DetectionImage, Reply!Restrict
    <3>3. Own(images[i], i)
      <4> HIDE DEF images
      <4> QED  BY <2>1, <3>2 DEF Own, ReplyInv, SectionsInv
    <3>4. Whole(images[i], i)
      BY <2>2 DEF Whole, Reply!Images
    <3> QED  BY <3>2, <3>3, <3>4 DEF Shown, Reply!ImageInfo
  <2>4. DOMAIN images = Reply!Images
    OBVIOUS
  <2> HIDE DEF images
  <2> QED  BY <2>1, <2>3, <2>4, RespondStep
<1>4. CASE Reply!FaceComparison
  <2> DEFINE images == [i \in Reply!Images |-> Reply!ComparisonImage(i)]
  <2>1. /\ Reply!Respond(images)
        /\ step = "grouped" /\ output.transport = "http"
    BY <1>4 DEF Reply!FaceComparison, Reply!Respond
  <2>2. ASSUME NEW i \in Reply!Images
        PROVE  /\ Own(images[i], i) /\ Whole(images[i], i)
               /\ DOMAIN images[i] \subseteq Shown
    <3>1. SectionOf(i)
      BY <2>1 DEF ReplyInv, SectionsInv
    <3>2. images[i] = Reply!ComparisonImage(i)
      OBVIOUS
    <3> HIDE DEF images
    <3>3. CASE sections.images[i] # Reply!Nothing
      <4>1. images[i] = [f \in DOMAIN sections.images[i] \cap Shown |->
                           sections.images[i][f]]
        BY <3>2, <3>3
           DEF Reply!ComparisonImage, Reply!Section, Reply!Restrict, Shown
      <4>2. Own(images[i], i)
        <5>1. ASSUME NEW f \in DOMAIN images[i]
              PROVE  \E k \in DOMAIN safe :
                       /\ k.image = i \/ (i = 1 /\ k.image = 0)
                       /\ k.stem = f
                       /\ images[i][f] = safe[k]
          <6>1. /\ f \in DOMAIN sections.images[i]
                /\ images[i][f] = sections.images[i][f]
            BY <4>1
          <6>2. PICK k \in DOMAIN safe :
                  k.image = i /\ k.stem = f /\ sections.images[i][f] = safe[k]
            BY <3>1, <6>1 DEF SectionOf
          <6> QED  BY <6>1, <6>2
        <5> QED  BY <5>1 DEF Own
      <4>3. Whole(images[i], i)
        <5>1. \A k \in DOMAIN output.data :
                k.image = i /\ k.stem \in Shown =>
                  k.stem \in DOMAIN sections.images[i]
          BY <2>1, <3>1
             DEF SectionOf, ReplyInv, SafeInv, Shown, Reply!ImageInfo
        <5> QED  BY <4>1, <5>1 DEF Whole
      <4> QED  BY <4>1, <4>2, <4>3
    <3>4. CASE sections.images[i] = Reply!Nothing
      <4>1. /\ DOMAIN images[i] \subseteq
                 {"original_size", "det_scale", "detections"}
            /\ \A f \in DOMAIN images[i] :
                 i = 1 /\ f \in DOMAIN sections.rest
                   /\ images[i][f] = sections.rest[f]
        BY <3>2, <3>4, NothingHeld
           DEF Reply!ComparisonImage, Reply!Section, Reply!FlatKeys,
               Reply!Restrict
      <4>2. Own(images[i], i)
        <5>1. \A f \in DOMAIN sections.rest : \E k \in DOMAIN safe :
                k.image = 0 /\ k.stem = f /\ sections.rest[f] = safe[k]
          BY <2>1 DEF ReplyInv, SectionsInv
        <5>2. ASSUME NEW f \in DOMAIN images[i]
              PROVE  \E k \in DOMAIN safe :
                       /\ k.image = i \/ (i = 1 /\ k.image = 0)
                       /\ k.stem = f
                       /\ images[i][f] = safe[k]
          <6>1. /\ i = 1 /\ f \in DOMAIN sections.rest
                /\ images[i][f] = sections.rest[f]
            BY <4>1
          <6> QED  BY <5>1, <6>1
        <5> QED  BY <5>2 DEF Own
      <4>3. Whole(images[i], i)
        BY <2>1, <3>1, <3>4, NothingHeld
           DEF Whole, SectionOf, ReplyInv, SafeInv, Shown, Reply!ImageInfo
      <4> QED  BY <4>1, <4>2, <4>3 DEF Shown, Reply!ImageInfo
    <3> QED  BY <3>3, <3>4
  <2>3. DOMAIN images = Reply!Images
    OBVIOUS
  <2> HIDE DEF images
  <2> QED  BY <2>1, <2>2, <2>3, RespondStep
<1>5. CASE Reply!Dump
  <2>1. /\ step = "grouped" /\ step' = "answered"
        /\ UNCHANGED <<output, safe, sections>>
        /\ answer'.status = "OK" /\ answer'.images = sections.images
    BY <1>5 DEF Reply!Dump
  <2>2. \A i \in Reply!Images : SectionOf(i)
    BY <2>1 DEF ReplyInv, SectionsInv
  <2>3. \A i \in Reply!Images :
          Own(answer'.images[i], i) /\ Whole(answer'.images[i], i)
    <3> SUFFICES ASSUME NEW i \in Reply!Images
                 PROVE  /\ Own(sections.images[i], i)
                        /\ Whole(sections.images[i], i)
      BY <2>1
    <3>1. SectionOf(i)
      BY <2>2
    <3>2. Own(sections.images[i], i)
      BY <3>1 DEF Own, SectionOf
    <3>3. Whole(sections.images[i], i)
      BY <2>1, <3>1
         DEF Whole, SectionOf, ReplyInv, SafeInv, Shown, Reply!ImageInfo
    <3> QED  BY <3>2, <3>3
  <2>4. OwnDetails'
    BY <2>1, <2>3, OwnAnswer
  <2> QED
    BY <2>1, <2>4 DEF ReplyInv, SafeInv, SectionsInv, SectionOf
<1>6. CASE Reply!Ended \/ UNCHANGED Reply!vars
  <2>1. UNCHANGED <<output, safe, sections, answer, step>>
    BY <1>6 DEF Reply!Ended, Reply!vars
  <2> QED
    BY <2>1 DEF ReplyInv, SafeInv, SectionsInv, SectionOf, Reply!SafeKind,
       OwnDetails, Reply!OwnDetails
<1> QED
  BY <1>1, <1>2, <1>3, <1>4, <1>5, <1>6 DEF Reply!Next

\* Whatever an execution of the built-in pipelines returns: it is answered, and
\* what the answer shows of an image was computed for it, with nothing missing.
THEOREM DetailsKeptApart == Reply!Spec => []OwnDetails
<1>1. Reply!Init => ReplyInv
  BY DEF Reply!Init, ReplyInv, SafeInv, SectionsInv, OwnDetails,
     Reply!OwnDetails
<1>2. ReplyInv => OwnDetails
  BY DEF ReplyInv
<1> QED  BY <1>1, <1>2, ReplyStep, PTL DEF Reply!Spec

-----------------------------------------------------------------------------
\* DataPath is each of its parts: one that rests stutters.
THEOREM DataPartsKept ==
  DataSpec => Spec /\ Scrfd!Spec /\ Region!Spec /\ Faces!Spec /\ Reply!Spec
<1>1. DataInit =>
        Init /\ Scrfd!Init /\ Region!Init /\ Faces!Init /\ Reply!Init
  BY DEF DataInit, Starts, ScrfdRests, NmsRests, RegionRests, FacesRest,
     ReplyRests
<1>2. [DataNext]_dataVars =>
        /\ [Next]_vars
        /\ [Scrfd!Next]_(Scrfd!vars)
        /\ [Region!Next]_(Region!vars)
        /\ [Faces!Next]_(Faces!vars)
        /\ [Reply!Next]_(Reply!vars)
  BY DEF DataNext, dataVars, vars, scrfdVars, regionVars, faceVars,
     responseVars, Scrfd!vars, Region!vars, Faces!vars, Reply!vars
<1> QED
  BY <1>1, <1>2, PTL DEF DataSpec, Spec, Scrfd!Spec, Region!Spec, Faces!Spec,
     Reply!Spec
=============================================================================
