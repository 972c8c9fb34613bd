------------------------------ MODULE Counting ------------------------------
(***************************************************************************)
(* How a step changes the number of elements of a finite set: the fact     *)
(* behind every proof that a counter agrees with what it counts.           *)
(***************************************************************************)
EXTENDS Integers, FiniteSets, FiniteSetTheorems, TLAPS

\* One element more, one element less.
LEMMA OneMoreOneLess ==
  ASSUME NEW S, IsFiniteSet(S), NEW x
  PROVE  /\ Cardinality(S) \in Nat
         /\ x \notin S => Cardinality(S \cup {x}) = Cardinality(S) + 1
         /\ x \in S => /\ Cardinality(S) # 0
                      /\ Cardinality(S \ {x}) = Cardinality(S) - 1
BY FS_CardinalityType, FS_EmptySet, FS_AddElement, FS_RemoveElement
=============================================================================
