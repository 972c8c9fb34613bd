-------------------------- MODULE ModelLeaseProofs --------------------------
(***************************************************************************)
(* What ModelLease promises to the pipelines follows from its actions, for *)
(* every set of pipelines and models; a system that implements ModelLease  *)
(* inherits it.                                                            *)
(***************************************************************************)
EXTENDS ModelLease, TLAPS

TypeOK ==
  /\ leases \in [Pipelines -> SUBSET Models]
  /\ committed \subseteq Pipelines

LEMMA TypeStep == TypeOK /\ [Next]_vars => TypeOK'
BY DEF TypeOK, Next, vars, Take, Serve, Withdraw, Commit, Drop, Crash

LEMMA ServedStep ==
  TypeOK /\ CommittedServed /\ [Next]_vars => CommittedServed'
<1> SUFFICES ASSUME TypeOK, CommittedServed, [Next]_vars
             PROVE  CommittedServed'
  OBVIOUS
<1> USE DEF TypeOK, CommittedServed
<1>1. ASSUME NEW p \in Pipelines, NEW m \in Models, Take(p, m)
      PROVE  CommittedServed'
  BY <1>1 DEF Take
<1>2. ASSUME NEW p \in Pipelines, Commit(p) \/ Drop(p)
      PROVE  CommittedServed'
  BY <1>2 DEF Commit, Drop
<1>3. ASSUME NEW m \in Models, Serve(m) PROVE CommittedServed'
  BY <1>3 DEF Serve
<1>4. ASSUME NEW S \in SUBSET serving, Withdraw(S) PROVE CommittedServed'
  <2>1. \A p \in committed : Wants[p] \cap S = {}
    BY <1>4 DEF Withdraw
  <2> QED
    BY <1>4, <2>1 DEF Withdraw
<1>5. CASE Crash
  BY <1>5 DEF Crash
<1>6. CASE UNCHANGED vars
  BY <1>6 DEF vars
<1> QED
  BY <1>1, <1>2, <1>3, <1>4, <1>5, <1>6 DEF Next

\* A pipeline that may be executed holds a lease on each of its models, and
\* all of them are being served, until the pipeline drops them or a crash
\* takes everything: the meaning of ACTIVE in PipelineRegistry.
THEOREM PromiseKept == Spec => []CommittedServed
<1>1. Init => TypeOK /\ CommittedServed
  BY DEF Init, TypeOK, CommittedServed
<1> QED
  BY <1>1, TypeStep, ServedStep, PTL DEF Spec
=============================================================================
