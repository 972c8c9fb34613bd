----------------------------- MODULE ModelLease -----------------------------
(***************************************************************************)
(* What the control plane promises its clients, without coroutines, locks  *)
(* or counters: a pipeline leases the models it needs one by one, commits  *)
(* when all of them are being served, and drops its leases all at once; a  *)
(* model is served on behalf of a lease and withdrawn only when no lease   *)
(* is left.  So a committed pipeline's models stay served.                 *)
(***************************************************************************)
CONSTANTS Pipelines, Models, Wants

VARIABLES
  leases,     \* the models each pipeline has leased
  serving,    \* the models that answer inference requests
  committed   \* the pipelines that may be executed

vars == <<leases, serving, committed>>

Init ==
  /\ leases = [p \in Pipelines |-> {}]
  /\ serving = {}
  /\ committed = {}

Take(p, m) ==
  /\ p \notin committed
  /\ m \in Wants[p] \ leases[p]
  /\ leases' = [leases EXCEPT ![p] = @ \cup {m}]
  /\ UNCHANGED <<serving, committed>>

Serve(m) ==
  /\ m \notin serving
  /\ \E p \in Pipelines : m \in leases[p]
  /\ serving' = serving \cup {m}
  /\ UNCHANGED <<leases, committed>>

Withdraw(S) ==
  /\ S \subseteq serving
  /\ \A p \in Pipelines : leases[p] \cap S = {}
  /\ serving' = serving \ S
  /\ UNCHANGED <<leases, committed>>

Commit(p) ==
  /\ leases[p] = Wants[p]
  /\ Wants[p] \subseteq serving
  /\ committed' = committed \cup {p}
  /\ UNCHANGED <<leases, serving>>

Drop(p) ==
  /\ leases' = [leases EXCEPT ![p] = {}]
  /\ committed' = committed \ {p}
  /\ UNCHANGED serving

\* Nothing is persisted: a crash takes every lease and every commitment.
Crash ==
  /\ leases' = [p \in Pipelines |-> {}]
  /\ serving' = {}
  /\ committed' = {}

Next ==
  \/ \E p \in Pipelines, m \in Models : Take(p, m)
  \/ \E p \in Pipelines : Commit(p) \/ Drop(p)
  \/ \E m \in Models : Serve(m)
  \/ \E S \in SUBSET serving : Withdraw(S)
  \/ Crash

Spec == Init /\ [][Next]_vars

\* A committed pipeline holds all of its leases and they are all served.
CommittedServed ==
  \A p \in committed : leases[p] = Wants[p] /\ Wants[p] \subseteq serving
=============================================================================
