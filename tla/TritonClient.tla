---------------------------- MODULE TritonClient ----------------------------
(***************************************************************************)
(* The two clients of Triton (inference/triton_client.py over HTTP,        *)
(* triton_grpc_client.py over gRPC) as ModelLifecycleManager uses them to  *)
(* load and unload models: what the manager may conclude from a call that  *)
(* returns, that raises, or whose answer comes too late or never.          *)
(*                                                                         *)
(* ControlPlane lets a failed call take effect at once or not at all; here *)
(* a call that was given up is still on its way to Triton, and may be      *)
(* carried out long after.  Nothing keeps the order of sending: the HTTP   *)
(* client has a connection for each call under way, and Triton a thread.   *)
(***************************************************************************)
EXTENDS SequencesExt, Naturals

CONSTANTS
  Models,
  Protocols,  \* what TritonConfig.protocol may be
  MaxBacklog  \* bound on the requests of one model Triton has not looked at

ASSUME ClientAssumption ==
  /\ Protocols \subseteq {"http", "grpc"}
  /\ MaxBacklog \in Nat \ {0}

VARIABLES
  protocol,  \* the client that create_app_state built
  call,      \* the manager's call on a model: "none", "load" or "unload"
  answer,    \* the status Triton sent back to it, if it has
  backlog,   \* the requests on a model Triton has yet to carry out
  loaded,    \* is the model loaded in Triton
  believed,  \* does the manager take it for loaded
  overtaken  \* history: when Triton carried out the last load that it
             \* answered, was an unload sent before it still on its way
vars == <<protocol, call, answer, backlog, loaded, believed, overtaken>>

\* The status of an answer is "ok", "already" (409, to a load), "unknown" (404,
\* to an unload) or "error", which stands for every other.
Pending == "pending"

Init ==
  /\ protocol \in Protocols
  /\ call = [m \in Models |-> "none"]
  /\ answer = [m \in Models |-> Pending]
  /\ backlog = [m \in Models |-> <<>>]
  /\ loaded = [m \in Models |-> FALSE]
  /\ believed = [m \in Models |-> FALSE]
  /\ overtaken = [m \in Models |-> FALSE]

-----------------------------------------------------------------------------
(* The calls.  A model has one at a time: the manager's lock sees to it.   *)

Send(m, op) ==
  /\ call[m] = "none"
  /\ believed[m] = (op = "unload")
  /\ Len(backlog[m]) < MaxBacklog
  /\ call' = [call EXCEPT ![m] = op]
  /\ answer' = [answer EXCEPT ![m] = Pending]
  /\ backlog' = [backlog EXCEPT ![m] = Append(@, op)]
  /\ UNCHANGED <<protocol, loaded, believed, overtaken>>

\* Does the method return, or raise InferenceError?  The HTTP client takes 409
\* to a load and 404 to an unload for successes; the gRPC library raises for
\* every status but OK.
Returns(op, status) ==
  \/ status = "ok"
  \/ protocol = "http" /\ op = "load" /\ status = "already"
  \/ protocol = "http" /\ op = "unload" /\ status = "unknown"

\* The manager's conclusion: a load that returned has loaded the model, and
\* after an unload the model is gone whatever the call did.
Conclude(m, returned) ==
  /\ believed' = [believed EXCEPT ![m] = call[m] = "load" /\ returned]
  /\ call' = [call EXCEPT ![m] = "none"]
  /\ UNCHANGED <<protocol, answer, backlog, loaded, overtaken>>

Answered(m) ==
  /\ call[m] # "none"
  /\ answer[m] # Pending
  /\ Conclude(m, Returns(call[m], answer[m]))

\* The request of a call that ends without an answer may get to Triton all the
\* same, or never.
Travels(m) ==
  \/ UNCHANGED backlog
  \/ /\ answer[m] = Pending
     /\ backlog' = [backlog EXCEPT ![m] = SubSeq(@, 1, Len(@) - 1)]

\* Mutant: a load that was not answered is taken for done.
SilenceTrusted(m) ==
  /\ believed' = [believed EXCEPT ![m] = call[m] = "load"]
  /\ call' = [call EXCEPT ![m] = "none"]
  /\ Travels(m)
  /\ UNCHANGED <<protocol, answer, loaded, overtaken>>

\* The call raises InferenceError.
Raised(m) ==
  /\ believed' = [believed EXCEPT ![m] = FALSE]
  /\ call' = [call EXCEPT ![m] = "none"]
  /\ Travels(m)
  /\ UNCHANGED <<protocol, answer, loaded, overtaken>>

\* The connection is lost.
Disconnected(m) ==
  /\ call[m] # "none"
  /\ Raised(m)

\* Mutant: the client is built with timeout=None.
NoTimeout == FALSE

\* httpx waits for the answer for 60 seconds; the gRPC client sets no deadline.
HasTimeout == protocol = "http"

TimesOut(m) ==
  /\ HasTimeout
  /\ call[m] # "none"
  /\ Raised(m)

-----------------------------------------------------------------------------
(* Triton, external.                                                       *)

Statuses == {"ok", "already", "unknown", "error"}

\* May Triton answer status to a request on a model that was there before or
\* not, and that is there afterwards or not?
MayAnswer(op, status, before, after) ==
  \/ status = "ok" /\ after = (op = "load")
  \/ status = "already" /\ op = "load" /\ before /\ after
  \/ status = "unknown" /\ op = "unload" /\ ~before /\ ~after
  \/ status = "error" /\ after = before

\* It carries out any request on the model that has got to it.  Only the last
\* one sent can be the one the manager still waits for.
CarryOut(m) ==
  \E i \in DOMAIN backlog[m], status \in Statuses, there \in BOOLEAN :
    LET request == backlog[m][i]
        others == RemoveAt(backlog[m], i)
    IN
    /\ MayAnswer(request, status, loaded[m], there)
    /\ loaded' = [loaded EXCEPT ![m] = there]
    /\ backlog' = [backlog EXCEPT ![m] = others]
    /\ IF i = Len(backlog[m]) /\ call[m] # "none" /\ answer[m] = Pending
         THEN /\ answer' = [answer EXCEPT ![m] = status]
              /\ overtaken' = [overtaken EXCEPT ![m] =
                   request = "load" /\ "unload" \in Range(others)]
         ELSE UNCHANGED <<answer, overtaken>>
    /\ UNCHANGED <<protocol, call, believed>>

Next ==
  \E m \in Models :
    \/ Send(m, "load") \/ Send(m, "unload")
    \/ Answered(m) \/ Disconnected(m) \/ TimesOut(m)
    \/ CarryOut(m)

Spec == Init /\ [][Next]_vars

(***************************************************************************)
(* Fairness: the event loop resumes the call when its answer has come, and *)
(* when its timer is over if it has one.  Triton owes nothing.             *)
(***************************************************************************)
Fairness == \A m \in Models : WF_vars(Answered(m) \/ TimesOut(m))

FairSpec == Spec /\ Fairness

-----------------------------------------------------------------------------
\* What the manager takes for loaded is loaded, however many calls before it
\* were given up and are carried out late, unless it asks for the unload
\* itself.  One thing is not guarded against: a load that overtakes an unload
\* that was given up before it, which then takes the model away.
BelievedIsLoaded ==
  \A m \in Models :
    believed[m] => loaded[m] \/ call[m] = "unload" \/ overtaken[m]

\* A call over HTTP ends whatever Triton does, one over gRPC when it is
\* answered: then a lock or a permit held during it is given back.  One over
\* gRPC that is not answered may last for ever.
CallReturns ==
  \A m \in Models :
    call[m] # "none" /\ (protocol = "http" \/ answer[m] # Pending)
      ~> call[m] = "none"
=============================================================================
