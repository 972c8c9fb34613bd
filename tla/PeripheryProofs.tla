-------------------------- MODULE PeripheryProofs --------------------------
(***************************************************************************)
(* What the parts of Periphery keep, for any files, environments, stage    *)
(* packages, requests and models: one invariant for each part.             *)
(***************************************************************************)
EXTENDS Periphery, FiniteSetTheorems, SequenceTheorems, TLAPS

(***************************************************************************)
(* TritonClient.  A load is believed only when its own answer came.  If    *)
(* Triton carried it out after every unload sent before it, nothing is     *)
(* left on the way that could undo it; otherwise it has overtaken one.     *)
(***************************************************************************)

Ops == {"load", "unload"}

TypeInv ==
  /\ protocol \in Protocols
  /\ call \in [Models -> Ops \cup {"none"}]
  /\ answer \in [Models -> Statuses \cup {Pending}]
  /\ backlog \in [Models -> Seq(Ops)]
  /\ loaded \in [Models -> BOOLEAN]
  /\ believed \in [Models -> BOOLEAN]
  /\ overtaken \in [Models -> BOOLEAN]

\* The request of a call that waits is the last one on the way.
Waits(m) ==
  call[m] # "none" /\ answer[m] = Pending =>
    /\ backlog[m] # <<>>
    /\ backlog[m][Len(backlog[m])] = call[m]

\* A model that stays loaded until the next unload is sent, unless a load of it
\* has overtaken an unload.
Stays(m) ==
  overtaken[m] \/ (loaded[m] /\ "unload" \notin Range(backlog[m]))

\* A load that is going to return has loaded the model.
IsAnswered(m) ==
  call[m] = "load" /\ answer[m] \in {"ok", "already"} => Stays(m)

\* A model that is believed loaded rests, or is being unloaded.
Rests(m) ==
  believed[m] => \/ call[m] = "none" /\ Stays(m)
                 \/ call[m] = "unload"

Inv == /\ TypeInv
       /\ \A m \in Models : Waits(m) /\ IsAnswered(m) /\ Rests(m)

\* The invariant holds before the first call.
LEMMA InitInv == Init => Inv
  BY DEF Init, Inv, TypeInv, Waits, IsAnswered, Rests, Stays, Pending, Ops

\* A request joins what is on the way as its last element.
LEMMA LastAppended ==
  ASSUME NEW S, NEW s \in Seq(S), NEW e \in S
  PROVE  /\ Append(s, e) \in Seq(S)
         /\ Append(s, e) # <<>>
         /\ Append(s, e)[Len(Append(s, e))] = e
  OBVIOUS

\* What is on the way after a request was carried out was there before, and
\* what was last still is, if it is there.
LEMMA OthersStayOnTheirWay ==
  ASSUME NEW S, NEW s \in Seq(S), NEW i \in DOMAIN s
  PROVE  /\ RemoveAt(s, i) \in Seq(S)
         /\ Range(RemoveAt(s, i)) \subseteq Range(s)
         /\ i # Len(s) =>
              /\ RemoveAt(s, i) # <<>>
              /\ RemoveAt(s, i)[Len(RemoveAt(s, i))] = s[Len(s)]
<1> DEFINE front == SubSeq(s, 1, i - 1)
           rest == SubSeq(s, i + 1, Len(s))
           left == front \o rest
<1>1. Len(s) \in Nat /\ DOMAIN s = 1..Len(s) /\ i \in 1..Len(s)
  BY LenProperties
<1>2. /\ front \in Seq(S) /\ Len(front) = i - 1
      /\ \A j \in 1..i - 1 : front[j] = s[j]
  BY <1>1, SubSeqProperties
<1>3. /\ rest \in Seq(S) /\ Len(rest) = Len(s) - i
      /\ \A j \in 1..Len(s) - i : rest[j] = s[i + j]
  BY <1>1, SubSeqProperties
<1> HIDE DEF front, rest
<1>4. /\ left \in Seq(S) /\ Len(left) = Len(s) - 1
      /\ \A j \in 1..Len(s) - 1 :
           left[j] = IF j <= i - 1 THEN s[j] ELSE s[j + 1]
  <2>1. /\ left \in Seq(S) /\ Len(left) = Len(front) + Len(rest)
        /\ \A j \in 1..Len(front) + Len(rest) :
             left[j] = IF j <= Len(front) THEN front[j]
                                          ELSE rest[j - Len(front)]
    BY <1>2, <1>3, ConcatProperties
  <2>2. ASSUME NEW j \in 1..Len(s) - 1, j > i - 1
        PROVE  rest[j - (i - 1)] = s[j + 1]
    BY <1>1, <1>3, <2>2
  <2>3. Len(front) = i - 1 /\ Len(front) + Len(rest) = Len(s) - 1
    BY <1>1, <1>2, <1>3
  <2> HIDE DEF left
  <2>4. ASSUME NEW j \in 1..Len(s) - 1
        PROVE  left[j] = IF j <= i - 1 THEN s[j] ELSE s[j + 1]
    <3>1. left[j] = IF j <= i - 1 THEN front[j] ELSE rest[j - (i - 1)]
      BY <2>1, <2>3
    <3>2. CASE j <= i - 1
      <4>1. j \in 1..i - 1
        BY <1>1, <3>2
      <4> QED  BY <1>2, <3>1, <3>2, <4>1
    <3>3. CASE j > i - 1
      <4>1. ~(j <= i - 1)
        BY <1>1, <3>3
      <4> QED  BY <2>2, <3>1, <3>3, <4>1
    <3> QED  BY <1>1, <3>2, <3>3
  <2> QED  BY <2>1, <2>3, <2>4
<1> HIDE DEF left
<1>5. DOMAIN left = 1..Len(s) - 1
  BY <1>4, LenProperties
<1>6. \A x \in Range(left) : x \in Range(s)
  BY <1>1, <1>4, <1>5 DEF Range
<1>7. i # Len(s) => left # <<>> /\ left[Len(left)] = s[Len(s)]
  BY <1>1, <1>4, EmptySeq
<1> QED
  BY <1>4, <1>6, <1>7 DEF left, front, rest, RemoveAt

\* Sending, an answer, silence and Triton itself all keep the invariant.
LEMMA SendInv ==
  ASSUME Inv, NEW m \in Models, NEW op \in Ops, Send(m, op)
  PROVE  Inv'
<1> DEFINE sent == Append(backlog[m], op)
<1>1. sent \in Seq(Ops) /\ sent # <<>> /\ sent[Len(sent)] = op
  <2>1. backlog[m] \in Seq(Ops)
    BY DEF Inv, TypeInv
  <2> QED  BY <2>1, LastAppended
<1>2. TypeInv'
  BY <1>1 DEF Inv, TypeInv, Send, Ops, Pending
<1>3. ASSUME NEW n \in Models
      PROVE  Waits(n)' /\ IsAnswered(n)' /\ Rests(n)'
  <2>1. CASE n = m
    BY <1>1, <2>1 DEF Inv, TypeInv, Send, Waits, IsAnswered, Rests, Stays, Ops,
                      Pending
  <2>2. CASE n # m
    BY <1>3, <2>2 DEF Inv, TypeInv, Send, Waits, IsAnswered, Rests, Stays
  <2> QED  BY <2>1, <2>2
<1> QED  BY <1>2, <1>3 DEF Inv

LEMMA AnsweredInv ==
  ASSUME Inv, NEW m \in Models, Answered(m)
  PROVE  Inv'
<1>1. TypeInv'
  BY DEF Inv, TypeInv, Answered, Conclude, Returns, Ops
<1>2. ASSUME NEW n \in Models
      PROVE  Waits(n)' /\ IsAnswered(n)' /\ Rests(n)'
  <2>1. CASE n = m
    BY <2>1 DEF Inv, TypeInv, Answered, Conclude, Returns, Waits, IsAnswered,
                Rests, Stays, Ops, Pending
  <2>2. CASE n # m
    BY <1>2, <2>2 DEF Inv, TypeInv, Answered, Conclude, Waits, IsAnswered,
                      Rests, Stays
  <2> QED  BY <2>1, <2>2
<1> QED  BY <1>1, <1>2 DEF Inv

LEMMA RaisedInv ==
  ASSUME Inv, NEW m \in Models, Raised(m)
  PROVE  Inv'
<1>1. backlog' \in [Models -> Seq(Ops)]
  <2>1. CASE UNCHANGED backlog  BY <2>1 DEF Inv, TypeInv
  <2>2. CASE backlog' =
          [backlog EXCEPT ![m] = SubSeq(@, 1, Len(@) - 1)]
    BY <2>2 DEF Inv, TypeInv
  <2> QED  BY <2>1, <2>2 DEF Raised, Travels
<1>2. \A n \in Models \ {m} : backlog'[n] = backlog[n]
  BY DEF Raised, Travels, Inv, TypeInv
<1>3. TypeInv'
  BY <1>1 DEF Inv, TypeInv, Raised
<1>4. ASSUME NEW n \in Models
      PROVE  Waits(n)' /\ IsAnswered(n)' /\ Rests(n)'
  <2>1. CASE n = m
    BY <2>1 DEF Inv, TypeInv, Raised, Waits, IsAnswered, Rests, Stays
  <2>2. CASE n # m
    BY <1>2, <1>4, <2>2 DEF Inv, TypeInv, Raised, Waits, IsAnswered, Rests, Stays
  <2> QED  BY <2>1, <2>2
<1> QED  BY <1>3, <1>4 DEF Inv

LEMMA CarryOutInv ==
  ASSUME Inv, NEW m \in Models, CarryOut(m)
  PROVE  Inv'
<1>1. PICK i \in DOMAIN backlog[m], status \in Statuses, there \in BOOLEAN :
        /\ MayAnswer(backlog[m][i], status, loaded[m], there)
        /\ loaded' = [loaded EXCEPT ![m] = there]
        /\ backlog' = [backlog EXCEPT ![m] = RemoveAt(backlog[m], i)]
        /\ IF i = Len(backlog[m]) /\ call[m] # "none" /\ answer[m] = Pending
             THEN /\ answer' = [answer EXCEPT ![m] = status]
                  /\ overtaken' = [overtaken EXCEPT ![m] =
                       /\ backlog[m][i] = "load"
                       /\ "unload" \in Range(RemoveAt(backlog[m], i))]
             ELSE UNCHANGED <<answer, overtaken>>
        /\ UNCHANGED <<protocol, call, believed>>
  BY DEF CarryOut
<1> DEFINE request == backlog[m][i]
           others == RemoveAt(backlog[m], i)
<1>2. backlog[m] \in Seq(Ops)
  BY DEF Inv, TypeInv
<1>3. /\ others \in Seq(Ops)
      /\ Range(others) \subseteq Range(backlog[m])
      /\ i # Len(backlog[m]) =>
           /\ others # <<>>
           /\ others[Len(others)] = backlog[m][Len(backlog[m])]
  BY <1>2, OthersStayOnTheirWay
<1>4. request \in Ops /\ request \in Range(backlog[m])
  BY <1>2 DEF Range
<1> HIDE DEF request, others
<1>5. /\ request = "load" /\ loaded[m] => there
      /\ request = "load" /\ status \in {"ok", "already"} => there
  <2>1. MayAnswer(request, status, loaded[m], there)
    BY <1>1 DEF request
  <2>2. loaded[m] \in BOOLEAN
    BY DEF Inv, TypeInv
  <2> QED  BY <2>1, <2>2 DEF MayAnswer
<1>6. TypeInv'
  BY <1>1, <1>3 DEF Inv, TypeInv, Statuses, others
<1>7. /\ loaded'[m] = there /\ backlog'[m] = others
      /\ call'[m] = call[m] /\ believed'[m] = believed[m]
  BY <1>1 DEF Inv, TypeInv, others
<1>8. ASSUME NEW n \in Models
      PROVE  Waits(n)' /\ IsAnswered(n)' /\ Rests(n)'
  <2>1. CASE n # m
    BY <1>1, <1>8, <2>1
    DEF Inv, TypeInv, Waits, IsAnswered, Rests, Stays
  <2>2. CASE i = Len(backlog[m]) /\ call[m] # "none" /\ answer[m] = Pending
    <3>1. /\ answer'[m] = status
          /\ overtaken'[m] = (request = "load" /\ "unload" \in Range(others))
      BY <1>1, <2>2 DEF Inv, TypeInv, request, others
    <3>2. request = call[m]
      BY <2>2 DEF Inv, Waits, request
    <3>3. status # Pending
      BY DEF Statuses, Pending
    <3>4. Waits(m)' /\ IsAnswered(m)'
      BY <1>5, <1>7, <3>1, <3>2, <3>3 DEF Waits, IsAnswered, Stays
    <3>5. Rests(m)'
      BY <1>7, <2>2 DEF Inv, Rests
    <3> QED  BY <2>1, <3>4, <3>5
  <2>3. CASE ~(i = Len(backlog[m]) /\ call[m] # "none" /\ answer[m] = Pending)
    <3>1. answer'[m] = answer[m] /\ overtaken'[m] = overtaken[m]
      BY <1>1, <2>3
    <3>2. Waits(m)'
      BY <1>3, <1>7, <2>3, <3>1 DEF Inv, Waits
    <3>3. ASSUME Stays(m) PROVE Stays(m)'
      BY <1>3, <1>4, <1>5, <1>7, <3>1, <3>3 DEF Stays, Ops
    <3> QED
      BY <1>7, <2>1, <3>1, <3>2, <3>3 DEF Inv, IsAnswered, Rests
  <2> QED  BY <2>1, <2>2, <2>3
<1> QED  BY <1>6, <1>8 DEF Inv

\* Every step keeps the invariant.
LEMMA NextInv == Inv /\ [Next]_vars => Inv'
<1> SUFFICES ASSUME Inv, [Next]_vars PROVE Inv'
  OBVIOUS
<1>1. CASE UNCHANGED vars
  BY <1>1 DEF vars, Inv, TypeInv, Waits, IsAnswered, Rests, Stays
<1>2. ASSUME NEW m \in Models, Send(m, "load") \/ Send(m, "unload")
      PROVE  Inv'
  BY <1>2, SendInv DEF Ops
<1>3. ASSUME NEW m \in Models, Answered(m) PROVE Inv'
  BY <1>3, AnsweredInv
<1>4. ASSUME NEW m \in Models, Disconnected(m) \/ TimesOut(m) PROVE Inv'
  BY <1>4, RaisedInv DEF Disconnected, TimesOut
<1>5. ASSUME NEW m \in Models, CarryOut(m) PROVE Inv'
  BY <1>5, CarryOutInv
<1> QED  BY <1>1, <1>2, <1>3, <1>4, <1>5 DEF Next

\* What the manager takes for loaded is loaded or being unloaded, whichever
\* calls timed out and whenever and in whatever order Triton gets to them
\* (triton_client.py, triton_grpc_client.py), as long as no load overtakes an
\* unload that was given up.
THEOREM BelievedLoaded == Spec => []BelievedIsLoaded
<1>1. Inv => BelievedIsLoaded
  BY DEF Inv, Rests, Stays, BelievedIsLoaded
<1> QED  BY InitInv, NextInv, <1>1, PTL DEF Spec

\* A call that waits has its request on the way, and it is the last one sent:
\* so the answer that comes is its own, whatever Triton carries out first.
THEOREM RequestOnItsWay == Spec => [](\A m \in Models : Waits(m))
<1>1. Inv => \A m \in Models : Waits(m)
  BY DEF Inv
<1> QED  BY InitInv, NextInv, <1>1, PTL DEF Spec

-----------------------------------------------------------------------------
(***************************************************************************)
(* Process.  The client is open from its creation to its closing, and      *)
(* whoever uses it runs only in between.                                   *)
(***************************************************************************)

\* Where lifespan is while a handler may run, while the loop may, and while the
\* client is there for them.
HandlersRun == {"serving", "stop_grpc"}
LoopRuns == {"grpc", "stop_loop"} \cup HandlersRun
ClientIsOpen == {"discovery", "loop", "close"} \cup LoopRuns

ProcInv ==
  /\ running # {} => lifespan \in HandlersRun
  /\ task \in {"idle", "calling"} =>
       \/ lifespan \in LoopRuns
       \/ lifespan = "failed" /\ client \in Protocols
  /\ lifespan \in ClientIsOpen => client \in Protocols

LEMMA ProcStep == ProcInv /\ [Proc!Next]_(Proc!vars) => ProcInv'
<1> SUFFICES ASSUME ProcInv, [Proc!Next]_(Proc!vars) PROVE ProcInv'
  OBVIOUS
<1> USE DEF ProcInv, ClientIsOpen, LoopRuns, HandlersRun
<1>1. CASE Proc!Start
  BY <1>1 DEF Proc!Start, Proc!LoadConfig, Proc!CreateComponents,
     Proc!Discover, Proc!StartLoop, Proc!StartGrpc, Proc!Advance,
     Proc!requests
<1>2. CASE Proc!StartFails
  BY <1>2, PeripheryAssumption
     DEF Proc!StartFails, Proc!FaultAssumption, Proc!Steps, Proc!requests
<1>3. CASE Proc!Shutdown
  BY <1>3 DEF Proc!Shutdown, Proc!BeginShutdown, Proc!CancelRpcs,
     Proc!GrpcStopped, Proc!GrpcDrained, Proc!StopLoop, Proc!CloseClient,
     Proc!Advance, Proc!requests
<1>4. CASE Proc!Signal
  BY <1>4 DEF Proc!Signal, Proc!requests
<1>5. ASSUME NEW r, Proc!Accept(r) PROVE ProcInv'
  BY <1>5 DEF Proc!Accept, Proc!Accepting
<1>6. ASSUME NEW r, Proc!Answer(r) PROVE ProcInv'
  BY <1>6 DEF Proc!Answer
<1>7. CASE lifespan # "failed" /\ (Proc!LoopCalls \/ Proc!LoopReturns)
  BY <1>7 DEF Proc!LoopCalls, Proc!LoopReturns, Proc!requests
<1>8. CASE Proc!Ended \/ UNCHANGED Proc!vars
  BY <1>8 DEF Proc!Ended, Proc!vars
<1> QED
  BY <1>1, <1>2, <1>3, <1>4, <1>5, <1>6, <1>7, <1>8 DEF Proc!Next

\* However the start fails and whoever is cut off in the shutdown, no handler
\* and no tick of the lifecycle loop finds the client closed or not there yet.
THEOREM ClientClosedLast == Proc!Spec => []ClientOutlivesUsers
<1>1. Proc!Init => ProcInv
  BY DEF Proc!Init, ProcInv, ClientIsOpen, LoopRuns, HandlersRun
<1>2. ProcInv => ClientOutlivesUsers
  BY DEF ProcInv, ClientIsOpen, LoopRuns, HandlersRun, ClientOutlivesUsers,
     Proc!ClientOutlivesUsers
<1> QED
  BY <1>1, <1>2, ProcStep, PTL DEF Proc!Spec

-----------------------------------------------------------------------------
(***************************************************************************)
(* Configuration.  After each variable a field has the layer that the file *)
(* and the variables looked at so far give it.                             *)
(***************************************************************************)

\* The variables that were looked at, and the layer each field then has.
LookedAt == DOMAIN Conf!EnvMap \ todo
LayerSoFar(f) ==
  IF \E v \in LookedAt : Conf!EnvMap[v] = f /\ Conf!Applies(v)
    THEN "env"
  ELSE IF f \in yaml.given THEN "yaml" ELSE "default"

ConfInv ==
  /\ DOMAIN config = Conf!Fields
  /\ todo \subseteq DOMAIN Conf!EnvMap
  /\ applying = "file" =>
       /\ todo = DOMAIN Conf!EnvMap
       /\ \A f \in Conf!Fields : config[f] = "default"
  /\ applying \in {"env", "loaded"} =>
       /\ yaml.nulls = {}
       /\ \A f \in Conf!Fields : config[f] = LayerSoFar(f)
       /\ \A v \in LookedAt : ~Conf!CastFails(v)
  /\ applying = "loaded" => todo = {}

LEMMA ConfStep == ConfInv /\ [Conf!Next]_(Conf!vars) => ConfInv'
<1> SUFFICES ASSUME ConfInv, [Conf!Next]_(Conf!vars) PROVE ConfInv'
  OBVIOUS
<1>0. ASSUME UNCHANGED <<yaml, env>>, NEW v
      PROVE  /\ Conf!Applies(v)' <=> Conf!Applies(v)
             /\ Conf!CastFails(v)' <=> Conf!CastFails(v)
  BY <1>0 DEF Conf!Applies, Conf!CastFails
<1>1. CASE Conf!ApplyYaml
  <2>1. LookedAt' = {}
    BY <1>1 DEF Conf!ApplyYaml, ConfInv, LookedAt
  <2> QED
    BY <1>1, <2>1 DEF Conf!ApplyYaml, Conf!Malformed, ConfInv, LayerSoFar
<1>2. CASE Conf!RejectYaml
  BY <1>2 DEF Conf!RejectYaml, ConfInv
<1>3. ASSUME NEW v \in todo, Conf!ApplyVariable(v) PROVE ConfInv'
  <2>1. /\ applying = "env" /\ applying' = "env"
        /\ UNCHANGED <<yaml, env>>
        /\ LookedAt' = LookedAt \cup {v}
        /\ ~Conf!CastFails(v)
    BY <1>3 DEF Conf!ApplyVariable, ConfInv, LookedAt
  <2>2. ASSUME NEW f \in Conf!Fields PROVE config'[f] = LayerSoFar(f)'
    <3>1. LayerSoFar(f)' =
            IF \E w \in LookedAt \cup {v} :
                 Conf!EnvMap[w] = f /\ Conf!Applies(w)
              THEN "env"
            ELSE IF f \in yaml.given THEN "yaml" ELSE "default"
      BY <1>0, <2>1 DEF LayerSoFar
    <3>2. config[f] = LayerSoFar(f)
      BY <2>1 DEF ConfInv
    <3>3. CASE Conf!Applies(v)
      BY <1>3, <3>1, <3>2, <3>3
         DEF Conf!ApplyVariable, Conf!EnvOver, ConfInv, LayerSoFar
    <3>4. CASE ~Conf!Applies(v)
      BY <1>3, <3>1, <3>2, <3>4
         DEF Conf!ApplyVariable, Conf!EnvOver, LayerSoFar
    <3> QED  BY <3>3, <3>4
  <2>3. DOMAIN config' = Conf!Fields
    BY <1>3 DEF Conf!ApplyVariable, Conf!EnvOver, ConfInv
  <2>4. \A w \in LookedAt' : ~Conf!CastFails(w)'
    BY <1>0, <2>1 DEF ConfInv
  <2> QED
    BY <1>3, <2>1, <2>2, <2>3, <2>4 DEF Conf!ApplyVariable, ConfInv
<1>4. ASSUME NEW v \in todo, Conf!RejectVariable(v) PROVE ConfInv'
  BY <1>4 DEF Conf!RejectVariable, ConfInv
<1>5. CASE Conf!Return
  BY <1>0, <1>5 DEF Conf!Return, ConfInv, LookedAt, LayerSoFar
<1>6. CASE Conf!Finished \/ UNCHANGED Conf!vars
  BY <1>0, <1>6 DEF Conf!Finished, Conf!vars, ConfInv, LookedAt, LayerSoFar
<1> QED
  BY <1>1, <1>2, <1>3, <1>4, <1>5, <1>6 DEF Conf!Next

\* Whatever the file and the environment, a configuration that is returned has
\* each field from the layer that counts most, and nothing in them is malformed.
THEOREM LayersInOrder == Conf!Spec => []Priority
<1>1. Conf!Init => ConfInv
  BY DEF Conf!Init, ConfInv
<1>2. ConfInv => Priority
  <2> SUFFICES ASSUME ConfInv, applying = "loaded" PROVE Conf!Priority
    BY DEF Priority, Conf!Priority
  <2>1. LookedAt = DOMAIN Conf!EnvMap
    BY DEF ConfInv, LookedAt
  <2>2. \A f \in Conf!Fields : config[f] = Conf!Layer(f)
    BY <2>1 DEF ConfInv, LayerSoFar, Conf!Layer, Conf!Applies
  <2>3. Conf!Cors \notin Conf!Numbers
    BY DEF Conf!Cors, Conf!Numbers, Conf!In
  <2>4. \A v \in DOMAIN env \cap DOMAIN Conf!EnvMap :
          Conf!EnvMap[v] \in Conf!Numbers => env[v] = "number"
    BY <2>1, <2>3 DEF ConfInv, Conf!CastFails, Conf!Applies
  <2> QED
    BY <2>2, <2>4 DEF ConfInv, Conf!Priority
<1> QED
  BY <1>1, <1>2, ConfStep, PTL DEF Conf!Spec

-----------------------------------------------------------------------------
(***************************************************************************)
(* Discovery.  After each file the statement holds of the files read.      *)
(***************************************************************************)

\* The files, and which of them are built-in.
FilesOK ==
  /\ Len(files) \in Nat
  /\ DOMAIN files = 1..Len(files)
  /\ \A i \in DOMAIN files :
       files[i].file.models \in Seq(Disc!Range(files[i].file.models))
  /\ \A i, j \in DOMAIN files :
       files[i].builtin /\ ~files[j].builtin => i < j
  /\ \A i \in DOMAIN files : files[i].builtin \in BOOLEAN

NameOf(i) == files[i].file.name
Parses(i) == files[i].file.parses

DiscInv ==
  /\ FilesOK
  /\ done \in 0..Len(files)
  \* An entry is the first file with its name.
  /\ \A n \in Disc!Names :
       /\ entries[n] \in 1..done
       /\ Parses(entries[n]) /\ NameOf(entries[n]) = n
       /\ \A j \in 1..entries[n] - 1 : Parses(j) => NameOf(j) # n
  /\ \A i \in 1..done : Parses(i) => NameOf(i) \in Disc!Names
  /\ \A i \in 1..done :
       \/ i \in reported
       \/ Parses(i) /\ entries[NameOf(i)] = i /\ Disc!ModelsFound(NameOf(i))

LEMMA MarkedIsSeq ==
  ASSUME NEW dir, dir \in Seq(Disc!Range(dir)), NEW builtin
  PROVE  /\ Disc!Marked(dir, builtin)
              \in Seq(Disc!Range(Disc!Marked(dir, builtin)))
         /\ Len(Disc!Marked(dir, builtin)) = Len(dir)
         /\ DOMAIN Disc!Marked(dir, builtin) = DOMAIN dir
         /\ DOMAIN dir = 1..Len(dir) /\ Len(dir) \in Nat
BY LenProperties, SeqDef DEF Disc!Marked, Disc!Range

LEMMA DiscStart == Disc!Init => DiscInv
<1> SUFFICES ASSUME Disc!Init PROVE DiscInv
  OBVIOUS
<1>1. PICK b \in Builtins, c \in Customs :
        files = Disc!Marked(b, TRUE) \o Disc!Marked(c, FALSE)
  BY DEF Disc!Init, Disc!Scanned
<1> DEFINE bs == Disc!Marked(b, TRUE)
           cs == Disc!Marked(c, FALSE)
           S == Disc!Range(bs) \cup Disc!Range(cs)
<1>2. /\ b \in Seq(Disc!Range(b)) /\ c \in Seq(Disc!Range(c))
      /\ \A i \in DOMAIN b : b[i].models \in Seq(Disc!Range(b[i].models))
      /\ \A i \in DOMAIN c : c[i].models \in Seq(Disc!Range(c[i].models))
  BY PeripheryAssumption DEF Disc!DirectoriesAssumption, Disc!Range
<1>3. /\ bs \in Seq(Disc!Range(bs)) /\ cs \in Seq(Disc!Range(cs))
      /\ DOMAIN b = 1..Len(bs) /\ Len(bs) \in Nat
      /\ DOMAIN c = 1..Len(cs) /\ Len(cs) \in Nat
  BY <1>2, MarkedIsSeq
<1>4. bs \in Seq(S) /\ cs \in Seq(S)
  BY <1>3, SeqMonotonic
<1>5. /\ files \in Seq(S)
      /\ Len(files) = Len(bs) + Len(cs)
      /\ \A i \in 1..Len(bs) + Len(cs) :
           files[i] = IF i <= Len(bs) THEN bs[i] ELSE cs[i - Len(bs)]
  <2> HIDE DEF bs, cs, S
  <2> QED BY <1>1, <1>4, ConcatProperties DEF bs, cs
<1>6. Len(files) \in Nat /\ DOMAIN files = 1..Len(files)
  BY <1>5, LenProperties
<1>7. ASSUME NEW i \in 1..Len(files)
      PROVE  \/ /\ i <= Len(bs) /\ i \in DOMAIN b
                /\ files[i] = [file |-> b[i], builtin |-> TRUE]
             \/ /\ i > Len(bs) /\ i - Len(bs) \in DOMAIN c
                /\ files[i] = [file |-> c[i - Len(bs)], builtin |-> FALSE]
  <2>1. \A k \in DOMAIN b : bs[k] = [file |-> b[k], builtin |-> TRUE]
    BY DEF Disc!Marked
  <2>2. \A k \in DOMAIN c : cs[k] = [file |-> c[k], builtin |-> FALSE]
    BY DEF Disc!Marked
  <2> HIDE DEF bs, cs, S
  <2>0. files[i] = IF i <= Len(bs) THEN bs[i] ELSE cs[i - Len(bs)]
    BY <1>5
  <2>3. CASE i <= Len(bs)
    <3>1. i \in DOMAIN b
      BY <1>3, <1>5, <2>3
    <3> QED  BY <2>0, <2>1, <2>3, <3>1
  <2>4. CASE i > Len(bs)
    <3>1. i - Len(bs) \in DOMAIN c
      BY <1>3, <1>5, <2>4
    <3>2. ~(i <= Len(bs))
      BY <1>3, <2>4
    <3> QED  BY <2>0, <2>2, <2>4, <3>1, <3>2
  <2> QED  BY <1>3, <2>3, <2>4
<1>9. FilesOK
  <2> HIDE DEF bs, cs, S
  <2>1. ASSUME NEW i \in DOMAIN files
        PROVE  /\ files[i].file.models \in Seq(Disc!Range(files[i].file.models))
               /\ files[i].builtin \in BOOLEAN
               /\ files[i].builtin <=> i <= Len(bs)
    <3>1. i \in 1..Len(files)
      BY <1>6
    <3>2. CASE /\ i <= Len(bs) /\ i \in DOMAIN b
               /\ files[i] = [file |-> b[i], builtin |-> TRUE]
      BY <1>2, <3>2
    <3>3. CASE /\ i > Len(bs) /\ i - Len(bs) \in DOMAIN c
               /\ files[i] = [file |-> c[i - Len(bs)], builtin |-> FALSE]
      <4>1. ~(i <= Len(bs))
        BY <1>3, <3>1, <3>3
      <4> QED  BY <1>2, <3>3, <4>1
    <3> QED  BY <1>7, <3>1, <3>2, <3>3
  <2> QED  BY <1>3, <1>6, <2>1 DEF FilesOK
<1>10. done = 0 /\ Disc!Names = {}
  BY DEF Disc!Init, Disc!Names
<1> HIDE DEF bs, cs, S
<1> QED  BY <1>6, <1>9, <1>10 DEF DiscInv

LEMMA DiscStep == DiscInv /\ [Disc!Next]_(Disc!vars) => DiscInv'
<1> SUFFICES ASSUME DiscInv, [Disc!Next]_(Disc!vars) PROVE DiscInv'
  OBVIOUS
<1>0. PICK now : now = done + 1
  OBVIOUS
<1>1. ASSUME Disc!More
      PROVE  /\ now \in 1..Len(files)
             /\ Disc!Current = files[now]
             /\ 1..now = 1..done \cup {now}
             /\ now \notin 1..done
  BY <1>0, <1>1 DEF Disc!More, Disc!Current, DiscInv, FilesOK
<1>2. CASE Disc!FileRejected \/ Disc!NameRejected
  <2>1. /\ UNCHANGED <<files, entries, registered>>
        /\ done' = now /\ reported' = reported \cup {now}
        /\ Parses(now) => NameOf(now) \in Disc!Names
        /\ Disc!More
    BY <1>0, <1>1, <1>2 DEF Disc!FileRejected, Disc!NameRejected, Disc!Report,
       Disc!Taken, Parses, NameOf
  <2>2. /\ FilesOK'
        /\ Disc!Names' = Disc!Names
        /\ \A i : Parses(i)' = Parses(i) /\ NameOf(i)' = NameOf(i)
        /\ \A n : Disc!ModelsFound(n)' = Disc!ModelsFound(n)
    BY <2>1 DEF DiscInv, FilesOK, Parses, NameOf, Disc!Names,
       Disc!ModelsFound, Disc!WentThrough, Disc!Range
  <2> QED  BY <1>1, <2>1, <2>2 DEF DiscInv
<1>3. CASE Disc!Register
  <2>a. PICK name : name = NameOf(now)
    OBVIOUS
  <2>b. PICK file_ : file_ = files[now].file
    OBVIOUS
  <2>1. /\ Disc!More /\ Parses(now) /\ name \notin Disc!Names
        /\ UNCHANGED files
        /\ done' = now
        /\ entries' = [n \in Disc!Names \cup {name} |->
                         IF n = name THEN now ELSE entries[n]]
        /\ registered' = registered \cup Disc!Reached(file_)
        /\ reported' = IF Disc!WentThrough(file_) THEN reported
                       ELSE reported \cup {now}
    BY <1>0, <1>1, <1>3, <2>a, <2>b DEF Disc!Register, Disc!Taken,
       Disc!RegisterModels, Disc!GoOn, Disc!Report, Parses, NameOf
  <2>2. /\ FilesOK'
        /\ \A i : Parses(i)' = Parses(i) /\ NameOf(i)' = NameOf(i)
        /\ Disc!Names' = Disc!Names \cup {name}
        /\ entries'[name] = now
        /\ \A n \in Disc!Names : entries'[n] = entries[n]
    BY <2>1 DEF DiscInv, FilesOK, Parses, NameOf, Disc!Names, Disc!Range
  <2>3. ASSUME NEW n \in Disc!Names, Disc!ModelsFound(n)
        PROVE  Disc!ModelsFound(n)'
    BY <2>1, <2>2, <2>3 DEF Disc!ModelsFound, Disc!WentThrough, Disc!Range
  <2>4. ASSUME Disc!WentThrough(file_) PROVE Disc!ModelsFound(name)'
    <3>1. file_.models \in Seq(Disc!Range(file_.models))
      BY <1>1, <2>1, <2>b DEF DiscInv, FilesOK
    <3>2. \A j \in DOMAIN file_.models : 1..j \subseteq DOMAIN file_.models
      BY <3>1, LenProperties
    <3>3. Disc!Reached(file_) = Disc!Range(file_.models)
      BY <2>4, <3>2 DEF Disc!Reached, Disc!WentThrough, Disc!Range
    <3> QED
      BY <2>1, <2>2, <2>4, <2>b, <3>3
         DEF Disc!ModelsFound, Disc!WentThrough, Disc!Range
  <2>5. \A n \in Disc!Names' :
          /\ entries'[n] \in 1..now
          /\ Parses(entries'[n]) /\ NameOf(entries'[n]) = n
          /\ \A j \in 1..entries'[n] - 1 : Parses(j) => NameOf(j) # n
    <3>1. ASSUME NEW n \in Disc!Names
          PROVE  /\ entries'[n] \in 1..now
                 /\ Parses(entries'[n]) /\ NameOf(entries'[n]) = n
                 /\ \A j \in 1..entries'[n] - 1 :
                      Parses(j) => NameOf(j) # n
      BY <1>1, <2>1, <2>2 DEF DiscInv
    <3>2. \A j \in 1..now - 1 : Parses(j) => NameOf(j) # name
      <4>1. now - 1 = done
        BY <1>0 DEF DiscInv, FilesOK
      <4> QED  BY <2>1, <4>1 DEF DiscInv
    <3> QED  BY <1>1, <2>1, <2>2, <2>a, <3>1, <3>2
  <2>6. \A i \in 1..now : Parses(i) => NameOf(i) \in Disc!Names'
    BY <1>1, <2>1, <2>2, <2>a DEF DiscInv
  <2>7. \A i \in 1..now :
          \/ i \in reported'
          \/ Parses(i) /\ entries'[NameOf(i)] = i
             /\ Disc!ModelsFound(NameOf(i))'
    <3>1. ASSUME NEW i \in 1..done, i \notin reported
          PROVE  Parses(i) /\ entries'[NameOf(i)] = i
                 /\ Disc!ModelsFound(NameOf(i))'
      BY <2>2, <2>3, <3>1 DEF DiscInv
    <3>2. \/ now \in reported'
          \/ Parses(now) /\ entries'[name] = now /\ Disc!ModelsFound(name)'
      BY <2>1, <2>2, <2>4, <2>a
    <3>3. \A i \in reported : i \in reported'
      BY <2>1
    <3> QED  BY <1>1, <2>1, <2>2, <2>a, <3>1, <3>2, <3>3
  <2>8. now \in 0..Len(files)
    BY <1>0, <1>1, <2>1
  <2> QED  BY <1>0, <2>1, <2>2, <2>5, <2>6, <2>7, <2>8 DEF DiscInv
<1>4. CASE Disc!Serving \/ UNCHANGED Disc!vars
  <2>1. UNCHANGED <<files, done, entries, registered, reported>>
    BY <1>4 DEF Disc!Serving, Disc!vars
  <2> QED  BY <2>1 DEF DiscInv, FilesOK, Parses, NameOf, Disc!Names,
           Disc!ModelsFound
<1> QED
  BY <1>2, <1>3, <1>4 DEF Disc!Next

\* Any number of files with any defects: a name stands for the first file that
\* bears it, and every file is reported, or registered with all of its models.
THEOREM FilesSpared == Disc!Spec => []OneFileSparesOthers
<1>1. DiscInv => OneFileSparesOthers
  <2> SUFFICES ASSUME DiscInv, ~Disc!More, NEW i \in 1..Len(files)
               PROVE  /\ /\ Parses(i)
                         /\ \A j \in 1..Len(files) :
                              Disc!Before(j, i) /\ Parses(j) =>
                                NameOf(j) # NameOf(i)
                         => NameOf(i) \in Disc!Names /\ entries[NameOf(i)] = i
                      /\ \/ i \in reported
                         \/ \E n \in Disc!Names :
                              entries[n] = i /\ Disc!ModelsFound(n)
    BY DEF OneFileSparesOthers, Disc!OneFileSparesOthers, Parses, NameOf
  <2>0. done \in 0..Len(files) /\ Len(files) \in Nat
    BY DEF DiscInv, FilesOK
  <2>1. done = Len(files)
    BY <2>0 DEF Disc!More
  <2>2. ASSUME Parses(i),
               \A j \in 1..Len(files) : Disc!Before(j, i) /\ Parses(j) =>
                 NameOf(j) # NameOf(i)
        PROVE  NameOf(i) \in Disc!Names /\ entries[NameOf(i)] = i
    <3> DEFINE e == entries[NameOf(i)]
    <3>1. NameOf(i) \in Disc!Names
      BY <2>1, <2>2 DEF DiscInv
    <3>2. /\ e \in 1..Len(files) /\ NameOf(e) = NameOf(i)
          /\ ~(i < e)
          /\ e \in DOMAIN files /\ i \in DOMAIN files
      BY <2>1, <2>2, <3>1 DEF DiscInv, FilesOK
    <3>3. ASSUME NEW j \in DOMAIN files, j < i PROVE Disc!Before(j, i)
      BY <3>3 DEF Disc!Before, DiscInv, FilesOK
    <3>4. Parses(e)
      BY <2>1, <3>1, <3>2 DEF DiscInv
    <3> QED  BY <2>2, <3>1, <3>2, <3>3, <3>4 DEF FilesOK
  <2>3. \/ i \in reported
        \/ \E n \in Disc!Names : entries[n] = i /\ Disc!ModelsFound(n)
    BY <2>1 DEF DiscInv
  <2> QED  BY <2>2, <2>3
<1> QED
  BY <1>1, DiscStart, DiscStep, PTL DEF Disc!Spec

-----------------------------------------------------------------------------
(***************************************************************************)
(* StageRegistry.  After each package the statement holds of the packages  *)
(* tried, and the built-in one is in the list, since Once keeps what comes *)
(* first.                                                                  *)
(***************************************************************************)

\* A type of the i-th package is not offered by one of those up to n after it.
LastOffer(i, t, n) ==
  \A j \in i + 1..n : Pack!Loads(packages[j]) =>
                        t \notin DOMAIN Pack!StagesOf(packages[j])

PackInv ==
  /\ Len(packages) \in Nat
  /\ tried \in 0..Len(packages)
  /\ \E i \in 1..Len(packages) : packages[i] = "face"
  /\ DOMAIN Pack!SharedStages \subseteq DOMAIN registry
  /\ \A i \in 1..tried :
       Pack!Loads(packages[i]) => \A t \in DOMAIN Pack!StagesOf(packages[i]) :
         /\ t \in DOMAIN registry
         /\ LastOffer(i, t, tried) =>
              registry[t] = Pack!StagesOf(packages[i])[t]

LEMMA PackCardinality == \A T : Pack!Cardinality(T) = Cardinality(T)
  BY DEF Pack!Cardinality, Cardinality

\* Once keeps the first of a list where it is.
LEMMA OnceKeepsFirst ==
  ASSUME NEW S, NEW list \in Seq(S), list # <<>>
  PROVE  /\ Len(Pack!Once(list)) \in Nat \ {0}
         /\ Pack!Once(list)[1] = list[1]
<1> DEFINE first == {i \in DOMAIN list : \A j \in 1..i - 1 : list[j] # list[i]}
           Place(i) == Pack!Cardinality({j \in first : j <= i})
           N == Pack!Cardinality(first)
           pick(n) == CHOOSE i \in first : Place(i) = n
           once == [n \in 1..N |-> list[pick(n)]]
<1>1. Len(list) \in Nat /\ DOMAIN list = 1..Len(list) /\ 1 \in DOMAIN list
  BY LenProperties, EmptySeq
<1>2. first \subseteq 1..Len(list) /\ 1 \in first
  BY <1>1
<1>3. IsFiniteSet(first)
  <2> HIDE DEF first
  <2>1. IsFiniteSet(1..Len(list))
    BY <1>1, FS_Interval
  <2> QED  BY <1>2, <2>1, FS_Subset
<1>4. N \in Nat \ {0}
  BY <1>2, <1>3, PackCardinality, FS_CardinalityType, FS_EmptySet
<1>5. Place(1) = 1
  <2>1. {j \in first : j <= 1} = {1}
    BY <1>1, <1>2
  <2> QED  BY <2>1, PackCardinality, FS_Singleton
<1>6. ASSUME NEW i \in first, Place(i) = 1 PROVE i = 1
  <2> DEFINE upto == {j \in first : j <= i}
  <2>1. IsFiniteSet(upto) /\ Cardinality(upto) = 1
    BY <1>3, <1>6, PackCardinality, FS_Subset
  <2>2. PICK x : upto = {x}
    BY <2>1, FS_Singleton
  <2>3. 1 \in upto /\ i \in upto
    BY <1>1, <1>2
  <2> QED  BY <2>2, <2>3
<1>7. pick(1) = 1
  <2> HIDE DEF first, Place
  <2> QED  BY <1>2, <1>5, <1>6
<1>8. once[1] = list[1]
  <2> HIDE DEF first, Place, N, pick
  <2> QED  BY <1>4, <1>7
<1>9. Len(once) = N
  <2> HIDE DEF first, Place, N, pick
  <2>1. once \in [1..N -> {once[n] : n \in 1..N}]
    BY <1>4
  <2>2. DOMAIN once = 1..N
    OBVIOUS
  <2> HIDE DEF once
  <2>3. once \in Seq({once[n] : n \in 1..N})
    BY <1>4, <2>1, SeqDef
  <2>4. DOMAIN once = 1..Len(once) /\ Len(once) \in Nat
    BY <2>3, LenProperties
  <2> QED  BY <1>4, <2>2, <2>4
<1>10. Pack!Once(list) = once
  BY DEF Pack!Once
<1> QED
  <2> HIDE DEF once, N
  <2> QED  BY <1>4, <1>8, <1>9, <1>10

LEMMA PackStart == Pack!Init => PackInv
<1> SUFFICES ASSUME Pack!Init PROVE PackInv
  OBVIOUS
<1>1. PICK env_ \in EnvLists, extra \in ExtraLists :
        packages = Pack!Once(<<"face">> \o (env_ \o extra))
  BY DEF Pack!Init, Pack!DomainPackages
<1> DEFINE S == {"face"} \cup Pack!Range(env_) \cup Pack!Range(extra)
           list == <<"face">> \o (env_ \o extra)
<1>2. env_ \in Seq(Pack!Range(env_)) /\ extra \in Seq(Pack!Range(extra))
  BY PeripheryAssumption DEF Pack!ListsAssumption
<1>3. env_ \in Seq(S) /\ extra \in Seq(S)
  BY <1>2, SeqMonotonic
<1>4. env_ \o extra \in Seq(S)
  <2> HIDE DEF S
  <2> QED  BY <1>3, ConcatProperties
<1>5. <<"face">> \in Seq(S) /\ Len(<<"face">>) = 1
  OBVIOUS
<1>6. list \in Seq(S) /\ list # <<>> /\ list[1] = "face"
  <2>1. "face" \in S
    OBVIOUS
  <2> HIDE DEF S
  <2>2. PICK tail \in Seq(S) : tail = env_ \o extra
    BY <1>4
  <2>3. /\ list \in Seq(S)
        /\ Len(list) = 1 + Len(tail)
        /\ \A i \in 1..1 + Len(tail) :
             list[i] = IF i <= 1 THEN <<"face">>[i] ELSE tail[i - 1]
    BY <1>5, <2>2, ConcatProperties
  <2>4. Len(tail) \in Nat
    BY <2>2, LenProperties
  <2>5. Len(list) # 0 /\ list[1] = "face"
    <3> HIDE DEF list
    <3> QED BY <2>3, <2>4
  <2> QED  BY <2>3, <2>5, EmptySeq
<1>7. Len(packages) \in Nat \ {0} /\ packages[1] = "face"
  <2> HIDE DEF S, list
  <2> QED  BY <1>1, <1>6, OnceKeepsFirst DEF list
<1>8. tried = 0 /\ registry = Pack!SharedStages
  BY DEF Pack!Init
<1> QED  BY <1>7, <1>8 DEF PackInv

LEMMA PackStep == PackInv /\ [Pack!Next]_(Pack!vars) => PackInv'
<1> SUFFICES ASSUME PackInv, [Pack!Next]_(Pack!vars) PROVE PackInv'
  OBVIOUS
<1> DEFINE Offer(i) == Pack!StagesOf(packages[i])
<1>1. CASE Pack!LoadPackage
  <2>1. PICK k : k = tried + 1
    OBVIOUS
  <2>2. /\ UNCHANGED <<failing, packages>>
        /\ tried' = k
        /\ Pack!Loads(packages[k])
        /\ k \in 1..Len(packages)
        /\ 1..k = 1..tried \cup {k}
        /\ DOMAIN registry' = DOMAIN registry \cup DOMAIN Offer(k)
        /\ \A t \in DOMAIN registry' :
             registry'[t] = IF t \in DOMAIN Offer(k) THEN Offer(k)[t]
                                                     ELSE registry[t]
    BY <1>1, <2>1 DEF Pack!LoadPackage, Pack!Updated, PackInv
  <2>3. \A p : Pack!Loads(p)' = Pack!Loads(p)
    BY <2>2 DEF Pack!Loads
  <2>4. ASSUME NEW i \in 1..tried, NEW t, LastOffer(i, t, k)
        PROVE  LastOffer(i, t, tried) /\ t \notin DOMAIN Offer(k)
    BY <2>1, <2>2, <2>4 DEF LastOffer, PackInv
  <2>5. ASSUME NEW i \in 1..k, Pack!Loads(packages[i]),
               NEW t \in DOMAIN Offer(i)
        PROVE  /\ t \in DOMAIN registry'
               /\ LastOffer(i, t, k) => registry'[t] = Offer(i)[t]
    <3>1. CASE i = k
      BY <2>2, <3>1
    <3>2. CASE i \in 1..tried
      <4>1. /\ t \in DOMAIN registry
            /\ LastOffer(i, t, tried) => registry[t] = Offer(i)[t]
        BY <2>5, <3>2 DEF PackInv
      <4> QED  BY <2>2, <2>4, <3>2, <4>1
    <3> QED  BY <2>2, <3>1, <3>2
  <2>6. \A i, t : LastOffer(i, t, k)' = LastOffer(i, t, k)
    BY <2>2, <2>3 DEF LastOffer
  <2> QED  BY <2>2, <2>3, <2>5, <2>6 DEF PackInv
<1>2. CASE Pack!SkipPackage
  <2>1. PICK k : k = tried + 1
    OBVIOUS
  <2>2. /\ UNCHANGED <<failing, packages, registry>>
        /\ tried' = k
        /\ ~Pack!Loads(packages[k])
        /\ k \in 1..Len(packages)
        /\ 1..k = 1..tried \cup {k}
    BY <1>2, <2>1 DEF Pack!SkipPackage, Pack!SkipOne, PackInv
  <2>3. \A p : Pack!Loads(p)' = Pack!Loads(p)
    BY <2>2 DEF Pack!Loads
  <2>4. ASSUME NEW i \in 1..tried, NEW t, LastOffer(i, t, k)'
        PROVE  LastOffer(i, t, tried)
    BY <2>1, <2>2, <2>3, <2>4 DEF LastOffer, PackInv
  <2>5. ASSUME NEW i \in 1..k, Pack!Loads(packages[i])
        PROVE  i \in 1..tried
    BY <2>2, <2>5
  <2>6. \A i \in 1..k : Pack!Loads(packages[i]) =>
          \A t \in DOMAIN Offer(i) :
            /\ t \in DOMAIN registry
            /\ LastOffer(i, t, k)' => registry[t] = Offer(i)[t]
    BY <2>4, <2>5 DEF PackInv
  <2> QED  BY <2>2, <2>3, <2>6 DEF PackInv
<1>3. CASE Pack!Built \/ UNCHANGED Pack!vars
  <2>1. UNCHANGED <<failing, packages, tried, registry>>
    BY <1>3 DEF Pack!Built, Pack!vars
  <2> QED  BY <2>1 DEF PackInv, LastOffer, Pack!Loads
<1> QED  BY <1>1, <1>2, <1>3 DEF Pack!Next

\* Any packages, in any order, any of them failing: the built-in types are
\* served, and a type belongs to the last package that loads and offers it.
THEOREM StageTypesServed == Pack!Spec => []BuiltinTypesServed
<1>1. PackInv => BuiltinTypesServed
  <2> SUFFICES ASSUME PackInv, tried = Len(packages)
               PROVE  Pack!BuiltinTypesServed
    BY DEF BuiltinTypesServed, Pack!BuiltinTypesServed, Pack!Complete
  <2>1. Pack!StagesOf("face") = Pack!FaceStages
    BY DEF Pack!StagesOf
  <2> QED  BY <2>1 DEF PackInv, LastOffer, Pack!BuiltinTypesServed
<1> QED  BY <1>1, PackStart, PackStep, PTL DEF Pack!Spec

-----------------------------------------------------------------------------
\* Periphery is each of its parts: one that rests stutters.
THEOREM PartsKept ==
  PeripherySpec =>
    Spec /\ Disc!Spec /\ Conf!Spec /\ Pack!Spec /\ Proc!Spec
<1>1. PeripheryInit => Init /\ Disc!Init /\ Conf!Init /\ Pack!Init /\ Proc!Init
  BY DEF PeripheryInit, Starts, ClientRests, DiscoveryRests, ConfigRests,
     PackagesRest
<1>2. [PeripheryNext]_allVars =>
        /\ [Next]_vars
        /\ [Disc!Next]_(Disc!vars)
        /\ [Conf!Next]_(Conf!vars)
        /\ [Pack!Next]_(Pack!vars)
        /\ [Proc!Next]_(Proc!vars)
  BY DEF PeripheryNext, allVars, vars, discoveryVars, configVars, packageVars,
     processVars, Disc!vars, Conf!vars, Pack!vars, Proc!vars, Proc!requests
<1> QED
  BY <1>1, <1>2, PTL DEF PeripherySpec, Spec, Disc!Spec, Conf!Spec, Pack!Spec,
     Proc!Spec
=============================================================================
