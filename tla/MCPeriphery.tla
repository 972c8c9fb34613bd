---------------------------- MODULE MCPeriphery ----------------------------
(***************************************************************************)
(* The values Periphery_parts.cfg gives the constants of Periphery.        *)
(***************************************************************************)
EXTENDS Periphery, FiniteSetsExt, TLC

UpTo(n, S) == UNION {[1..k -> S] : k \in 0..n}

(* Discovery: up to two built-in files, in order or not, and up to three   *)
(* custom ones with every defect the loader meets.                         *)

Yaml(parses, name, isList, models) ==
  [parses |-> parses, name |-> name, isList |-> isList, models |-> models]
Fine(name, models) == Yaml(TRUE, name, TRUE, models)
Broken             == Yaml(FALSE, "none", TRUE, <<>>)
NullModels(name)   == Yaml(TRUE, name, FALSE, <<>>)
OddModel(name)     == Yaml(TRUE, name, TRUE, <<"landmarks", Unhashable>>)

Detection  == Fine("face_detection", <<"scrfd">>)
Comparison == Fine("face_comparison", <<"scrfd", "arcface">>)

SomeBuiltins ==
  {<<>>, <<Comparison, Detection>>, <<Broken, Detection>>,
   <<NullModels("face_comparison"), Detection>>}

CustomFiles ==
  {Broken, NullModels("custom"), OddModel("custom"), Fine("custom", <<"ocr">>),
   Fine("face_detection", <<"ocr">>), NullModels("face_detection")}

UpToThree == UpTo(3, CustomFiles)

-----------------------------------------------------------------------------
(* Configuration.  The layers of a field do not depend on another field,   *)
(* so files and environments with up to two entries say it all.            *)

UpToTwo(S) == {{}} \cup kSubset(1, S) \cup kSubset(2, S)

Origins == <<"server", "cors_origins">>

\* A field of each kind: number, string, origins, no variable, top level.
SomeFields ==
  {<<"server", "port">>, <<"triton", "protocol">>, Origins,
   <<"", "custom_pipelines_dir">>,
   <<"model_lifecycle", "idle_timeout_seconds">>,
   <<"execution", "default_max_retries">>}
SomeVariables ==
  {<<"server", "port">>, <<"triton", "protocol">>, Origins,
   <<"", "custom_pipelines_dir">>, <<"model", "idle_timeout">>}
Nullable ==
  {<<"server", "">>, <<"triton", "">>, <<"model_lifecycle", "">>,
   <<"execution", "">>, Origins}

SomeFiles ==
  {[given |-> given, nulls |-> {}] : given \in UpToTwo(SomeFields)}
  \cup {[given |-> {}, nulls |-> {n}] : n \in Nullable}
SomeEnvironments ==
  UNION {[vs -> {"number", "text", "empty"}] : vs \in UpToTwo(SomeVariables)}

-----------------------------------------------------------------------------
(* StageRegistry: a package with a stage type of its own, and one that     *)
(* brings its own scrfd_detection, named in every order, twice, and        *)
(* together with the built-in package, any of them failing.                *)

Offered(package, types) == [t \in types |-> <<package, t>>]
OtherStages ==
     "ocr" :> Offered("ocr", {"ocr_read", "region_crop"})
  @@ "fast_face" :> Offered("fast_face", {"scrfd_detection"})
Lists == UpTo(2, {"ocr", "fast_face", "face"})
=============================================================================
