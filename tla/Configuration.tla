--------------------------- MODULE Configuration ---------------------------
(***************************************************************************)
(* load_config (config.py): built-in defaults, then the YAML file, then    *)
(* the environment, each written over what was there before.               *)
(*                                                                         *)
(* The value of a field is the layer it comes from.  A field is a section  *)
(* and a key ("" is the top level), an environment variable the words of   *)
(* its name: INFERPACK_SERVER_PORT is <<"server", "port">>.  Of the value  *)
(* of a variable only what the casts tell apart is kept.                   *)
(***************************************************************************)
EXTENDS TLC, FiniteSets

CONSTANTS
  Files,         \* the YAML files it may meet
  Environments   \* the environments: from variables to values

In(section, keys) == {<<section, key>> : key \in keys}

Fields ==
  In("server", {"host", "port", "grpc_port", "log_level", "cors_origins"})
  \cup In("triton", {"host", "http_port", "grpc_port", "metrics_port",
                     "model_repository", "protocol"})
  \cup In("model_lifecycle",
          {"idle_timeout_seconds", "warmup_requests",
           "lifecycle_check_interval_seconds", "max_concurrent_loads"})
  \cup In("execution",
          {"default_stage_timeout_seconds", "default_max_retries",
           "max_concurrent_executions"})
  \cup In("", {"builtin_pipelines_dir", "custom_pipelines_dir"})

Sections == {f[1] : f \in Fields} \ {""}
Cors == <<"server", "cors_origins">>

\* The variables _apply_env looks for, and the fields they set.
EnvMap ==
  [f \in {g \in Fields : g[1] \in {"server", "triton", ""}} |-> f]
  @@ <<"model", "idle_timeout">> :>
       <<"model_lifecycle", "idle_timeout_seconds">>
  @@ <<"model", "warmup_requests">> :>
       <<"model_lifecycle", "warmup_requests">>

\* The fields whose variables are cast to int or float.
Numbers ==
  In("server", {"port", "grpc_port"})
  \cup In("triton", {"http_port", "grpc_port", "metrics_port"})
  \cup In("model_lifecycle", {"idle_timeout_seconds", "warmup_requests"})

\* A file: the fields it gives a value, and what it names and leaves null of
\* the sections (<<s, "">>) and Cors.  A missing file gives nothing.
File(given, nulls) == [given |-> given, nulls |-> nulls]

VARIABLES
  file, env,  \* what load_config finds
  config,     \* the layer each field has its value from
  stage,      \* where load_config is
  todo        \* the variables _apply_env has still to look at
vars == <<file, env, config, stage, todo>>

Init ==
  /\ file \in Files
  /\ env \in Environments
  /\ config = [f \in Fields |-> "default"]
  /\ stage = "file"
  /\ todo = DOMAIN EnvMap

\* A section that is null has no .get, a list of origins that is null no
\* elements: load_config raises, and the process does not start.
Malformed == file.nulls # {}

ApplyYaml ==
  /\ stage = "file"
  /\ ~Malformed
  /\ config' = [f \in Fields |->
                  IF f \in file.given THEN "yaml" ELSE config[f]]
  /\ stage' = "env"
  /\ UNCHANGED <<file, env, todo>>

RejectYaml ==
  /\ stage = "file"
  /\ Malformed
  /\ stage' = "failed"
  /\ UNCHANGED <<file, env, config, todo>>

\* A variable that is set is applied, an empty one too, except that empty
\* CORS origins are as good as none.
Applies(v) ==
  /\ v \in DOMAIN env
  /\ ~(EnvMap[v] = Cors /\ env[v] = "empty")

CastFails(v) == Applies(v) /\ EnvMap[v] \in Numbers /\ env[v] # "number"

\* Mutant: the environment only fills what the file leaves open.
EnvBehindYaml(v) ==
  IF Applies(v) /\ config[EnvMap[v]] = "default"
    THEN [config EXCEPT ![EnvMap[v]] = "env"] ELSE config

EnvOver(v) ==
  IF Applies(v) THEN [config EXCEPT ![EnvMap[v]] = "env"] ELSE config

ApplyVariable(v) ==
  /\ stage = "env"
  /\ ~CastFails(v)
  /\ config' = EnvOver(v)
  /\ todo' = todo \ {v}
  /\ UNCHANGED <<file, env, stage>>

RejectVariable(v) ==
  /\ stage = "env"
  /\ CastFails(v)
  /\ stage' = "failed"
  /\ UNCHANGED <<file, env, config, todo>>

Return ==
  /\ stage = "env"
  /\ todo = {}
  /\ stage' = "loaded"
  /\ UNCHANGED <<file, env, config, todo>>

Finished == stage \in {"loaded", "failed"} /\ UNCHANGED vars

\* The variables are looked at one after the other; which comes first shows
\* in nothing but the error of several.
Next ==
  \/ ApplyYaml \/ RejectYaml \/ Return \/ Finished
  \/ /\ todo # {}
     /\ LET v == CHOOSE w \in todo : TRUE
        IN  ApplyVariable(v) \/ RejectVariable(v)

Spec == Init /\ [][Next]_vars

-----------------------------------------------------------------------------
\* The layer a field should have its value from: the environment if it has a
\* variable there, empty origins not counting.
Layer(f) ==
  IF \E v \in DOMAIN EnvMap : EnvMap[v] = f /\ v \in DOMAIN env
                              /\ (f = Cors => env[v] # "empty")
    THEN "env"
  ELSE IF f \in file.given THEN "yaml" ELSE "default"

\* `Config priority: env vars > YAML > defaults' (README.md): a process runs
\* with that for every field or not at all.  Nothing of a file or an
\* environment that cannot be read gets into it.
Priority ==
  stage = "loaded" =>
    /\ \A f \in Fields : config[f] = Layer(f)
    /\ file.nulls = {}
    /\ \A v \in DOMAIN env \cap DOMAIN EnvMap :
         EnvMap[v] \in Numbers => env[v] = "number"
=============================================================================
