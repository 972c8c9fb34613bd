--------------------------- MODULE StageRegistry ---------------------------
(***************************************************************************)
(* build_stage_registry (stages/registry.py): which stage object answers   *)
(* to a stage type.  The shared stages come first, then those of each      *)
(* domain package: the built-in ones, the ones of INFERPACK_STAGE_PACKAGES *)
(* and the ones registered by the program, each package once.  A package   *)
(* that cannot be imported or whose get_stages raises is left out.         *)
(***************************************************************************)
EXTENDS Naturals, Sequences, FiniteSets, Functions, TLC

CONSTANTS
  Offers,      \* the stages get_stages of each other package returns
  EnvLists,    \* the lists the environment variable may hold
  ExtraLists   \* the packages the program may have registered

\* What the constants have to be.
ListsAssumption == \A l \in EnvLists \cup ExtraLists : l \in Seq(Range(l))

\* A stage object is its package and the class of its canonical name; aliases
\* are bound to the object that has the name when get_stages runs.
Stages(package, names, aliases) ==
  LET own == [n \in names |-> <<package, n>>] IN
  own @@ [a \in DOMAIN aliases |-> own[aliases[a]]]

SharedStages ==
  Stages("shared", {"image_preprocess", "region_crop",
                    "detection_postprocess", "feature_comparison"},
         "face_crop" :> "region_crop")
FaceStages ==
  Stages("face", {"scrfd_detection", "arcface_extraction"},
         "face_detection" :> "scrfd_detection"
         @@ "face_feature_extraction" :> "arcface_extraction")

StagesOf(package) == IF package = "face" THEN FaceStages ELSE Offers[package]

VARIABLES
  failing,   \* the packages that cannot be imported or do not return stages
  packages,  \* the domain packages in the order they are loaded
  loaded,    \* how many have been tried
  registry   \* the stage object of each type
vars == <<failing, packages, loaded, registry>>

\* A list without what it repeats: `if pkg not in packages'.
Once(list) ==
  LET first == {i \in DOMAIN list : \A j \in 1..i - 1 : list[j] # list[i]}
      Place(i) == Cardinality({j \in first : j <= i})
  IN  [n \in 1..Cardinality(first) |->
         list[CHOOSE i \in first : Place(i) = n]]

\* Mutant: the environment's packages replace the built-in one.
EnvInstead(env, extra) ==
  Once((IF env = <<>> THEN <<"face">> ELSE env) \o extra)

\* _get_domain_packages, register_stage_package.
DomainPackages(env, extra) == Once(<<"face">> \o (env \o extra))

Init ==
  /\ \E env \in EnvLists, extra \in ExtraLists :
       packages = DomainPackages(env, extra)
  /\ failing \in SUBSET ({"face"} \cup DOMAIN Offers)
  /\ loaded = 0
  /\ registry = SharedStages

Loads(package) == package \notin failing

\* dict.update.
Updated(old, new) ==
  [t \in DOMAIN old \cup DOMAIN new |->
     IF t \in DOMAIN new THEN new[t] ELSE old[t]]

SkipOne == loaded' = loaded + 1

LoadPackage ==
  /\ loaded < Len(packages)
  /\ Loads(packages[loaded + 1])
  /\ registry' = Updated(registry, StagesOf(packages[loaded + 1]))
  /\ loaded' = loaded + 1
  /\ UNCHANGED <<failing, packages>>

SkipPackage ==
  /\ loaded < Len(packages)
  /\ ~Loads(packages[loaded + 1])
  /\ SkipOne
  /\ UNCHANGED <<failing, packages, registry>>

Built == loaded = Len(packages) /\ UNCHANGED vars

Next == LoadPackage \/ SkipPackage \/ Built
Spec == Init /\ [][Next]_vars

-----------------------------------------------------------------------------
Complete == loaded = Len(packages)

\* `Both mechanisms append to the built-in list; they do not replace it': every
\* built-in stage type is served whatever the other packages offer or fail, and
\* any type belongs to the last package that loads and offers it, so that one
\* that fails takes nothing away from the others.
BuiltinTypesServed ==
  Complete =>
    /\ DOMAIN SharedStages
         \cup (IF Loads("face") THEN DOMAIN FaceStages ELSE {})
         \subseteq DOMAIN registry
    /\ \A i \in 1..Len(packages) :
         Loads(packages[i]) => \A t \in DOMAIN StagesOf(packages[i]) :
           (\A j \in i + 1..Len(packages) :
              Loads(packages[j]) => t \notin DOMAIN StagesOf(packages[j]))
           => registry[t] = StagesOf(packages[i])[t]
=============================================================================
