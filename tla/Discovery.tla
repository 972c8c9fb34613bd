----------------------------- MODULE Discovery -----------------------------
(***************************************************************************)
(* What the process knows after its start: PipelineRegistry.discover reads *)
(* the YAML files of the built-in directory, then those of the custom one, *)
(* each directory in the order of the file names, and registers what they  *)
(* define; ModelRegistry.register follows for the models of a definition.  *)
(* No step of it awaits: one action is one file.                           *)
(*                                                                         *)
(* A file is abstracted to what the code can stumble over.  A YAML value   *)
(* has whatever type its author gave it: `models' may be null, and an      *)
(* element of it may be a mapping, which no dict accepts as a key.  A      *)
(* directory that is missing has no files.                                 *)
(***************************************************************************)
EXTENDS Naturals, Sequences, FiniteSets, Functions

CONSTANTS
  Builtins,   \* the directories (sequences of files) builtin_dir may be
  Customs,    \* and custom_dir
  Unhashable  \* an element of `models' that cannot be a key

\* What the constants have to be: a directory is a list of files, and the models
\* of a file are a list.
DirectoriesAssumption ==
  \A dir \in Builtins \cup Customs :
    /\ dir \in Seq(Range(dir))
    /\ \A file \in Range(dir) : file.models \in Seq(Range(file.models))

\* A file: does it parse to a mapping with a name and well-formed stages; the
\* name; is `models' a list, and of what.
File(parses, name, isList, models) ==
  [parses |-> parses, name |-> name, isList |-> isList, models |-> models]

VARIABLES
  files,       \* the files, in the order in which discover reads them
  done,        \* how many it has read
  entries,     \* _entries: by name, the file whose definition is stored
  registered,  \* the models of the model registry
  reported     \* the files logged as `Failed to load pipeline from'
vars == <<files, done, entries, registered, reported>>

\* The order of discover's loops.
Scanned(builtin, custom) == builtin \o custom

Marked(dir, builtin) ==
  [i \in DOMAIN dir |-> [file |-> dir[i], builtin |-> builtin]]

Init ==
  /\ \E b \in Builtins, c \in Customs :
       files = Scanned(Marked(b, TRUE), Marked(c, FALSE))
  /\ done = 0
  /\ entries = <<>>
  /\ registered = {}
  /\ reported = {}

Names == DOMAIN entries
Current == files[done + 1]
More == done < Len(files)

Report == reported' = reported \cup {done + 1}

-----------------------------------------------------------------------------
\* _load_yaml raises.
FileRejected ==
  /\ More
  /\ ~Current.file.parses
  /\ Report
  /\ done' = done + 1
  /\ UNCHANGED <<files, entries, registered>>

Taken(name) == name \in Names

\* PipelineAlreadyExistsError.
NameRejected ==
  /\ More
  /\ Current.file.parses
  /\ Taken(Current.file.name)
  /\ Report
  /\ done' = done + 1
  /\ UNCHANGED <<files, entries, registered>>

\* The models register gets to: all of them, or those before the first one
\* that cannot be a key; none when there is no list to iterate.
Reached(file) ==
  {file.models[i] : i \in {j \in DOMAIN file.models :
     \A k \in 1..j : file.models[k] # Unhashable}}
WentThrough(file) == file.isList /\ Unhashable \notin Range(file.models)

\* Mutant: a failing file ends the discovery.
StopOrGoOn ==
  done' = IF WentThrough(Current.file) THEN done + 1 ELSE Len(files)

\* The `except' of the loop body is inside the loop.
GoOn == done' = done + 1

RegisterModels == registered' = registered \cup Reached(Current.file)

\* The entry is stored, then its models are registered; an error among them
\* is reported, and the entry stays.
Register ==
  /\ More
  /\ Current.file.parses
  /\ ~Taken(Current.file.name)
  /\ entries' = [n \in Names \cup {Current.file.name} |->
                   IF n = Current.file.name THEN done + 1 ELSE entries[n]]
  /\ RegisterModels
  /\ IF WentThrough(Current.file) THEN UNCHANGED reported ELSE Report
  /\ GoOn
  /\ UNCHANGED files

\* Discovery is over: the process goes on to serve.
Serving == ~More /\ UNCHANGED vars

Next == FileRejected \/ NameRejected \/ Register \/ Serving

Spec == Init /\ [][Next]_vars

-----------------------------------------------------------------------------
\* The loop of activate finds each model of the definition in the registry.
ModelsFound(n) ==
  LET file == files[entries[n]].file IN
  WentThrough(file) /\ Range(file.models) \subseteq registered

-----------------------------------------------------------------------------
(* Properties.                                                             *)

\* Does file j come before file i: built-in files before custom ones, and those
\* of one directory in their order.
Before(j, i) ==
  \/ files[j].builtin /\ ~files[i].builtin
  \/ files[j].builtin = files[i].builtin /\ j < i

\* One bad file spares the others, and one that comes late replaces nothing: in
\* the end a name stands for the first file in order that bears it, a built-in
\* one if there is any, and every file was reported, or it is registered and
\* can be activated, all of its models being known.
OneFileSparesOthers ==
  ~More => \A i \in 1..Len(files) :
    /\ /\ files[i].file.parses
       /\ \A j \in 1..Len(files) : Before(j, i) /\ files[j].file.parses =>
            files[j].file.name # files[i].file.name
       => files[i].file.name \in Names /\ entries[files[i].file.name] = i
    /\ \/ i \in reported
       \/ \E n \in Names : entries[n] = i /\ ModelsFound(n)
=============================================================================
