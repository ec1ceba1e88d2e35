------------------------------ MODULE Settings ------------------------------
(***************************************************************************)
(* The two config.toml files, global and project, and the commands that    *)
(* write them (commands/config.rs).  Every command is a process of its     *)
(* own: nothing locks the files, and fs::write truncates a file before it  *)
(* fills it.  `coregraph index' and every daemon start create the          *)
(* project's file when it is missing and migrate .coregraph/ignore into    *)
(* it; `config recommend --write' merges into it; `config KEY VALUE' and   *)
(* `config unset' rewrite the global one.                                  *)
(*                                                                         *)
(* A file holds one integer key of [server], limits.min_confidence and     *)
(* [index].exclude.  A value carries its TOML type, which decides who      *)
(* reads it.  toml, toml_edit and std::fs are libraries.                   *)
(***************************************************************************)
EXTENDS Integers, Sequences, SequencesExt

CONSTANTS Procs, Commands, MaxCommands, MaxMishaps,
          Legacies,    \* the contents .coregraph/ignore may have at first
          Suggestions, \* the patterns `config recommend' may suggest
          UserPattern, \* a pattern the user writes into the file by hand
          Word,        \* the modulus of u64
          Absent, Unset,
          NotArray     \* an exclude of another TOML type

VARIABLES
  file,    \* [global, project]: Absent or a table
  ignore,  \* .coregraph/ignore: Absent or its patterns
  bak,     \* .coregraph/ignore.bak
  task,    \* of each process: its step, command, text to write and patterns
  runs,    \* commands started by each process
  mishaps, \* crashes and failed writes
  intact,  \* the project's file was never cut short, forced, or two commands' at once
  orderly, \* `config init' never made it, and no first start was cut short as it did
  kept     \* the patterns the user counts on

disk == <<file, ignore, bak>>
ghosts == <<mishaps, intact, orderly, kept>>
vars == <<disk, task, runs, ghosts>>

Typed(type, n) == [type |-> type, n |-> n]

\* Confidences are in hundredths.
IntVals == {Typed("int", 5), Typed("int", -1)}
FloatVals == {Typed("float", 70), Typed("float", 90), Typed("float", 170)}

Patterns == Suggestions \cup {UserPattern}

Table == [server : IntVals \cup FloatVals \cup {Unset},
          conf : IntVals \cup FloatVals \cup {Unset},
          exclude : Seq(Patterns) \cup {Unset, NotArray}]

AnyCommand ==
  {<<"ensure">>} \cup ({"init_global", "init_local"} \X BOOLEAN)
  \cup ({"set"} \X {"server", "conf"} \X (IntVals \cup FloatVals))
  \cup ({"unset"} \X {"server", "conf"}) \cup ({"recommend"} \X Patterns)

ASSUME SettingsAssumption ==
  /\ Legacies \subseteq Seq(Patterns)
  /\ Commands \subseteq AnyCommand
  /\ MaxCommands \in Nat /\ MaxMishaps \in Nat /\ Word \in Nat \ {0}
  /\ Absent \notin Table \cup Legacies
  /\ Unset # NotArray /\ {Unset, NotArray} \cap Seq(Patterns) = {}
  /\ Unset \notin IntVals \cup FloatVals

Empty == [server |-> Unset, conf |-> Unset, exclude |-> Unset]

(* write_default_config writes every known key out.                        *)
Default == [server |-> Typed("int", 5), conf |-> Typed("float", 70), exclude |-> <<>>]

Idle == [step |-> "idle", cmd |-> <<"none">>, text |-> Absent, pats |-> <<>>]

Target(c) == IF c[1] \in {"set", "unset", "init_global"} THEN "global" ELSE "project"

Init ==
  /\ file \in [global : {Absent, Empty},
               project : {Absent, [Default EXCEPT !.exclude = NotArray]}]
  /\ ignore \in Legacies \cup {Absent}
  /\ bak = Absent
  /\ task = [p \in Procs |-> Idle]
  /\ runs = [p \in Procs |-> 0]
  /\ mishaps = 0 /\ intact = TRUE /\ orderly = TRUE
  /\ kept = IF file.project = Absent /\ ignore # Absent THEN ToSet(ignore) ELSE {}

AtRest == \A p \in Procs : task[p] = Idle

At(p, step) == task[p].step = step

\* The process is about a command of the project's file.
OnProject(p) == task[p] # Idle /\ Target(task[p].cmd) = "project"

Is(p, name) == At(p, "begun") /\ task[p].cmd[1] = name

Arg(p, i) == task[p].cmd[i]

Go(p, to) == task' = [task EXCEPT ![p].step = to]

End(p) == task' = [task EXCEPT ![p] = Idle]

(* A command that is to rewrite its file with t, then mind its patterns.   *)
WritesThen(p, t, patterns) ==
  task' = [task EXCEPT ![p] = [@ EXCEPT !.step = "truncate", !.text = t, !.pats = patterns]]

Writes(p, t) == WritesThen(p, t, <<>>)

(***************************************************************************)
(* Commands.                                                               *)
(***************************************************************************)
Begin(p) ==
  /\ task[p] = Idle /\ runs[p] < MaxCommands
  /\ runs' = [runs EXCEPT ![p] = @ + 1]
  /\ \E c \in Commands :
       /\ task' = [task EXCEPT ![p] = [Idle EXCEPT !.step = "begun", !.cmd = c]]
       /\ intact' = (intact /\ c # <<"init_local", TRUE>>
                            /\ (Target(c) = "project" => \A q \in Procs : ~OnProject(q)))
       /\ orderly' = (orderly /\ c[1] # "init_local")
  /\ UNCHANGED <<disk, mishaps, kept>>

(* ensure_local_default: nothing to do when the file is there.             *)
Ensure(p) ==
  /\ Is(p, "ensure")
  /\ IF file.project = Absent THEN Go(p, "legacy") ELSE End(p)
  /\ UNCHANGED <<disk, runs, ghosts>>

(* read_and_retire_legacy_ignore: the patterns first, then the rename.     *)
ReadLegacy(p) ==
  /\ At(p, "legacy")
  /\ IF ignore = Absent THEN Writes(p, Default)
     ELSE task' = [task EXCEPT ![p] = [@ EXCEPT !.step = "retire", !.pats = ignore]]
  /\ UNCHANGED <<disk, runs, ghosts>>

(* A rename that fails leaves the file; the patterns are migrated anyway.  *)
Retire(p) ==
  /\ At(p, "retire")
  /\ \/ ignore # Absent /\ bak' = ignore /\ ignore' = Absent
     \/ UNCHANGED <<ignore, bak>>
  /\ WritesThen(p, Default, task[p].pats)
  /\ UNCHANGED <<file, runs, ghosts>>

(* A variant: the array is looked for where there is none.                 *)
WithExcludesMissing(t, patterns) ==
  IF t.exclude = Unset THEN [t EXCEPT !.exclude = patterns] ELSE t

(* write_default_config_with_excludes: the empty array is replaced.        *)
WithExcludes(t, patterns) == IF t.exclude = <<>> THEN [t EXCEPT !.exclude = patterns] ELSE t

Reread(p) ==
  /\ At(p, "reread")
  /\ Writes(p, WithExcludes(file.project, task[p].pats))
  /\ UNCHANGED <<disk, runs, ghosts>>

(* `config init': an existing file is kept unless forced.                  *)
InitConfig(p) ==
  /\ Is(p, "init_global") \/ Is(p, "init_local")
  /\ IF file[Target(task[p].cmd)] # Absent /\ ~Arg(p, 2) THEN End(p) ELSE Writes(p, Default)
  /\ UNCHANGED <<disk, runs, ghosts>>

(* A missing file reads as an empty one.                                   *)
Layer(f) == IF file[f] = Absent THEN Empty ELSE file[f]

(* `config KEY VALUE'; parse_value gives the value its type.               *)
SetKey(p) ==
  /\ Is(p, "set")
  /\ Writes(p, [Layer("global") EXCEPT ![Arg(p, 2)] = Arg(p, 3)])
  /\ UNCHANGED <<disk, runs, ghosts>>

UnsetKey(p) ==
  /\ Is(p, "unset")
  /\ IF Layer("global")[Arg(p, 2)] = Unset THEN End(p)
     ELSE Writes(p, [Layer("global") EXCEPT ![Arg(p, 2)] = Unset])
  /\ UNCHANGED <<disk, runs, ghosts>>

Merged(arr, x) ==
  LET old == IF arr = Unset THEN <<>> ELSE arr
  IN  IF x \in ToSet(old) THEN old ELSE Append(old, x)

(* apply_recommendations: no file, or an exclude that is no array, is an   *)
(* error; nothing new to add writes nothing.                               *)
Recommend(p) ==
  /\ Is(p, "recommend")
  /\ LET old == Layer("project").exclude IN
     IF file.project = Absent \/ old = NotArray THEN End(p)
     ELSE IF Merged(old, Arg(p, 2)) = old THEN End(p)
     ELSE Writes(p, [file.project EXCEPT !.exclude = Merged(old, Arg(p, 2))])
  /\ UNCHANGED <<disk, runs, ghosts>>

(***************************************************************************)
(* fs::write: open with O_TRUNC, then write.                               *)
(***************************************************************************)
Truncate(p) ==
  /\ At(p, "truncate")
  /\ file' = [file EXCEPT ![Target(task[p].cmd)] = Empty]
  /\ Go(p, "fill")
  /\ UNCHANGED <<ignore, bak, runs, ghosts>>

Fill(p) ==
  /\ At(p, "fill")
  /\ file' = [file EXCEPT ![Target(task[p].cmd)] = task[p].text]
  /\ IF task[p].pats # <<>> THEN Go(p, "reread") ELSE End(p)
  /\ kept' = IF task[p].cmd[1] = "recommend" THEN kept \cup {Arg(p, 2)} ELSE kept
  /\ UNCHANGED <<ignore, bak, runs, mishaps, intact, orderly>>

(* The process is killed, or the disk refuses a write.                     *)
Mishap(p) ==
  /\ task[p] # Idle /\ mishaps < MaxMishaps
  /\ mishaps' = mishaps + 1
  /\ intact' = (intact /\ ~(At(p, "fill") /\ OnProject(p)))
  /\ orderly' = (orderly /\ ~(task[p].cmd[1] = "ensure" /\ task[p].step \in {"truncate", "fill", "reread"}))
  /\ End(p)
  /\ UNCHANGED <<disk, runs, kept>>

(* The user adds a pattern to the project's file, or repairs it.           *)
UserEdits ==
  /\ AtRest /\ UserPattern \notin kept
  /\ file.project # Absent
  /\ file' = [file EXCEPT !.project.exclude = Merged(IF @ = NotArray THEN Unset ELSE @, UserPattern)]
  /\ kept' = kept \cup {UserPattern}
  /\ UNCHANGED <<ignore, bak, task, runs, mishaps, intact, orderly>>

Command(p) ==
  \/ Ensure(p) \/ ReadLegacy(p) \/ Retire(p) \/ Reread(p)
  \/ InitConfig(p) \/ SetKey(p) \/ UnsetKey(p) \/ Recommend(p)
  \/ Truncate(p) \/ Fill(p)

Next == UserEdits \/ \E p \in Procs : Begin(p) \/ Command(p) \/ Mishap(p)

Spec == Init /\ [][Next]_vars
-----------------------------------------------------------------------------
(* The readers.                                                            *)
DefaultOf(key) == Default[key]

(* `config show': the project's value, else the global one, else default.  *)
Shown(key) ==
  CASE Layer("project")[key] # Unset -> Layer("project")[key]
    [] Layer("project")[key] = Unset /\ Layer("global")[key] # Unset -> Layer("global")[key]
    [] OTHER -> DefaultOf(key)

(* server_overrides: a value of another type hides the layer below it, and *)
(* leaves the compiled default; an integer is cast to u64.                 *)
ServerOverride ==
  LET v == IF Layer("project").server # Unset THEN Layer("project").server ELSE Layer("global").server
  IN  IF v # Unset /\ v.type = "int" THEN v.n % Word ELSE DefaultOf("server").n

(* resolve_preset: a flag that still has its default takes the preset's.   *)
Preset(flag, preset) ==
  CASE flag = DefaultOf("conf").n /\ preset = "fast" -> 90
    [] flag = DefaultOf("conf").n /\ preset = "full" -> 0
    [] OTHER -> flag

(* apply_config_file: the one file `--config' names, by default the global *)
(* one, fills in what is at its default.                                   *)
Filled(flag, preset, config) ==
  LET f == Preset(flag, preset)
      v == Layer(config).conf
  IN  IF f = DefaultOf("conf").n /\ v # Unset /\ v.type = "float" THEN v.n ELSE f

(* validate_globals ends a command whose confidence is out of range.       *)
Refused == -1
Confidence(flag, preset, config) ==
  LET n == Filled(flag, preset, config) IN IF n \in 0..100 THEN n ELSE Refused

-----------------------------------------------------------------------------
(* Every variable has its type.                                            *)
TypeOK ==
  /\ \A f \in DOMAIN file : \/ file[f] = Absent
                            \/ DOMAIN file[f] = {"server", "conf", "exclude"}
  /\ ignore \in Legacies \cup {Absent} /\ bak \in Legacies \cup {Absent}
  /\ ignore # Absent => bak = Absent
  /\ \A p \in Procs :
       /\ task[p].step \in {"idle", "begun", "legacy", "retire", "reread", "truncate", "fill"}
       /\ task[p].step \in {"truncate", "fill"} => task[p].text # Absent
       /\ At(p, "reread") => task[p].pats # <<>>
  /\ mishaps \in 0..MaxMishaps

Once(x, patterns) == \A i, j \in DOMAIN patterns : patterns[i] = x /\ patterns[j] = x => i = j

(* The patterns that `.coregraph/ignore' had, retired or not.              *)
LegacyPatterns == IF ignore # Absent THEN ignore ELSE IF bak # Absent THEN bak ELSE <<>>

InEffect ==
  IF file.project = Absent \/ Layer("project").exclude \in {Unset, NotArray} THEN {}
  ELSE ToSet(file.project.exclude)

(***************************************************************************)
(* Whenever no command runs, every pattern the user counts on (of          *)
(* .coregraph/ignore, added by hand or by `recommend --write') is in       *)
(* effect or still in the legacy file or its .bak, and the project's file  *)
(* is whole and repeats no pattern that .coregraph/ignore did not repeat:  *)
(* whatever command was killed or failed to write wherever it was, and     *)
(* whatever writes the global file meanwhile; unless a write of the        *)
(* project's file was cut off between its truncation and its filling, two  *)
(* commands were on that file at once, or `config init --force' replaced   *)
(* it.  If moreover no first start was cut short after it had retired the  *)
(* legacy file, and `config init' did not come before it, every such       *)
(* pattern is in effect once there is a file (config.rs                    *)
(* ensure_local_default, apply_recommendations).                           *)
(***************************************************************************)
SettingsKept ==
  intact /\ AtRest =>
    /\ kept \subseteq InEffect \cup ToSet(LegacyPatterns)
    /\ file.project # Absent =>
         /\ file.project.server # Unset
         /\ file.project.exclude # NotArray =>
              \A x \in Patterns : Once(x, file.project.exclude) \/ ~Once(x, LegacyPatterns)
         /\ orderly => kept \subseteq InEffect

(***************************************************************************)
(* "so the displayed "current" value reflects the merged view the runtime  *)
(* sees" (config.rs show), of [limits]: the confidence `config show'       *)
(* prints is the one a command without flags runs with.  The project's     *)
(* [limits] are shown and never applied (main.rs apply_config_file).       *)
(***************************************************************************)
LimitShownIsRun ==
  Shown("conf").type = "float" /\ Shown("conf").n \in 0..100
    => Confidence(70, "none", "global") = Shown("conf").n

(***************************************************************************)
(* The same of [server]: a negative integer is shown as it is and runs as  *)
(* a huge one (config.rs server_overrides).                                *)
(***************************************************************************)
ServerShownIsRun == Shown("server").type = "int" => ServerOverride = Shown("server").n

(***************************************************************************)
(* "Explicit CLI values always win" (main.rs apply_config_file): not one   *)
(* that equals the default.                                                *)
(***************************************************************************)
FlagWins ==
  \A preset \in {"none", "fast", "full"}, flag \in {0, 50, 70, 90} :
    Confidence(flag, preset, "global") = flag

(***************************************************************************)
(* "This preserves whatever the user had before" (config.rs                *)
(* ensure_local_default): even with nothing killed and no failed write, two*)
(* starts at once lose it: the one that finds the ignore file retired      *)
(* writes the plain default over the other's migrated patterns.            *)
(***************************************************************************)
MigrationPreserves ==
  mishaps = 0 /\ AtRest /\ file.project # Absent =>
    \A x \in kept : file.project.exclude # Unset /\ x \in ToSet(file.project.exclude)
=============================================================================
