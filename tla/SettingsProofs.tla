--------------------------- MODULE SettingsProofs ---------------------------
(***************************************************************************)
(* Theorems about Settings, for any number of processes, commands and      *)
(* mishaps, and whatever patterns the files have.                          *)
(***************************************************************************)
EXTENDS Settings, TLAPS

\* TypeOK, with the types it takes for granted.
Steps == {"idle", "begun", "legacy", "retire", "reread", "truncate", "fill"}
Files ==
  /\ file \in [global : Table \cup {Absent}, project : Table \cup {Absent}]
  /\ ignore \in Legacies \cup {Absent} /\ bak \in Legacies \cup {Absent}
  /\ ignore # Absent => bak = Absent
Tasks ==
  /\ task \in [Procs -> [step : Steps, cmd : AnyCommand \cup {<<"none">>},
                         text : Table \cup {Absent}, pats : Seq(Patterns)]]
  /\ \A p \in Procs : /\ At(p, "idle") => task[p] = Idle
                      /\ ~At(p, "idle") => task[p].cmd \in AnyCommand
                      /\ At(p, "truncate") \/ At(p, "fill") => task[p].text # Absent
                      /\ At(p, "reread") => task[p].pats # <<>> /\ file.project # Absent
                      /\ At(p, "legacy") \/ At(p, "retire") \/ At(p, "reread")
                           => task[p].cmd[1] = "ensure"
                      /\ task[p].pats # <<>> => task[p].cmd[1] = "ensure"
Counts ==
  /\ runs \in [Procs -> Nat] /\ mishaps \in 0..MaxMishaps
  /\ intact \in BOOLEAN /\ orderly \in BOOLEAN /\ kept \subseteq Patterns

\* A table that has the patterns k, as SettingsKept wants it.
Good(t, k) ==
  /\ t.server # Unset
  /\ t.exclude \in Seq(Patterns)
  /\ k \subseteq ToSet(t.exclude)
  /\ \A x \in Patterns : Once(x, t.exclude) \/ ~Once(x, LegacyPatterns)

\* What the project's file owes the user: all the user counts on, or only what
\* the user gave it, when the legacy patterns may be where they were.
Own == kept \ ToSet(LegacyPatterns)
Due == IF orderly THEN kept ELSE Own

\* The project's files between two commands.
SettledWith(k) ==
  \/ file.project = Absent /\ k \subseteq IF ignore = Absent THEN {} ELSE ToSet(ignore)
  \/ file.project # Absent /\ file.project.exclude = NotArray /\ file.project.server # Unset /\ k = {}
  \/ file.project # Absent /\ Good(file.project, k)

\* One command of the project's file at a time, and none that forces it.
OfProject(t) == t.cmd[1] \in {"ensure", "recommend", "init_local"}
OneByOne ==
  /\ intact => \A p \in Procs : OfProject(task[p]) =>
       /\ task[p].cmd # <<"init_local", TRUE>>
       /\ \A q \in Procs \ {p} : ~OfProject(task[q])
  /\ \A p \in Procs : task[p].cmd[1] = "init_local" => ~orderly

\* How far the one command is that writes the project's file: what it has in
\* its hands is what the file is to have, and until it cuts the file short the
\* file has what it owes should the command be killed.
HoldsRight(t) ==
  OfProject(t) =>
    /\ t.step \in {"truncate", "fill"} =>
         IF t.pats = <<>>
           THEN Good(t.text, IF t.cmd[1] = "recommend" THEN Due \cup {t.cmd[2]} ELSE Due)
           ELSE t.text = Default /\ t.pats = LegacyPatterns /\ Due \subseteq ToSet(LegacyPatterns)
    /\ t.step = "truncate" => SettledWith(IF t.cmd[1] = "ensure" THEN Own ELSE Due)
    /\ t.step \in {"legacy", "retire"} => file.project = Absent /\ SettledWith(Due)
    /\ t.step = "retire" => ignore # Absent /\ t.pats = ignore
    /\ t.step = "reread" => /\ file.project = Default /\ t.pats = LegacyPatterns
                            /\ Due \subseteq ToSet(LegacyPatterns)
Midway == intact => \A p \in Procs : HoldsRight(task[p])

\* Otherwise the project's file is settled.
Unsettling(t) == OfProject(t) /\ t.step \in {"truncate", "fill", "reread"}
Rest == intact /\ (\A p \in Procs : ~Unsettling(task[p])) => SettledWith(Due)

SettingsInv == Files /\ Tasks /\ Counts /\ OneByOne /\ Midway /\ Rest

-----------------------------------------------------------------------------
(* Tables and lists of patterns.                                           *)

LEMMA Tables ==
  /\ Default \in Table /\ Empty \in Table
  /\ Default.server # Unset /\ Default.exclude = <<>>
  /\ \A t \in Table, s \in Seq(Patterns) :
       /\ [t EXCEPT !.exclude = s] \in Table
       /\ [t EXCEPT !.exclude = s].exclude = s
       /\ [t EXCEPT !.exclude = s].server = t.server
  /\ \A t \in Table : t.exclude \in Seq(Patterns) \cup {Unset, NotArray}
  /\ \A t \in Table, k \in {"server", "conf"}, v \in IntVals \cup FloatVals \cup {Unset} :
       [t EXCEPT ![k] = v] \in Table
  <1>1. Default \in Table /\ Empty \in Table /\ Default.server # Unset /\ Default.exclude = <<>>
    BY SettingsAssumption DEF Default, Empty, Table, IntVals, FloatVals
  <1>2. \A t \in Table, s \in Seq(Patterns) :
          /\ [t EXCEPT !.exclude = s] \in Table
          /\ [t EXCEPT !.exclude = s].exclude = s
          /\ [t EXCEPT !.exclude = s].server = t.server
    BY DEF Table
  <1>3. \A t \in Table, k \in {"server", "conf"}, v \in IntVals \cup FloatVals \cup {Unset} :
          [t EXCEPT ![k] = v] \in Table
    BY DEF Table
  <1>4. \A t \in Table : t.exclude \in Seq(Patterns) \cup {Unset, NotArray}
    BY DEF Table
  <1>5. QED
    BY <1>1, <1>2, <1>3, <1>4

\* A merged pattern is there, with all that was there, and repeats nothing.
LEMMA MergedKeeps ==
  ASSUME NEW old \in Seq(Patterns), NEW x \in Patterns
  PROVE  /\ Merged(old, x) \in Seq(Patterns)
         /\ ToSet(Merged(old, x)) = ToSet(old) \cup {x}
         /\ \A y : Once(y, old) => Once(y, Merged(old, x))
  <1>1. old # Unset
    BY SettingsAssumption
  <1>2. CASE x \in ToSet(old)
    BY <1>1, <1>2 DEF Merged
  <1>3. CASE x \notin ToSet(old)
    <2>1. Merged(old, x) = Append(old, x)
      BY <1>1, <1>3 DEF Merged
    <2>2. /\ Append(old, x) \in Seq(Patterns) /\ DOMAIN Append(old, x) = 1..(Len(old) + 1)
          /\ DOMAIN old = 1..Len(old) /\ Len(old) \in Nat
          /\ \A i \in 1..Len(old) : Append(old, x)[i] = old[i]
          /\ Append(old, x)[Len(old) + 1] = x
      OBVIOUS
    <2>3. ToSet(Append(old, x)) = ToSet(old) \cup {x}
      BY <2>2 DEF ToSet
    <2>4. ASSUME NEW y, Once(y, old) PROVE Once(y, Append(old, x))
      BY <1>3, <2>2, <2>4 DEF Once, ToSet
    <2>5. QED
      BY <2>1, <2>2, <2>3, <2>4
  <1>4. QED
    BY <1>2, <1>3

LEMMA MergedUnset == \A x : Merged(Unset, x) = Merged(<<>>, x)
  <1>1. <<>> \in Seq(Patterns)
    OBVIOUS
  <1>2. Unset # <<>>
    BY <1>1, SettingsAssumption
  <1>3. QED
    BY <1>2 DEF Merged

-----------------------------------------------------------------------------
(* Types.                                                                  *)

LEMMA SettingsInit == Init => SettingsInv
  <1> SUFFICES ASSUME Init PROVE SettingsInv
    OBVIOUS
  <1>1. [Default EXCEPT !.exclude = NotArray] \in Table /\ [Default EXCEPT !.exclude = NotArray] # Absent
    <2>1. [Default EXCEPT !.exclude = NotArray] \in Table
      BY Tables DEF Table
    <2>2. QED
      BY <2>1, SettingsAssumption
  <1>2. Files
    BY <1>1, Tables DEF Init, Files
  <1>3. Tasks
    BY DEF Init, Tasks, Idle, At, Steps
  <1>4. kept \subseteq Patterns
    BY SettingsAssumption DEF Init, ToSet
  <1>5. Counts
    BY <1>4, SettingsAssumption DEF Init, Counts
  <1>6. OneByOne /\ Midway
    BY DEF Init, OneByOne, Midway, HoldsRight, Idle, OfProject
  <1>7. SettledWith(Due)
    <2>0. Due = kept
      BY DEF Init, Due
    <2>1. CASE file.project = Absent
      BY <2>0, <2>1 DEF Init, SettledWith
    <2>2. CASE file.project # Absent
      <3>1. file.project = [Default EXCEPT !.exclude = NotArray]
        BY <2>2 DEF Init
      <3>2. file.project.exclude = NotArray /\ file.project.server = Default.server
        BY <3>1 DEF Default
      <3>3. QED
        BY <2>0, <2>2, <3>2, Tables DEF Init, SettledWith
    <2>3. QED
      BY <2>1, <2>2
  <1>8. QED
    BY <1>2, <1>3, <1>5, <1>6, <1>7 DEF SettingsInv, Rest

TaskType == [step : Steps, cmd : AnyCommand \cup {<<"none">>}, text : Table \cup {Absent}, pats : Seq(Patterns)]

\* A step of one process that leaves it where t says.
LEMMA TaskSteps ==
  ASSUME Tasks, NEW p \in Procs, NEW t \in TaskType, task' = [task EXCEPT ![p] = t],
         t.step = "idle" => t = Idle,
         t.step # "idle" => t.cmd \in AnyCommand,
         t.step \in {"truncate", "fill"} => t.text # Absent,
         t.step = "reread" => t.pats # <<>> /\ file'.project # Absent,
         file.project # Absent => file'.project # Absent,
         t.step \in {"legacy", "retire", "reread"} \/ t.pats # <<>> => t.cmd[1] = "ensure"
  PROVE  Tasks'
  <1>1. task' \in [Procs -> TaskType]
    BY DEF Tasks, TaskType
  <1>2. ASSUME NEW q \in Procs
        PROVE  /\ task'[q].step = "idle" => task'[q] = Idle
               /\ task'[q].step # "idle" => task'[q].cmd \in AnyCommand
               /\ task'[q].step \in {"truncate", "fill"} => task'[q].text # Absent
               /\ task'[q].step = "reread" => task'[q].pats # <<>> /\ file'.project # Absent
               /\ task'[q].step \in {"legacy", "retire", "reread"} => task'[q].cmd[1] = "ensure"
               /\ task'[q].pats # <<>> => task'[q].cmd[1] = "ensure"
    <2>1. CASE q = p
      BY <2>1 DEF Tasks
    <2>2. CASE q # p
      BY <2>2 DEF Tasks, At
    <2>3. QED
      BY <2>1, <2>2
  <1>3. QED
    BY <1>1, <1>2 DEF Tasks, At, TaskType

\* What the commands before a write leave in a process's hands.
LEMMA Handing ==
  ASSUME Tasks, NEW p \in Procs
  PROVE  /\ task[p] \in TaskType
         /\ \A to \in Steps : Go(p, to) => \E t \in TaskType :
              /\ task' = [task EXCEPT ![p] = t] /\ t.step = to
              /\ t.cmd = task[p].cmd /\ t.text = task[p].text /\ t.pats = task[p].pats
         /\ \A x \in Table, s \in Seq(Patterns) : WritesThen(p, x, s) => \E t \in TaskType :
              /\ task' = [task EXCEPT ![p] = t] /\ t.step = "truncate"
              /\ t.cmd = task[p].cmd /\ t.text = x /\ t.pats = s
         /\ \A x \in Table : Writes(p, x) => \E t \in TaskType :
              /\ task' = [task EXCEPT ![p] = t] /\ t.step = "truncate"
              /\ t.cmd = task[p].cmd /\ t.text = x /\ t.pats = <<>>
         /\ Idle \in TaskType
  <1>1. task[p] \in TaskType /\ task \in [Procs -> TaskType]
    BY DEF Tasks, TaskType
  <1>2. ASSUME NEW to \in Steps, Go(p, to)
        PROVE  \E t \in TaskType : /\ task' = [task EXCEPT ![p] = t] /\ t.step = to
                                   /\ t.cmd = task[p].cmd /\ t.text = task[p].text /\ t.pats = task[p].pats
    <2>1. [task[p] EXCEPT !.step = to] \in TaskType
      BY <1>1 DEF TaskType
    <2>2. task' = [task EXCEPT ![p] = [task[p] EXCEPT !.step = to]]
      BY <1>1, <1>2 DEF Go
    <2>3. QED
      BY <1>1, <2>1, <2>2 DEF TaskType
  <1>3. ASSUME NEW x \in Table, NEW s \in Seq(Patterns), WritesThen(p, x, s)
        PROVE  \E t \in TaskType : /\ task' = [task EXCEPT ![p] = t] /\ t.step = "truncate"
                                   /\ t.cmd = task[p].cmd /\ t.text = x /\ t.pats = s
    <2>1. [task[p] EXCEPT !.step = "truncate", !.text = x, !.pats = s] \in TaskType
      BY <1>1 DEF TaskType, Steps
    <2>2. task' = [task EXCEPT ![p] = [task[p] EXCEPT !.step = "truncate", !.text = x, !.pats = s]]
      BY <1>1, <1>3 DEF WritesThen
    <2>3. QED
      BY <1>1, <2>1, <2>2 DEF TaskType
  <1>4. <<>> \in Seq(Patterns)
    OBVIOUS
  <1>5. Idle \in TaskType
    BY <1>4 DEF Idle, TaskType, Steps
  <1>6. \A x \in Table : Writes(p, x) => WritesThen(p, x, <<>>)
    BY DEF Writes
  <1>7. \A x \in Table : Writes(p, x) => \E t \in TaskType :
              /\ task' = [task EXCEPT ![p] = t] /\ t.step = "truncate"
              /\ t.cmd = task[p].cmd /\ t.text = x /\ t.pats = <<>>
    BY <1>3, <1>4, <1>6
  <1>8. QED
    BY <1>1, <1>2, <1>3, <1>5, <1>7

\* What a process is to write is a table.
LEMMA Written ==
  ASSUME Files, Tasks, NEW p \in Procs
  PROVE  /\ \A f \in {"global", "project"} : Layer(f) \in Table
         /\ \A f \in {"global", "project"} : file[f] # Absent => file[f] \in Table
         /\ At(p, "truncate") \/ At(p, "fill") => task[p].text \in Table
         /\ At(p, "reread") => WithExcludes(file.project, task[p].pats) \in Table
         /\ Is(p, "set") => Arg(p, 2) \in {"server", "conf"} /\ Arg(p, 3) \in IntVals \cup FloatVals
         /\ Is(p, "unset") => Arg(p, 2) \in {"server", "conf"}
         /\ task[p].cmd[1] = "recommend" => Arg(p, 2) \in Patterns
         /\ Target(task[p].cmd) \in {"global", "project"}
  <1>1. \A f \in {"global", "project"} : file[f] \in Table \cup {Absent}
    BY DEF Files
  <1>2. task[p] \in TaskType
    BY Handing
  <1>3. At(p, "begun") => task[p].cmd \in AnyCommand
    BY DEF Tasks, At
  <1>4. Is(p, "set") => Arg(p, 2) \in {"server", "conf"} /\ Arg(p, 3) \in IntVals \cup FloatVals
    BY <1>3 DEF Is, Arg, AnyCommand
  <1>5. Is(p, "unset") => Arg(p, 2) \in {"server", "conf"}
    BY <1>3 DEF Is, Arg, AnyCommand
  <1>6. task[p].cmd[1] = "recommend" => Arg(p, 2) \in Patterns
    <2>1. task[p].cmd \in AnyCommand \cup {<<"none">>}
      BY <1>2 DEF TaskType
    <2>2. QED
      BY <2>1 DEF Arg, AnyCommand
  <1>7. At(p, "truncate") \/ At(p, "fill") => task[p].text \in Table
    BY <1>2 DEF Tasks, TaskType
  <1>8. At(p, "reread") => WithExcludes(file.project, task[p].pats) \in Table
    BY <1>1, <1>2, Tables DEF Tasks, TaskType, WithExcludes
  <1>9. \A f \in {"global", "project"} : Layer(f) \in Table
    BY <1>1, Tables DEF Layer
  <1>10. QED
    BY <1>1, <1>4, <1>5, <1>6, <1>7, <1>8, <1>9 DEF Target

\* What `config recommend' writes is the project's file with one more pattern.
LEMMA Recommending ==
  ASSUME Files, Tasks, NEW p \in Procs, Recommend(p)
  PROVE  \/ End(p) /\ UNCHANGED <<disk, runs, ghosts>>
         \/ \E old \in Seq(Patterns) :
              LET t == [file.project EXCEPT !.exclude = Merged(old, Arg(p, 2))] IN
              /\ file.project \in Table /\ t \in Table
              /\ t.exclude = Merged(old, Arg(p, 2)) /\ t.server = file.project.server
              /\ file.project.exclude = old \/ (file.project.exclude = Unset /\ old = <<>>)
              /\ Writes(p, t)
              /\ UNCHANGED <<disk, runs, ghosts>>
  <1> SUFFICES ASSUME ~End(p)
               PROVE \E old \in Seq(Patterns) :
                       LET t == [file.project EXCEPT !.exclude = Merged(old, Arg(p, 2))] IN
                       /\ file.project \in Table /\ t \in Table
                       /\ t.exclude = Merged(old, Arg(p, 2)) /\ t.server = file.project.server
                       /\ file.project.exclude = old \/ (file.project.exclude = Unset /\ old = <<>>)
                       /\ Writes(p, t)
                       /\ UNCHANGED <<disk, runs, ghosts>>
    BY DEF Recommend
  <1> DEFINE now == file.project.exclude
             old == IF now = Unset THEN <<>> ELSE now
  <1>1. /\ file.project # Absent /\ now # NotArray
        /\ Writes(p, [file.project EXCEPT !.exclude = Merged(now, Arg(p, 2))])
        /\ UNCHANGED <<disk, runs, ghosts>>
    BY DEF Recommend, Layer
  <1>2. file.project \in Table /\ Arg(p, 2) \in Patterns
    BY <1>1, Written DEF Recommend, Is
  <1>3. now \in Seq(Patterns) \cup {Unset}
    BY <1>1, <1>2, Tables
  <1>4. old \in Seq(Patterns) /\ Merged(now, Arg(p, 2)) = Merged(old, Arg(p, 2))
    BY <1>3, MergedUnset
  <1>5. Merged(old, Arg(p, 2)) \in Seq(Patterns)
    BY <1>2, <1>4, MergedKeeps
  <1>6. PICK t : t = [file.project EXCEPT !.exclude = Merged(old, Arg(p, 2))]
    OBVIOUS
  <1>7. t \in Table /\ t.exclude = Merged(old, Arg(p, 2)) /\ t.server = file.project.server
    BY <1>2, <1>5, <1>6, Tables
  <1>8. now = old \/ (now = Unset /\ old = <<>>)
    OBVIOUS
  <1> HIDE DEF old
  <1>9. Writes(p, t)
    BY <1>1, <1>4, <1>6
  <1>10. QED
    BY <1>1, <1>2, <1>4, <1>6, <1>7, <1>8, <1>9

\* The project's file, once there, stays: it is only ever rewritten.
Stays == file.project # Absent => file'.project # Absent

LEMMA FilesNext == SettingsInv /\ [Next]_vars => Files' /\ Stays
  <1> SUFFICES ASSUME Files, Tasks, [Next]_vars PROVE Files' /\ Stays
    BY DEF SettingsInv
  <1>1. ASSUME UNCHANGED disk PROVE Files' /\ Stays
    BY <1>1 DEF Files, Stays, disk
  <1>2. ASSUME NEW p \in Procs, NEW t \in Table, UNCHANGED <<ignore, bak>>,
               file' = [file EXCEPT ![Target(task[p].cmd)] = t]
        PROVE  Files' /\ Stays
    <2>1. PICK f \in {"global", "project"} : f = Target(task[p].cmd)
      BY Written
    <2>2. file' = [file EXCEPT ![f] = t]
      BY <1>2, <2>1
    <2>3. file' \in [global : Table \cup {Absent}, project : Table \cup {Absent}]
      BY <2>2 DEF Files
    <2>4. Stays
      BY <2>2, SettingsAssumption DEF Files, Stays
    <2>5. QED
      BY <1>2, <2>3, <2>4 DEF Files
  <1>3. ASSUME NEW p \in Procs, Truncate(p) PROVE Files' /\ Stays
    BY <1>2, <1>3, Tables DEF Truncate
  <1>4. ASSUME NEW p \in Procs, Fill(p) PROVE Files' /\ Stays
    BY <1>2, <1>4, Written DEF Fill
  <1>5. ASSUME NEW p \in Procs, Retire(p) PROVE Files' /\ Stays
    BY <1>5, SettingsAssumption DEF Retire, Files, Stays
  <1>6. CASE UserEdits
    <2>1. file.project \in Table
      BY <1>6, Written DEF UserEdits, Files
    <2>2. PICK t \in Table : file' = [file EXCEPT !.project = t]
      <3> DEFINE now == file.project.exclude
                 old == IF now = NotArray \/ now = Unset THEN <<>> ELSE now
      <3>1. old \in Seq(Patterns) /\ UserPattern \in Patterns
        BY <2>1, Tables DEF Patterns
      <3>2. Merged(IF now = NotArray THEN Unset ELSE now, UserPattern) = Merged(old, UserPattern)
        BY MergedUnset
      <3>3. Merged(old, UserPattern) \in Seq(Patterns)
        BY <3>1, MergedKeeps
      <3>4. file' = [file EXCEPT !.project = [file.project EXCEPT !.exclude = Merged(old, UserPattern)]]
        BY <1>6, <3>2 DEF UserEdits, Files
      <3>5. QED
        BY <2>1, <3>3, <3>4, Tables
    <2>3. file' \in [global : Table \cup {Absent}, project : Table \cup {Absent}]
      BY <2>2 DEF Files
    <2>4. Stays
      BY <2>2, SettingsAssumption DEF Files, Stays
    <2>5. QED
      BY <1>6, <2>3, <2>4 DEF UserEdits, Files
  <1>7. ASSUME NEW p \in Procs, \/ Begin(p) \/ Mishap(p) \/ Ensure(p) \/ ReadLegacy(p) \/ Reread(p)
                                \/ InitConfig(p) \/ SetKey(p) \/ UnsetKey(p) \/ Recommend(p)
        PROVE  UNCHANGED disk
    BY <1>7 DEF Begin, Mishap, Ensure, ReadLegacy, Reread, InitConfig, SetKey, UnsetKey, Recommend
  <1>8. CASE UNCHANGED vars
    BY <1>1, <1>8 DEF vars
  <1>9. QED
    BY <1>1, <1>3, <1>4, <1>5, <1>6, <1>7, <1>8 DEF Next, Command

LEMMA TasksNext == SettingsInv /\ [Next]_vars => Tasks'
  <1> SUFFICES ASSUME Files, Tasks, Stays, [Next]_vars PROVE Tasks'
    BY FilesNext DEF SettingsInv
  <1>0. ASSUME UNCHANGED task PROVE Tasks'
    BY <1>0 DEF Tasks, Stays, At
  <1>1. ASSUME NEW p \in Procs, End(p) PROVE Tasks'
    <2>1. task' = [task EXCEPT ![p] = Idle] /\ Idle \in TaskType
      BY <1>1, Handing DEF End
    <2>2. Idle.step = "idle" /\ Idle.pats = <<>>
      BY DEF Idle
    <2>3. QED
      BY <2>1, <2>2, TaskSteps DEF Stays
  <1>2. ASSUME NEW p \in Procs, NEW x \in Table, NEW s \in Seq(Patterns), WritesThen(p, x, s),
               task[p].step # "idle", s = <<>> \/ task[p].cmd[1] = "ensure"
        PROVE  Tasks'
    <2>1. PICK t \in TaskType : /\ task' = [task EXCEPT ![p] = t] /\ t.step = "truncate"
                                /\ t.cmd = task[p].cmd /\ t.text = x /\ t.pats = s
      BY <1>2, Handing
    <2>2. task[p].cmd \in AnyCommand /\ x # Absent
      BY <1>2, SettingsAssumption DEF Tasks, At
    <2>3. QED
      BY <1>2, <2>1, <2>2, TaskSteps DEF Stays
  <1>3. ASSUME NEW p \in Procs, NEW x \in Table, Writes(p, x), task[p].step # "idle" PROVE Tasks'
    <2>1. <<>> \in Seq(Patterns)
      OBVIOUS
    <2>2. QED
      BY <1>2, <1>3, <2>1 DEF Writes
  <1>4. ASSUME NEW p \in Procs, NEW to \in Steps, Go(p, to), task[p].step # "idle", to # "idle",
               to \in {"truncate", "fill"} => task[p].text # Absent,
               to = "reread" => task[p].pats # <<>> /\ file'.project # Absent,
               to \in {"legacy", "retire", "reread"} => task[p].cmd[1] = "ensure"
        PROVE  Tasks'
    <2>1. PICK t \in TaskType :
                 /\ task' = [task EXCEPT ![p] = t] /\ t.step = to
                 /\ t.cmd = task[p].cmd /\ t.text = task[p].text /\ t.pats = task[p].pats
      BY <1>4, Handing
    <2>2. task[p].cmd \in AnyCommand /\ (t.pats # <<>> => t.cmd[1] = "ensure")
      BY <1>4, <2>1 DEF Tasks, At
    <2>3. /\ t.step = "idle" => t = Idle
          /\ t.step \in {"truncate", "fill"} => t.text # Absent
          /\ t.step = "reread" => t.pats # <<>> /\ file'.project # Absent
          /\ t.step \in {"legacy", "retire", "reread"} \/ t.pats # <<>> => t.cmd[1] = "ensure"
      BY <1>4, <2>1, <2>2
    <2>4. /\ t.step # "idle" => t.cmd \in AnyCommand
          /\ file.project # Absent => file'.project # Absent
      BY <1>4, <2>1, <2>2 DEF Stays
    <2>5. QED
      BY <2>1, <2>3, <2>4, TaskSteps
  <1>5. ASSUME NEW p \in Procs, Begin(p) PROVE Tasks'
    <2>1. PICK c \in AnyCommand : task' = [task EXCEPT ![p] = [Idle EXCEPT !.step = "begun", !.cmd = c]]
      BY <1>5, SettingsAssumption DEF Begin
    <2>2. PICK i \in TaskType : i = Idle /\ i.pats = <<>>
      BY Handing DEF Idle
    <2>3. PICK t : t = [i EXCEPT !.step = "begun", !.cmd = c]
      OBVIOUS
    <2>4. t \in TaskType /\ t.step = "begun" /\ t.cmd = c /\ t.pats = <<>>
      BY <2>2, <2>3 DEF TaskType, Steps
    <2>5. QED
      BY <2>1, <2>2, <2>3, <2>4, TaskSteps DEF Stays
  <1>6. ASSUME NEW p \in Procs, Ensure(p) PROVE Tasks'
    BY <1>1, <1>4, <1>6 DEF Ensure, Is, At, Steps
  <1>7. ASSUME NEW p \in Procs, ReadLegacy(p) PROVE Tasks'
    <2>1. CASE ignore = Absent
      BY <1>3, <1>7, <2>1, Tables DEF ReadLegacy, At
    <2>2. CASE ignore # Absent
      <3>1. task' = [task EXCEPT ![p] = [task[p] EXCEPT !.step = "retire", !.pats = ignore]]
        BY <1>7, <2>2 DEF ReadLegacy, Tasks
      <3>2. ignore \in Seq(Patterns)
        BY <2>2, SettingsAssumption DEF Files
      <3>3. PICK t : t = [task[p] EXCEPT !.step = "retire", !.pats = ignore]
        OBVIOUS
      <3>. task[p] \in TaskType
        BY Handing
      <3>4. t \in TaskType /\ t.step = "retire" /\ t.cmd = task[p].cmd
        BY <3>2, <3>3 DEF TaskType, Steps
      <3>5. task[p].cmd \in AnyCommand /\ task[p].cmd[1] = "ensure"
        BY <1>7 DEF ReadLegacy, Tasks, At
      <3>6. QED
        BY <3>1, <3>3, <3>4, <3>5, TaskSteps DEF Stays
    <2>3. QED
      BY <2>1, <2>2
  <1>8. ASSUME NEW p \in Procs, Retire(p) PROVE Tasks'
    <2>1. task[p].cmd[1] = "ensure" /\ task[p].step # "idle" /\ task[p].pats \in Seq(Patterns)
      BY <1>8, Handing DEF Retire, Tasks, At, TaskType
    <2>2. QED
      BY <1>2, <1>8, <2>1, Tables DEF Retire
  <1>9. ASSUME NEW p \in Procs, Reread(p) PROVE Tasks'
    BY <1>3, <1>9, Written DEF Reread, At
  <1>10. ASSUME NEW p \in Procs, InitConfig(p) PROVE Tasks'
    BY <1>1, <1>3, <1>10, Tables DEF InitConfig, Is, At
  <1>11. ASSUME NEW p \in Procs, SetKey(p) PROVE Tasks'
    <2>1. [Layer("global") EXCEPT ![Arg(p, 2)] = Arg(p, 3)] \in Table
      BY <1>11, Written, Tables DEF SetKey
    <2>2. QED
      BY <1>3, <1>11, <2>1 DEF SetKey, Is, At
  <1>12. ASSUME NEW p \in Procs, UnsetKey(p) PROVE Tasks'
    <2>1. [Layer("global") EXCEPT ![Arg(p, 2)] = Unset] \in Table
      BY <1>12, Written, Tables DEF UnsetKey
    <2>2. QED
      BY <1>1, <1>3, <1>12, <2>1 DEF UnsetKey, Is, At
  <1>13. ASSUME NEW p \in Procs, Recommend(p) PROVE Tasks'
    BY <1>1, <1>3, <1>13, Recommending DEF Recommend, Is, At
  <1>14. ASSUME NEW p \in Procs, Truncate(p) PROVE Tasks'
    BY <1>4, <1>14 DEF Truncate, At, Tasks, Steps
  <1>15. ASSUME NEW p \in Procs, Fill(p) PROVE Tasks'
    <2>1. CASE task[p].pats = <<>>
      BY <1>1, <1>15, <2>1 DEF Fill
    <2>2. CASE task[p].pats # <<>>
      <3>1. task[p].cmd[1] = "ensure" /\ task[p].step = "fill" /\ task[p].text \in Table
        BY <1>15, <2>2, Written DEF Fill, Tasks, At
      <3>2. file'.project = task[p].text
        BY <1>15, <3>1 DEF Fill, Target, Files
      <3>3. file'.project # Absent
        BY <3>1, <3>2, SettingsAssumption
      <3>4. QED
        BY <1>4, <1>15, <2>2, <3>1, <3>3 DEF Fill, Steps
    <2>3. QED
      BY <2>1, <2>2
  <1>16. ASSUME NEW p \in Procs, Mishap(p) PROVE Tasks'
    BY <1>1, <1>16 DEF Mishap
  <1>17. CASE UserEdits \/ UNCHANGED vars
    BY <1>0, <1>17 DEF UserEdits, vars
  <1>18. QED
    BY <1>5, <1>6, <1>7, <1>8, <1>9, <1>10, <1>11, <1>12, <1>13, <1>14, <1>15, <1>16, <1>17
       DEF Next, Command

LEMMA CountsNext == SettingsInv /\ [Next]_vars => Counts'
  <1> SUFFICES ASSUME Files, Tasks, Counts, [Next]_vars PROVE Counts'
    BY DEF SettingsInv
  <1> USE SettingsAssumption DEF Counts
  <1>1. ASSUME NEW p \in Procs, Begin(p) PROVE Counts'
    BY <1>1 DEF Begin, disk
  <1>2. ASSUME NEW p \in Procs, Fill(p) PROVE Counts'
    BY <1>2, Written DEF Fill
  <1>3. ASSUME NEW p \in Procs, Mishap(p) PROVE Counts'
    <2>1. /\ mishaps \in 0..MaxMishaps /\ mishaps < MaxMishaps /\ mishaps' = mishaps + 1
          /\ intact' \in BOOLEAN /\ orderly' \in BOOLEAN /\ UNCHANGED <<runs, kept>>
      BY <1>3 DEF Mishap
    <2>2. mishaps' \in 0..MaxMishaps
      BY <2>1
    <2>3. QED
      BY <2>1, <2>2
  <1>4. CASE UserEdits
    BY <1>4 DEF UserEdits, Patterns
  <1>5. ASSUME NEW p \in Procs, Command(p), ~Fill(p) PROVE UNCHANGED <<runs, ghosts>>
    BY <1>5 DEF Command, Ensure, ReadLegacy, Retire, Reread, InitConfig, SetKey, UnsetKey, Recommend, Truncate
  <1>6. ASSUME UNCHANGED <<runs, ghosts>> PROVE Counts'
    BY <1>6 DEF ghosts
  <1>7. CASE UNCHANGED vars
    BY <1>6, <1>7 DEF vars
  <1>8. QED
    BY <1>1, <1>2, <1>3, <1>4, <1>5, <1>6, <1>7 DEF Next

\* What a process goes on with is its command's, or nothing.
LEMMA GoesOn ==
  ASSUME Tasks, NEW p \in Procs, Command(p)
  PROVE  /\ intact' = intact /\ orderly' = orderly /\ ~At(p, "idle")
         /\ \E t : task' = [task EXCEPT ![p] = t] /\ (t = Idle \/ t.cmd = task[p].cmd)
  <1> DEFINE Goal == \E t : task' = [task EXCEPT ![p] = t] /\ (t = Idle \/ t.cmd = task[p].cmd)
  <1>1. intact' = intact /\ orderly' = orderly /\ ~At(p, "idle")
    BY DEF Command, Ensure, ReadLegacy, Retire, Reread, InitConfig, SetKey, UnsetKey, Recommend,
       Truncate, Fill, ghosts, Is, At
  <1>2. task \in [Procs -> TaskType] /\ task[p] \in TaskType
    BY DEF Tasks, TaskType
  <1>3. ASSUME End(p) PROVE Goal
    BY <1>3 DEF End
  <1>4. ASSUME NEW to, Go(p, to) PROVE Goal
    <2>1. [task[p] EXCEPT !.step = to].cmd = task[p].cmd
      BY <1>2 DEF TaskType
    <2>2. task' = [task EXCEPT ![p] = [task[p] EXCEPT !.step = to]]
      BY <1>2, <1>4 DEF Go
    <2>3. QED
      BY <2>1, <2>2
  <1>5. ASSUME NEW x, NEW s, WritesThen(p, x, s) PROVE Goal
    <2>1. [task[p] EXCEPT !.step = "truncate", !.text = x, !.pats = s].cmd = task[p].cmd
      BY <1>2 DEF TaskType
    <2>2. task' = [task EXCEPT ![p] = [task[p] EXCEPT !.step = "truncate", !.text = x, !.pats = s]]
      BY <1>2, <1>5 DEF WritesThen
    <2>3. QED
      BY <2>1, <2>2
  <1>6. CASE ReadLegacy(p) /\ ignore # Absent
    <2>1. [task[p] EXCEPT !.step = "retire", !.pats = ignore].cmd = task[p].cmd
      BY <1>2 DEF TaskType
    <2>2. task' = [task EXCEPT ![p] = [task[p] EXCEPT !.step = "retire", !.pats = ignore]]
      BY <1>2, <1>6 DEF ReadLegacy
    <2>3. QED
      BY <1>1, <2>1, <2>2
  <1>7. \/ ReadLegacy(p) /\ ignore # Absent
        \/ End(p) \/ (\E to : Go(p, to)) \/ (\E x, s : WritesThen(p, x, s))
    BY DEF Command, Ensure, ReadLegacy, Retire, Reread, InitConfig, SetKey, UnsetKey, Recommend,
       Truncate, Fill, Writes
  <1>8. Goal
    BY <1>3, <1>4, <1>5, <1>6, <1>7
  <1>9. QED
    BY <1>1, <1>8

LEMMA IdleHolds == ~OfProject(Idle) /\ Idle.cmd[1] # "init_local"
  BY DEF OfProject, Idle

\* OnProject and OfProject are the same of the processes there are.
LEMMA OnIsOf ==
  ASSUME Tasks, NEW p \in Procs
  PROVE  /\ OnProject(p) <=> OfProject(task[p])
         /\ task[p] = Idle \/ task[p].cmd \in AnyCommand
  <1>1. task[p] = Idle \/ task[p].cmd \in AnyCommand
    BY DEF Tasks
  <1>2. CASE task[p] = Idle
    BY <1>2, IdleHolds DEF OnProject
  <1>3. CASE task[p] # Idle
    <2>1. task[p].cmd[1] \in {"ensure", "set", "unset", "recommend", "init_global", "init_local"}
      BY <1>1, <1>3 DEF AnyCommand
    <2>2. QED
      BY <1>1, <1>3, <2>1 DEF OnProject, OfProject, Target
  <1>4. QED
    BY <1>2, <1>3

LEMMA OneByOneNext == SettingsInv /\ [Next]_vars => OneByOne'
  <1> SUFFICES ASSUME Tasks, OneByOne, [Next]_vars PROVE OneByOne'
    BY DEF SettingsInv
  <1>1. ASSUME NEW p \in Procs, Begin(p) PROVE OneByOne'
    <2>1. PICK c \in Commands : /\ task' = [task EXCEPT ![p] = [Idle EXCEPT !.step = "begun", !.cmd = c]]
                                /\ intact' = (intact /\ c # <<"init_local", TRUE>>
                                     /\ (Target(c) = "project" => \A q \in Procs : ~OnProject(q)))
                                /\ orderly' = (orderly /\ c[1] # "init_local")
      BY <1>1 DEF Begin
    <2>2. PICK t : t = [Idle EXCEPT !.step = "begun", !.cmd = c]
      OBVIOUS
    <2>3. t.cmd = c
      BY <2>2 DEF Idle
    <2>4. task'[p] = t /\ \A q \in Procs \ {p} : task'[q] = task[q]
      BY <2>1, <2>2 DEF Tasks
    <2>5. OfProject(t) => Target(c) = "project"
      BY <2>3 DEF OfProject, Target
    <2>6. \A q \in Procs : OnProject(q) <=> OfProject(task[q])
      BY OnIsOf
    <2>7. ASSUME intact', NEW q \in Procs, OfProject(task'[q])
          PROVE  task'[q].cmd # <<"init_local", TRUE>> /\ \A r \in Procs \ {q} : ~OfProject(task'[r])
      <3>1. CASE q = p
        <4>1. \A r \in Procs : ~OfProject(task[r])
          BY <2>1, <2>4, <2>5, <2>6, <2>7, <3>1
        <4>2. QED
          BY <2>1, <2>3, <2>4, <2>7, <3>1, <4>1
      <3>2. CASE q # p
        <4>1. OfProject(task[q]) /\ task'[q] = task[q] /\ ~OfProject(t)
          BY <2>1, <2>4, <2>5, <2>6, <2>7, <3>2
        <4>2. QED
          BY <2>1, <2>4, <2>7, <3>2, <4>1 DEF OneByOne
      <3>3. QED
        BY <3>1, <3>2
    <2>8. ASSUME NEW q \in Procs, task'[q].cmd[1] = "init_local" PROVE ~orderly'
      BY <2>1, <2>3, <2>4, <2>8 DEF OneByOne
    <2>9. QED
      BY <2>7, <2>8 DEF OneByOne
  <1>2. ASSUME NEW p \in Procs, NEW t, task' = [task EXCEPT ![p] = t], t = Idle \/ t.cmd = task[p].cmd,
               intact' => intact, orderly' => orderly
        PROVE  OneByOne'
    <2>1. task'[p] = t /\ \A q \in Procs \ {p} : task'[q] = task[q]
      BY <1>2 DEF Tasks
    <2>2. \A q \in Procs : /\ OfProject(task'[q]) => OfProject(task[q]) /\ task'[q].cmd = task[q].cmd
                           /\ task'[q].cmd[1] = "init_local" => task[q].cmd[1] = "init_local"
      BY <1>2, <2>1, IdleHolds DEF OfProject
    <2>3. QED
      BY <1>2, <2>2 DEF OneByOne
  <1>3. ASSUME UNCHANGED <<intact, orderly, task>> PROVE OneByOne'
    BY <1>3 DEF OneByOne, OfProject
  <1>4. ASSUME NEW p \in Procs, Command(p) PROVE OneByOne'
    BY <1>2, <1>4, GoesOn
  <1>5. ASSUME NEW p \in Procs, Mishap(p) PROVE OneByOne'
    <2>1. task' = [task EXCEPT ![p] = Idle] /\ (intact' => intact) /\ (orderly' => orderly)
      BY <1>5 DEF Mishap, End
    <2>2. QED
      BY <1>2, <2>1
  <1>6. CASE UserEdits \/ UNCHANGED vars
    BY <1>3, <1>6 DEF UserEdits, vars, ghosts
  <1>7. QED
    BY <1>1, <1>4, <1>5, <1>6 DEF Next

-----------------------------------------------------------------------------
(* What the user counts on, from one command to the next.                  *)

\* A step that leaves the project's files and their ghosts as they are.
Same == /\ file'.project = file.project
        /\ UNCHANGED <<ignore, bak, kept, orderly>>

LEMMA SameHolds ==
  ASSUME Same
  PROVE  /\ Due' = Due /\ Own' = Own /\ LegacyPatterns' = LegacyPatterns
         /\ SettledWith(Due) => SettledWith(Due)'
         /\ SettledWith(Own) => SettledWith(Own)'
         /\ \A t : HoldsRight(t) => HoldsRight(t)'
  <1>1. Due' = Due /\ Own' = Own /\ LegacyPatterns' = LegacyPatterns
    BY DEF Same, Due, Own, LegacyPatterns
  <1>2. \A t, k : Good(t, k) => Good(t, k)'
    BY <1>1 DEF Good
  <1>3. \A k : SettledWith(k) => SettledWith(k)'
    BY <1>2 DEF Same, SettledWith, Good, LegacyPatterns
  <1>4. PICK d : d = Due
    OBVIOUS
  <1>5. PICK o : o = Own
    OBVIOUS
  <1>6. d = Due' /\ o = Own'
    BY <1>1, <1>4, <1>5
  <1>7. (SettledWith(Due) <=> SettledWith(d)) /\ (SettledWith(Own) <=> SettledWith(o))
    BY <1>4, <1>5
  <1>8. (SettledWith(Due)' <=> SettledWith(d)') /\ (SettledWith(Own)' <=> SettledWith(o)')
    BY <1>6
  <1>9. SettledWith(Due) => SettledWith(Due)'
    BY <1>3, <1>7, <1>8
  <1>10. SettledWith(Own) => SettledWith(Own)'
    BY <1>3, <1>7, <1>8
  <1>11. ASSUME NEW t, HoldsRight(t) PROVE HoldsRight(t)'
    BY <1>1, <1>2, <1>9, <1>10, <1>11 DEF HoldsRight, Same
  <1>12. QED
    BY <1>1, <1>9, <1>10, <1>11

\* What is settled with k is settled with less of it.
LEMMA SettledLess == \A d, e : SettledWith(d) /\ e \subseteq d => SettledWith(e)
  BY DEF SettledWith, Good

LEMMA Dues ==
  /\ Own \subseteq Due
  /\ kept \subseteq Due \cup ToSet(LegacyPatterns)
  /\ Due \subseteq ToSet(LegacyPatterns) => Own = {}
  /\ file.project = Absent /\ SettledWith(Due) => Due \subseteq ToSet(LegacyPatterns)
  /\ SettledWith(Due) => SettledWith(Own)
  <1>1. Own \subseteq Due /\ kept \subseteq Due \cup ToSet(LegacyPatterns)
    BY DEF Due, Own
  <1>2. Due \subseteq ToSet(LegacyPatterns) => Own = {}
    BY <1>1 DEF Own
  <1>3. file.project = Absent /\ SettledWith(Due) => Due \subseteq ToSet(LegacyPatterns)
    BY DEF SettledWith, LegacyPatterns
  <1>4. SettledWith(Due) => SettledWith(Own)
    BY <1>1, SettledLess
  <1>5. QED
    BY <1>1, <1>2, <1>3, <1>4

LEMMA DefaultGood == Good(Default, {})
  BY Tables DEF Good, Once

\* A step of one process, alone on the project's file, that leaves it with t
\* in its hands.
LEMMA Leaves ==
  ASSUME Tasks, NEW p \in Procs, \A q \in Procs \ {p} : ~OfProject(task[q]),
         NEW t, task' = [task EXCEPT ![p] = t],
         HoldsRight(t)', Unsettling(t) \/ SettledWith(Due)'
  PROVE  Midway' /\ Rest'
  <1>1. task'[p] = t /\ \A q \in Procs \ {p} : task'[q] = task[q]
    BY DEF Tasks
  <1>2. ASSUME NEW q \in Procs PROVE HoldsRight(task[q])'
    <2>1. CASE q = p
      BY <1>1, <2>1 DEF HoldsRight
    <2>2. CASE q # p
      BY <1>1, <2>2 DEF HoldsRight, OfProject
    <2>3. QED
      BY <2>1, <2>2
  <1>3. ASSUME \A q \in Procs : ~Unsettling(task'[q]) PROVE SettledWith(Due)'
    BY <1>1, <1>3
  <1>4. QED
    BY <1>2, <1>3 DEF Midway, Rest

\* The command is over.
LEMMA EndsSettled ==
  ASSUME Tasks, NEW p \in Procs, \A q \in Procs \ {p} : ~OfProject(task[q]),
         End(p), SettledWith(Due)'
  PROVE  Midway' /\ Rest'
  <1>1. PICK t : t = Idle /\ task' = [task EXCEPT ![p] = t]
    BY DEF End
  <1>2. HoldsRight(t)'
    BY <1>1, IdleHolds DEF HoldsRight, OfProject
  <1>3. QED
    BY <1>1, <1>2, Leaves

\* A step of a process that has to do with the global file.
LEMMA Elsewhere ==
  ASSUME SettingsInv, intact, Same, NEW p \in Procs, NEW t, task' = [task EXCEPT ![p] = t],
         ~OfProject(task[p]), ~OfProject(t)
  PROVE  Midway' /\ Rest'
  <1>1. task'[p] = t /\ \A q \in Procs \ {p} : task'[q] = task[q]
    BY DEF SettingsInv, Tasks
  <1>2. ASSUME NEW q \in Procs PROVE HoldsRight(task[q])'
    <2>1. CASE q = p
      BY <1>1, <2>1 DEF HoldsRight, OfProject
    <2>2. CASE q # p
      <3>1. PICK u : u = task[q]
        OBVIOUS
      <3>2. u = task'[q]
        BY <1>1, <2>2, <3>1
      <3>3. HoldsRight(u)
        BY <3>1 DEF SettingsInv, Midway
      <3>4. HoldsRight(u)'
        BY <3>3, SameHolds
      <3>5. QED
        BY <3>2, <3>4
    <2>3. QED
      BY <2>1, <2>2
  <1>3. ASSUME \A q \in Procs : ~Unsettling(task'[q]) PROVE SettledWith(Due)'
    <2>1. \A q \in Procs : ~Unsettling(task[q])
      BY <1>1, <1>3 DEF Unsettling
    <2>2. SettledWith(Due)
      BY <2>1 DEF SettingsInv, Rest
    <2>3. QED
      BY <2>2, SameHolds
  <1>4. QED
    BY <1>2, <1>3 DEF Midway, Rest

\* A command of the project's file is alone with it.
LEMMA Alone ==
  ASSUME SettingsInv, intact, NEW p \in Procs, OfProject(task[p])
  PROVE  /\ \A q \in Procs \ {p} : ~OfProject(task[q])
         /\ Files /\ Tasks /\ HoldsRight(task[p])
         /\ task[p] \in TaskType /\ task[p].cmd \in AnyCommand /\ ~At(p, "idle")
         /\ ~Unsettling(task[p]) => SettledWith(Due)
  <1>1. \A q \in Procs \ {p} : ~OfProject(task[q])
    BY DEF SettingsInv, OneByOne
  <1>2. Files /\ Tasks /\ HoldsRight(task[p])
    BY DEF SettingsInv, Midway
  <1>3. task[p] \in TaskType
    BY <1>2, Handing
  <1>4. task[p].cmd \in AnyCommand /\ ~At(p, "idle")
    BY <1>2, IdleHolds DEF Tasks
  <1>5. ~Unsettling(task[p]) => SettledWith(Due)
    BY <1>1 DEF SettingsInv, Rest, Unsettling
  <1>6. QED
    BY <1>1, <1>2, <1>3, <1>4, <1>5

\* One merged pattern more.
LEMMA MergedGood ==
  ASSUME NEW old \in Seq(Patterns), NEW x \in Patterns, NEW k, k \subseteq ToSet(old),
         NEW L, \A y \in Patterns : Once(y, old) \/ ~Once(y, L)
  PROVE  /\ Merged(old, x) \in Seq(Patterns)
         /\ k \cup {x} \subseteq ToSet(Merged(old, x))
         /\ \A y \in Patterns : Once(y, Merged(old, x)) \/ ~Once(y, L)
  BY MergedKeeps

LEMMA BeginHolds == SettingsInv /\ intact' /\ (\E p \in Procs : Begin(p)) => Midway' /\ Rest'
  <1> SUFFICES ASSUME SettingsInv, intact', NEW p \in Procs, Begin(p) PROVE Midway' /\ Rest'
    OBVIOUS
  <1>1. PICK c \in AnyCommand :
               /\ task' = [task EXCEPT ![p] = [Idle EXCEPT !.step = "begun", !.cmd = c]]
               /\ intact /\ (Target(c) = "project" => \A q \in Procs : ~OnProject(q))
               /\ orderly' = (orderly /\ c[1] # "init_local")
    BY SettingsAssumption DEF Begin
  <1>2. PICK t : t = [Idle EXCEPT !.step = "begun", !.cmd = c]
    OBVIOUS
  <1>3. t.step = "begun" /\ t.cmd = c /\ task' = [task EXCEPT ![p] = t]
    BY <1>1, <1>2 DEF Idle
  <1>4. /\ Tasks /\ file' = file /\ UNCHANGED <<ignore, bak, kept>>
        /\ ~OfProject(task[p])
    BY IdleHolds DEF SettingsInv, Begin, disk
  <1>5. c[1] \in {"ensure", "set", "unset", "recommend", "init_global", "init_local"}
    BY DEF AnyCommand
  <1>6. CASE ~OfProject(t)
    <2>1. c[1] # "init_local"
      BY <1>3, <1>6 DEF OfProject
    <2>2. Same
      BY <1>1, <1>4, <2>1 DEF Same, SettingsInv, Counts
    <2>3. QED
      BY <1>1, <1>3, <1>4, <1>6, <2>2, Elsewhere
  <1>7. CASE OfProject(t)
    <2>1. Target(c) = "project"
      BY <1>3, <1>7 DEF OfProject, Target
    <2>2. \A q \in Procs : ~OfProject(task[q])
      BY <1>1, <1>4, <2>1, OnIsOf
    <2>3. SettledWith(Due)
      BY <1>1, <2>2 DEF SettingsInv, Rest, Unsettling
    <2>4. PICK d, e : d = Due /\ e = Due'
      OBVIOUS
    <2>5. e \subseteq d
      BY <1>1, <1>4, <2>4 DEF Due, Own, LegacyPatterns, SettingsInv, Counts
    <2>6. SettledWith(e)
      BY <2>3, <2>4, <2>5, SettledLess
    <2>7. SettledWith(e)'
      BY <1>4, <2>6 DEF SettledWith, Good, LegacyPatterns
    <2>8. HoldsRight(t)' /\ SettledWith(Due)'
      BY <1>3, <2>4, <2>7 DEF HoldsRight
    <2>9. QED
      BY <1>3, <1>4, <2>2, <2>8, Leaves
  <1>8. QED
    BY <1>6, <1>7

LEMMA EnsureHolds == SettingsInv /\ intact /\ (\E p \in Procs : Ensure(p)) => Midway' /\ Rest'
  <1> SUFFICES ASSUME SettingsInv, intact, NEW p \in Procs, Ensure(p) PROVE Midway' /\ Rest'
    OBVIOUS
  <1>1. OfProject(task[p]) /\ task[p].step = "begun"
    BY DEF Ensure, Is, At, OfProject
  <1>2. SettledWith(Due)
    BY <1>1, Alone DEF Unsettling
  <1>3. Same
    BY DEF Ensure, disk, ghosts, Same
  <1>4. CASE file.project # Absent
    BY <1>1, <1>2, <1>3, <1>4, Alone, SameHolds, EndsSettled DEF Ensure
  <1>5. CASE file.project = Absent
    <2>1. PICK t \in TaskType : task' = [task EXCEPT ![p] = t] /\ t.step = "legacy"
      BY <1>1, <1>5, Alone, Handing DEF Ensure, Steps
    <2>2. SettledWith(Due)' /\ file'.project = Absent
      BY <1>2, <1>3, <1>5, SameHolds DEF Same
    <2>3. HoldsRight(t)'
      BY <2>1, <2>2 DEF HoldsRight
    <2>4. QED
      BY <1>1, <2>1, <2>2, <2>3, Alone, Leaves
  <1>6. QED
    BY <1>4, <1>5

LEMMA ReadLegacyHolds == SettingsInv /\ intact /\ (\E p \in Procs : ReadLegacy(p)) => Midway' /\ Rest'
  <1> SUFFICES ASSUME SettingsInv, intact, NEW p \in Procs, ReadLegacy(p) PROVE Midway' /\ Rest'
    OBVIOUS
  <1>1. OfProject(task[p]) /\ task[p].step = "legacy" /\ task[p].cmd[1] = "ensure"
    BY DEF SettingsInv, ReadLegacy, Tasks, At, OfProject
  <1>2. file.project = Absent /\ SettledWith(Due) /\ SettledWith(Own)
    BY <1>1, Alone, Dues DEF HoldsRight
  <1>3. Same
    BY DEF ReadLegacy, disk, ghosts, Same
  <1>4. SettledWith(Due)' /\ SettledWith(Own)' /\ Due' = Due
    BY <1>2, <1>3, SameHolds
  <1>5. CASE ignore = Absent
    <2>1. Due' = {}
      BY <1>2, <1>4, <1>5 DEF SettledWith
    <2>2. PICK t \in TaskType : /\ task' = [task EXCEPT ![p] = t] /\ t.step = "truncate"
                                /\ t.cmd = task[p].cmd /\ t.text = Default /\ t.pats = <<>>
      BY <1>1, <1>5, Alone, Handing, Tables DEF ReadLegacy
    <2>3. Good(Default, {})'
      BY Tables DEF Good, Once
    <2>4. HoldsRight(t)'
      BY <1>1, <1>4, <2>1, <2>2, <2>3 DEF HoldsRight
    <2>5. QED
      BY <1>1, <1>4, <2>2, <2>4, Alone, Leaves
  <1>6. CASE ignore # Absent
    <2>1. task' = [task EXCEPT ![p] = [task[p] EXCEPT !.step = "retire", !.pats = ignore]]
      BY <1>1, <1>6, Alone DEF ReadLegacy, Tasks
    <2>2. PICK t : t = [task[p] EXCEPT !.step = "retire", !.pats = ignore]
      OBVIOUS
    <2>3. t.step = "retire" /\ t.pats = ignore
      BY <1>1, <2>2, Alone DEF TaskType
    <2>4. HoldsRight(t)'
      BY <1>2, <1>3, <1>4, <1>6, <2>3 DEF HoldsRight, Same
    <2>5. QED
      BY <1>1, <1>4, <2>1, <2>2, <2>4, Alone, Leaves
  <1>7. QED
    BY <1>5, <1>6

LEMMA RetireHolds == SettingsInv /\ intact /\ (\E p \in Procs : Retire(p)) => Midway' /\ Rest'
  <1> SUFFICES ASSUME SettingsInv, intact, NEW p \in Procs, Retire(p) PROVE Midway' /\ Rest'
    OBVIOUS
  <1>1. OfProject(task[p]) /\ task[p].step = "retire" /\ task[p].cmd[1] = "ensure"
    BY DEF SettingsInv, Retire, Tasks, At, OfProject
  <1>2. /\ file.project = Absent /\ SettledWith(Due) /\ ignore # Absent /\ task[p].pats = ignore
    BY <1>1, Alone DEF HoldsRight
  <1>3. file' = file /\ kept' = kept /\ orderly' = orderly
    BY DEF Retire, ghosts
  <1>4. LegacyPatterns' = ignore /\ LegacyPatterns = ignore
    BY <1>2 DEF LegacyPatterns, Retire
  <1>5. Due' = Due /\ Own' = Own
    BY <1>3, <1>4 DEF Due, Own
  <1>6. Due \subseteq ToSet(ignore) /\ Own = {}
    BY <1>2, <1>4, Dues
  <1>7. PICK t \in TaskType : /\ task' = [task EXCEPT ![p] = t] /\ t.step = "truncate"
                              /\ t.cmd = task[p].cmd /\ t.text = Default /\ t.pats = ignore
    <2>1. task[p].pats \in Seq(Patterns) /\ Tasks
      BY <1>1, Alone DEF TaskType
    <2>2. QED
      BY <1>1, <1>2, <2>1, Handing, Tables DEF Retire
  <1>8. ASSUME ignore = <<>> PROVE Good(Default, Due)'
    <2>1. Due' = {}
      BY <1>5, <1>6, <1>8 DEF ToSet
    <2>2. QED
      BY <2>1, Tables DEF Good, Once
  <1>9. SettledWith(Own)'
    BY <1>2, <1>3, <1>5, <1>6 DEF SettledWith
  <1>10. HoldsRight(t)'
    BY <1>1, <1>4, <1>5, <1>6, <1>7, <1>8, <1>9 DEF HoldsRight
  <1>11. Unsettling(t)
    BY <1>1, <1>7 DEF Unsettling, OfProject
  <1>12. QED
    BY <1>1, <1>7, <1>10, <1>11, Alone, Leaves

LEMMA RereadHolds == SettingsInv /\ intact /\ (\E p \in Procs : Reread(p)) => Midway' /\ Rest'
  <1> SUFFICES ASSUME SettingsInv, intact, NEW p \in Procs, Reread(p) PROVE Midway' /\ Rest'
    OBVIOUS
  <1>1. OfProject(task[p]) /\ At(p, "reread") /\ task[p].step = "reread" /\ task[p].cmd[1] = "ensure"
    BY DEF SettingsInv, Reread, Tasks, At, OfProject
  <1>2. file.project = Default /\ task[p].pats = LegacyPatterns /\ Due \subseteq ToSet(LegacyPatterns)
    BY <1>1, Alone DEF HoldsRight
  <1>3. Same
    BY DEF Reread, disk, ghosts, Same
  <1>4. task[p].pats \in Seq(Patterns) /\ LegacyPatterns' = LegacyPatterns /\ Due' = Due /\ Own' = {}
    BY <1>1, <1>2, <1>3, Alone, SameHolds, Dues DEF TaskType
  <1> DEFINE x == WithExcludes(file.project, task[p].pats)
  <1>5. x \in Table /\ x.server # Unset /\ x.exclude = LegacyPatterns
    BY <1>1, <1>2, <1>4, Alone, Written, Tables DEF WithExcludes
  <1>6. PICK t \in TaskType : /\ task' = [task EXCEPT ![p] = t] /\ t.step = "truncate"
                              /\ t.cmd = task[p].cmd /\ t.text = x /\ t.pats = <<>>
    BY <1>1, <1>5, Alone, Handing DEF Reread
  <1>7. Good(t.text, Due)'
    BY <1>2, <1>4, <1>5, <1>6 DEF Good
  <1>8. SettledWith(Own)'
    <2>1. Good(Default, {})'
      BY Tables DEF Good, Once
    <2>2. file'.project = Default /\ Default # Absent
      BY <1>2, <1>3, Tables, SettingsAssumption DEF Same
    <2>3. QED
      BY <1>4, <2>1, <2>2 DEF SettledWith, Good
  <1>9. HoldsRight(t)'
    BY <1>1, <1>6, <1>7, <1>8 DEF HoldsRight
  <1>10. Unsettling(t)
    BY <1>1, <1>6 DEF Unsettling, OfProject
  <1>11. QED
    BY <1>1, <1>6, <1>9, <1>10, Alone, Leaves

LEMMA RecommendHolds == SettingsInv /\ intact /\ (\E p \in Procs : Recommend(p)) => Midway' /\ Rest'
  <1> SUFFICES ASSUME SettingsInv, intact, NEW p \in Procs, Recommend(p) PROVE Midway' /\ Rest'
    OBVIOUS
  <1>1. OfProject(task[p]) /\ task[p].step = "begun" /\ task[p].cmd[1] = "recommend"
    BY DEF Recommend, Is, At, OfProject
  <1>2. Files /\ Tasks /\ SettledWith(Due)
    BY <1>1, Alone DEF Unsettling
  <1>3. Same
    BY DEF Recommend, disk, ghosts, Same
  <1>4. SettledWith(Due)' /\ LegacyPatterns' = LegacyPatterns /\ Due' = Due
    BY <1>2, <1>3, SameHolds
  <1>5. CASE End(p)
    BY <1>1, <1>4, <1>5, Alone, EndsSettled
  <1>6. CASE ~End(p)
    <2> DEFINE x == Arg(p, 2)
               new(old) == [file.project EXCEPT !.exclude = Merged(old, x)]
    <2>1. PICK old \in Seq(Patterns) :
                 /\ file.project \in Table /\ new(old) \in Table
                 /\ new(old).exclude = Merged(old, x) /\ new(old).server = file.project.server
                 /\ file.project.exclude = old \/ (file.project.exclude = Unset /\ old = <<>>)
                 /\ Writes(p, new(old))
      BY <1>2, <1>6, Recommending
    <2>2. file.project # Absent /\ file.project.exclude # NotArray
      BY <1>6 DEF Recommend, Layer
    <2>3. Good(file.project, Due)
      BY <1>2, <2>2 DEF SettledWith
    <2>4. file.project.exclude = old
      BY <2>1, <2>3, SettingsAssumption DEF Good
    <2>5. x \in Patterns
      BY <1>1, <1>2, Written
    <2>6. PICK k, L : k = Due /\ L = LegacyPatterns
      OBVIOUS
    <2>7. k \subseteq ToSet(old) /\ \A y \in Patterns : Once(y, old) \/ ~Once(y, L)
      BY <2>3, <2>4, <2>6 DEF Good
    <2>8. /\ Merged(old, x) \in Seq(Patterns)
          /\ k \cup {x} \subseteq ToSet(Merged(old, x))
          /\ \A y \in Patterns : Once(y, Merged(old, x)) \/ ~Once(y, L)
      BY <2>5, <2>7, MergedGood
    <2>9. PICK t \in TaskType : /\ task' = [task EXCEPT ![p] = t] /\ t.step = "truncate"
                                /\ t.cmd = task[p].cmd /\ t.text = new(old) /\ t.pats = <<>>
      BY <1>2, <2>1, Handing
    <2>10. t.cmd[2] = x /\ t.text.server # Unset /\ t.text.exclude = Merged(old, x)
      BY <2>1, <2>3, <2>9 DEF Good, Arg
    <2>11. Good(t.text, Due \cup {t.cmd[2]})'
      <3>1. Due' = k /\ LegacyPatterns' = L
        BY <1>4, <2>6
      <3>2. QED
        BY <2>8, <2>10, <3>1 DEF Good
    <2>12. HoldsRight(t)'
      BY <1>1, <1>4, <2>9, <2>11 DEF HoldsRight
    <2>13. QED
      BY <1>1, <1>2, <1>4, <2>9, <2>12, Alone, Leaves
  <1>7. QED
    BY <1>5, <1>6

LEMMA InitConfigHolds == SettingsInv /\ intact /\ (\E p \in Procs : InitConfig(p)) => Midway' /\ Rest'
  <1> SUFFICES ASSUME SettingsInv, intact, NEW p \in Procs, InitConfig(p) PROVE Midway' /\ Rest'
    OBVIOUS
  <1>1. Tasks /\ task[p].step = "begun" /\ ~At(p, "idle") /\ Same
    BY DEF SettingsInv, InitConfig, Is, At, disk, ghosts, Same
  <1>2. End(p) \/ Writes(p, Default)
    BY DEF InitConfig
  <1>3. PICK t : /\ task' = [task EXCEPT ![p] = t]
                 /\ \/ t = Idle
                    \/ t.step = "truncate" /\ t.cmd = task[p].cmd /\ t.text = Default /\ t.pats = <<>>
    <2>1. CASE End(p)
      BY <2>1 DEF End
    <2>2. CASE Writes(p, Default)
      BY <1>1, <2>2, Handing, Tables
    <2>3. QED
      BY <1>2, <2>1, <2>2
  <1>4. CASE task[p].cmd[1] = "init_global"
    <2>1. ~OfProject(task[p]) /\ ~OfProject(t)
      BY <1>3, <1>4, IdleHolds DEF OfProject
    <2>2. QED
      BY <1>1, <1>3, <2>1, Elsewhere
  <1>5. CASE task[p].cmd[1] = "init_local"
    <2>1. OfProject(task[p])
      BY <1>5 DEF OfProject
    <2>2. SettledWith(Due) /\ SettledWith(Due)' /\ Due' = Due
      BY <1>1, <2>1, Alone, SameHolds DEF Unsettling
    <2>3. CASE t = Idle
      <3>1. HoldsRight(t)'
        BY <2>3, IdleHolds DEF HoldsRight, OfProject
      <3>2. QED
        BY <1>1, <1>3, <2>1, <2>2, <3>1, Alone, Leaves
    <2>4. CASE t # Idle
      <3>1. ~End(p)
        BY <1>1, <1>3, <2>4 DEF End, Tasks
      <3>2. file.project = Absent
        <4>1. task[p].cmd \in AnyCommand /\ task[p].cmd # <<"init_local", TRUE>>
          BY <1>5, <2>1, Alone DEF SettingsInv, OneByOne
        <4>2. task[p].cmd \in {"init_global", "init_local"} \X BOOLEAN
          BY <1>5, <4>1 DEF AnyCommand
        <4>3. PICK b \in BOOLEAN : task[p].cmd = <<"init_local", b>>
          BY <1>5, <4>2
        <4>4. b = FALSE
          BY <4>1, <4>3
        <4>5. Arg(p, 2) = FALSE
          BY <4>3, <4>4 DEF Arg
        <4>6. QED
          BY <1>5, <3>1, <4>5 DEF InitConfig, Target
      <3>3. ~orderly
        BY <1>5 DEF SettingsInv, OneByOne
      <3>4. Due' = {}
        BY <2>2, <3>2, <3>3, Dues DEF Due
      <3>5. Good(Default, {})'
        BY Tables DEF Good, Once
      <3>6. HoldsRight(t)'
        BY <1>3, <1>5, <2>2, <2>4, <3>4, <3>5 DEF HoldsRight
      <3>7. QED
        BY <1>1, <1>3, <2>1, <2>2, <3>6, Alone, Leaves
    <2>5. QED
      BY <2>3, <2>4
  <1>6. QED
    BY <1>4, <1>5 DEF InitConfig, Is

LEMMA GlobalHolds ==
  SettingsInv /\ intact /\ (\E p \in Procs : SetKey(p) \/ UnsetKey(p)) => Midway' /\ Rest'
  <1> SUFFICES ASSUME SettingsInv, intact, NEW p \in Procs, SetKey(p) \/ UnsetKey(p)
               PROVE Midway' /\ Rest'
    OBVIOUS
  <1>1. Tasks /\ Command(p) /\ Same
    BY DEF SettingsInv, Command, SetKey, UnsetKey, disk, ghosts, Same
  <1>2. task[p].cmd[1] \in {"set", "unset"}
    BY DEF SetKey, UnsetKey, Is
  <1>3. PICK t : task' = [task EXCEPT ![p] = t] /\ (t = Idle \/ t.cmd = task[p].cmd)
    BY <1>1, GoesOn
  <1>4. ~OfProject(task[p]) /\ ~OfProject(t)
    BY <1>2, <1>3, IdleHolds DEF OfProject
  <1>5. QED
    BY <1>1, <1>3, <1>4, Elsewhere

\* A write of the global file is none of the project's.
LEMMA GlobalWrite ==
  ASSUME SettingsInv, intact, NEW p \in Procs, Truncate(p) \/ Fill(p), ~OfProject(task[p])
  PROVE  Midway' /\ Rest'
  <1>1. Tasks /\ Files /\ Command(p) /\ ~At(p, "idle")
    BY DEF SettingsInv, Command, Truncate, Fill, At
  <1>2. task[p] \in TaskType /\ task[p].cmd \in AnyCommand
    BY <1>1, Handing DEF Tasks
  <1>3. task[p].cmd[1] \in {"set", "unset", "init_global"}
    BY <1>2 DEF AnyCommand, OfProject
  <1>4. Target(task[p].cmd) = "global"
    BY <1>3 DEF Target
  <1>5. file'.project = file.project
    BY <1>1, <1>4 DEF Truncate, Fill, Files
  <1>6. kept' = kept
    BY <1>3 DEF Truncate, Fill, ghosts
  <1>7. Same
    BY <1>5, <1>6 DEF Same, Truncate, Fill, ghosts
  <1>8. PICK t : task' = [task EXCEPT ![p] = t] /\ (t = Idle \/ t.cmd = task[p].cmd)
    BY <1>1, GoesOn
  <1>9. ~OfProject(t)
    BY <1>3, <1>8, IdleHolds DEF OfProject
  <1>10. QED
    BY <1>7, <1>8, <1>9, Elsewhere

LEMMA TruncateHolds == SettingsInv /\ intact /\ (\E p \in Procs : Truncate(p)) => Midway' /\ Rest'
  <1> SUFFICES ASSUME SettingsInv, intact, NEW p \in Procs, Truncate(p), OfProject(task[p])
               PROVE Midway' /\ Rest'
    BY GlobalWrite
  <1>1. task[p].step = "truncate" /\ Tasks /\ HoldsRight(task[p])
    BY Alone DEF Truncate, At
  <1>2. PICK t \in TaskType : /\ task' = [task EXCEPT ![p] = t] /\ t.step = "fill"
                              /\ t.cmd = task[p].cmd /\ t.text = task[p].text /\ t.pats = task[p].pats
    BY <1>1, Handing DEF Truncate, Steps
  <1>3. UNCHANGED <<ignore, bak, kept, orderly>>
    BY DEF Truncate, ghosts
  <1>4. LegacyPatterns' = LegacyPatterns /\ Due' = Due
    BY <1>3 DEF LegacyPatterns, Due, Own
  <1>5. IF t.pats = <<>>
          THEN Good(t.text, IF t.cmd[1] = "recommend" THEN Due \cup {t.cmd[2]} ELSE Due)
          ELSE t.text = Default /\ t.pats = LegacyPatterns /\ Due \subseteq ToSet(LegacyPatterns)
    BY <1>1, <1>2 DEF HoldsRight
  <1>6. HoldsRight(t)'
    BY <1>2, <1>4, <1>5 DEF HoldsRight, Good
  <1>7. Unsettling(t)
    BY <1>2 DEF Unsettling, OfProject
  <1>8. QED
    BY <1>1, <1>2, <1>6, <1>7, Alone, Leaves

LEMMA FillHolds == SettingsInv /\ intact /\ (\E p \in Procs : Fill(p)) => Midway' /\ Rest'
  <1> SUFFICES ASSUME SettingsInv, intact, NEW p \in Procs, Fill(p), OfProject(task[p])
               PROVE Midway' /\ Rest'
    BY GlobalWrite
  <1>1. Files /\ Tasks /\ task[p].step = "fill" /\ At(p, "fill") /\ HoldsRight(task[p])
    BY Alone DEF Fill, At
  <1>2. UNCHANGED <<ignore, bak, orderly>> /\ LegacyPatterns' = LegacyPatterns
    BY DEF Fill, LegacyPatterns
  <1>3. task[p].text \in Table /\ task[p].text # Absent
    BY <1>1, Written, SettingsAssumption
  <1>4. file'.project = task[p].text
    BY <1>1 DEF Fill, Target, Files, OfProject
  <1>5. CASE task[p].pats = <<>>
    <2> DEFINE d == IF task[p].cmd[1] = "recommend" THEN Due \cup {task[p].cmd[2]} ELSE Due
    <2>1. Good(task[p].text, d)
      BY <1>1, <1>5 DEF HoldsRight
    <2>2. Due' \subseteq d
      BY <1>2 DEF Fill, Arg, Due, Own
    <2>3. Good(file'.project, Due') /\ file'.project # Absent
      BY <1>3, <1>4, <2>1, <2>2 DEF Good
    <2>4. SettledWith(Due)'
      BY <1>2, <2>3 DEF SettledWith, Good
    <2>5. QED
      BY <1>1, <1>5, <2>4, Alone, EndsSettled DEF Fill
  <1>6. CASE task[p].pats # <<>>
    <2>1. task[p].cmd[1] = "ensure"
      BY <1>1, <1>6 DEF Tasks
    <2>2. kept' = kept /\ Go(p, "reread") /\ Due' = Due
      BY <1>2, <1>6, <2>1 DEF Fill, Due, Own
    <2>3. PICK t \in TaskType : /\ task' = [task EXCEPT ![p] = t] /\ t.step = "reread"
                                /\ t.cmd = task[p].cmd /\ t.pats = task[p].pats
      BY <1>1, <2>2, Handing DEF Steps
    <2>4. task[p].text = Default /\ task[p].pats = LegacyPatterns /\ Due \subseteq ToSet(LegacyPatterns)
      BY <1>1, <1>6 DEF HoldsRight
    <2>5. HoldsRight(t)'
      BY <1>2, <1>4, <2>2, <2>3, <2>4 DEF HoldsRight
    <2>6. Unsettling(t)
      BY <2>1, <2>3 DEF Unsettling, OfProject
    <2>7. QED
      BY <1>1, <2>3, <2>5, <2>6, Alone, Leaves
  <1>7. QED
    BY <1>5, <1>6

LEMMA MishapHolds == SettingsInv /\ intact' /\ (\E p \in Procs : Mishap(p)) => Midway' /\ Rest'
  <1> SUFFICES ASSUME SettingsInv, intact', NEW p \in Procs, Mishap(p) PROVE Midway' /\ Rest'
    OBVIOUS
  <1>1. /\ intact /\ ~(At(p, "fill") /\ OnProject(p)) /\ End(p) /\ Tasks
        /\ orderly' = (orderly /\ ~(task[p].cmd[1] = "ensure" /\ task[p].step \in {"truncate", "fill", "reread"}))
        /\ file' = file /\ UNCHANGED <<ignore, bak, kept>>
    BY DEF Mishap, SettingsInv, Counts, disk
  <1>2. LegacyPatterns' = LegacyPatterns /\ orderly \in BOOLEAN
    BY <1>1 DEF LegacyPatterns, SettingsInv, Counts
  <1>3. CASE ~OfProject(task[p])
    <2>1. Same
      BY <1>1, <1>2, <1>3 DEF Same, OfProject
    <2>2. PICK t : t = Idle /\ task' = [task EXCEPT ![p] = t]
      BY <1>1 DEF End
    <2>3. QED
      BY <1>1, <1>3, <2>1, <2>2, IdleHolds, Elsewhere
  <1>4. CASE OfProject(task[p]) /\ ~Unsettling(task[p])
    <2>1. SettledWith(Due)
      BY <1>1, <1>4, Alone
    <2>2. Same
      BY <1>1, <1>2, <1>4 DEF Same, Unsettling
    <2>3. QED
      BY <1>1, <1>4, <2>1, <2>2, Alone, SameHolds, EndsSettled
  <1>5. CASE OfProject(task[p]) /\ Unsettling(task[p])
    <2>1. task[p].step \in {"truncate", "reread"}
      BY <1>1, <1>5, OnIsOf DEF Unsettling, At
    <2>2. HoldsRight(task[p])
      BY <1>1, <1>5, Alone
    <2>3. CASE task[p].step = "truncate"
      <3>1. PICK k : k = Due' /\ SettledWith(k)
        BY <1>1, <1>2, <1>5, <2>2, <2>3 DEF HoldsRight, Due, Own
      <3>2. SettledWith(k)'
        BY <1>1, <1>2, <3>1 DEF SettledWith, Good
      <3>3. SettledWith(Due)'
        BY <3>1, <3>2
      <3>4. QED
        BY <1>1, <1>5, <3>3, Alone, EndsSettled
    <2>4. CASE task[p].step = "reread"
      <3>1. task[p].cmd[1] = "ensure"
        BY <1>1, <2>4 DEF Tasks, At
      <3>2. file'.project = Default /\ Due \subseteq ToSet(LegacyPatterns) /\ Default # Absent
        BY <1>1, <1>5, <2>2, <2>4, Tables, SettingsAssumption DEF HoldsRight
      <3>3. Due' = {}
        BY <1>1, <1>2, <2>4, <3>1, <3>2, Dues DEF Due, Own
      <3>4. Good(Default, {})'
        BY Tables DEF Good, Once
      <3>5. SettledWith(Due)'
        BY <3>2, <3>3, <3>4 DEF SettledWith, Good
      <3>6. QED
        BY <1>1, <1>5, <3>5, Alone, EndsSettled
    <2>5. QED
      BY <2>1, <2>3, <2>4
  <1>6. QED
    BY <1>3, <1>4, <1>5

LEMMA UserEditsHolds == SettingsInv /\ intact /\ UserEdits => Midway' /\ Rest'
  <1> SUFFICES ASSUME SettingsInv, intact, UserEdits PROVE Midway' /\ Rest'
    OBVIOUS
  <1>1. \A q \in Procs : task[q] = Idle /\ task'[q] = Idle
    BY DEF UserEdits, AtRest
  <1>2. SettledWith(Due) /\ LegacyPatterns' = LegacyPatterns
    BY <1>1, IdleHolds DEF SettingsInv, Rest, UserEdits, LegacyPatterns, Unsettling
  <1>3. file.project \in Table /\ file.project # Absent /\ UserPattern \in Patterns
    BY DEF SettingsInv, Files, UserEdits, Patterns
  <1> DEFINE now == file.project.exclude
             old == IF now = NotArray THEN <<>> ELSE now
  <1>4. old \in Seq(Patterns) /\ file.project.server # Unset
    BY <1>2, <1>3 DEF SettledWith, Good
  <1>5. PICK k, L : k = Due /\ L = LegacyPatterns
    OBVIOUS
  <1>6. k \subseteq ToSet(old) /\ \A y \in Patterns : Once(y, old) \/ ~Once(y, L)
    <2>1. CASE now = NotArray
      BY <1>2, <1>3, <1>5, <2>1, SettingsAssumption DEF SettledWith, Good, Once
    <2>2. CASE now # NotArray
      BY <1>2, <1>3, <1>5, <2>2 DEF SettledWith, Good
    <2>3. QED
      BY <2>1, <2>2
  <1>7. Merged(IF now = NotArray THEN Unset ELSE now, UserPattern) = Merged(old, UserPattern)
    BY MergedUnset
  <1>8. /\ Merged(old, UserPattern) \in Seq(Patterns)
        /\ k \cup {UserPattern} \subseteq ToSet(Merged(old, UserPattern))
        /\ \A y \in Patterns : Once(y, Merged(old, UserPattern)) \/ ~Once(y, L)
    BY <1>3, <1>4, <1>6, MergedGood
  <1>9. file'.project = [file.project EXCEPT !.exclude = Merged(old, UserPattern)]
    BY <1>7 DEF SettingsInv, Files, UserEdits
  <1>10. /\ file'.project \in Table /\ file'.project.exclude = Merged(old, UserPattern)
         /\ file'.project.server = file.project.server
    BY <1>3, <1>8, <1>9, Tables
  <1>11. /\ file'.project # Absent /\ LegacyPatterns' = L
         /\ kept' = kept \cup {UserPattern} /\ orderly' = orderly
    BY <1>2, <1>5, <1>10, SettingsAssumption DEF UserEdits
  <1>12. Due' \subseteq k \cup {UserPattern}
    BY <1>2, <1>5, <1>11 DEF Due, Own
  <1>13. SettledWith(Due)'
    BY <1>4, <1>8, <1>10, <1>11, <1>12 DEF SettledWith, Good
  <1>14. QED
    BY <1>1, <1>13, IdleHolds DEF Midway, Rest, HoldsRight, OfProject

LEMMA MidwayRestNext == SettingsInv /\ [Next]_vars => Midway' /\ Rest'
  <1> SUFFICES ASSUME SettingsInv, [Next]_vars, intact' PROVE Midway' /\ Rest'
    BY DEF Midway, Rest
  <1>1. CASE \E p \in Procs : Begin(p)
    BY <1>1, BeginHolds
  <1>2. CASE \E p \in Procs : Command(p)
    <2>1. intact
      BY <1>2, GoesOn DEF SettingsInv
    <2>2. QED
      BY <1>2, <2>1, EnsureHolds, ReadLegacyHolds, RetireHolds, RereadHolds, RecommendHolds,
         InitConfigHolds, GlobalHolds, TruncateHolds, FillHolds DEF Command
  <1>3. CASE \E p \in Procs : Mishap(p)
    BY <1>3, MishapHolds
  <1>4. CASE UserEdits
    BY <1>4, UserEditsHolds DEF UserEdits
  <1>5. CASE UNCHANGED vars
    <2>1. intact /\ Same /\ task' = task
      BY <1>5 DEF vars, disk, ghosts, Same
    <2>2. ASSUME NEW p \in Procs PROVE HoldsRight(task[p])'
      <3>1. PICK u : u = task[p] /\ u = task'[p]
        BY <2>1
      <3>2. HoldsRight(u)
        BY <2>1, <3>1 DEF SettingsInv, Midway
      <3>3. QED
        BY <2>1, <3>1, <3>2, SameHolds
    <2>3. (\A p \in Procs : ~Unsettling(task'[p])) => SettledWith(Due)'
      BY <2>1, SameHolds DEF SettingsInv, Rest
    <2>4. QED
      BY <2>2, <2>3 DEF Midway, Rest
  <1>6. QED
    BY <1>1, <1>2, <1>3, <1>4, <1>5 DEF Next

-----------------------------------------------------------------------------
(* The theorems.                                                           *)

LEMMA SettingsNext == SettingsInv /\ [Next]_vars => SettingsInv'
  BY FilesNext, TasksNext, CountsNext, OneByOneNext, MidwayRestNext DEF SettingsInv

LEMMA SettingsInvariant == Spec => []SettingsInv
  BY SettingsInit, SettingsNext, PTL DEF Spec

\* Every variable has its type, and what a command is about to write or to
\* migrate is there (config.rs).
THEOREM SettingsTypeCorrect == Spec => []TypeOK
  <1>1. SettingsInv => TypeOK
    <2> SUFFICES ASSUME SettingsInv PROVE TypeOK
      OBVIOUS
    <2>1. \A f \in DOMAIN file : file[f] = Absent \/ DOMAIN file[f] = {"server", "conf", "exclude"}
      BY DEF SettingsInv, Files, Table
    <2>2. ASSUME NEW p \in Procs
          PROVE  /\ task[p].step \in {"idle", "begun", "legacy", "retire", "reread", "truncate", "fill"}
                 /\ task[p].step \in {"truncate", "fill"} => task[p].text # Absent
                 /\ At(p, "reread") => task[p].pats # <<>>
      BY DEF SettingsInv, Tasks, Steps, At
    <2>3. QED
      BY <2>1, <2>2 DEF SettingsInv, Files, Counts, TypeOK
  <1>2. QED
    BY <1>1, SettingsInvariant, PTL

\* Whenever no command runs, whatever was killed or failed to write in between,
\* no pattern the user counts on is lost and the project's file is whole; the
\* exceptions are a write of the project's file cut off between its truncation
\* and its filling, two commands on it at once, and `config init --force'.  It
\* is in effect too, but for what .coregraph/ignore had when a first start was
\* cut short or `config init' came first (config.rs ensure_local_default,
\* apply_recommendations).
THEOREM SettingsKeptHolds == Spec => []SettingsKept
  <1>1. SettingsInv => SettingsKept
    <2> SUFFICES ASSUME SettingsInv, intact, AtRest PROVE SettingsKept
      BY DEF SettingsKept
    <2>1. \A p \in Procs : ~Unsettling(task[p])
      BY IdleHolds DEF AtRest, Unsettling
    <2>2. SettledWith(Due)
      BY <2>1 DEF SettingsInv, Rest
    <2>3. kept \subseteq Due \cup ToSet(LegacyPatterns) /\ (orderly => Due = kept)
      BY Dues DEF Due
    <2>4. CASE file.project = Absent
      <3>1. kept \subseteq ToSet(LegacyPatterns)
        BY <2>2, <2>3, <2>4, Dues
      <3>2. QED
        BY <2>4, <3>1 DEF SettingsKept
    <2>5. CASE file.project # Absent
      <3>1. /\ Due \subseteq InEffect
            /\ file.project.server # Unset
            /\ file.project.exclude # NotArray =>
                 \A x \in Patterns : Once(x, file.project.exclude) \/ ~Once(x, LegacyPatterns)
        <4>1. CASE file.project.exclude = NotArray /\ file.project.server # Unset /\ Due = {}
          BY <4>1
        <4>2. CASE Good(file.project, Due)
          <5>1. file.project.exclude \notin {Unset, NotArray}
            BY <4>2, SettingsAssumption DEF Good
          <5>2. QED
            BY <2>5, <4>2, <5>1 DEF Good, InEffect, Layer
        <4>3. QED
          BY <2>2, <2>5, <4>1, <4>2 DEF SettledWith
      <3>2. QED
        BY <2>3, <3>1 DEF SettingsKept
    <2>6. QED
      BY <2>4, <2>5
  <1>2. QED
    BY <1>1, SettingsInvariant, PTL
=============================================================================
