--------------------------- MODULE HealingProofs ---------------------------
(***************************************************************************)
(* Theorems about Healing, for every set of files and of request threads,  *)
(* whatever the files hold at the start and however many edits, loads and  *)
(* requests there are.                                                     *)
(***************************************************************************)
EXTENDS Healing, TLAPS

\* TypeOK by the parts of the state it is about.
Sources ==
    /\ disk \in [File -> [hash : Hash, time : 0..now]]
    /\ now \in 0..MaxEdits /\ edits = now
    /\ events \subseteq touched
    /\ touched \subseteq File /\ moved \subseteq touched /\ skipped \subseteq File
    /\ tracker \in [File -> Hash]
    /\ own \in BOOLEAN /\ warmed \in BOOLEAN /\ seeded \subseteq File /\ requests \in Nat
Graphs ==
    /\ loads \in 0..MaxLoads /\ current \in {None, loads}
    /\ content \in [Graph -> [File -> Hash]]
    /\ seen \in [Graph -> SUBSET File]
    /\ \A g \in Graph : \A f \in seen[g] : content[g][f] # Absent
    /\ builtAt \in [Graph -> 0..now]
\* A snapshot is a graph's, and what it had wrong is remembered.
Stored ==
    /\ snapshot # NoSnapshot =>
         /\ snapshot \in [content : [File -> Hash], seen : SUBSET File, builtAt : 0..now]
         /\ \A f \in snapshot.seen : snapshot.content[f] # Absent
    /\ evictions \in 0..MaxEvictions
    /\ inherited \subseteq File
Labels ==
    /\ pc \in [Actor -> {"idle", "preload", "seed", "warm", "get", "check", "observe", "lock",
                         "heal", "mark", "answer", "reindex", "rebuild"}]
    /\ \A t \in Thread : pc[t] \in {"idle", "check", "observe", "lock", "heal", "mark", "answer",
                                    "reindex"}
    /\ pc[Watcher] \in {"idle", "get", "rebuild", "mark"}
    /\ pc[Preload] \in {"idle", "preload", "seed", "warm"}
    /\ kind \in [Thread -> Kinds]
\* Who has a graph, and a batch: a thread that has work to do.
Holding ==
    /\ held \in [Actor -> Graph \cup {None}]
    /\ \A a \in Actor : held[a] <= loads
    /\ \A a \in Actor : pc[a] \notin {"idle", "preload", "warm", "get"} => held[a] # None
Locks ==
    /\ writer \in [Graph -> Thread \cup {NoThread}]
    /\ \A t \in Thread, g \in Graph : (writer[g] = t) <=> (pc[t] = "heal" /\ held[t] = g)
Batches ==
    /\ files \in [Actor -> SUBSET File]
    /\ todo \in [Thread -> SUBSET File]
    /\ healed \in [Thread -> SUBSET File]
    /\ stale \in [Thread -> SUBSET File]
    /\ \A t \in Thread : /\ todo[t] \cup healed[t] \cup stale[t] \subseteq files[t]
                         /\ todo[t] \cap (healed[t] \cup stale[t]) = {}
                         /\ healed[t] \cap stale[t] = {}
    /\ pc[Watcher] = "idle" => files[Watcher] = {}
    /\ \A t \in Thread : /\ pc[t] \in {"idle", "check", "reindex"} => files[t] = {}
                         /\ pc[t] = "observe" => todo[t] \cup healed[t] \cup stale[t] = {}
                         /\ pc[t] \in {"mark", "answer"} => todo[t] = {}

\* The watcher and the preload are for the default project, and no query heals
\* before it is warmed.
Phases ==
    /\ ~own => /\ pc[Watcher] = "idle" /\ pc[Preload] = "idle"
               /\ events = {} /\ warmed /\ seeded = {}
    /\ pc[Preload] \in {"preload", "seed"} => ~warmed /\ seeded = {}
    /\ ~warmed => \A t \in Thread : pc[t] \notin {"observe", "lock", "heal"} /\ files[t] = {}

\* A file nobody touched is what the seeded tracker takes it for.
Untouched == \A f \in seeded \ touched : tracker[f] = disk[f].hash

\* What WatcherOwes needs to be inductive: from when the watcher has read its
\* batch again, or has a graph that was replaced or evicted meanwhile, a wrong
\* file was edited since, and its event waits, or comes from the snapshot.
BatchDone == pc[Watcher] = "mark" \/ (pc[Watcher] = "rebuild" /\ held[Watcher] # current)
EventsOwed == own /\ BatchDone => \A f \in File : Wrong(f) => f \in events \cup inherited

\* Without a watcher, a wrong file is one that some query has to heal, unless
\* it was removed, edited since, passed over, or wrong in the snapshot.
Accounted ==
    ~own => \A f \in File : Wrong(f) =>
        \/ disk[f].hash = Absent
        \/ f \in moved \cup skipped \cup inherited
        \/ \E t \in Thread : held[t] = current /\ f \in todo[t]

Basics == Sources /\ Graphs /\ Stored /\ Labels /\ Holding /\ Locks /\ Batches /\ Phases
HealingInv == Basics /\ Untouched /\ OnlyTouchedHealed /\ WatcherOwes /\ EventsOwed /\ Accounted

-----------------------------------------------------------------------------
LEMMA HealingInit == Init => HealingInv
  <1> SUFFICES ASSUME Init PROVE HealingInv
    OBVIOUS
  <1> USE ConstantsAssumption DEF Init, Hash, Graph, Actor, None, Absent, Blank
  <1>1. Sources
    <2>1. StartHash \subseteq Hash /\ 0 \in 0..now /\ now \in 0..MaxEdits /\ Absent \in Hash
      OBVIOUS
    <2>2. disk \in [File -> [hash : Hash, time : 0..now]]
      <3> HIDE DEF Hash
      <3>1. [hash : StartHash, time : {0}] \subseteq [hash : Hash, time : 0..now]
        BY <2>1
      <3>2. QED
        BY <3>1
    <2>3. tracker \in [File -> Hash]
      BY <2>1
    <2>4. QED
      BY <2>1, <2>2, <2>3 DEF Sources
  <1>2. Graphs /\ Holding /\ Locks
    BY DEF Graphs, Holding, Locks
  <1>9. Stored
    <2>1. StartHash \subseteq Hash /\ 0 \in 0..now /\ evictions = 0 /\ 0 \in 0..MaxEvictions /\ inherited = {}
      OBVIOUS
    <2>2. ASSUME snapshot # NoSnapshot
          PROVE  /\ snapshot \in [content : [File -> Hash], seen : SUBSET File, builtAt : 0..now]
                 /\ \A f \in snapshot.seen : snapshot.content[f] # Absent
      <3> HIDE DEF Hash
      <3>1. snapshot \in Left /\ snapshot.seen = {f \in File : snapshot.content[f] # Absent}
        BY <2>2
      <3>2. [File -> StartHash] \subseteq [File -> Hash]
        BY <2>1
      <3>3. QED
        BY <2>1, <3>1, <3>2 DEF Left
    <2>3. QED
      BY <2>1, <2>2 DEF Stored
  <1>3. Labels
    BY DEF Labels, Kinds
  <1>4. Batches
    BY DEF Batches
  <1>5. Phases
    BY DEF Phases
  <1>6. Untouched /\ OnlyTouchedHealed
    BY DEF Untouched, OnlyTouchedHealed
  <1>7. WatcherOwes /\ EventsOwed /\ Accounted
    BY DEF WatcherOwes, EventsOwed, Accounted, Wrong
  <1>8. QED
    BY <1>1, <1>2, <1>9, <1>3, <1>4, <1>5, <1>6, <1>7 DEF HealingInv, Basics

\* get_or_load gives the resident graph, or a new one; what the new one has
\* wrong is inherited.
LEMMA Loading ==
  ASSUME Sources, Graphs, Stored, NEW a \in Actor, NEW refresh \in BOOLEAN, GetOrLoad(a, refresh),
         UNCHANGED sourceVars
  PROVE  /\ held' = [held EXCEPT ![a] = loads']
         /\ loads' \in Graph /\ loads <= loads' /\ current' = loads'
         /\ Graphs'
         /\ \/ UNCHANGED <<graphVars, inherited>>
            \/ /\ loads' = loads + 1
               /\ inherited' = {f \in File : content'[loads'][f] # disk[f].hash} \ events
  <1>1. CASE UNCHANGED <<graphVars, inherited>> /\ current # None /\ held' = [held EXCEPT ![a] = current]
    <2>1. /\ current = loads /\ loads \in Nat /\ loads # 0 /\ loads \in 0..MaxLoads
          /\ UNCHANGED <<current, loads, content, seen, builtAt, inherited, now>>
      BY <1>1, ConstantsAssumption DEF Graphs, None, graphVars, sourceVars
    <2>2. loads' \in Graph /\ loads <= loads' /\ current' = loads'
      BY <2>1, ConstantsAssumption DEF Graph
    <2>3. Graphs'
      BY <2>1 DEF Graphs, Graph
    <2>4. QED
      BY <1>1, <2>1, <2>2, <2>3
  <1>2. CASE ~(UNCHANGED <<graphVars, inherited>> /\ current # None /\ held' = [held EXCEPT ![a] = current])
    <2>1. /\ loads < MaxLoads /\ loads' = loads + 1 /\ current' = loads'
          /\ content' = [content EXCEPT ![loads'] = Loaded.content]
          /\ seen' = [seen EXCEPT ![loads'] = Loaded.seen]
          /\ builtAt' = [builtAt EXCEPT ![loads'] = Loaded.builtAt]
          /\ inherited' = {f \in File : Loaded.content[f] # disk[f].hash} \ events
          /\ held' = [held EXCEPT ![a] = loads']
      BY <1>2 DEF GetOrLoad
    <2>2. loads' \in Graph /\ loads <= loads' /\ loads' \in 0..MaxLoads
      BY <2>1, ConstantsAssumption DEF Graphs, Graph
    <2>3. now' = now /\ now \in 0..now
      BY DEF Sources, sourceVars
    <2>4. PICK c \in [File -> Hash], S \in SUBSET File, b \in 0..now :
             /\ Loaded.content = c /\ Loaded.seen = S /\ Loaded.builtAt = b
             /\ \A f \in S : c[f] # Absent
      <3>1. CASE Warmable
        BY <3>1 DEF Loaded, Warmable, Stored
      <3>2. CASE ~Warmable
        <4>1. PICK c, S : /\ c = [f \in File |-> disk[f].hash]
                          /\ S = {f \in File : disk[f].hash # Absent}
          OBVIOUS
        <4>2. /\ Loaded.content = c /\ Loaded.seen = S /\ Loaded.builtAt = now
          BY <3>2, <4>1 DEF Loaded, Built
        <4>3. c \in [File -> Hash] /\ S \in SUBSET File /\ \A f \in S : c[f] # Absent
          BY <4>1 DEF Sources
        <4>4. QED
          BY <2>3, <4>2, <4>3
      <3>3. QED
        BY <3>1, <3>2
    <2>5. Graphs'
      BY <2>1, <2>2, <2>3, <2>4 DEF Graphs
    <2>6. content'[loads'] = Loaded.content
      BY <2>1, <2>2 DEF Graphs
    <2>7. QED
      BY <2>1, <2>2, <2>5, <2>6
  <1>3. QED
    BY <1>1, <1>2

\* A file extracted again is as it is on disk.
LEMMA Rereading ==
  ASSUME Sources, Graphs, NEW g \in Graph, NEW f \in File, Reindexed(g, f),
         UNCHANGED <<sourceVars, current, loads, builtAt>>
  PROVE  /\ Graphs'
         /\ content' = [content EXCEPT ![g][f] = disk[f].hash]
         /\ \A h \in Graph : \A e \in File : \/ content'[h][e] = content[h][e]
                                             \/ content'[h][e] = disk[e].hash
  <1>1. /\ content' = [content EXCEPT ![g][f] = disk[f].hash]
        /\ seen' = [seen EXCEPT ![g] = IF disk[f].hash \in {Absent, Blank}
                                         THEN @ \ {f} ELSE @ \cup {f}]
    BY DEF Reindexed
  <1>2. disk[f].hash \in Hash
    BY DEF Sources
  <1>3. content' \in [Graph -> [File -> Hash]] /\ seen' \in [Graph -> SUBSET File]
    BY <1>1, <1>2 DEF Graphs
  <1>4. \A h \in Graph : \A e \in seen'[h] : content'[h][e] # Absent
    BY <1>1 DEF Graphs
  <1>5. UNCHANGED <<loads, current, builtAt, now>>
    BY DEF sourceVars
  <1>6. Graphs'
    BY <1>3, <1>4, <1>5 DEF Graphs
  <1>7. QED
    BY <1>1, <1>6 DEF Graphs

\* The watcher's batch, all of it, is as it is on disk.
LEMMA Rebuilding ==
  ASSUME Sources, Graphs, Batches, held[Watcher] \in Graph, Rebuild
  PROVE  /\ Graphs'
         /\ content' = [content EXCEPT ![held[Watcher]] = Reread(@, files[Watcher])]
         /\ seen' = [seen EXCEPT ![held[Watcher]] =
                       (@ \ files[Watcher]) \cup {f \in files[Watcher] : disk[f].hash # Absent}]
  <1>1. /\ content' = [content EXCEPT ![held[Watcher]] = Reread(@, files[Watcher])]
        /\ seen' = [seen EXCEPT ![held[Watcher]] =
                      (@ \ files[Watcher]) \cup {f \in files[Watcher] : disk[f].hash # Absent}]
        /\ UNCHANGED <<now, loads, current, builtAt>>
    BY DEF Rebuild, sourceVars
  <1>2. PICK g \in Graph, batch \in SUBSET File : g = held[Watcher] /\ batch = files[Watcher]
    BY DEF Batches, Actor
  <1>3. Reread(content[g], batch) \in [File -> Hash]
    BY DEF Sources, Graphs, Reread
  <1>4. content' \in [Graph -> [File -> Hash]]
    BY <1>1, <1>2, <1>3 DEF Graphs
  <1>5. seen' \in [Graph -> SUBSET File]
    BY <1>1, <1>2 DEF Graphs
  <1>6. ASSUME NEW h \in Graph, NEW f \in seen'[h] PROVE content'[h][f] # Absent
    <2>1. CASE h = g
      <3>1. content'[h] = Reread(content[g], batch)
        BY <1>1, <1>2, <2>1 DEF Graphs
      <3>2. f \in File /\ (f \in batch => disk[f].hash # Absent) /\ (f \notin batch => f \in seen[g])
        BY <1>1, <1>2, <1>5, <2>1 DEF Graphs
      <3>3. QED
        BY <3>1, <3>2 DEF Graphs, Reread
    <2>2. CASE h # g
      BY <1>1, <1>2, <2>2 DEF Graphs
    <2>3. QED
      BY <2>1, <2>2
  <1>7. QED
    BY <1>1, <1>4, <1>5, <1>6 DEF Graphs

-----------------------------------------------------------------------------
(* The parts of TypeOK, one lemma each.                                    *)

LEMMA SourcesNext == Basics /\ [Next]_vars => Sources'
  <1> SUFFICES ASSUME Basics, [Next]_vars PROVE Sources'
    OBVIOUS
  <1> USE DEF Sources, asideVars
  <1>1. ASSUME NEW f \in File, Edit(f) PROVE Sources'
    <2>1. PICK h \in Hash : disk' = [disk EXCEPT ![f] = [hash |-> h,
                                       time |-> IF h = Absent THEN 0 ELSE now + 1]]
      BY <1>1 DEF Edit
    <2>2. edits < MaxEdits /\ edits' = edits + 1 /\ now' = now + 1
      BY <1>1 DEF Edit
    <2>3. now \in Nat /\ now' \in 0..MaxEdits /\ edits' = now'
      BY <2>2, ConstantsAssumption DEF Basics
    <2>4. disk' \in [File -> [hash : Hash, time : 0..now']]
      <3>1. [hash |-> h, time |-> IF h = Absent THEN 0 ELSE now + 1] \in [hash : Hash, time : 0..now']
        BY <2>2, <2>3
      <3>2. [hash : Hash, time : 0..now] \subseteq [hash : Hash, time : 0..now']
        BY <2>2, <2>3
      <3>3. QED
        BY <2>1, <3>1, <3>2 DEF Basics
    <2>5. QED
      BY <1>1, <2>3, <2>4 DEF Basics, Edit
  <1>2. ASSUME NEW t \in Thread, Observe(t) PROVE Sources'
    BY <1>2 DEF Basics, Batches, Actor, Observe, ObserveAll, Changed, sourceVars
  <1>3. ASSUME NEW t \in Thread, PassOver(t) PROVE Sources'
    BY <1>3 DEF Basics, Batches, PassOver, sourceVars
  <1>4. CASE Seed
    BY <1>4 DEF Basics, Graphs, Holding, Actor, Seed, ObserveAll, sourceVars
  <1>5. CASE NextChangedFiles
    BY <1>5 DEF Basics, NextChangedFiles, StillPending, sourceVars, notedVars
  <1>6. ASSUME NEW t \in Thread, Receive(t) PROVE Sources'
    BY <1>6 DEF Basics, Receive, sourceVars, notedVars
  <1>7. ASSUME NEW t \in Thread, \/ Check(t) \/ Lock(t) \/ Heal(t) \/ Unlock(t)
                                 \/ MarkHealed(t) \/ Answer(t) \/ Reindex(t)
        PROVE  Sources'
    BY <1>7 DEF Basics, Check, Lock, Heal, Unlock, MarkHealed, Answer, Reindex, sourceVars, notedVars
  <1>8. CASE PreloadGraph \/ Warm \/ WatchGet \/ Rebuild \/ WatchMark
    BY <1>8 DEF Basics, PreloadGraph, Warm, WatchGet, Rebuild, WatchMark, sourceVars, notedVars
  <1>9. CASE UNCHANGED vars \/ Evict \/ \E g \in 1..loads : Save(g)
    BY <1>9 DEF Basics, vars, Evict, Save, sourceVars, notedVars
  <1>10. QED
    BY <1>1, <1>2, <1>3, <1>4, <1>5, <1>6, <1>7, <1>8, <1>9 DEF Next, Request, Preloading, Watching

LEMMA GraphsNext == Basics /\ [Next]_vars => Graphs'
  <1> SUFFICES ASSUME Basics, [Next]_vars PROVE Graphs'
    OBVIOUS
  <1>0. ASSUME UNCHANGED <<now, current, loads, content, seen>>, MarkDirty PROVE Graphs'
    <2>1. now \in 0..now
      BY DEF Basics, Sources
    <2>2. builtAt' \in [Graph -> 0..now]
      BY <1>0, <2>1 DEF Basics, Graphs, MarkDirty
    <2>3. QED
      BY <1>0, <2>2 DEF Basics, Graphs
  <1>1. ASSUME NEW f \in File, Edit(f) PROVE Graphs'
    <2>1. 0..now \subseteq 0..now' /\ UNCHANGED graphVars
      BY <1>1 DEF Basics, Sources, Edit
    <2>2. QED
      BY <2>1 DEF Basics, Graphs, graphVars
  <1>2. ASSUME NEW t \in Thread, Receive(t) PROVE Graphs'
    <2>1. PICK k \in Kinds : GetOrLoad(t, k # "reindex")
      BY <1>2 DEF Receive
    <2>2. UNCHANGED sourceVars /\ t \in Actor
      BY <1>2 DEF Receive, Actor
    <2>3. QED
      BY <2>1, <2>2, Loading DEF Basics
  <1>3. CASE PreloadGraph
    <2>1. CASE UNCHANGED graphVars
      BY <1>3, <2>1 DEF Basics, Graphs, PreloadGraph, graphVars, sourceVars
    <2>2. CASE GetOrLoad(Preload, TRUE)
      BY <1>3, <2>2, Loading DEF Basics, PreloadGraph, Actor
    <2>3. QED
      BY <1>3, <2>1, <2>2 DEF PreloadGraph
  <1>4. CASE WatchGet
    BY <1>4, Loading DEF Basics, WatchGet, Actor
  <1>5. ASSUME NEW t \in Thread, Heal(t) PROVE Graphs'
    <2>1. PICK f \in todo[t] : Reindexed(held[t], f)
      BY <1>5 DEF Heal
    <2>2. f \in File /\ held[t] \in Graph
      BY <1>5 DEF Basics, Batches, Holding, Actor, Heal
    <2>3. UNCHANGED <<sourceVars, current, loads, builtAt>>
      BY <1>5 DEF Heal
    <2>4. QED
      BY <2>1, <2>2, <2>3, Rereading DEF Basics
  <1>6. ASSUME NEW t \in Thread, Reindex(t) PROVE Graphs'
    <2>1. PICK f \in File : Reindexed(held[t], f)
      BY <1>6 DEF Reindex
    <2>2. held[t] \in Graph
      BY <1>6 DEF Basics, Holding, Actor, Reindex
    <2>3. UNCHANGED <<sourceVars, current, loads, builtAt>>
      BY <1>6 DEF Reindex
    <2>4. QED
      BY <2>1, <2>2, <2>3, Rereading DEF Basics
  <1>7. CASE Rebuild
    <2>1. held[Watcher] \in Graph
      BY <1>7 DEF Basics, Holding, Actor, Rebuild
    <2>2. QED
      BY <1>7, <2>1, Rebuilding DEF Basics
  <1>8. ASSUME NEW t \in Thread, MarkHealed(t) PROVE Graphs'
    BY <1>0, <1>8 DEF MarkHealed, sourceVars
  <1>9. CASE WatchMark
    BY <1>0, <1>9 DEF WatchMark, sourceVars
  <1>10. ASSUME NEW t \in Thread, Check(t) \/ Observe(t) \/ Lock(t) \/ PassOver(t) \/ Unlock(t)
                                  \/ Answer(t)
         PROVE  Graphs'
    BY <1>10 DEF Basics, Graphs, Check, Observe, Lock, PassOver, Unlock, Answer, sourceVars, graphVars
  <1>11. CASE Seed \/ Warm \/ NextChangedFiles \/ UNCHANGED vars \/ Evict \/ \E g \in 1..loads : Save(g)
    BY <1>11 DEF Basics, Graphs, Evict, Save, Seed, Warm, NextChangedFiles, vars, sourceVars, graphVars
  <1>12. QED
    BY <1>1, <1>2, <1>3, <1>4, <1>5, <1>6, <1>7, <1>8, <1>9, <1>10, <1>11 DEF Next, Request, Preloading, Watching

LEMMA LabelsNext == Basics /\ [Next]_vars => Labels'
  <1> SUFFICES ASSUME Labels, [Next]_vars PROVE Labels'
    BY DEF Basics
  <1> USE ConstantsAssumption DEF Labels, Actor, Goto
  <1>1. ASSUME NEW t \in Thread, Receive(t) PROVE Labels'
    BY <1>1 DEF Receive
  <1>2. ASSUME NEW t \in Thread, Check(t) \/ Observe(t) \/ Lock(t) PROVE Labels'
    BY <1>2 DEF Check, Observe, Lock
  <1>3. ASSUME NEW t \in Thread, Unlock(t) \/ MarkHealed(t) \/ Reindex(t) PROVE Labels'
    BY <1>3 DEF Unlock, MarkHealed, Reindex
  <1>4. ASSUME NEW t \in Thread, Answer(t) PROVE Labels'
    BY <1>4 DEF Answer, Kinds
  <1>5. CASE Preloading
    BY <1>5 DEF Preloading, PreloadGraph, Seed, Warm
  <1>6. CASE Watching
    BY <1>6 DEF Watching, NextChangedFiles, WatchGet, Rebuild, WatchMark
  <1>7. ASSUME NEW f \in File, Edit(f) PROVE Labels'
    BY <1>7 DEF Edit
  <1>8. ASSUME NEW t \in Thread, Heal(t) \/ PassOver(t) PROVE Labels'
    BY <1>8 DEF Heal, PassOver
  <1>9. CASE UNCHANGED vars \/ Evict \/ \E g \in 1..loads : Save(g)
    BY <1>9 DEF vars, Evict, Save
  <1>10. QED
    BY <1>1, <1>2, <1>3, <1>4, <1>5, <1>6, <1>7, <1>8, <1>9 DEF Next, Request

LEMMA HoldingNext == Basics /\ [Next]_vars => Holding'
  <1> SUFFICES ASSUME Basics, [Next]_vars PROVE Holding'
    OBVIOUS
  <1>a. loads \in Nat /\ loads' \in Nat
    <2>1. Graphs /\ Graphs'
      BY GraphsNext DEF Basics
    <2>2. QED
      BY <2>1, ConstantsAssumption DEF Graphs
  <1> USE ConstantsAssumption DEF Holding, Actor, Goto, None
  <1>0. /\ loads \in Nat /\ loads' \in Nat
        /\ \A a \in Actor : held[a] \in Nat
        /\ pc \in [Actor -> {"idle", "preload", "seed", "warm", "get", "check", "observe", "lock",
                             "heal", "mark", "answer", "reindex", "rebuild"}]
    BY <1>a DEF Basics, Graph, Labels
  <1>1. ASSUME NEW a \in Actor, NEW refresh \in BOOLEAN, GetOrLoad(a, refresh),
               UNCHANGED sourceVars, NEW l \in {"seed", "check", "reindex", "rebuild"},
               pc' = [pc EXCEPT ![a] = l]
        PROVE  Holding'
    <2>1. held' = [held EXCEPT ![a] = loads'] /\ loads' \in Graph /\ loads <= loads'
      BY <1>1, Loading DEF Basics
    <2>2. ASSUME NEW b \in Actor PROVE held'[b] <= loads'
      BY <1>0, <2>1 DEF Basics
    <2>3. ASSUME NEW b \in Actor, pc'[b] \notin {"idle", "preload", "warm", "get"}
          PROVE  held'[b] # None
      BY <1>0, <1>1, <2>1, <2>3 DEF Basics, Graph
    <2>4. QED
      BY <2>1, <2>2, <2>3 DEF Basics
  <1>2. ASSUME NEW t \in Thread, Receive(t) PROVE Holding'
    <2>1. PICK k \in Kinds : GetOrLoad(t, k # "reindex") /\ Goto(t, IF k = "reindex" THEN "reindex" ELSE "check")
      BY <1>2 DEF Receive
    <2>2. UNCHANGED sourceVars /\ (k # "reindex") \in BOOLEAN
      BY <1>2 DEF Receive
    <2>3. QED
      BY <1>1, <2>1, <2>2
  <1>3. CASE PreloadGraph
    <2>1. CASE GetOrLoad(Preload, TRUE) /\ Goto(Preload, "seed")
      BY <1>1, <1>3, <2>1 DEF PreloadGraph
    <2>2. CASE Goto(Preload, "warm") /\ UNCHANGED <<graphVars, held>>
      BY <1>0, <2>2 DEF Basics, graphVars
    <2>3. QED
      BY <1>3, <2>1, <2>2 DEF PreloadGraph
  <1>4. CASE WatchGet
    BY <1>1, <1>4 DEF WatchGet
  <1>5. ASSUME NEW a \in Actor, loads' = loads, held' = [held EXCEPT ![a] = None],
               pc' = [pc EXCEPT ![a] = "idle"]
        PROVE  Holding'
    BY <1>0, <1>5 DEF Basics
  <1>6. ASSUME NEW t \in Thread, Answer(t) PROVE Holding'
    BY <1>5, <1>6 DEF Answer, graphVars
  <1>7. CASE Warm \/ WatchMark
    BY <1>5, <1>7 DEF Warm, WatchMark, graphVars
  <1>8. ASSUME NEW a \in Actor, UNCHANGED <<loads, held>>, NEW l, pc' = [pc EXCEPT ![a] = l] \/ pc' = pc,
               pc[a] \notin {"idle", "preload", "warm", "get"} \/ l \in {"warm", "get"}
        PROVE  Holding'
    BY <1>0, <1>8 DEF Basics
  <1>9. ASSUME NEW t \in Thread, Check(t) \/ Observe(t) \/ Lock(t) \/ Unlock(t) \/ MarkHealed(t) \/ Reindex(t)
        PROVE  Holding'
    <2>1. PICK l : pc' = [pc EXCEPT ![t] = l]
      BY <1>9 DEF Check, Observe, Lock, Unlock, MarkHealed, Reindex
    <2>2. UNCHANGED <<loads, held>> /\ pc[t] \notin {"idle", "preload", "warm", "get"}
      BY <1>9 DEF Check, Observe, Lock, Unlock, MarkHealed, Reindex, graphVars
    <2>3. QED
      BY <1>8, <2>1, <2>2
  <1>10. CASE Seed \/ NextChangedFiles \/ Rebuild
    BY <1>8, <1>10 DEF Seed, NextChangedFiles, Rebuild, graphVars
  <1>11. ASSUME UNCHANGED <<loads, held, pc>> PROVE Holding'
    BY <1>11 DEF Basics
  <1>12. ASSUME NEW t \in Thread, Heal(t) \/ PassOver(t) PROVE Holding'
    BY <1>11, <1>12 DEF Heal, PassOver, graphVars
  <1>13. ASSUME NEW f \in File, Edit(f) PROVE Holding'
    BY <1>11, <1>13 DEF Edit, graphVars
  <1>14. CASE UNCHANGED vars \/ Evict \/ \E g \in 1..loads : Save(g)
    BY <1>11, <1>14 DEF vars, graphVars, Evict, Save
  <1>15. QED
    BY <1>2, <1>3, <1>4, <1>6, <1>7, <1>9, <1>10, <1>12, <1>13, <1>14
       DEF Next, Request, Preloading, Watching

LEMMA LocksNext == Basics /\ [Next]_vars => Locks'
  <1> SUFFICES ASSUME Basics, [Next]_vars PROVE Locks'
    OBVIOUS
  <1> USE ConstantsAssumption DEF Locks, Actor, Goto
  <1>0. /\ pc \in [Actor -> {"idle", "preload", "seed", "warm", "get", "check", "observe", "lock",
                             "heal", "mark", "answer", "reindex", "rebuild"}]
        /\ held \in [Actor -> Graph \cup {None}]
    BY DEF Basics, Labels, Holding
  <1>1. ASSUME writer' = writer, \A t \in Thread : \/ pc'[t] = pc[t] /\ held'[t] = held[t]
                                                   \/ pc[t] # "heal" /\ pc'[t] # "heal"
        PROVE  Locks'
    BY <1>1 DEF Basics
  <1>2. ASSUME NEW t \in Thread, Lock(t) PROVE Locks'
    <2>1. held[t] \in Graph
      BY <1>0, <1>2 DEF Basics, Holding, Lock
    <2>2. PICK g \in Graph : g = held[t]
      BY <2>1
    <2>3. writer[g] = NoThread /\ writer' = [writer EXCEPT ![g] = t] /\ held' = held
          /\ pc' = [pc EXCEPT ![t] = "heal"] /\ pc[t] = "lock"
      BY <1>2, <2>2 DEF Lock, Unlocked
    <2>4. QED
      BY <1>0, <2>2, <2>3 DEF Basics
  <1>3. ASSUME NEW t \in Thread, Unlock(t) PROVE Locks'
    <2>1. PICK g \in Graph : g = held[t]
      BY <1>0, <1>3 DEF Basics, Holding, Unlock
    <2>2. PICK l \in {"answer", "mark"} : pc' = [pc EXCEPT ![t] = l]
      BY <1>3 DEF Unlock
    <2>3. writer[g] = t /\ writer' = [writer EXCEPT ![g] = NoThread] /\ held' = held /\ pc[t] = "heal"
      BY <1>3, <2>1 DEF Basics, Unlock
    <2>4. QED
      BY <1>0, <2>1, <2>2, <2>3 DEF Basics
  <1>4. ASSUME NEW t \in Thread, Receive(t) PROVE Locks'
    <2>1. PICK k \in Kinds : GetOrLoad(t, k # "reindex") /\ Goto(t, IF k = "reindex" THEN "reindex" ELSE "check")
      BY <1>4 DEF Receive
    <2>2. UNCHANGED <<sourceVars, writer>> /\ pc[t] = "idle" /\ (k # "reindex") \in BOOLEAN
      BY <1>4 DEF Receive
    <2>3. held' = [held EXCEPT ![t] = loads']
      BY <2>1, <2>2, Loading DEF Basics
    <2>4. QED
      BY <1>0, <1>1, <2>1, <2>2, <2>3
  <1>5. ASSUME NEW t \in Thread, Check(t) \/ Observe(t) \/ MarkHealed(t) \/ Answer(t) \/ Reindex(t)
        PROVE  Locks'
    BY <1>0, <1>1, <1>5 DEF Check, Observe, MarkHealed, Answer, Reindex
  <1>6. CASE PreloadGraph
    <2>1. held' = held \/ held' = [held EXCEPT ![Preload] = loads']
      BY <1>6, Loading DEF Basics, PreloadGraph
    <2>2. QED
      BY <1>0, <1>1, <1>6, <2>1 DEF PreloadGraph
  <1>7. CASE WatchGet
    <2>1. held' = [held EXCEPT ![Watcher] = loads']
      BY <1>7, Loading DEF Basics, WatchGet
    <2>2. QED
      BY <1>0, <1>1, <1>7, <2>1 DEF WatchGet
  <1>8. CASE Seed \/ Warm \/ NextChangedFiles \/ Rebuild \/ WatchMark
    BY <1>0, <1>1, <1>8 DEF Seed, Warm, NextChangedFiles, Rebuild, WatchMark
  <1>9. ASSUME NEW t \in Thread, Heal(t) \/ PassOver(t) PROVE Locks'
    BY <1>1, <1>9 DEF Heal, PassOver
  <1>10. ASSUME NEW f \in File, Edit(f) PROVE Locks'
    BY <1>1, <1>10 DEF Edit
  <1>11. CASE UNCHANGED vars \/ Evict \/ \E g \in 1..loads : Save(g)
    BY <1>1, <1>11 DEF vars, Evict, Save
  <1>12. QED
    BY <1>2, <1>3, <1>4, <1>5, <1>6, <1>7, <1>8, <1>9, <1>10, <1>11
       DEF Next, Request, Preloading, Watching

LEMMA BatchesNext == Basics /\ [Next]_vars => Batches'
  <1> SUFFICES ASSUME Basics, [Next]_vars PROVE Batches'
    OBVIOUS
  <1> USE ConstantsAssumption DEF Batches, Actor, Goto
  <1>0. pc \in [Actor -> {"idle", "preload", "seed", "warm", "get", "check", "observe", "lock",
                          "heal", "mark", "answer", "reindex", "rebuild"}]
    BY DEF Basics, Labels
  <1>1. ASSUME NEW t \in Thread, Receive(t) PROVE Batches'
    <2>1. pc' = [pc EXCEPT ![t] = "check"] \/ pc' = [pc EXCEPT ![t] = "reindex"]
      BY <1>1 DEF Receive
    <2>2. pc[t] = "idle" /\ UNCHANGED batchVars
      BY <1>1 DEF Receive
    <2>3. QED
      BY <1>0, <2>1, <2>2 DEF Basics, batchVars
  <1>2. ASSUME NEW t \in Thread, Check(t) PROVE Batches'
    <2>1. CASE Heals(t)
      <3>1. PICK S \in SUBSET File : files' = [files EXCEPT ![t] = S]
        BY <1>2, <2>1 DEF Check, Basics, Holding, Graphs
      <3>2. pc[t] = "check" /\ pc' = [pc EXCEPT ![t] = "observe"] /\ UNCHANGED <<todo, healed, stale>>
        BY <1>2, <2>1 DEF Check
      <3>3. QED
        BY <1>0, <3>1, <3>2 DEF Basics
    <2>2. CASE ~Heals(t)
      BY <1>0, <1>2, <2>2 DEF Basics, Check
    <2>3. QED
      BY <2>1, <2>2
  <1>3. ASSUME NEW t \in Thread, Observe(t) PROVE Batches'
    <2>1. Changed(files[t]) \subseteq files[t] /\ files[t] \in SUBSET File
      BY DEF Changed, Basics
    <2>2. PICK C \in SUBSET File, l \in {"answer", "lock"} :
             /\ C = Changed(files[t]) /\ (l = "answer" => C = {})
             /\ todo' = [todo EXCEPT ![t] = C] /\ pc' = [pc EXCEPT ![t] = l]
      BY <1>3, <2>1 DEF Observe
    <2>3. UNCHANGED <<files, healed, stale>> /\ pc[t] = "observe"
      BY <1>3 DEF Observe
    <2>4. QED
      BY <1>0, <2>1, <2>2, <2>3 DEF Basics
  <1>4. ASSUME NEW t \in Thread, Lock(t) PROVE Batches'
    BY <1>0, <1>4 DEF Basics, Lock, batchVars
  <1>5. ASSUME NEW t \in Thread, Heal(t) PROVE Batches'
    <2>1. PICK f \in todo[t] : /\ todo' = [todo EXCEPT ![t] = @ \ {f}]
                               /\ healed' = [healed EXCEPT ![t] = @ \cup {f}]
      BY <1>5 DEF Heal
    <2>2. UNCHANGED <<files, stale, pc>> /\ pc[t] = "heal"
      BY <1>5 DEF Heal
    <2>3. QED
      BY <2>1, <2>2 DEF Basics
  <1>6. ASSUME NEW t \in Thread, PassOver(t) PROVE Batches'
    BY <1>6 DEF Basics, PassOver
  <1>7. ASSUME NEW t \in Thread, Unlock(t) PROVE Batches'
    BY <1>0, <1>7 DEF Basics, Unlock, batchVars
  <1>8. ASSUME NEW t \in Thread, Answer(t) PROVE Batches'
    BY <1>0, <1>8 DEF Basics, Answer
  <1>9. ASSUME NEW t \in Thread, MarkHealed(t) PROVE Batches'
    BY <1>0, <1>9 DEF Basics, MarkHealed, batchVars
  <1>10. ASSUME NEW t \in Thread, Reindex(t) PROVE Batches'
    BY <1>0, <1>10 DEF Basics, Reindex, batchVars
  <1>11. CASE NextChangedFiles
    <2>1. PICK S \in SUBSET events : files' = [files EXCEPT ![Watcher] = S]
      BY <1>11 DEF NextChangedFiles
    <2>2. S \in SUBSET File
      BY DEF Basics, Sources
    <2>3. pc' = [pc EXCEPT ![Watcher] = "get"] /\ UNCHANGED <<todo, healed, stale>>
      BY <1>11 DEF NextChangedFiles
    <2>4. QED
      BY <1>0, <2>1, <2>2, <2>3 DEF Basics
  <1>12. CASE WatchGet \/ Rebuild
    BY <1>0, <1>12 DEF Basics, WatchGet, Rebuild, batchVars
  <1>13. CASE WatchMark
    BY <1>0, <1>13 DEF Basics, WatchMark
  <1>14. CASE PreloadGraph \/ Seed \/ Warm
    BY <1>0, <1>14 DEF Basics, PreloadGraph, Seed, Warm, batchVars
  <1>15. ASSUME NEW f \in File, Edit(f) PROVE Batches'
    BY <1>15 DEF Basics, Edit, batchVars
  <1>16. CASE UNCHANGED vars \/ Evict \/ \E g \in 1..loads : Save(g)
    BY <1>16 DEF Basics, vars, batchVars, Evict, Save
  <1>17. QED
    BY <1>1, <1>2, <1>3, <1>4, <1>5, <1>6, <1>7, <1>8, <1>9, <1>10, <1>11, <1>12, <1>13, <1>14,
       <1>15, <1>16 DEF Next, Request, Preloading, Watching

LEMMA PhasesNext == Basics /\ [Next]_vars => Phases'
  <1> SUFFICES ASSUME Basics, [Next]_vars PROVE Phases'
    OBVIOUS
  <1> USE ConstantsAssumption DEF Phases, Actor, Goto, asideVars
  <1>0. /\ pc \in [Actor -> {"idle", "preload", "seed", "warm", "get", "check", "observe", "lock",
                             "heal", "mark", "answer", "reindex", "rebuild"}]
        /\ \A t \in Thread : pc[t] \in {"idle", "check", "observe", "lock", "heal", "mark", "answer",
                                        "reindex"}
        /\ pc[Watcher] \in {"idle", "get", "rebuild", "mark"}
        /\ pc[Preload] \in {"idle", "preload", "seed", "warm"}
        /\ files \in [Actor -> SUBSET File]
    BY DEF Basics, Labels, Batches
  <1>1. ASSUME NEW t \in Thread, UNCHANGED <<own, events, warmed, seeded>>,
               NEW l, pc' = [pc EXCEPT ![t] = l] \/ pc' = pc,
               warmed \/ (l \notin {"observe", "lock", "heal"} /\ files'[t] = {}),
               \A a \in Actor \ {t} : files'[a] = files[a]
        PROVE  Phases'
    BY <1>0, <1>1 DEF Basics
  <1>2. ASSUME NEW t \in Thread, Receive(t) PROVE Phases'
    <2>1. PICK l \in {"check", "reindex"} : pc' = [pc EXCEPT ![t] = l]
      BY <1>2 DEF Receive
    <2>2. UNCHANGED <<own, events, warmed, seeded, files>>
      BY <1>2 DEF Receive, notedVars, batchVars
    <2>3. warmed \/ files[t] = {}
      BY DEF Basics
    <2>4. QED
      BY <1>1, <2>1, <2>2, <2>3
  <1>3. ASSUME NEW t \in Thread, Check(t) PROVE Phases'
    <2>1. CASE Heals(t)
      <3>1. warmed
        BY <2>1 DEF Heals
      <3>2. /\ UNCHANGED <<own, events, warmed, seeded>>
            /\ pc' = [pc EXCEPT ![t] = "observe"]
            /\ \A a \in Actor \ {t} : files'[a] = files[a]
        BY <1>0, <1>3, <2>1 DEF Check
      <3>3. QED
        BY <1>1, <3>1, <3>2
    <2>2. CASE ~Heals(t)
      <3>1. /\ UNCHANGED <<own, events, warmed, seeded, files>>
            /\ pc' = [pc EXCEPT ![t] = "answer"]
        BY <1>3, <2>2 DEF Check, notedVars
      <3>2. warmed \/ files[t] = {}
        BY DEF Basics
      <3>3. QED
        BY <1>1, <3>1, <3>2
    <2>3. QED
      BY <2>1, <2>2
  <1>4. ASSUME NEW t \in Thread, Observe(t) \/ Lock(t) \/ Heal(t) \/ PassOver(t) \/ Unlock(t)
        PROVE  Phases'
    <2>1. pc[t] \in {"observe", "lock", "heal"}
      BY <1>4 DEF Observe, Lock, Heal, PassOver, Unlock
    <2>2. warmed
      BY <2>1 DEF Basics
    <2>3. UNCHANGED <<own, events, warmed, seeded, files>>
      BY <1>4 DEF Observe, Lock, Heal, PassOver, Unlock, batchVars
    <2>4. \E l : pc' = [pc EXCEPT ![t] = l] \/ pc' = pc
      BY <1>4 DEF Observe, Lock, Heal, PassOver, Unlock
    <2>5. QED
      BY <1>1, <2>2, <2>3, <2>4
  <1>5. ASSUME NEW t \in Thread, MarkHealed(t) \/ Reindex(t) PROVE Phases'
    <2>1. PICK l \in {"answer", "mark"} : pc' = [pc EXCEPT ![t] = l]
      BY <1>5 DEF MarkHealed, Reindex
    <2>2. UNCHANGED <<own, events, warmed, seeded, files>>
      BY <1>5 DEF MarkHealed, Reindex, notedVars, batchVars
    <2>3. warmed \/ files[t] = {}
      BY DEF Basics
    <2>4. QED
      BY <1>1, <2>1, <2>2, <2>3
  <1>6. ASSUME NEW t \in Thread, Answer(t) PROVE Phases'
    <2>1. /\ UNCHANGED <<own, events, warmed, seeded>>
          /\ pc' = [pc EXCEPT ![t] = "idle"] /\ files' = [files EXCEPT ![t] = {}]
      BY <1>6 DEF Answer, notedVars
    <2>2. QED
      BY <1>0, <1>1, <2>1
  <1>7. CASE PreloadGraph
    BY <1>0, <1>7 DEF Basics, PreloadGraph, notedVars, batchVars
  <1>8. CASE Seed
    BY <1>0, <1>8 DEF Basics, Seed, batchVars
  <1>9. CASE Warm
    BY <1>0, <1>9 DEF Basics, Warm, notedVars, batchVars
  <1>10. CASE NextChangedFiles
    <2>1. events # {}
      BY <1>10 DEF NextChangedFiles
    <2>2. /\ UNCHANGED <<own, warmed, seeded>> /\ pc' = [pc EXCEPT ![Watcher] = "get"]
          /\ \A t \in Thread : files'[t] = files[t]
      BY <1>0, <1>10 DEF NextChangedFiles, notedVars
    <2>3. own
      BY <2>1 DEF Basics
    <2>4. QED
      BY <1>0, <2>2, <2>3 DEF Basics
  <1>11. CASE WatchGet \/ Rebuild \/ WatchMark
    <2>1. own
      BY <1>11 DEF Basics, WatchGet, Rebuild, WatchMark
    <2>2. /\ UNCHANGED <<own, warmed, seeded>>
          /\ \A t \in Thread : files'[t] = files[t] /\ pc'[t] = pc[t]
          /\ pc'[Preload] = pc[Preload]
      BY <1>0, <1>11 DEF WatchGet, Rebuild, WatchMark, notedVars, batchVars
    <2>3. QED
      BY <1>0, <2>1, <2>2 DEF Basics
  <1>12. ASSUME NEW f \in File, Edit(f) PROVE Phases'
    BY <1>12 DEF Basics, Edit, batchVars
  <1>13. CASE UNCHANGED vars \/ Evict \/ \E g \in 1..loads : Save(g)
    BY <1>13 DEF Basics, vars, batchVars, Evict, Save
  <1>14. QED
    BY <1>2, <1>3, <1>4, <1>5, <1>6, <1>7, <1>8, <1>9, <1>10, <1>11, <1>12, <1>13
       DEF Next, Request, Preloading, Watching

LEMMA StoredNext == Basics /\ [Next]_vars => Stored'
  <1> SUFFICES ASSUME Basics, [Next]_vars PROVE Stored'
    OBVIOUS
  <1> USE DEF Stored
  <1>0. ASSUME NEW n \in 0..MaxEvictions, UNCHANGED <<snapshot>>, evictions' = n, inherited' \subseteq File
        PROVE  Stored'
    <2>1. now \in Nat /\ now' \in Nat /\ now <= now'
      <3>1. now' = now \/ now' = now + 1
        BY DEF Next, Edit, Save, Evict, Preloading, PreloadGraph, Seed, Warm, Watching, NextChangedFiles,
           WatchGet, Rebuild, WatchMark, Receive, Request, Check, Observe, Lock, Heal, PassOver, Unlock,
           MarkHealed, Answer, Reindex, sourceVars, vars
      <3>2. QED
        BY <3>1 DEF Basics, Sources
    <2>2. 0..now \subseteq 0..now'
      BY <2>1
    <2>3. ASSUME snapshot # NoSnapshot
          PROVE  snapshot \in [content : [File -> Hash], seen : SUBSET File, builtAt : 0..now']
      BY <2>2, <2>3 DEF Basics
    <2>4. QED
      BY <1>0, <2>3 DEF Basics
  <1>1. evictions \in 0..MaxEvictions /\ inherited \subseteq File
    BY DEF Basics
  <1>2. ASSUME NEW f \in File, Edit(f) PROVE Stored'
    BY <1>0, <1>1, <1>2 DEF Edit, storeVars
  <1>3. ASSUME NEW a \in Actor, NEW refresh \in BOOLEAN, GetOrLoad(a, refresh), UNCHANGED storeVars
        PROVE  Stored'
    BY <1>0, <1>1, <1>3 DEF GetOrLoad, storeVars
  <1>4. ASSUME NEW t \in Thread, Receive(t) PROVE Stored'
    <2>1. PICK k \in Kinds : GetOrLoad(t, k # "reindex")
      BY <1>4 DEF Receive
    <2>2. UNCHANGED storeVars /\ t \in Actor /\ (k # "reindex") \in BOOLEAN
      BY <1>4 DEF Receive, Actor
    <2>3. QED
      BY <1>3, <2>1, <2>2
  <1>5. CASE PreloadGraph
    BY <1>0, <1>1, <1>3, <1>5 DEF PreloadGraph, storeVars, Actor
  <1>6. CASE WatchGet
    BY <1>3, <1>6 DEF WatchGet, Actor
  <1>7. ASSUME NEW t \in Thread, Request(t) PROVE Stored'
    <2>1. UNCHANGED asideVars
      BY <1>7 DEF Request, Check, Observe, Lock, Heal, PassOver, Unlock, MarkHealed, Answer, Reindex
    <2>2. QED
      BY <1>0, <1>1, <2>1 DEF asideVars, storeVars
  <1>8. CASE Seed \/ Warm \/ NextChangedFiles \/ Rebuild \/ WatchMark \/ UNCHANGED vars
    <2>1. UNCHANGED <<storeVars, inherited>>
      BY <1>8 DEF Seed, Warm, NextChangedFiles, Rebuild, WatchMark, vars, asideVars
    <2>2. QED
      BY <1>0, <1>1, <2>1 DEF storeVars
  <1>9. CASE Evict
    <2>1. evictions' \in 0..MaxEvictions /\ UNCHANGED <<snapshot, inherited>>
      BY <1>1, <1>9, ConstantsAssumption DEF Evict
    <2>2. QED
      BY <1>0, <1>1, <2>1
  <1>10. ASSUME NEW g \in 1..loads, Save(g) PROVE Stored'
    <2>1. evictions' \in 0..MaxEvictions /\ UNCHANGED <<inherited, now>>
      BY <1>1, <1>10, ConstantsAssumption DEF Save, sourceVars
    <2>2. g \in Graph
      BY ConstantsAssumption DEF Basics, Graphs, Graph
    <2>3. CASE snapshot' = NoSnapshot
      BY <1>1, <2>1, <2>3
    <2>4. CASE snapshot' # NoSnapshot
      <3>1. PICK at \in 0..builtAt[g] :
               snapshot' = [content |-> content[g], seen |-> seen[g], builtAt |-> at]
        BY <1>10, <2>4 DEF Save
      <3>2. at \in 0..now
        BY <2>2 DEF Basics, Graphs, Sources
      <3>3. content[g] \in [File -> Hash] /\ seen[g] \in SUBSET File /\ \A f \in seen[g] : content[g][f] # Absent
        BY <2>2 DEF Basics, Graphs
      <3>4. QED
        BY <1>1, <2>1, <3>1, <3>2, <3>3
    <2>5. QED
      BY <2>3, <2>4
  <1>11. QED
    BY <1>2, <1>4, <1>5, <1>6, <1>7, <1>8, <1>9, <1>10 DEF Next, Preloading, Watching

LEMMA BasicsNext == Basics /\ [Next]_vars => Basics'
  BY SourcesNext, GraphsNext, StoredNext, LabelsNext, HoldingNext, LocksNext, BatchesNext, PhasesNext DEF Basics

-----------------------------------------------------------------------------
(* What a step can do to the contents, and to the record of edits.         *)

\* Only an edit changes a file, and it is then touched, moved and, in the
\* watched project, announced.  A file passed over stays so until then.
LEMMA EditSteps ==
  ASSUME Basics, [Next]_vars, NEW f \in File
  PROVE  \/ /\ disk'[f] = disk[f]
            /\ f \in touched' <=> f \in touched
            /\ f \in skipped => f \in skipped'
         \/ /\ f \in touched' /\ f \in moved' /\ (own => f \in events')
            /\ UNCHANGED <<own, graphVars, pc, held, files, todo, healed, stale, seeded, tracker>>
  <1>1. CASE UNCHANGED sourceVars /\ skipped \subseteq skipped'
    BY <1>1 DEF sourceVars
  <1>2. CASE \E e \in File : Edit(e)
    BY <1>2 DEF Edit, Basics, Sources, batchVars
  <1>3. CASE \E t \in Thread : Receive(t) \/ Request(t)
    <2>1. UNCHANGED sourceVars /\ skipped \subseteq skipped'
      BY <1>3 DEF notedVars, Receive, Request, Check, Observe, Lock, Heal, PassOver, Unlock, MarkHealed, Answer, Reindex
    <2>2. QED
      BY <1>1, <2>1
  <1>4. CASE Preloading \/ Watching \/ UNCHANGED vars \/ Evict \/ \E g \in 1..loads : Save(g)
    <2>1. UNCHANGED sourceVars /\ skipped \subseteq skipped'
      BY <1>4 DEF notedVars, Evict, Save, Preloading, PreloadGraph, Seed, Warm, Watching, NextChangedFiles, WatchGet, Rebuild,
         WatchMark, vars
    <2>2. QED
      BY <1>1, <2>1
  <1>5. QED
    BY <1>2, <1>3, <1>4 DEF Next

\* A graph has what it had of a file, or what the file holds; what a new graph
\* has wrong is inherited, and stays so until an edit of it or the next load.
LEMMA ContentSteps ==
  ASSUME Basics, [Next]_vars
  PROVE  \/ /\ loads' = loads
            /\ \A g \in 1..loads : \A f \in File : content'[g][f] \in {content[g][f], disk[f].hash}
            /\ \A f \in inherited : disk'[f] = disk[f] => f \in inherited'
         \/ /\ loads' = loads + 1 /\ current' = loads'
            /\ inherited' = {f \in File : content'[loads'][f] # disk[f].hash} \ events
            /\ UNCHANGED <<sourceVars, events>>
  <1> DEFINE Kept == /\ loads' = loads
                     /\ \A g \in 1..loads : \A f \in File : content'[g][f] \in {content[g][f], disk[f].hash}
                     /\ \A f \in inherited : disk'[f] = disk[f] => f \in inherited'
             New == /\ loads' = loads + 1 /\ current' = loads'
                    /\ inherited' = {f \in File : content'[loads'][f] # disk[f].hash} \ events
                    /\ UNCHANGED <<sourceVars, events>>
  <1>0. \A g \in 1..loads : g \in Graph
    BY ConstantsAssumption DEF Basics, Graphs, Graph
  <1>1. ASSUME UNCHANGED <<loads, content, inherited>> PROVE Kept
    BY <1>1
  <1>2. ASSUME NEW a \in Actor, NEW refresh \in BOOLEAN, GetOrLoad(a, refresh), UNCHANGED <<sourceVars, events>>
        PROVE  Kept \/ New
    BY <1>1, <1>2, Loading DEF Basics, graphVars
  <1>3. ASSUME NEW g \in Graph, NEW f \in File, Reindexed(g, f), UNCHANGED <<loads, inherited>>
        PROVE  Kept
    <2>1. content' = [content EXCEPT ![g][f] = disk[f].hash]
      BY <1>3 DEF Reindexed
    <2>2. ASSUME NEW h \in Graph, NEW e \in File
          PROVE  content'[h][e] \in {content[h][e], disk[e].hash}
      BY <2>1 DEF Basics, Graphs
    <2>3. QED
      BY <1>0, <1>3, <2>2
  <1>4. ASSUME NEW t \in Thread, Receive(t) PROVE Kept \/ New
    <2>1. PICK k \in Kinds : GetOrLoad(t, k # "reindex")
      BY <1>4 DEF Receive
    <2>2. UNCHANGED <<sourceVars, events>> /\ t \in Actor /\ (k # "reindex") \in BOOLEAN
      BY <1>4 DEF Receive, Actor
    <2>3. QED
      BY <1>2, <2>1, <2>2
  <1>5. CASE PreloadGraph
    BY <1>1, <1>2, <1>5 DEF PreloadGraph, graphVars, Actor
  <1>6. CASE WatchGet
    BY <1>2, <1>6 DEF WatchGet, Actor
  <1>7. ASSUME NEW t \in Thread, Heal(t) PROVE Kept
    <2>1. PICK f \in todo[t] : Reindexed(held[t], f)
      BY <1>7 DEF Heal
    <2>2. f \in File /\ held[t] \in Graph
      BY <1>7 DEF Basics, Batches, Holding, Actor, Heal
    <2>3. QED
      BY <1>3, <1>7, <2>1, <2>2 DEF Heal, asideVars
  <1>8. ASSUME NEW t \in Thread, Reindex(t) PROVE Kept
    <2>1. held[t] \in Graph
      BY <1>8 DEF Basics, Holding, Actor, Reindex
    <2>2. QED
      BY <1>3, <1>8, <2>1 DEF Reindex, asideVars
  <1>9. CASE Rebuild
    <2>1. PICK g \in Graph : g = held[Watcher]
      BY <1>9 DEF Basics, Holding, Actor, Rebuild
    <2>2. /\ content' = [content EXCEPT ![g] = Reread(@, files[Watcher])]
          /\ loads' = loads /\ inherited' = inherited
      BY <1>9, <2>1 DEF Rebuild, asideVars
    <2>3. ASSUME NEW h \in Graph, NEW e \in File
          PROVE  content'[h][e] \in {content[h][e], disk[e].hash}
      BY <2>2 DEF Basics, Graphs, Reread
    <2>4. QED
      BY <1>0, <2>2, <2>3
  <1>10. ASSUME NEW t \in Thread, \/ Check(t) \/ Observe(t) \/ Lock(t) \/ PassOver(t) \/ Unlock(t)
                                  \/ MarkHealed(t) \/ Answer(t)
         PROVE  Kept
    BY <1>1, <1>10 DEF Check, Observe, Lock, PassOver, Unlock, MarkHealed, Answer, graphVars, asideVars
  <1>11. CASE Seed \/ Warm \/ NextChangedFiles \/ WatchMark \/ UNCHANGED vars \/ Evict
              \/ \E g \in 1..loads : Save(g)
    BY <1>1, <1>11 DEF Seed, Warm, NextChangedFiles, WatchMark, vars, Evict, Save, graphVars, asideVars
  <1>12. ASSUME NEW f \in File, Edit(f) PROVE Kept
    <2>1. disk'[f] # disk[f]
      BY <1>12 DEF Edit, Basics, Sources
    <2>2. UNCHANGED <<loads, content>> /\ inherited' = inherited \ {f}
      BY <1>12 DEF Edit, graphVars
    <2>3. QED
      BY <2>1, <2>2
  <1>13. QED
    BY <1>4, <1>5, <1>6, <1>7, <1>8, <1>9, <1>10, <1>11, <1>12 DEF Next, Request, Preloading, Watching

LEMMA LoadSteps ==
  ASSUME Basics, [Next]_vars, current' # current, current' # None
  PROVE  loads' # loads
  <1>1. ASSUME NEW a \in Actor, NEW refresh \in BOOLEAN, GetOrLoad(a, refresh), UNCHANGED sourceVars
        PROVE  loads' # loads
    BY <1>1 DEF GetOrLoad, graphVars, Basics, Graphs
  <1>2. ASSUME NEW t \in Thread, Receive(t) PROVE loads' # loads
    <2>1. PICK k \in Kinds : GetOrLoad(t, k # "reindex")
      BY <1>2 DEF Receive
    <2>2. UNCHANGED sourceVars /\ t \in Actor /\ (k # "reindex") \in BOOLEAN
      BY <1>2 DEF Receive, Actor
    <2>3. QED
      BY <1>1, <2>1, <2>2
  <1>3. CASE PreloadGraph \/ WatchGet
    BY <1>1, <1>3 DEF PreloadGraph, WatchGet, graphVars, Actor
  <1>4. ~Evict
    BY DEF Evict
  <1>5. ASSUME NEW t \in Thread, Request(t) PROVE FALSE
    BY <1>5 DEF Request, Check, Observe, Lock, Heal, PassOver, Unlock, MarkHealed, Answer, Reindex, graphVars
  <1>6. ASSUME Seed \/ Warm \/ NextChangedFiles \/ Rebuild \/ WatchMark \/ UNCHANGED vars
               \/ (\E f \in File : Edit(f)) \/ (\E g \in 1..loads : Save(g))
        PROVE  FALSE
    BY <1>6 DEF Seed, Warm, NextChangedFiles, Rebuild, WatchMark, vars, Edit, Save, graphVars
  <1>7. QED
    BY <1>2, <1>3, <1>4, <1>5, <1>6 DEF Next, Preloading, Watching

\* What makes a file wrong in the graph the project has is an edit of it, or a
\* snapshot that had it wrong.
LEMMA WrongSteps ==
  ASSUME Basics, [Next]_vars, NEW f \in File, Wrong(f)'
  PROVE  \/ /\ Wrong(f) /\ loads' = loads /\ disk'[f] = disk[f] /\ current' = current
            /\ f \in skipped => f \in skipped'
            /\ f \in inherited => f \in inherited'
         \/ /\ f \in moved' /\ (own => f \in events')
            /\ UNCHANGED <<own, pc, held>>
         \/ f \in inherited' \cup events'
  <1>1. /\ loads \in 0..MaxLoads /\ current \in {None, loads}
        /\ current' = loads' /\ current' # None
        /\ content \in [Graph -> [File -> Hash]] /\ Graph = 1..MaxLoads /\ MaxLoads \in Nat
    BY BasicsNext, ConstantsAssumption DEF Basics, Graphs, Graph, Wrong
  <1>2. CASE disk'[f] # disk[f]
    BY <1>2, EditSteps
  <1>3. CASE disk'[f] = disk[f]
    <2>1. CASE loads' # loads
      BY <1>1, <1>3, <2>1, ContentSteps DEF Wrong
    <2>2. CASE loads' = loads /\ current = None
      \* Only a load gives an evicted project a graph.
      <3>1. current' # current
        BY <1>1, <2>2
      <3>2. loads' # loads
        BY <1>1, <3>1, LoadSteps
      <3>3. QED
        BY <2>2, <3>2
    <2>3. CASE loads' = loads /\ current # None
      <3>1. CASE f \in skipped /\ f \notin skipped'
        BY <1>3, <3>1, EditSteps
      <3>2. loads \in 1..loads /\ current = loads /\ current' = current
        BY <1>1, <2>3 DEF None
      <3>3. /\ content'[loads][f] \in {content[loads][f], disk[f].hash}
            /\ f \in inherited => f \in inherited'
        BY <1>1, <1>3, <2>3, <3>2, ContentSteps
      <3>4. CASE ~(f \in skipped /\ f \notin skipped')
        BY <1>1, <1>3, <2>3, <3>2, <3>3, <3>4 DEF Wrong
      <3>5. QED
        BY <3>1, <3>4
    <2>4. QED
      BY <2>1, <2>2, <2>3
  <1>4. QED
    BY <1>2, <1>3

\* The default project stays the default project, and only the watcher's steps
\* change what it has, or take an event.
LEMMA WatcherSteps ==
  ASSUME Basics, [Next]_vars
  PROVE  /\ own' = own
         /\ \/ Watching
            \/ /\ pc'[Watcher] = pc[Watcher] /\ held'[Watcher] = held[Watcher]
               /\ files'[Watcher] = files[Watcher]
               /\ events \subseteq events'
  <1> USE ConstantsAssumption DEF Goto, Actor
  <1>0. /\ pc \in [Actor -> {"idle", "preload", "seed", "warm", "get", "check", "observe", "lock",
                             "heal", "mark", "answer", "reindex", "rebuild"}]
        /\ held \in [Actor -> Graph \cup {None}] /\ files \in [Actor -> SUBSET File]
    BY DEF Basics, Labels, Holding, Batches
  <1>1. ASSUME NEW t \in Thread, Receive(t)
        PROVE  /\ UNCHANGED <<own, events, files>> /\ pc'[Watcher] = pc[Watcher]
               /\ held'[Watcher] = held[Watcher]
    BY <1>0, <1>1 DEF Receive, batchVars, GetOrLoad
  <1>2. ASSUME NEW t \in Thread, Request(t)
        PROVE  /\ UNCHANGED <<own, events>> /\ pc'[Watcher] = pc[Watcher]
               /\ held'[Watcher] = held[Watcher] /\ files'[Watcher] = files[Watcher]
    BY <1>0, <1>2 DEF Request, Check, Observe, Lock, Heal, PassOver, Unlock, MarkHealed, Answer, Reindex,
       batchVars
  <1>3. CASE Preloading
    BY <1>0, <1>3 DEF Preloading, PreloadGraph, Seed, Warm, batchVars, GetOrLoad
  <1>4. ASSUME NEW f \in File, Edit(f)
        PROVE  UNCHANGED <<own, pc, held, files>> /\ events \subseteq events'
    BY <1>4 DEF Edit, batchVars
  <1>5. CASE Watching
    BY <1>5 DEF Watching, NextChangedFiles, WatchGet, Rebuild, WatchMark
  <1>6. CASE UNCHANGED vars \/ Evict \/ \E g \in 1..loads : Save(g)
    BY <1>6 DEF vars, batchVars, Evict, Save
  <1>7. QED
    BY <1>1, <1>2, <1>3, <1>4, <1>5, <1>6 DEF Next

\* A request's work grows by what it observes, and by nothing else.
LEMMA WorkSteps ==
  ASSUME Basics, [Next]_vars, NEW t \in Thread
  PROVE  \/ Observe(t)
         \/ todo'[t] \cup healed'[t] \cup stale'[t] \subseteq todo[t] \cup healed[t] \cup stale[t]
  <1>0. /\ todo \in [Thread -> SUBSET File] /\ healed \in [Thread -> SUBSET File]
        /\ stale \in [Thread -> SUBSET File]
    BY DEF Basics, Batches
  <1>1. ASSUME NEW u \in Thread, Receive(u) PROVE UNCHANGED <<todo, healed, stale>>
    BY <1>1 DEF Receive, batchVars
  <1>2. ASSUME NEW u \in Thread, Observe(u) PROVE u = t \/ (todo'[t] = todo[t] /\ UNCHANGED <<healed, stale>>)
    BY <1>0, <1>2 DEF Observe
  <1>3. ASSUME NEW u \in Thread, Heal(u)
        PROVE  todo'[t] \cup healed'[t] \cup stale'[t] \subseteq todo[t] \cup healed[t] \cup stale[t]
    BY <1>0, <1>3 DEF Heal
  <1>4. ASSUME NEW u \in Thread, PassOver(u)
        PROVE  todo'[t] \cup healed'[t] \cup stale'[t] \subseteq todo[t] \cup healed[t] \cup stale[t]
    BY <1>0, <1>4 DEF PassOver
  <1>5. ASSUME NEW u \in Thread, Answer(u)
        PROVE  todo'[t] \cup healed'[t] \cup stale'[t] \subseteq todo[t] \cup healed[t] \cup stale[t]
    BY <1>0, <1>5 DEF Answer
  <1>6. ASSUME NEW u \in Thread, Check(u) \/ Lock(u) \/ Unlock(u) \/ MarkHealed(u) \/ Reindex(u)
        PROVE  UNCHANGED <<todo, healed, stale>>
    BY <1>6 DEF Check, Lock, Unlock, MarkHealed, Reindex, batchVars
  <1>7. ASSUME Preloading \/ Watching \/ UNCHANGED vars \/ (\E f \in File : Edit(f))
               \/ Evict \/ (\E g \in 1..loads : Save(g))
        PROVE  UNCHANGED <<todo, healed, stale>>
    BY <1>7 DEF Preloading, PreloadGraph, Seed, Warm, Watching, NextChangedFiles, WatchGet, Rebuild,
       WatchMark, vars, Edit, Evict, Save, batchVars
  <1>8. QED
    BY <1>1, <1>2, <1>3, <1>4, <1>5, <1>6, <1>7 DEF Next, Request

\* The tracker learns of a file what it holds; only the preload seeds it.
LEMMA TrackerSteps ==
  ASSUME Basics, [Next]_vars, NEW f \in File
  PROVE  \/ Seed
         \/ seeded' = seeded /\ tracker'[f] \in {tracker[f], disk[f].hash}
  <1>1. ASSUME NEW t \in Thread, Observe(t)
        PROVE  seeded' = seeded /\ tracker'[f] \in {tracker[f], disk[f].hash}
    BY <1>1 DEF Observe, ObserveAll, asideVars
  <1>2. ASSUME NEW t \in Thread, Receive(t) \/ Request(t), ~Observe(t) PROVE UNCHANGED <<seeded, tracker>>
    BY <1>2 DEF Receive, Request, Check, Lock, Heal, PassOver, Unlock, MarkHealed, Answer, Reindex, notedVars, asideVars
  <1>3. ASSUME PreloadGraph \/ Warm \/ Watching \/ UNCHANGED vars \/ (\E e \in File : Edit(e))
               \/ Evict \/ (\E g \in 1..loads : Save(g))
        PROVE  UNCHANGED <<seeded, tracker>>
    BY <1>3 DEF PreloadGraph, Warm, Watching, NextChangedFiles, WatchGet, Rebuild, WatchMark, vars, Edit,
       Evict, Save, notedVars, asideVars
  <1>4. QED
    BY <1>1, <1>2, <1>3 DEF Next, Preloading

-----------------------------------------------------------------------------
(* The rest of the invariant.                                              *)

LEMMA UntouchedNext == HealingInv /\ [Next]_vars => Untouched'
  <1> SUFFICES ASSUME HealingInv, [Next]_vars, NEW f \in seeded', f \notin touched'
               PROVE  tracker'[f] = disk'[f].hash
    BY DEF Untouched
  <1>1. Basics /\ f \in File
    BY BasicsNext DEF HealingInv, Basics, Sources
  <1>2. disk'[f] = disk[f] /\ f \notin touched
    BY <1>1, EditSteps
  <1>3. CASE Seed
    BY <1>1, <1>2, <1>3 DEF Seed, ObserveAll
  <1>4. CASE ~Seed
    BY <1>1, <1>2, <1>4, TrackerSteps DEF HealingInv, Untouched
  <1>5. QED
    BY <1>3, <1>4

LEMMA OnlyTouchedNext == HealingInv /\ [Next]_vars => OnlyTouchedHealed'
  <1> SUFFICES ASSUME HealingInv, [Next]_vars, NEW t \in Thread,
                      NEW f \in todo'[t] \cup healed'[t] \cup stale'[t], f \in seeded', f \notin touched'
               PROVE  FALSE
    BY DEF OnlyTouchedHealed
  <1>1. Basics /\ f \in File
    BY BasicsNext DEF HealingInv, Basics, Sources
  <1>2. disk'[f] = disk[f] /\ f \notin touched
    BY <1>1, EditSteps
  <1>3. CASE f \in seeded
    <2>1. f \notin todo[t] \cup healed[t] \cup stale[t]
      BY <1>2, <1>3 DEF HealingInv, OnlyTouchedHealed
    <2>2. CASE Observe(t)
      <3>1. todo' = [todo EXCEPT ![t] = Changed(files[t])] /\ UNCHANGED <<healed, stale>>
        BY <2>2 DEF Observe
      <3>2. f \notin Changed(files[t])
        BY <1>2, <1>3 DEF Changed, HealingInv, Untouched
      <3>3. QED
        BY <1>1, <2>1, <3>1, <3>2 DEF Basics, Batches
    <2>3. CASE ~Observe(t)
      BY <1>1, <2>1, <2>3, WorkSteps
    <2>4. QED
      BY <2>2, <2>3
  <1>4. CASE f \notin seeded
    <2>1. Seed
      BY <1>1, <1>4, TrackerSteps
    <2>2. UNCHANGED <<todo, healed, stale>> /\ pc[Preload] = "seed"
      BY <2>1 DEF Seed, batchVars
    <2>3. files[t] = {} /\ todo[t] \cup healed[t] \cup stale[t] \subseteq files[t]
      BY <1>1, <2>2 DEF Basics, Phases, Batches
    <2>4. QED
      BY <2>2, <2>3
  <1>5. QED
    BY <1>3, <1>4

LEMMA WatcherNext == HealingInv /\ [Next]_vars => WatcherOwes' /\ EventsOwed'
  <1> SUFFICES ASSUME HealingInv, [Next]_vars, own', NEW f \in File, Wrong(f)'
               PROVE  /\ f \in events' \cup files'[Watcher] \cup inherited'
                      /\ BatchDone' => f \in events' \cup inherited'
    BY DEF WatcherOwes, EventsOwed
  <1> USE ConstantsAssumption DEF Goto, Actor
  <1>0. /\ Basics /\ own
        /\ pc \in [Actor -> {"idle", "preload", "seed", "warm", "get", "check", "observe", "lock",
                             "heal", "mark", "answer", "reindex", "rebuild"}]
        /\ held \in [Actor -> Graph \cup {None}] /\ files \in [Actor -> SUBSET File]
        /\ current' = loads' /\ loads \in Nat /\ current \in {None, loads}
    <2>1. Basics
      BY DEF HealingInv
    <2>2. own /\ Basics'
      BY <2>1, BasicsNext, WatcherSteps
    <2>3. current \in {None, loads} /\ loads \in Nat
      BY <2>1 DEF Basics, Graphs
    <2>4. current' = loads'
      BY <2>2 DEF Basics, Graphs, Wrong
    <2>5. QED
      BY <2>1, <2>2, <2>3, <2>4 DEF Basics, Labels, Holding, Batches
  <1>1. CASE f \in events' \cup inherited'
    BY <1>1
  <1>2. CASE f \notin events' \cup inherited'
    <2>1. Wrong(f) /\ loads' = loads /\ disk'[f] = disk[f] /\ f \notin inherited /\ current' = current
      BY <1>0, <1>2, WrongSteps
    <2>2. f \in events \cup files[Watcher] /\ (BatchDone => f \in events)
      BY <1>0, <2>1 DEF HealingInv, WatcherOwes, EventsOwed
    <2>3. CASE ~Watching
      <3>1. /\ pc'[Watcher] = pc[Watcher] /\ held'[Watcher] = held[Watcher]
            /\ files'[Watcher] = files[Watcher] /\ events \subseteq events'
        BY <1>0, <2>3, WatcherSteps
      <3>2. QED
        BY <1>0, <1>2, <2>1, <2>2, <3>1 DEF BatchDone
    <2>4. CASE NextChangedFiles
      <3>1. PICK batch \in SUBSET events :
                  files' = [files EXCEPT ![Watcher] = batch] /\ events' = events \ batch
        BY <2>4 DEF NextChangedFiles, StillPending
      <3>2. pc[Watcher] = "idle" /\ pc' = [pc EXCEPT ![Watcher] = "get"]
        BY <2>4 DEF NextChangedFiles
      <3>3. files[Watcher] = {}
        BY <1>0, <3>2 DEF Basics, Batches
      <3>4. QED
        BY <1>0, <2>2, <3>1, <3>2, <3>3 DEF BatchDone
    <2>5. CASE WatchGet
      <3>1. UNCHANGED <<events, files, sourceVars>> /\ pc' = [pc EXCEPT ![Watcher] = "rebuild"]
            /\ GetOrLoad(Watcher, TRUE)
        BY <2>5 DEF WatchGet, batchVars
      <3>2. held' = [held EXCEPT ![Watcher] = loads']
        BY <1>0, <3>1, Loading DEF Basics
      <3>3. QED
        BY <1>0, <2>2, <3>1, <3>2 DEF BatchDone
    <2>6. CASE Rebuild
      <3>1. UNCHANGED <<events, files>> /\ pc[Watcher] = "rebuild"
        BY <2>6 DEF Rebuild, batchVars
      <3>2. CASE held[Watcher] # current
        BY <2>2, <3>1, <3>2 DEF BatchDone
      <3>3. CASE held[Watcher] = current
        <4>1. PICK g \in Graph : g = held[Watcher]
          BY <1>0, <3>1 DEF Basics, Holding
        <4>2. content' = [content EXCEPT ![g] = Reread(@, files[Watcher])]
          BY <2>6, <4>1 DEF Rebuild
        <4>3. f \in files[Watcher] => content'[g][f] = disk[f].hash
          BY <1>0, <4>1, <4>2 DEF Basics, Graphs, Reread
        <4>4. f \notin files[Watcher]
          BY <1>0, <2>1, <3>3, <4>1, <4>3 DEF Wrong
        <4>5. QED
          BY <2>2, <3>1, <4>4
      <3>4. QED
        BY <3>2, <3>3
    <2>7. CASE WatchMark
      BY <2>2, <2>7 DEF WatchMark, BatchDone
    <2>8. QED
      BY <2>3, <2>4, <2>5, <2>6, <2>7 DEF Watching
  <1>3. QED
    BY <1>1, <1>2

\* What becomes of a file that a query has to heal, in a project nobody watches.
LEMMA HealSteps ==
  ASSUME Basics, [Next]_vars, NEW f \in File, NEW t \in Thread, f \in todo[t],
         held[t] = current, loads' = loads, Wrong(f)'
  PROVE  f \in skipped' \/ disk'[f] # disk[f] \/ (held'[t] = current' /\ f \in todo'[t])
  <1> USE ConstantsAssumption DEF Actor, Goto
  <1>a. current # None /\ current' = current
    <2>1. current' # None /\ current \in {None, loads} /\ current' \in {None, loads'}
      BY BasicsNext DEF Basics, Graphs, Wrong
    <2>2. pc[t] \in {"lock", "heal"}
      BY DEF Basics, Labels, Batches
    <2>3. held[t] # None
      BY <2>2 DEF Basics, Holding
    <2>4. QED
      BY <2>1, <2>3
  <1>0. /\ pc[t] \in {"lock", "heal"} /\ held[t] \in Graph /\ current' = current
        /\ held \in [Actor -> Graph \cup {None}] /\ todo \in [Thread -> SUBSET File]
    BY <1>a DEF Basics, Labels, Batches, Holding, Graphs
  <1>1. ASSUME UNCHANGED <<held, todo>> PROVE held'[t] = current' /\ f \in todo'[t]
    BY <1>0, <1>1
  <1>2. ASSUME NEW a \in Actor \ {t}, held' = [held EXCEPT ![a] = None] \/ held' = [held EXCEPT ![a] = loads']
               \/ held' = held, todo' = todo
        PROVE  held'[t] = current' /\ f \in todo'[t]
    BY <1>0, <1>2
  <1>3. CASE Heal(t)
    <2>1. PICK e \in todo[t] : Reindexed(held[t], e) /\ todo' = [todo EXCEPT ![t] = @ \ {e}]
      BY <1>3 DEF Heal
    <2>2. PICK g \in Graph : g = held[t]
      BY <1>0
    <2>3. CASE e = f
      <3>1. content' = [content EXCEPT ![g][f] = disk[f].hash] /\ disk' = disk
        BY <1>3, <2>1, <2>2, <2>3 DEF Heal, Reindexed, sourceVars
      <3>2. content'[current][f] = disk'[f].hash
        BY <2>2, <3>1 DEF Basics, Graphs
      <3>3. QED
        BY <1>0, <3>2 DEF Wrong
    <2>4. CASE e # f
      BY <1>0, <1>3, <2>1, <2>4 DEF Heal
    <2>5. QED
      BY <2>3, <2>4
  <1>4. CASE PassOver(t)
    BY <1>4 DEF PassOver
  <1>5. CASE Lock(t) \/ Unlock(t)
    BY <1>0, <1>5 DEF Lock, Unlock, batchVars
  <1>6. ~(Receive(t) \/ Check(t) \/ Observe(t) \/ MarkHealed(t) \/ Answer(t) \/ Reindex(t))
    BY <1>0 DEF Receive, Check, Observe, MarkHealed, Answer, Reindex
  <1>7. ASSUME NEW u \in Thread \ {t}, Receive(u) PROVE held'[t] = current' /\ f \in todo'[t]
    BY <1>0, <1>7 DEF Receive, GetOrLoad, batchVars
  <1>8. ASSUME NEW u \in Thread \ {t}, Request(u) PROVE held'[t] = current' /\ f \in todo'[t]
    BY <1>0, <1>8 DEF Request, Check, Observe, Lock, Heal, PassOver, Unlock, MarkHealed, Answer, Reindex,
       batchVars
  <1>9. CASE Preloading
    BY <1>0, <1>9 DEF Preloading, PreloadGraph, Seed, Warm, GetOrLoad, batchVars
  <1>10. CASE Watching
    BY <1>0, <1>10 DEF Watching, NextChangedFiles, WatchGet, Rebuild, WatchMark, GetOrLoad, batchVars
  <1>11. CASE UNCHANGED vars \/ (\E e \in File : Edit(e)) \/ Evict \/ (\E g \in 1..loads : Save(g))
    BY <1>1, <1>11 DEF vars, Edit, Evict, Save, batchVars
  <1>12. QED
    BY <1>3, <1>4, <1>5, <1>6, <1>7, <1>8, <1>9, <1>10, <1>11 DEF Next, Request

\* A query that finds a moved file changed has it to heal, or passes it over.
LEMMA MovedSteps ==
  ASSUME Basics, [Next]_vars, ~own, NEW f \in moved
  PROVE  \/ f \in moved' \/ f \in skipped' \/ disk[f].hash = Absent
         \/ \E t \in Thread : held'[t] = current' /\ f \in todo'[t]
  <1>1. pc[Watcher] = "idle" /\ pc[Preload] = "idle" /\ events = {}
    BY DEF Basics, Phases
  <1>2. ~Preloading
    BY <1>1 DEF Preloading, PreloadGraph, Seed, Warm
  <1>3. ASSUME NEW t \in Thread, Observe(t) PROVE \/ f \in moved' \/ f \in skipped' \/ disk[f].hash = Absent
                                                  \/ held'[t] = current' /\ f \in todo'[t]
    <2>1. CASE f \in files[t] /\ tracker[f] # disk[f].hash /\ disk[f].hash # Absent
      <3>1. f \in File
        BY DEF Basics, Sources
      <3>2. f \in Changed(files[t])
        BY <2>1, <3>1 DEF Changed
      <3>3. /\ todo' = [todo EXCEPT ![t] = Changed(files[t])] /\ held' = held /\ current' = current
            /\ skipped' = IF held[t] = current THEN skipped ELSE skipped \cup Changed(files[t])
        BY <1>3 DEF Observe, graphVars
      <3>4. QED
        BY <3>2, <3>3 DEF Basics, Batches
    <2>2. CASE ~(f \in files[t] /\ tracker[f] # disk[f].hash)
      BY <1>3, <2>2 DEF Observe, ObserveAll
    <2>3. QED
      BY <2>1, <2>2
  <1>4. ASSUME NEW t \in Thread, Receive(t) \/ Request(t), ~Observe(t) PROVE f \in moved'
    BY <1>4 DEF Receive, Request, Check, Lock, Heal, PassOver, Unlock, MarkHealed, Answer, Reindex, notedVars
  <1>5. CASE Watching \/ UNCHANGED vars \/ (\E e \in File : Edit(e)) \/ Evict \/ (\E g \in 1..loads : Save(g))
    BY <1>5 DEF Evict, Save, Watching, NextChangedFiles, WatchGet, Rebuild, WatchMark, vars, Edit, notedVars
  <1>6. QED
    BY <1>2, <1>3, <1>4, <1>5 DEF Next

LEMMA AccountedNext == HealingInv /\ [Next]_vars => Accounted'
  <1> SUFFICES ASSUME HealingInv, [Next]_vars, ~own', NEW f \in File, Wrong(f)',
                      disk'[f].hash # Absent, f \notin moved', f \notin skipped', f \notin inherited'
               PROVE  \E t \in Thread : held'[t] = current' /\ f \in todo'[t]
    BY DEF Accounted
  <1>1. Basics /\ ~own
    BY WatcherSteps DEF HealingInv
  <1>2. /\ Wrong(f) /\ loads' = loads /\ disk'[f] = disk[f]
        /\ f \notin skipped /\ f \notin inherited
    <2>1. events' = {}
      BY <1>1, BasicsNext DEF Basics, Phases
    <2>2. QED
      BY <1>1, <2>1, WrongSteps
  <1>3. CASE f \in moved
    BY <1>1, <1>2, <1>3, MovedSteps
  <1>4. CASE f \notin moved
    <2>1. PICK t \in Thread : held[t] = current /\ f \in todo[t]
      BY <1>1, <1>2, <1>4 DEF HealingInv, Accounted
    <2>2. held'[t] = current' /\ f \in todo'[t]
      BY <1>1, <1>2, <2>1, HealSteps
    <2>3. QED
      BY <2>2
  <1>5. QED
    BY <1>3, <1>4

LEMMA HealingInvariant == Spec => []HealingInv
  <1>1. HealingInv /\ [Next]_vars => HealingInv'
    BY BasicsNext, UntouchedNext, OnlyTouchedNext, WatcherNext, AccountedNext DEF HealingInv
  <1>2. QED
    BY <1>1, HealingInit, PTL DEF Spec

-----------------------------------------------------------------------------
\* Every variable has its type; in particular a graph's write lock is held by
\* the query that heals it, and the work of a query is split without overlap
\* into what is to heal, what is healed and what was passed over.
THEOREM HealTypeCorrect == Spec => []TypeOK
  <1>1. HealingInv => TypeOK
    BY DEF HealingInv, Basics, Sources, Graphs, Stored, Labels, Holding, Locks, Batches, Phases, TypeOK
  <1>2. QED
    BY <1>1, HealingInvariant, PTL

\* In the watched project every file the resident graph has wrong is in an
\* event that waits, in the batch the watcher is at, or came wrong with the
\* snapshot of the last load, whatever the queries, reindexes, reloads,
\* evictions and edits in between.
THEOREM WatcherOwesHolds == Spec => []WatcherOwes
  <1>1. HealingInv => WatcherOwes
    BY DEF HealingInv
  <1>2. QED
    BY <1>1, HealingInvariant, PTL

\* The tracker has no query re-extract a file it was seeded with and nobody
\* touched, and loses a change only where LostOnlyIf says so.
THEOREM TrackerExactHolds == Spec => []TrackerExact
  <1>1. HealingInv => LostOnlyIf
    BY DEF HealingInv, LostOnlyIf, Lost, Noticed, WatcherOwes, Accounted, Basics, Sources
  <1>2. HealingInv => OnlyTouchedHealed
    BY DEF HealingInv
  <1>3. HealingInv => TrackerExact
    BY <1>1, <1>2 DEF TrackerExact
  <1>4. QED
    BY <1>3, HealingInvariant, PTL
=============================================================================
