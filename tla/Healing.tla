------------------------------ MODULE Healing ------------------------------
(***************************************************************************)
(* How the daemon keeps the graph of one project in step with its files    *)
(* while it serves queries (cli/src/commands/server.rs): the tracker of    *)
(* content hashes (graph/src/change_tracking.rs) and the heal of the files *)
(* it finds changed, under a deadline; the preload thread that seeds the   *)
(* tracker; the watcher's incremental rebuilds (watcher/src/debounce.rs);  *)
(* and reindex requests.                                                   *)
(*                                                                         *)
(* A graph is, for each file, the content its symbols were extracted from. *)
(* The tracker compares content hashes; built_at, which get_or_load        *)
(* compares with modification times, is a second and independent notion of *)
(* what has changed.  mark_dirty, which every change in place ends with,   *)
(* moves built_at for the whole project.                                   *)
(*                                                                         *)
(* The load of a graph is one step, from the snapshot or from the files,   *)
(* and an evictor's snapshot and removal are one each (Freshness has their *)
(* steps); so is the tracker's pass over its candidates.                   *)
(***************************************************************************)
EXTENDS Naturals, FiniteSets

CONSTANTS
    File,
    Thread,       \* request threads
    NoThread,
    NoSnapshot,
    Watcher,      \* the watcher thread
    Preload,      \* the preload thread
    MaxHash,      \* contents are 1 .. MaxHash
    StartHash,    \* the contents, or Absent, of files at the start
    MaxEdits,     \* bound: edits of files
    MaxLoads,     \* bound: graphs ever loaded; MaxEdits + MaxEvictions + 1 blocks nothing
    MaxEvictions, \* bound: snapshots written and graphs evicted
    MaxTurns,     \* bound: those and, counted twice, edits
    MaxOwnRequests, \* bound: requests in the watched project
    MaxRequests     \* bound: requests in a project nobody watches

ASSUME ConstantsAssumption ==
    /\ Watcher # Preload /\ {Watcher, Preload, NoThread} \cap Thread = {}
    /\ NoThread \notin {Watcher, Preload}
    /\ MaxHash \in Nat \ {0} /\ StartHash \subseteq 0..MaxHash /\ MaxEdits \in Nat
    /\ MaxOwnRequests \in Nat /\ MaxRequests \in Nat
    /\ MaxLoads \in Nat \ {0} /\ MaxEvictions \in Nat /\ MaxTurns \in Nat

Absent == 0     \* no such file, no nodes, no tracked state
Blank == 1      \* the content no extractor finds a symbol in
Hash == 0..MaxHash
Graph == 1..MaxLoads
None == 0
Actor == Thread \cup {Watcher, Preload}
\* "query" stands for the methods that heal, "read" for the other ones and for
\* no_heal; "reindex" changes one file.
Kinds == {"query", "read", "reindex"}

VARIABLES
    disk,      \* each file's content hash and modification time
    now, edits,
    events,    \* changed files the watcher has not been told yet
    own,       \* whether this is the daemon's default project
    tracker,   \* FileStateTracker.states
    warmed,
    current,   \* the graph the manager has for the project
    loads,
    content,   \* per graph and file, what its symbols were extracted from
    seen,      \* per graph, the files it has a node of
    builtAt,
    snapshot,  \* .coregraph/snapshot.bin: NoSnapshot, or a graph's content, seen and builtAt
    evictions,
    writer,    \* per graph, who holds its write lock
    pc, kind,
    held,      \* the graph Arc of a thread
    files,     \* files_snapshot of a query, or the watcher's batch
    todo,      \* changed files of a query, still to heal
    healed,    \* those healed
    stale,     \* those passed over at the deadline
    requests,
    touched,   \* history: files edited since the start
    moved,     \* history: files edited since the tracker found them changed
    skipped,   \* history: files whose last edit a query observed and left unhealed
    inherited, \* history: files the resident graph took over wrong from the snapshot
    seeded     \* history: files the tracker was seeded with

sourceVars == <<disk, now, edits, touched>>
notedVars == <<tracker, moved, skipped>>
graphVars  == <<current, loads, content, seen, builtAt>>
storeVars  == <<snapshot, evictions>>
batchVars  == <<files, todo, healed, stale>>
asideVars  == <<storeVars, inherited, seeded>>
vars == <<sourceVars, events, own, notedVars, warmed, graphVars, writer, pc, kind, held,
          batchVars, requests, asideVars>>

-----------------------------------------------------------------------------
\* What an earlier daemon left: a snapshot no file is newer than, whatever the
\* files were then (they may have been removed since, or put back with an old
\* modification time; or a mark_dirty had hidden an edit).
Left == [content : [File -> StartHash], seen : SUBSET File, builtAt : {0}]

Init ==
    /\ disk \in [File -> [hash : StartHash, time : {0}]]
    /\ now = 0 /\ edits = 0
    /\ events = {}
    /\ own \in BOOLEAN
    /\ tracker = [f \in File |-> Absent]
    /\ warmed = ~own     \* another project is first asked for later
    /\ current = None
    /\ loads = 0
    /\ content = [g \in Graph |-> [f \in File |-> Absent]]
    /\ seen = [g \in Graph |-> {}]
    /\ builtAt = [g \in Graph |-> 0]
    /\ \/ snapshot = NoSnapshot
       \/ /\ snapshot \in Left
          /\ snapshot.seen = {f \in File : snapshot.content[f] # Absent}
    /\ evictions = 0
    /\ writer = [g \in Graph |-> NoThread]
    /\ pc = [a \in Actor |-> IF a = Preload /\ own THEN "preload" ELSE "idle"]
    /\ kind = [t \in Thread |-> "read"]
    /\ held = [a \in Actor |-> None]
    /\ files = [a \in Actor |-> {}]
    /\ todo = [t \in Thread |-> {}]
    /\ healed = [t \in Thread |-> {}]
    /\ stale = [t \in Thread |-> {}]
    /\ requests = 0
    /\ touched = {} /\ moved = {} /\ skipped = {}
    /\ inherited = {} /\ seeded = {}

Goto(a, label) == pc' = [pc EXCEPT ![a] = label]
Unlocked(g) == writer[g] = NoThread

-----------------------------------------------------------------------------
\* An edit, a deletion or a creation.  Only the default project is watched.
Edit(f) ==
    /\ edits < MaxEdits /\ 2 * (edits + 1) + evictions <= MaxTurns
    /\ \E h \in Hash \ {disk[f].hash} :
         disk' = [disk EXCEPT ![f] = [hash |-> h,
                                      time |-> IF h = Absent THEN 0 ELSE now + 1]]
    /\ edits' = edits + 1
    /\ now' = now + 1
    /\ events' = IF own THEN events \cup {f} ELSE events
    /\ touched' = touched \cup {f}
    /\ moved' = moved \cup {f}
    /\ skipped' = skipped \ {f}
    /\ inherited' = inherited \ {f}
    /\ UNCHANGED <<own, tracker, warmed, graphVars, writer, pc, kind, held, batchVars,
                   requests, storeVars, seeded>>

\* source_tree_is_newer.
Newer(f, g) == disk[f].time > builtAt[g]

\* warm_load: a snapshot is taken when no file is newer, and not compared with
\* the files it was made from.
Warmable == snapshot # NoSnapshot /\ \A f \in File : disk[f].time <= snapshot.builtAt

Built == [content |-> [f \in File |-> disk[f].hash],
          seen |-> {f \in File : disk[f].hash # Absent},
          builtAt |-> now]

\* load_cached_graph.
Loaded == IF Warmable THEN snapshot ELSE Built

\* get_or_load: the resident graph, or one loaded.
GetOrLoad(a, refresh) ==
    LET stays == current # None /\ (refresh => ~\E f \in File : Newer(f, current)) IN
    \/ /\ stays
       /\ held' = [held EXCEPT ![a] = current]
       /\ UNCHANGED <<graphVars, inherited>>
    \/ /\ ~stays
       /\ loads < MaxLoads
       /\ loads' = loads + 1
       /\ current' = loads'
       /\ content' = [content EXCEPT ![loads'] = Loaded.content]
       /\ seen' = [seen EXCEPT ![loads'] = Loaded.seen]
       /\ builtAt' = [builtAt EXCEPT ![loads'] = Loaded.builtAt]
       /\ inherited' = {f \in File : Loaded.content[f] # disk[f].hash} \ events
       /\ held' = [held EXCEPT ![a] = loads']

\* mark_dirty finds the entry by path: it moves the built_at of the graph the
\* project has now.
MarkDirty == builtAt' = [g \in Graph |-> IF g = current THEN now ELSE builtAt[g]]

-----------------------------------------------------------------------------
(* The preload thread.                                                     *)

\* The default project is loaded; a load that fails leaves the tracker empty.
PreloadGraph ==
    /\ pc[Preload] = "preload"
    /\ \/ GetOrLoad(Preload, TRUE) /\ Goto(Preload, "seed")
       \/ Goto(Preload, "warm") /\ UNCHANGED <<graphVars, inherited, held>>
    /\ UNCHANGED <<sourceVars, events, own, notedVars, warmed, writer, kind, batchVars, requests,
                   storeVars, seeded>>

\* FileStateTracker::observe, for each of the files cs.
\* Mutant: a file the tracker does not know is no change.
ChangedSinceKnown(cs) == {f \in cs : tracker[f] # Absent /\ disk[f].hash \notin {Absent, tracker[f]}}
Changed(cs) == {f \in cs : disk[f].hash \notin {Absent, tracker[f]}}
Gone(cs) == {f \in cs : disk[f].hash = Absent /\ tracker[f] # Absent}
ObserveAll(cs) ==
    /\ tracker' = [f \in File |-> IF f \in cs THEN disk[f].hash ELSE tracker[f]]
    /\ moved' = {f \in moved : f \in cs => tracker[f] = disk[f].hash}

\* Under the graph's read lock, its files are observed as they are now.
Seed ==
    /\ pc[Preload] = "seed"
    /\ Unlocked(held[Preload])
    /\ ObserveAll(seen[held[Preload]])
    /\ seeded' = seen[held[Preload]]
    /\ UNCHANGED skipped
    /\ Goto(Preload, "warm")
    /\ UNCHANGED <<sourceVars, events, own, warmed, graphVars, writer, kind, held, batchVars,
                   requests, storeVars, inherited>>

Warm ==
    /\ pc[Preload] = "warm"
    /\ warmed' = TRUE
    /\ held' = [held EXCEPT ![Preload] = None]
    /\ Goto(Preload, "idle")
    /\ UNCHANGED <<sourceVars, events, own, notedVars, graphVars, writer, kind, batchVars,
                   requests, asideVars>>

-----------------------------------------------------------------------------
(* A request.                                                              *)

Heals(t) == kind[t] = "query" /\ warmed

\* A connection has a thread of its own: any idle one stands for it.  A reindex
\* takes the resident graph as it is.
Receive(t) ==
    /\ pc[t] = "idle"
    /\ t = CHOOSE u \in Thread : pc[u] = "idle"
    /\ requests < IF own THEN MaxOwnRequests ELSE MaxRequests
    /\ requests' = requests + 1
    /\ \E k \in Kinds :
         /\ kind' = [kind EXCEPT ![t] = k]
         /\ GetOrLoad(t, k # "reindex")
         /\ Goto(t, IF k = "reindex" THEN "reindex" ELSE "check")
    /\ UNCHANGED <<sourceVars, events, own, notedVars, warmed, writer, batchVars, storeVars, seeded>>

\* warmed is read once; files_snapshot is taken under the read lock.
Check(t) ==
    /\ pc[t] = "check"
    /\ IF Heals(t)
         THEN /\ Unlocked(held[t])
              /\ files' = [files EXCEPT ![t] = seen[held[t]]]
              /\ Goto(t, "observe")
         ELSE Goto(t, "answer") /\ UNCHANGED files
    /\ UNCHANGED <<sourceVars, events, own, notedVars, warmed, graphVars, writer, kind, held,
                   todo, healed, stale, requests, asideVars>>

\* Under the tracker's lock, dropped before the graph's is taken.
Observe(t) ==
    /\ pc[t] = "observe"
    /\ todo' = [todo EXCEPT ![t] = Changed(files[t])]
    /\ ObserveAll(files[t])
    /\ skipped' = IF held[t] = current THEN skipped ELSE skipped \cup Changed(files[t])
    /\ Goto(t, IF Changed(files[t]) \cup Gone(files[t]) = {} THEN "answer" ELSE "lock")
    /\ UNCHANGED <<sourceVars, events, own, warmed, graphVars, writer, kind, held, files,
                   healed, stale, requests, asideVars>>

\* The deadline runs from before the wait for the lock.
Lock(t) ==
    /\ pc[t] = "lock"
    /\ Unlocked(held[t])
    /\ writer' = [writer EXCEPT ![held[t]] = t]
    /\ Goto(t, "heal")
    /\ UNCHANGED <<sourceVars, events, own, notedVars, warmed, graphVars, kind, held, batchVars,
                   requests, asideVars>>

\* reindex_file_in_place_core: the file is read again; what is extracted from
\* it has no File node, so a file without symbols leaves no trace.
Reindexed(g, f) ==
    /\ content' = [content EXCEPT ![g][f] = disk[f].hash]
    /\ seen' = [seen EXCEPT ![g] = IF disk[f].hash \in {Absent, Blank}
                                     THEN @ \ {f} ELSE @ \cup {f}]

Heal(t) ==
    /\ pc[t] = "heal"
    /\ \E f \in todo[t] :
         /\ Reindexed(held[t], f)
         /\ todo' = [todo EXCEPT ![t] = @ \ {f}]
         /\ healed' = [healed EXCEPT ![t] = @ \cup {f}]
    /\ UNCHANGED <<sourceVars, events, own, notedVars, warmed, current, loads, builtAt, writer, pc,
                   kind, held, files, stale, requests, asideVars>>

\* The deadline passes: the files left are reported, and not healed.
PassOver(t) ==
    /\ pc[t] = "heal"
    /\ todo[t] # {}
    /\ stale' = [stale EXCEPT ![t] = todo[t]]
    /\ todo' = [todo EXCEPT ![t] = {}]
    /\ skipped' = skipped \cup todo[t]
    /\ UNCHANGED <<sourceVars, events, own, tracker, moved, warmed, graphVars, writer, pc, kind, held,
                   files, healed, requests, asideVars>>

Unlock(t) ==
    /\ pc[t] = "heal"
    /\ todo[t] = {}
    /\ writer' = [writer EXCEPT ![held[t]] = NoThread]
    /\ Goto(t, IF healed[t] = {} THEN "answer" ELSE "mark")
    /\ UNCHANGED <<sourceVars, events, own, notedVars, warmed, graphVars, kind, held, batchVars,
                   requests, asideVars>>

MarkHealed(t) ==
    /\ pc[t] = "mark"
    /\ MarkDirty
    /\ Goto(t, "answer")
    /\ UNCHANGED <<sourceVars, events, own, notedVars, warmed, current, loads, content, seen,
                   writer, kind, held, batchVars, requests, asideVars>>

\* The handler reads the graph under its read lock, then releases it.
Answer(t) ==
    /\ pc[t] = "answer"
    /\ Unlocked(held[t])
    /\ held' = [held EXCEPT ![t] = None]
    /\ files' = [files EXCEPT ![t] = {}]
    /\ healed' = [healed EXCEPT ![t] = {}]
    /\ stale' = [stale EXCEPT ![t] = {}]
    /\ kind' = [kind EXCEPT ![t] = "read"]
    /\ Goto(t, "idle")
    /\ UNCHANGED <<sourceVars, events, own, notedVars, warmed, graphVars, writer, todo, requests,
                   asideVars>>

\* A reindex of one file, under the write lock, of which the tracker hears nothing.
Reindex(t) ==
    /\ pc[t] = "reindex"
    /\ Unlocked(held[t])
    /\ \E f \in File : Reindexed(held[t], f)
    /\ Goto(t, "mark")
    /\ UNCHANGED <<sourceVars, events, own, notedVars, warmed, current, loads, builtAt, writer,
                   kind, held, batchVars, requests, asideVars>>

-----------------------------------------------------------------------------
(* The watcher thread.                                                     *)

\* Mutant: a batch is taken, and what else has arrived is dropped.
Remaining(batch) == {}
\* The window closes after any of the events that wait.
StillPending(batch) == events \ batch

\* next_changed_files: one event or more, until the window closes.
NextChangedFiles ==
    /\ pc[Watcher] = "idle"
    /\ \E batch \in (SUBSET events) \ {{}} :
         /\ files' = [files EXCEPT ![Watcher] = batch]
         /\ events' = StillPending(batch)
    /\ Goto(Watcher, "get")
    /\ UNCHANGED <<sourceVars, own, notedVars, warmed, graphVars, writer, kind, held, todo, healed,
                   stale, requests, asideVars>>

WatchGet ==
    /\ pc[Watcher] = "get"
    /\ GetOrLoad(Watcher, TRUE)
    /\ Goto(Watcher, "rebuild")
    /\ UNCHANGED <<sourceVars, events, own, notedVars, warmed, writer, kind, batchVars, requests,
                   storeVars, seeded>>

\* Mutant: a deleted file is passed over.
RereadPresent(c, batch) ==
    [f \in File |-> IF f \in batch /\ disk[f].hash # Absent THEN disk[f].hash ELSE c[f]]
Reread(c, batch) == [f \in File |-> IF f \in batch THEN disk[f].hash ELSE c[f]]

\* build_graph_incremental, under the write lock: each file of the batch is
\* read again and has its File node.
Rebuild ==
    LET g == held[Watcher]
        batch == files[Watcher]
    IN
    /\ pc[Watcher] = "rebuild"
    /\ Unlocked(g)
    /\ content' = [content EXCEPT ![g] = Reread(@, batch)]
    /\ seen' = [seen EXCEPT ![g] = (@ \ batch) \cup {f \in batch : disk[f].hash # Absent}]
    /\ Goto(Watcher, "mark")
    /\ UNCHANGED <<sourceVars, events, own, notedVars, warmed, current, loads, builtAt, writer,
                   kind, held, batchVars, requests, asideVars>>

WatchMark ==
    /\ pc[Watcher] = "mark"
    /\ MarkDirty
    /\ held' = [held EXCEPT ![Watcher] = None]
    /\ files' = [files EXCEPT ![Watcher] = {}]
    /\ Goto(Watcher, "idle")
    /\ UNCHANGED <<sourceVars, events, own, notedVars, warmed, current, loads, content, seen,
                   writer, kind, todo, healed, stale, requests, asideVars>>

-----------------------------------------------------------------------------
(* Evictors: idle unload, the LRU, the exit.                               *)

\* persist_entry takes built_at and then, under its read lock, whatever the
\* graph has become; it may be the snapshot of a graph replaced meanwhile.  A
\* file renamed while another evictor writes it cannot be read.
Save(g) ==
    /\ evictions < MaxEvictions /\ 2 * edits + evictions < MaxTurns
    /\ Unlocked(g)
    /\ \/ snapshot' = NoSnapshot
       \/ \E at \in 0..builtAt[g] :
            snapshot' = [content |-> content[g], seen |-> seen[g], builtAt |-> at]
    /\ evictions' = evictions + 1
    /\ UNCHANGED <<sourceVars, events, own, notedVars, warmed, graphVars, writer, pc, kind, held,
                   batchVars, requests, inherited, seeded>>

\* The entry is removed, its snapshot written or not.
Evict ==
    /\ evictions < MaxEvictions /\ 2 * edits + evictions < MaxTurns
    /\ current # None
    /\ current' = None
    /\ evictions' = evictions + 1
    /\ UNCHANGED <<sourceVars, events, own, notedVars, warmed, loads, content, seen, builtAt, writer,
                   pc, kind, held, batchVars, requests, snapshot, inherited, seeded>>

-----------------------------------------------------------------------------
Request(t) == \/ Check(t) \/ Observe(t) \/ Lock(t) \/ Heal(t) \/ PassOver(t)
              \/ Unlock(t) \/ MarkHealed(t) \/ Answer(t) \/ Reindex(t)
Preloading == PreloadGraph \/ Seed \/ Warm
Watching == NextChangedFiles \/ WatchGet \/ Rebuild \/ WatchMark

Next ==
    \/ \E f \in File : Edit(f)
    \/ \E t \in Thread : Receive(t) \/ Request(t)
    \/ Preloading
    \/ Watching
    \/ \E g \in 1..loads : Save(g)
    \/ Evict

\* Threads run on; nobody has to edit a file or to ask anything.
Fairness ==
    /\ \A t \in Thread : WF_vars(Request(t))
    /\ WF_vars(Preloading)
    /\ WF_vars(Watching)

Spec == Init /\ [][Next]_vars /\ Fairness

-----------------------------------------------------------------------------
(* Properties.                                                             *)

\* Every variable has its type, and only files of the batch are in the works.
TypeOK ==
    /\ disk \in [File -> [hash : Hash, time : 0..now]]
    /\ now \in 0..MaxEdits /\ edits = now
    /\ events \subseteq touched /\ (own \/ events = {})
    /\ tracker \in [File -> Hash]
    /\ warmed \in BOOLEAN /\ own \in BOOLEAN
    /\ loads \in 0..MaxLoads /\ current \in {None, loads}
    /\ snapshot = NoSnapshot \/ snapshot \in [content : [File -> Hash], seen : SUBSET File,
                                             builtAt : 0..now]
    /\ evictions \in 0..MaxEvictions
    /\ inherited \subseteq File /\ seeded \subseteq File
    /\ content \in [Graph -> [File -> Hash]]
    /\ \A g \in Graph : \A f \in seen[g] : content[g][f] # Absent
    /\ builtAt \in [Graph -> 0..now]
    /\ writer \in [Graph -> Thread \cup {NoThread}]
    /\ \A t \in Thread, g \in Graph :
         (writer[g] = t) <=> (pc[t] = "heal" /\ held[t] = g)
    /\ pc \in [Actor -> {"idle", "preload", "seed", "warm", "get", "check", "observe", "lock",
                         "heal", "mark", "answer", "reindex", "rebuild"}]
    /\ kind \in [Thread -> Kinds]
    /\ held \in [Actor -> Graph \cup {None}]
    /\ files \in [Actor -> SUBSET File]
    /\ \A t \in Thread : /\ todo[t] \cup healed[t] \cup stale[t] \subseteq files[t]
                         /\ todo[t] \cap (healed[t] \cup stale[t]) = {}
                         /\ healed[t] \cap stale[t] = {}
    /\ requests \in Nat
    /\ touched \subseteq File /\ moved \subseteq touched /\ skipped \subseteq File

\* The file's symbols are not those of its content.
Wrong(f) == current # None /\ content[current][f] # disk[f].hash

\* In the watched project, a file the resident graph has wrong is one the
\* watcher still has to read, whatever reloads, heals, evictions, detached graphs
\* and later edits come between its event and its batch; or else the snapshot had
\* it wrong when the graph was last loaded, and nobody has edited it since.
WatcherOwes ==
    own => \A f \in File : Wrong(f) => f \in events \cup files[Watcher] \cup inherited

\* ... and so the graph of the watched project is right for good once the
\* edits stop, but for those files.
Converges == <>[](own => \A f \in File : Wrong(f) => f \in inherited)

\* architecture.md:149-151: "if the source tree changed since the cached graph was
\* built, the entry is evicted and rebuilt before answering, so you never query a
\* stale graph".  A graph just loaded has every file as it is on disk.
LoadedFresh ==
    [][loads' # loads => \A f \in File : content'[loads'][f] = disk[f].hash]_vars

\* A file the tracker was seeded with and nobody touched is never taken for a
\* changed one: no query re-extracts it, or reports it stale.
OnlyTouchedHealed ==
    \A t \in Thread : (todo[t] \cup healed[t] \cup stale[t]) \cap seeded \subseteq touched

\* What tells a later query of a wrong file: its modification time, or its
\* hash, or a query that is healing it.
Noticed(f) ==
    \/ Newer(f, current)
    \/ f \in seen[current] /\ tracker[f] # disk[f].hash
    \/ \E t \in Thread : held[t] = current /\ f \in todo[t]
    \/ f \in events \cup files[Watcher]
Lost(f) == Wrong(f) /\ ~Noticed(f)

\* In a project that nobody watches, a file is lost, wrong with nothing left to
\* notice it once some mark_dirty has moved built_at, only if it was removed, was
\* edited since the tracker last found it changed (it has no node, being new or
\* healed while it had no symbol, or was edited back to the content the tracker
\* knows), or was observed by a query whose deadline passed or whose graph had
\* been replaced, or was wrong in the snapshot the graph comes from: no
\* interleaving of reloads, evictions, heals, reindexes and edits loses any other.
LostOnlyIf ==
    \A f \in File : Lost(f) => disk[f].hash = Absent \/ f \in moved \cup skipped \cup inherited

\* The tracker neither reports a file nobody touched nor, but for those cases,
\* misses one.
TrackerExact == OnlyTouchedHealed /\ LostOnlyIf

\* healing.rs:33: healing makes a query "a point-in-time-correct view even when
\* the watch loop hasn't caught up yet".  Every file a warmed query answers
\* from is as it is on disk, was edited or removed since the query looked, or
\* is reported stale.
AnswersCorrect ==
    [][\A t \in Thread, f \in File :
         pc[t] = "answer" /\ pc'[t] = "idle" /\ kind[t] = "query" /\ files[t] # {} =>
           \/ content[held[t]][f] = disk[f].hash
           \/ f \in stale[t]
           \/ disk[f].hash = Absent \/ f \notin files[t]
           \/ tracker[f] # disk[f].hash]_vars
=============================================================================
