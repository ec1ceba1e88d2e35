------------------------------ MODULE Freshness ------------------------------
(***************************************************************************)
(* What the cached graph of ONE project contains, compared with the        *)
(* project's source files: built_at and its staleness check                *)
(* (crates/cli/src/project_manager.rs), the load from the snapshot or from *)
(* source and the handlers that change a graph in place                    *)
(* (crates/cli/src/commands/server.rs), and the snapshot file              *)
(* (crates/graph/src/persistence.rs, snapshot.rs), across crashes of the   *)
(* daemon.                                                                 *)
(*                                                                         *)
(* A graph is the version of each file its symbols were extracted from.    *)
(* The version of a file is its modification time; 0 is "no such file",    *)
(* for a deleted file has no modification time that could be newer than    *)
(* anything.  Clocks are exact: an edit is later than every clock reading  *)
(* before it.                                                              *)
(*                                                                         *)
(* Gates, LRU and the counts of several projects are ProjectManager's:     *)
(* here a thread that finds the gate taken just waits, and an evictor (the *)
(* sweeper, or a thread that loads another project) may choose this        *)
(* project whenever it has no active query.                                *)
(***************************************************************************)
EXTENDS Integers, FiniteSets

CONSTANTS
  File,
  Thread,      \* request threads, the preload thread and the watcher thread
  Evictor,     \* threads that run quiesce_and_remove
  NoThread,
  Kinds,       \* which kinds of request the threads issue
  MaxRequests, \* bound: requests per thread
  MaxEdits,    \* bound: edits and deletions of files
  MaxLoads,    \* bound: graphs ever built or restored
  MaxEvictions,\* bound: quiesce_and_remove runs per evictor
  MaxCrashes,  \* bound: kills of the daemon process
  DiskFails    \* whether writing a snapshot may fail

\* "query" stands for every method but reindex and reload_project, for the
\* preload thread and for the watcher's incremental rebuild; "rebuild" is the
\* full rebuild the watcher falls back to.
AllKinds == {"query", "reindex", "reload", "rebuild"}

ASSUME ConstantsOK ==
  /\ NoThread \notin Thread
  /\ Thread \cap Evictor = {}
  /\ Kinds \subseteq AllKinds
  /\ MaxRequests \in Nat /\ MaxEdits \in Nat /\ MaxLoads \in Nat
  /\ MaxEvictions \in Nat /\ MaxCrashes \in Nat
  /\ DiskFails \in BOOLEAN

Graph == 1..MaxLoads  \* the graphs, in the order they are loaded
None == 0             \* no graph

VARIABLES
  disk,     \* the version of each file
  now,      \* the clock, which moves at each edit
  store,    \* snapshot.bin.tmp and snapshot.bin
  current,  \* the graph inner.projects has for the project
  gate,     \* inner.loading: the thread that loads, or NoThread
  loads,    \* graphs loaded so far
  content, builtAt, dirty, active,   \* the fields of each graph's entry
  pc, kind,
  held,     \* the graph Arc of a thread, or the victim of an evictor
  todo,     \* files a thread has still to read
  fresh,    \* the graph a thread is building
  stamp,    \* the built_at a thread or an evictor has in a local variable
  warm,     \* whether the graph a thread is building is from_snapshot
  handle,   \* the name an evictor's open snapshot file has now
  requests, edits, evictions, crashes,
  hidden    \* history: the version of each file that a late built_at passed over

sourceVars  == <<disk, now, edits>>
managerVars == <<current, gate, loads>>
entryVars   == <<content, builtAt, dirty, active>>
buildVars   == <<todo, fresh, warm>>
boundVars   == <<requests, evictions, crashes>>
vars == <<sourceVars, store, managerVars, entryVars, pc, kind, held, buildVars, stamp,
          handle, boundVars, hidden>>

Actor == Thread \cup Evictor
Time == 0..(MaxEdits + 1)
Content == [File -> Time]
Empty == [f \in File |-> 0]

\* A snapshot file: absent; "torn", being written or cut short; or whole.
Absent == [state |-> "absent", content |-> Empty, builtAt |-> 0]
Torn == [Absent EXCEPT !.state = "torn"]
Whole(c, at) == [state |-> "whole", content |-> c, builtAt |-> at]

\* source_tree_is_newer, config.toml being one of the files.
Newer(at) == \E f \in File : disk[f] > at

\* The graph is locked for writing by a thread, or for reading by an evictor
\* that persists it.
WriteLocked(g) == \E t \in Thread : held[t] = g /\ pc[t] = "extract" /\ todo[t] # {}
ReadLocked(g) == \E e \in Evictor : held[e] = g /\ pc[e] \in {"write", "rename"}

-----------------------------------------------------------------------------
Init ==
  /\ disk = [f \in File |-> 1]
  /\ now = 1
  /\ store = [n \in {"tmp", "snap"} |-> Absent]
  /\ current = None
  /\ gate = NoThread
  /\ loads = 0
  /\ content = [g \in Graph |-> Empty]
  /\ builtAt = [g \in Graph |-> 0]
  /\ dirty = [g \in Graph |-> FALSE]
  /\ active = [g \in Graph |-> 0]
  /\ pc = [a \in Actor |-> "idle"]
  /\ kind = [t \in Thread |-> "none"]
  /\ held = [a \in Actor |-> None]
  /\ todo = [t \in Thread |-> {}]
  /\ fresh = [t \in Thread |-> Empty]
  /\ warm = [t \in Thread |-> FALSE]
  /\ stamp = [a \in Actor |-> 0]
  /\ handle = [e \in Evictor |-> "none"]
  /\ requests = [t \in Thread |-> 0]
  /\ evictions = [e \in Evictor |-> 0]
  /\ edits = 0
  /\ crashes = 0
  /\ hidden = Empty

Goto(a, label) == pc' = [pc EXCEPT ![a] = label]

\* A thread's half-built graph goes out of scope.
EndBuild(t) ==
  /\ todo' = [todo EXCEPT ![t] = {}]
  /\ fresh' = [fresh EXCEPT ![t] = Empty]
  /\ warm' = [warm EXCEPT ![t] = FALSE]
  /\ stamp' = [stamp EXCEPT ![t] = 0]

-----------------------------------------------------------------------------
(* The source tree.                                                        *)

\* A file is written, or created.
Edit(f) ==
  /\ edits < MaxEdits
  /\ edits' = edits + 1
  /\ now' = now + 1
  /\ disk' = [disk EXCEPT ![f] = now + 1]
  /\ UNCHANGED <<store, managerVars, entryVars, pc, kind, held, buildVars, stamp, handle,
                 boundVars, hidden>>

Delete(f) ==
  /\ edits < MaxEdits
  /\ disk[f] # 0
  /\ edits' = edits + 1
  /\ disk' = [disk EXCEPT ![f] = 0]
  /\ UNCHANGED <<now, store, managerVars, entryVars, pc, kind, held, buildVars, stamp,
                 handle, boundVars, hidden>>

-----------------------------------------------------------------------------
(* A request: get_or_load.                                                 *)

\* reload_project unloads the project first; the handler then takes the lock
\* again for get_or_load.  The watcher builds the graph before it does either.
Receive(t) ==
  /\ pc[t] = "idle"
  /\ requests[t] < MaxRequests
  /\ requests' = [requests EXCEPT ![t] = @ + 1]
  /\ \E k \in Kinds :
       /\ kind' = [kind EXCEPT ![t] = k]
       /\ current' = IF k = "reload" THEN None ELSE current
       /\ todo' = [todo EXCEPT ![t] = IF k = "rebuild" THEN File ELSE {}]
       /\ Goto(t, IF k = "rebuild" THEN "prebuild" ELSE "get")
  /\ UNCHANGED <<sourceVars, store, gate, loads, entryVars, held, fresh, warm, stamp, handle,
                 evictions, crashes, hidden>>

\* The watcher's graph is finished: it unloads the project and takes built_at.
Prebuilt(t) ==
  /\ pc[t] = "prebuild"
  /\ todo[t] = {}
  /\ current' = None
  /\ stamp' = [stamp EXCEPT ![t] = now]
  /\ Goto(t, "get")
  /\ UNCHANGED <<sourceVars, store, gate, loads, entryVars, kind, held, buildVars, handle,
                 boundVars, hidden>>

\* Only reindex is loaded without the staleness check.
MustEvict(t) == current # None /\ kind[t] # "reindex" /\ Newer(builtAt[current])

Hit(t) ==
  /\ pc[t] = "get"
  /\ current # None
  /\ ~MustEvict(t)
  /\ active' = [active EXCEPT ![current] = @ + 1]
  /\ held' = [held EXCEPT ![t] = current]
  /\ EndBuild(t)  \* a rebuilt graph is not used
  /\ Goto(t, "run")
  /\ UNCHANGED <<sourceVars, store, managerVars, content, builtAt, dirty, kind, handle,
                 boundVars, hidden>>

\* A stale entry is dropped; the thread takes the gate once it is free.
Miss(t) ==
  /\ pc[t] = "get"
  /\ current = None \/ MustEvict(t)
  /\ gate = NoThread
  /\ current' = None
  /\ gate' = t
  /\ Goto(t, IF kind[t] = "rebuild" THEN "scan" ELSE "load")
  /\ UNCHANGED <<sourceVars, store, loads, entryVars, kind, held, buildVars, stamp, handle,
                 boundVars, hidden>>

\* load_cached_graph reads the snapshot into memory ...
ReadSnapshot(t) ==
  /\ pc[t] = "load"
  /\ kind[t] # "reload"
  /\ fresh' = [fresh EXCEPT ![t] = store["snap"].content]
  /\ stamp' = [stamp EXCEPT ![t] = store["snap"].builtAt]
  /\ warm' = [warm EXCEPT ![t] = store["snap"].state = "whole"]
  /\ Goto(t, "accept")
  /\ UNCHANGED <<sourceVars, store, managerVars, entryVars, kind, held, todo, handle,
                 boundVars, hidden>>

\* Mutants, here and below: slips a change of this code could make, which the
\* properties must notice.  Any snapshot that can be read is good enough.
AcceptAlways(t) == warm[t]

\* ... and keeps it if it could be read and no source file is newer.
Accepted(t) == warm[t] /\ ~Newer(stamp[t])

WarmLoad(t) ==
  /\ pc[t] = "accept"
  /\ Accepted(t)
  /\ Goto(t, "scan")
  /\ UNCHANGED <<sourceVars, store, managerVars, entryVars, kind, held, buildVars, stamp,
                 handle, boundVars, hidden>>

\* Mutant: built_at is taken when the graph is finished.
StampAtEnd(t) == now

StampAtStart(t) == stamp[t]

\* Otherwise it builds from source; built_at is taken before the walk.
ColdLoad(t) ==
  /\ \/ pc[t] = "load" /\ kind[t] = "reload"
     \/ pc[t] = "accept" /\ ~Accepted(t)
  /\ stamp' = [stamp EXCEPT ![t] = now]
  /\ fresh' = [fresh EXCEPT ![t] = Empty]
  /\ todo' = [todo EXCEPT ![t] = File]
  /\ warm' = [warm EXCEPT ![t] = FALSE]
  /\ Goto(t, "scan")
  /\ UNCHANGED <<sourceVars, store, managerVars, entryVars, kind, held, handle, boundVars,
                 hidden>>

\* build_graph reads one file after the other.
Scan(t) ==
  /\ pc[t] \in {"prebuild", "scan"}
  /\ \E f \in todo[t] :
       /\ todo' = [todo EXCEPT ![t] = @ \ {f}]
       /\ fresh' = [fresh EXCEPT ![t][f] = disk[f]]
  /\ UNCHANGED <<sourceVars, store, managerVars, entryVars, pc, kind, held, stamp, warm,
                 handle, boundVars, hidden>>

\* The build fails and so does the request.
BuildFails(t) ==
  /\ pc[t] = IF kind[t] = "rebuild" THEN "prebuild" ELSE "scan"
  /\ ~warm[t]
  /\ gate' = IF gate = t THEN NoThread ELSE gate
  /\ EndBuild(t)
  /\ kind' = [kind EXCEPT ![t] = "none"]
  /\ Goto(t, "idle")
  /\ UNCHANGED <<sourceVars, store, current, loads, entryVars, held, handle, boundVars, hidden>>

\* What the built_at of a rebuild, taken after the walk, passes over.
PassedOver(t, f) ==
  kind[t] = "rebuild" /\ fresh[t][f] # disk[f] /\ disk[f] <= stamp[t]

\* The graph is finished and becomes the project's entry.
Insert(t) ==
  /\ pc[t] = "scan"
  /\ todo[t] = {}
  /\ loads < MaxLoads
  /\ LET g == loads + 1 IN
     /\ loads' = g
     /\ current' = g
     /\ content' = [content EXCEPT ![g] = fresh[t]]
     /\ builtAt' = [builtAt EXCEPT ![g] = StampAtStart(t)]
     /\ dirty' = [dirty EXCEPT ![g] = ~warm[t]]
     /\ active' = [active EXCEPT ![g] = 1]
     /\ held' = [held EXCEPT ![t] = g]
  /\ gate' = NoThread
  /\ hidden' = [f \in File |-> IF PassedOver(t, f) THEN disk[f] ELSE hidden[f]]
  /\ EndBuild(t)
  /\ Goto(t, "run")
  /\ UNCHANGED <<sourceVars, store, kind, handle, boundVars>>

-----------------------------------------------------------------------------
(* A request: the handler from get_or_load on.                             *)

\* What a request re-extracts.  A heal and the watcher's rebuild take some of
\* the files (the tracker, the watcher and the 200 ms deadline say which), a
\* reindex the file it is asked for, or all, or none when it fails.
Batches(k) ==
  CASE k = "query"   -> (SUBSET File) \ {{}}
    [] k = "reindex" -> {{f} : f \in File} \cup {{}, File}
    [] OTHER         -> {}

\* The request takes the graph's write lock.
StartExtract(t) ==
  /\ pc[t] = "run"
  /\ ~WriteLocked(held[t]) /\ ~ReadLocked(held[t])
  /\ \E S \in Batches(kind[t]) : todo' = [todo EXCEPT ![t] = S]
  /\ Goto(t, "extract")
  /\ UNCHANGED <<sourceVars, store, managerVars, entryVars, kind, held, fresh, warm, stamp,
                 handle, boundVars, hidden>>

\* reindex_file_in_place_core, or the watcher's rebuild, of one file.
Extract(t) ==
  /\ pc[t] = "extract"
  /\ \E f \in todo[t] :
       /\ todo' = [todo EXCEPT ![t] = @ \ {f}]
       /\ content' = [content EXCEPT ![held[t]][f] = disk[f]]
  /\ UNCHANGED <<sourceVars, store, managerVars, builtAt, dirty, active, pc, kind, held, fresh,
                 warm, stamp, handle, boundVars, hidden>>

DirtyStamp == now

\* mark_dirty, after the write lock is released: it finds the entry by path.
\* What changed on disk and is not in that entry's graph is hidden from then
\* on by the newer built_at.
MarkDirty(t) ==
  /\ pc[t] = "extract"
  /\ todo[t] = {}
  /\ IF current = None
       THEN UNCHANGED <<dirty, builtAt, hidden>>
       ELSE /\ dirty' = [dirty EXCEPT ![current] = TRUE]
            /\ builtAt' = [builtAt EXCEPT ![current] = DirtyStamp]
            /\ hidden' = [f \in File |->
                            IF content[current][f] # disk[f] THEN disk[f] ELSE hidden[f]]
  /\ Goto(t, "release")
  /\ UNCHANGED <<sourceVars, store, managerVars, content, active, kind, held, buildVars,
                 stamp, handle, boundVars>>

\* A request that changes nothing.
Answer(t) ==
  /\ pc[t] = "run"
  /\ kind[t] \in {"query", "rebuild"}
  /\ kind[t] = "query" => ~WriteLocked(held[t])
  /\ Goto(t, "release")
  /\ UNCHANGED <<sourceVars, store, managerVars, entryVars, kind, held, buildVars, stamp,
                 handle, boundVars, hidden>>

\* The end of a request: release, by path, but for reload_project.  Below
\* zero the counter is a wrapped usize: never 0 until as many come back.
Finish(t) ==
  /\ \/ pc[t] = "release"
     \/ pc[t] = "run" /\ kind[t] = "reload"
  /\ active' = IF pc[t] = "release" /\ current # None
                 THEN [active EXCEPT ![current] = @ - 1]
                 ELSE active
  /\ kind' = [kind EXCEPT ![t] = "none"]
  /\ held' = [held EXCEPT ![t] = None]
  /\ Goto(t, "idle")
  /\ UNCHANGED <<sourceVars, store, managerVars, content, builtAt, dirty, buildVars, stamp,
                 handle, boundVars, hidden>>

-----------------------------------------------------------------------------
(* quiesce_and_remove with this project among its victims.                 *)

Select(e) ==
  /\ pc[e] = "idle"
  /\ evictions[e] < MaxEvictions
  /\ current # None
  /\ active[current] = 0
  /\ held' = [held EXCEPT ![e] = current]
  /\ evictions' = [evictions EXCEPT ![e] = @ + 1]
  /\ Goto(e, "persist")
  /\ UNCHANGED <<sourceVars, store, managerVars, entryVars, kind, buildVars, stamp, handle,
                 requests, crashes, hidden>>

\* persist_entry: a clean graph needs no snapshot; of a dirty one built_at is
\* read before the graph is locked.
CheckDirty(e) ==
  /\ pc[e] = "persist"
  /\ IF dirty[held[e]]
       THEN /\ stamp' = [stamp EXCEPT ![e] = builtAt[held[e]]]
            /\ Goto(e, "open")
       ELSE Goto(e, "remove") /\ UNCHANGED stamp
  /\ UNCHANGED <<sourceVars, store, managerVars, entryVars, kind, held, buildVars, handle,
                 boundVars, hidden>>

\* persist takes the graph's read lock and creates or truncates the temporary
\* file, whose name is the same for everybody.
OpenTmp(e) ==
  /\ pc[e] = "open"
  /\ ~WriteLocked(held[e])
  /\ store' = [store EXCEPT !["tmp"] = Torn]
  /\ handle' = [handle EXCEPT ![e] = "tmp"]
  /\ Goto(e, "write")
  /\ UNCHANGED <<sourceVars, managerVars, entryVars, kind, held, buildVars, stamp, boundVars,
                 hidden>>

\* The bytes go to the file that was opened, whatever its name is now.
WriteTmp(e) ==
  /\ pc[e] = "write"
  /\ store' = IF handle[e] \in {"tmp", "snap"}
                THEN [store EXCEPT ![handle[e]] = Whole(content[held[e]], stamp[e])]
                ELSE store
  /\ Goto(e, "rename")
  /\ UNCHANGED <<sourceVars, managerVars, entryVars, kind, held, buildVars, stamp, handle,
                 boundVars, hidden>>

\* A full disk: the temporary file stays as it is, the graph stays dirty.
WriteFails(e) ==
  /\ pc[e] = "write"
  /\ DiskFails
  /\ handle' = [handle EXCEPT ![e] = "none"]
  /\ Goto(e, "remove")
  /\ UNCHANGED <<sourceVars, store, managerVars, entryVars, kind, held, buildVars, stamp,
                 boundVars, hidden>>

\* Whatever file is called snapshot.bin.tmp becomes snapshot.bin, for every
\* process that has it open, and the one that was is unlinked.  Without such a
\* file the snapshot failed.
Rename(e) ==
  /\ pc[e] = "rename"
  /\ IF store["tmp"].state = "absent"
       THEN /\ handle' = [handle EXCEPT ![e] = "none"]
            /\ UNCHANGED <<store, dirty>>
       ELSE /\ store' = [tmp |-> Absent, snap |-> store["tmp"]]
            /\ dirty' = [dirty EXCEPT ![held[e]] = FALSE]
            /\ handle' = [d \in Evictor |->
                            CASE d = e \/ handle[d] = "snap" -> "none"
                              [] d # e /\ handle[d] = "tmp"  -> "snap"
                              [] OTHER                       -> handle[d]]
  /\ Goto(e, "remove")
  /\ UNCHANGED <<sourceVars, managerVars, content, builtAt, active, kind, held, buildVars,
                 stamp, boundVars, hidden>>

\* The revive guard looks at the entry the path has now.
Remove(e) ==
  /\ pc[e] = "remove"
  /\ current' = IF current # None /\ active[current] = 0 THEN None ELSE current
  /\ held' = [held EXCEPT ![e] = None]
  /\ stamp' = [stamp EXCEPT ![e] = 0]
  /\ Goto(e, "idle")
  /\ UNCHANGED <<sourceVars, store, gate, loads, entryVars, kind, buildVars, handle, boundVars,
                 hidden>>

-----------------------------------------------------------------------------
\* The daemon is killed and started again: only files survive.
Crash ==
  /\ crashes < MaxCrashes
  /\ crashes' = crashes + 1
  /\ current' = None
  /\ gate' = NoThread
  /\ pc' = [a \in Actor |-> "idle"]
  /\ kind' = [t \in Thread |-> "none"]
  /\ held' = [a \in Actor |-> None]
  /\ todo' = [t \in Thread |-> {}]
  /\ fresh' = [t \in Thread |-> Empty]
  /\ warm' = [t \in Thread |-> FALSE]
  /\ stamp' = [a \in Actor |-> 0]
  /\ handle' = [e \in Evictor |-> "none"]
  /\ UNCHANGED <<sourceVars, store, loads, entryVars, requests, evictions, hidden>>

Load(t)  == \/ Prebuilt(t) \/ Hit(t) \/ Miss(t) \/ ReadSnapshot(t) \/ WarmLoad(t)
            \/ ColdLoad(t) \/ Scan(t) \/ BuildFails(t) \/ Insert(t)
Serve(t) == StartExtract(t) \/ Extract(t) \/ MarkDirty(t) \/ Answer(t) \/ Finish(t)
Quiesce(e) == CheckDirty(e) \/ OpenTmp(e) \/ WriteTmp(e) \/ WriteFails(e) \/ Rename(e) \/ Remove(e)

Next ==
  \/ \E t \in Thread : Receive(t) \/ Load(t) \/ Serve(t)
  \/ \E e \in Evictor : Select(e) \/ Quiesce(e)
  \/ \E f \in File : Edit(f) \/ Delete(f)
  \/ Crash

\* A request once received is executed, and an eviction once begun is finished.
Fairness == /\ \A t \in Thread : WF_vars(Load(t) \/ Serve(t))
            /\ \A e \in Evictor : WF_vars(Quiesce(e))

Spec == Init /\ [][Next]_vars /\ Fairness

-----------------------------------------------------------------------------
(* Properties.                                                             *)

Labels == {"idle", "prebuild", "get", "load", "accept", "scan", "run", "extract", "release",
           "persist", "open", "write", "rename", "remove"}
SnapshotFile == [state : {"absent", "torn", "whole"}, content : Content, builtAt : Time]

\* Every variable has its type, and no timestamp is ahead of the clock.
TypeOK ==
  /\ disk \in Content /\ now \in Time /\ hidden \in Content
  /\ store \in [{"tmp", "snap"} -> SnapshotFile]
  /\ current \in Graph \cup {None}
  /\ gate \in Thread \cup {NoThread}
  /\ loads \in 0..MaxLoads
  /\ content \in [Graph -> Content]
  /\ builtAt \in [Graph -> 0..now]
  /\ dirty \in [Graph -> BOOLEAN]
  /\ active \in [Graph -> Int]
  /\ pc \in [Actor -> Labels]
  /\ kind \in [Thread -> AllKinds \cup {"none"}]
  /\ held \in [Actor -> Graph \cup {None}]
  /\ todo \in [Thread -> SUBSET File]
  /\ fresh \in [Thread -> Content]
  /\ warm \in [Thread -> BOOLEAN]
  /\ stamp \in [Actor -> 0..now]
  /\ handle \in [Evictor -> {"none", "tmp", "snap"}]
  /\ requests \in [Thread -> 0..MaxRequests]
  /\ evictions \in [Evictor -> 0..MaxEvictions]
  /\ edits \in 0..MaxEdits /\ crashes \in 0..MaxCrashes

\* A graph c that claims to be of time "at" misses the file's version on disk,
\* and no staleness check will notice.
Missed(c, at, f) == c[f] # disk[f] /\ disk[f] <= at

\* The excuses the code gives itself: a deleted file is never newer, mark_dirty
\* moves built_at past files it did not look at, and the watcher's full rebuild
\* takes built_at after its walk.
Excused(f) == disk[f] \in {0, hidden[f]}

\* built_at is a sound watermark, in memory and in the snapshot: what it lets
\* through unseen is only what is excused, however builds, in-place changes,
\* snapshot writes, evictions, crashes and edits interleave.
WatermarkSound ==
  \A f \in File : ~Excused(f) =>
    /\ current # None => ~Missed(content[current], builtAt[current], f)
    /\ store["snap"].state = "whole" =>
         ~Missed(store["snap"].content, store["snap"].builtAt, f)

\* A request under the staleness check that is given a resident graph, or
\* restores one, is given the source as it is, but for what is excused.
ServedFresh ==
  [][\A t \in Thread, f \in File :
       /\ pc[t] = "get" /\ pc'[t] = "run" /\ kind[t] # "reindex"
            => Excused(f) \/ content[held'[t]][f] = disk[f]
       /\ pc[t] = "accept" /\ pc'[t] = "scan" /\ warm'[t]
            => Excused(f) \/ fresh'[t][f] = disk[f]]_vars

\* architecture.md: the staleness check evicts and rebuilds "so you never query
\* a stale graph".  Files that were edited, not even deleted, escape it once a
\* reindex of another file has moved built_at.
NeverStale ==
  [][\A t \in Thread, f \in File :
       pc[t] = "get" /\ pc'[t] = "run" /\ kind[t] = "query"
         => disk[f] = 0 \/ content[held'[t]][f] = disk[f]]_vars

\* Same sentence of architecture.md, for a file deleted since the graph was
\* built: it has no modification time, so the check passes it over.
DeletionNoticed ==
  [][\A t \in Thread, f \in File :
       pc[t] = "get" /\ pc'[t] = "run" /\ kind[t] = "query" /\ disk[f] = 0
         => content[held'[t]][f] = 0]_vars

\* persistence.rs: "a crash mid-write never leaves a half-written snapshot".
\* Two evictors that write the one temporary file break it.
SnapshotNeverTorn == store["snap"].state # "torn"

\* architecture.md: "a graph modified since its last snapshot is written ...
\* before its memory is released".  A graph that is changed between its snapshot
\* and its removal is dropped with its changes.
EvictedSaved ==
  [][\A e \in Evictor :
       pc[e] = "remove" /\ pc'[e] = "idle" /\ current # None /\ current' = None
         => crashes' # crashes \/ content[current] = store["snap"].content]_vars
=============================================================================
