# CoreGraph: TLA+ models

CoreGraph indexes source trees into symbol graphs. A daemon keeps the graphs of
several projects in memory and answers queries about them, while files change
underneath. This directory holds TLA+ models of it, the TLC configurations that
check them, and TLAPS proofs. Paths below are relative to `src/crates/` unless they
start with another directory.

    tlc -workers 2 -config MCProjectManager.cfg MCProjectManager
    tlapm ProjectManagerProofs.tla

## 1. The system

| component | state it keeps | operations | correct when |
|---|---|---|---|
| project manager, `cli/src/project_manager.rs` | one mutex over `projects`, `loading` (gates), `lru`; per entry the graph behind an RwLock, `active_queries`, `last_query`, `built_at`, `dirty` | get_or_load, release, mark_dirty, unload, sweep_idle, quiesce_and_remove, enforce_byte_budget, persist_all_dirty, gc_loaded, should_auto_stop, status | one build per project at a time; nobody waits forever; counts equal users; no graph in use is evicted; every idle graph can be |
| request handler and background threads, `cli/src/commands/server.rs` | a thread per connection; the preload, watcher, sweeper and shutdown threads; the heal tracker; `warmed` | request, heal, reindex, reload_project, watcher batch, full rebuild, load_cached_graph | every load is released; what is answered reflects the sources |
| snapshot and persistence, `graph/src/persistence.rs`, `snapshot.rs` | `.coregraph/snapshot.bin` and its temporary file | persist, warm_load, save/load_snapshot | a crash never leaves a torn or unsound snapshot; a warm load is never stale |
| daemon lifecycle, `cli/src/daemon.rs`, `ipc.rs`, `server.rs` | start lock, socket, pid file, shutdown flag | start, stop, restart, auto-stop, drain | at most one daemon; a drain ends; stop stops the right process |
| symbol graph, `graph/src/symbol_graph.rs`, with change tracking and invalidation | nodes and edges; name, qualified-name and value index, seen set, evidence index, cemetery, bloom filters | insert/remove node and edge, retain, mark, gc, lookups, invalidate, snapshot round trip | the side tables mirror the graph; nothing is refused, found or collected by mistake |
| single-file reindex, `cli/src/dispatch.rs` | none of its own | capture, remove, re-extract, re-link | cross-file edges of what is still there survive; nothing else changes |
| healing and watching, `server.rs`, `graph/src/change_tracking.rs`, `watcher/src/` | hash per file, channel of events | observe, filter_real_changes, heal under a deadline, next_changed_files | each change is taken in, by the query that meets it or by the watcher |
| extraction pipeline, `extractor/src/lib.rs` | none between calls | build_graph, build_graph_incremental | an incremental graph is the one a clean build would make |
| language extractors, matchers, mediators, `extractor/src/`, `graph/src/mediator/` | none between calls | from a file to symbols, docs, references; from names to links | each declaration is one symbol; comments, references and links are those meant |
| query engine, `query/src/`, and rendering, `cli/src/render.rs` | the client's page cursor | impact, risk, lookup, pages under a budget, orphans, inconsistencies, recommend, drift, stats | results equal their definitions |
| HTTP server, command line, MCP, LSP | none | the same questions, partly in code of their own | the same answers |
| viz server, `cli/src/commands/viz.rs` | `start_lock`, `restart_gate`, the in-flight map | proxy to a daemon it starts and restarts | no needless restart, no old answer, no request without end |
| configuration, `cli/src/commands/config.rs` | the global and the project's file, the legacy ignore file | create, migrate, set, unset, merge; read in layers | nothing a user counts on is lost; what is shown is what runs |
| stack-graphs resolver, manifests, hooks, content cache, editor extension, viewer, launcher | see section 5 | | |

**Interaction.** Connection threads, the preload thread and the watcher thread
call the manager; the manager calls back a loader (`load_cached_graph`, or the
closure of reload_project or of the watcher) without its lock. Threads share a
graph through `Arc<RwLock<SymbolGraph>>` and name it to the manager by path: the
Arc a thread holds and the entry the path has may differ. A loader runs the
extraction pipeline over the tree or reads the snapshot; a heal and a reindex
change one file in the graph, a watcher's batch goes through the incremental
pipeline. The sweeper, and every thread that loads past a limit, run
`quiesce_and_remove`: select under the lock, write snapshots without it, remove
under it. Snapshot, socket, pid and configuration files are shared with other
processes, the source tree with everybody.

**What is hard here**: operations of one thread in several locked steps with
others between them; lookups by path that reach a replacement; two notions of what
has changed (one timestamp per graph, one hash per file) updated by different
steps; many side tables that every way of removing a node must keep; stages that
meet their own earlier output; kills between two steps of a write; deadlines;
clients cut off; one question answered in several places. `PROJECT.json` lists
each of these hazards at its line.

## 2. Modules

| module | models | on top of |
|---|---|---|
| `LeasedCache` | what the manager promises: a cache that lends graphs | |
| `ProjectManager` | several projects: gates, LRU list, counts, eviction, and the request threads that use them; implements `LeasedCache` | |
| `Freshness` | one project: contents of graph and snapshot against the source files | |
| `Healing` | one project: tracker, heals, reindexes, the watcher's batches | |
| `Daemon` | the process: lock, socket, pid file, signals | |
| `SymbolGraph` | one graph with its side tables, and the single-file reindex | |
| `Pipeline` | the stages of a full and of an incremental build | |
| `Grammars`, `Kotlin`, `Mediators` | extractors by tree-sitter, Kotlin's by lines, configuration keys, literals and mediators, as operators | |
| `Extraction` | files written piece by piece, then extracted | those three |
| `QueryGraph`, `EditDistance` | the graph as the readers see it; filters; edit distances | |
| `Impact`, `Reports`, `Answers`, `FrontEnds` | the read-only requests, as operators | those two |
| `Queries` | requests as actions, the page cursor, the reference definitions | those four |
| `Viz` | the viz server's request tasks | |
| `Settings` | configuration files and commands | |
| `MC...` | values of constants, and symmetry, for TLC | one each |
| `ProjectManagerProofs`, `FreshnessProofs`, `HealingProofs`, `DaemonProofs`, `SymbolGraphProofs`, `PipelineProofs`, `VizProofs`, `SettingsProofs` | theorems about the module of that name | that module, TLAPS |

`ProjectManager`, `Freshness` and `Healing` look at the same threads from three
sides: without graph contents; without LRU and other projects but with the
snapshot, its temporary files, crashes and the steps of a load; with the tracker and
the watcher, and loads, snapshots and evictions of one step each. Where they meet,
the rougher one allows more: an evictor of `Freshness` may select the project
whenever it has no active query, and its heal any non-empty set of files, which
`Healing` makes precise; `Healing` may save and evict its graph whenever nobody
writes to it, with a `built_at` as old as one likes. What a crash leaves is for
`Healing` the snapshot it starts with: none, or one older than every file whatever
it says of them. `SymbolGraph` and `Pipeline` are what a reindex and a rebuild, one
step there, do to a graph; `Extraction` is what one file contributes to `Pipeline`.

A definition whose comment begins with "Mutant" or "A variant" is a slip a change
of the code could make (a dropped guard, a lookup by the wrong key). No action uses
it: put in the place of the definition that follows it, it makes one of the
properties fail, which shows that the property watches that code.

### ProjectManager and LeasedCache

Each action is one critical section of `ManagerInner`'s mutex or one step outside
of it. A thread's `pc` says where in the handler it is:

    idle -Receive-> [unload ->] get -Hit-----------------------> run -> (mark ->) release -> idle
                                get -Miss-> wait (-> get, when the gate opens)
                                get -Miss-> build -> [evict ->] budget [-> shrink -> budget] -> run

| actions | code |
|---|---|
| `Hit`, `Miss`, `BuildFails`, `BuildSucceeds` | get_or_load_inner up to the selection of victims |
| `PersistVictim`, `EvictForCap`, `EvictForBudget`, `SweepRemove` | quiesce_and_remove, one victim's persist_entry at a time |
| `EnforceByteBudget` | one turn of enforce_byte_budget |
| `SweepSelect` | phase 1 of sweep_idle |
| `Unload`, `MarkDirty`, `Release` | the methods of these names |
| `Receive`, `Mutate`, `Answer`, `AnswerReload` | the handler's own steps |
| `Edit`, `GrowIdle` | the source tree and the passage of time |

Entries are found by path, so the fields of an entry that has left the map are
never read again through it and the model keeps fields per project. A thread's
`graph` tells whether its Arc is the one in the map ("shared") or of an entry
that has been dropped ("detached"). `active_queries` is a `usize` and wraps:
`WordSize` is its modulus. The history variable `skewed` marks a project one of
whose entries was dropped while in use, or leaked by reload_project; the code has
no guard against either (section 6), and `CountsExact` and `EvictedUnused` say
what still holds of all other projects.

`LeasedCache` keeps of this the resident set, the builder and the holders of each
project. Under the mapping resident = projects, builder = loading, holds = the
threads whose graph is shared, torn = skewed, `ImplementsCache` shows every step of
the manager to be one of the cache or a stutter: reclaiming memory never takes a
graph from its holder, only a refresh does, and a failed build lends nothing.

Abstracted: graph contents; sizes (the budget counts graphs); time (`idle`, with
older entries idle first); `source_tree_is_newer` (`stale`, set by an edit). A
panic in a loader is left out.

### Freshness

A graph is, per file, the version its symbols were extracted from; a version is
the file's modification time, and 0 is an absent file. `Edit` moves the clock and
gives the file a new version. `Scan` and `Extract` read one file at a time, so an
edit can fall between any two reads; `ColdLoad`, `Prebuilt`, `DirtyStamp`,
`CheckDirty` are where the code takes `built_at`. A warm load is two steps, reading
the snapshot (`ReadSnapshot`) and walking the tree (`WarmLoad` or `ColdLoad`). The
snapshot is two file names and, for each evictor, the name its open file has at the
moment: a rename moves a file others are writing. `Crash` loses everything but
files, and Init is a first start. `Kinds` are the handler's paths: "query" (may
heal), "reindex" (no staleness check), "reload" (no snapshot, no release),
"rebuild" (the watcher's fallback, which builds first).

Clock resolution is exact: an edit in the same tick as a reading of the clock is
not modelled. A failed persist is a failure to write; a failed rename only happens
because the file was taken by another evictor's rename.

### Healing

A graph is, per file, the content hash its symbols come from, and `seen` the files
that have a node in it (the candidates of a heal are the files of the graph's
nodes). `tracker` is shared by all threads. A query loads (`GetOrLoad`, with the
modification-time check), copies the file list under the read lock, asks the
tracker (`Changed`), takes its deadline and then the write lock, heals file by file
until the deadline, marks dirty and answers. A load (`Loaded`, `load_cached_graph`)
takes the snapshot when no file there is has a later modification time than it
(`Warmable`), else it builds (`Built`). So a file removed while no graph was resident, by
nobody's event, is in the graph again, and so is what an earlier `mark_dirty` had
hidden: `inherited` names these files until somebody edits them. The watcher's debouncer takes a batch
of events and leaves the rest; the rebuild re-reads the batch's files. `Preloading`
loads, seeds the tracker and sets `warmed`. Where `own` holds, the project is the
daemon's own and is watched; else only queries look after it.

Because every load compares modification times, a heal finds work only for what
`mark_dirty` has hidden. The tracker is told neither of rebuilds nor of reindexes,
so a later query may re-extract what they took in, harmlessly. What it may lose is
exactly what `TrackerExact` lists: removed files; files edited since the tracker
last found them changed, which have no node or are back at the hash it knows
(`moved`); files observed by a query whose deadline passed or whose graph was
replaced (`skipped`); files a snapshot had wrong (`inherited`). In the watched project
`WatcherOwes` covers all of these but the last, which nobody ever tells it of.
At the start a file is absent or has any hash of `StartHash`, and so it is in the
snapshot an earlier daemon left, if there is one.

### Daemon

Every action is one system call on the socket, the lock file or the pid file, one
signal, or a step of a daemon another process can see. A socket file belongs to
the process that bound it and outlives it; the flock dies with its process. Client
commands are start (in the background), stop, restart and a request that starts a
daemon on its way; `Launch` is a foreground start. `stuck` are daemons whose count
of queries never comes down (reload_project, section 6): their drain ends by the
deadline alone. The shutdown flag and the drain are one state; persist_all_dirty is
the drain's end (what it writes is `Freshness`'s). The lock fails in two ways: it is
taken, and the process leaves; or it cannot be opened or locked, and the process goes
on without it. Three histories say how a daemon that listens may come to be
unreachable: `cut`, a stop removed its socket file; `robbers`, those that removed it
as a corpse's; `unlocked`, who went on without the lock. Unix only.

### SymbolGraph

The graph is one record `g`: nodes, edges, the next id, the name/qualified-name/value
buckets in `index`, `seen`, `evidence` per file, `gone` with the age of a mark, and
a set of names per file for a bloom filter. An operator stands for a method
(`InsertNode`, `InsertEdge`, `RetainEdges`, `RemoveNodes`, `SetStatus`, ...), an
action for a caller: `ReindexFile` is `Captured`, `RemoveNodes`, `Extracted` and
`Relinked` in the order of the code; `Invalidate` and `SaveAndLoad` go through
`Restored`, the round trip that renumbers nothing but recomputes the id counter and
drops the cemetery. `LookupLimit` is the four of the re-link's name lookup.

### Pipeline

A file is what its extractor sees: definitions in order and references at places
below them. A node is its kind, name and file. `BuildGraph` and
`BuildGraphIncremental` are the stages in order: extraction, string matching, the
mediator for injected interfaces, the structural pass with its File and Module
nodes, documents, mentions, markdown, references (named imports, barrels, calls,
types), derived Implements/Extends, reclassification. An action edits a file, or
rebuilds for a set of files that contains all edited ones, as the watcher's batches
do once they have settled. `FileOrder` is the sorted list of the files; a content has
finitely many references, and definitions no two of which share a name
(`ContentsAssumption`); the names of two doc comments of a file differ when those of
their definitions do (`DocNameAssumption`: the code prefixes `doc::`). Which node a
reference hangs from, or a module is, depends on the order of slots, so `nodes` is a
sequence: `First` and `Latest` pick by position, `Within` is a filter that keeps the
order. What a reference hangs from is the last node that starts before it, and the nodes
of doc comments are among them (`Enclosing`): a type, decorator or attribute between a
comment and the name of its definition is under the comment, and so is what follows a
Python function with a docstring. A reference's `doc` is the definition whose comment
comes last before it, and `NearestDoc` its node, if the graph has one: an incremental
build makes none for its batch. Left out: overloads, visibility (all symbols are public),
confidence, spans, the stack-graphs stage, the other mediators (see `Mediators`),
and that the incremental path reads changed files without collect_sources' filters.
Edges of unchanged files to a target that was resolved before and would no longer
be survive an incremental rebuild (`IncrementalExact`, section 6).

### Extraction

`Grammars` reads a syntax tree in preorder (six tree-sitter languages), `Kotlin` a
text element by element, `Mediators` the keys of a configuration file and the
pieces of a code file. `Extraction` lets an author write a tree, a text or a project
piece by piece and keeps what is meant beside what is written (`means`, `docs`,
`test`, `told`); the properties compare the two. Left out: more than one child per
export, Go type groups of mixed kinds, enums without a body, comments in Python,
trimming of quotes, type parameters and receivers of Kotlin's `fun`, template
strings, default methods of traits; parsing of `.properties` files; Kotlin spans in
CRLF files and of declarations without a body, which are wrong (section 6).

### Queries

The graph and the configuration range over the families of `MCQueries`: every
subset of eight edges over six symbols (two of one name, a test, a file, an external
stub), every subset of five literals, keys or variants beside two functions, and
every set of four symbols named in two cases or with a letter of two bytes.
A request is one action; its answer is computed by the operators of `Impact`,
`Reports`, `Answers`, `FrontEnds` and compared with definitions that use no queue,
no visited set and no early exit (distances by rounds over all edges, the textbook
edit distance, sums over pairs). `FirstPage`, `NextPage`, `Close` follow a cursor,
which the human text does not print: its footer tells the reader to ask in json.
A name is a tuple of bytes, folded where the code folds it: `lookup_by_name_fuzzy`
ignores the case, the workspace search and an export's subgraph do not. A page keeps
apart what was dropped (`slice` without `shown`) and what its text says of it
(`announced`, `more`): the human warning is printed only when it fits the budget and
its zone (`WarningCost`), so `PagesExact` asks it of llm and json only.

Facts the models show and a reader may not expect: created_at_epoch is never non-zero, so
`--include-stale` filters nothing; page_size 0 answers "No symbol found"; a cursor's
offset is not used; edges the token budget cuts from a page appear on no other;
impact's risk and edges ignore the language and exclude filters of its list;
impact_batch counts a shared dependent once per name; a diff's total_reachable
keeps the seeds; HTTP impact takes the first symbol of a name, the daemon the most
referenced; a prefix with a typo is not found; a name nothing contains is not looked
up but panics when some other name is cut inside a letter (`CutInside`).

### Viz

A request is a task that can be cut off at every await: its locks and the cell's
permit come back, its blocking job (`job`) runs to the end. `CellInit` runs
fetch_graph_fresh under the OnceCell's permit, `Leave` removes the key. The daemon
is down, booting, old (answers "unknown method") or new; `StopsItself` and failed
restarts are the mishaps. Token guard, page serving, api_source, detach and stop are
left out.

### Settings

A file is absent or a table with one integer key of `[server]`,
`limits.min_confidence` and `[index].exclude`, each value with its TOML type
(`NotArray` is an `exclude` that is no array). A command is a process that reads,
then truncates, then fills: nothing locks the files. The lines of the legacy ignore
file are migrated as they stand, repeated ones too; what a command adds is added
once. `Shown` is `config show`; `ServerOverride` (with the cast to an unsigned word)
and `Confidence` (preset, the one file `--config` names, rejection of what is out of
range) are what the daemon and the command line take. Two ghosts bound what can be
promised: `intact` until the project's file is cut off between its truncation and its
filling, has two commands on it or is forced; `orderly` until `config init` makes it
or a first start is cut short after the legacy file's retirement.

## 3. Runs

| run | checks | bounds |
|---|---|---|
| manager_safety | `TypeOK`, `SingleFlight`, `GateHasBuilder`, `LruMatchesProjects`, `CountsExact`, `EvictedUnused`, `ImplementsCache` | 2 threads with 2 requests each of every kind, the sweeper, 2 projects, cap 1, budget 1, usize mod 4, 1 edit, disk may fail |
| manager_liveness | `EveryRequestAnswered`, `IdleReclaimed` | 3 threads with 1 query each, 2 projects, no symmetry |
| freshness | `WatermarkSound`, `ServedFresh` | 2 files, 2 threads of every kind, 2 evictors, 2 edits, 2 graphs, 1 crash, disk may fail |
| healing | `WatcherOwes`, `TrackerExact`, `Converges` | 2 files with one of 2 hashes or absent, both there at the start; 2 edits, or 1 and 2 snapshots or evictions; 5 graphs; 2 requests, 1 beside the watcher |
| daemon | `OneOwner`, `StopMeansDead`, `Drains` | 2 clients, 3 processes; 3 of: a command, a start by hand, a crash, a failing lock |
| graph_store | `LookupsExact`, `EvidenceExact`, `RelinksSurvivors`, `ReindexIsLocal` | 2 files, ids up to 3, 2 symbols per content, 2 edges, lookup limit 1 |
| graph_own_edges | `OwnEdgesReemitted`, violated | the same, ids up to 4 |
| pipeline | `LayersExact`, `IncrementalCovers`, `Grounded`, `RebuildIdempotent` | 3 files in 2 directories with 8 contents, 3 edits, string matches of 2 files |
| extraction | `SymbolsMeant`, `DocsAttach`, `RefsLabelled`, `KotlinExact`, `LinksMeant` | trees of 5 nodes (Rust 4), Kotlin texts of 4 pieces with LF and CRLF, projects of 4 keys and pieces |
| queries | `ImpactExact`, `PagesExact`, `LookupExact`, `ReportsExact`, `FrontsAgree` | 6 symbols and 8 edges, or 5 literals; depths 0, 1, 3; pages of 0 to 5 edges; 4 names in two cases, one with a two-byte letter |
| viz | `RestartOnlyStale`, `AnswerFresh`, `RequestsEnd` | 2 graph requests and one of another kind, 2 clients that may leave, 1 mishap |
| settings | `SettingsKept` | 2 command lines of 2 commands each, 1 crash or failed write; a legacy file with no line, one or a repeated one |

What they show:

* *Manager.* One build per project; a waiter always has a builder; the LRU list, the
  map and the counts agree; what is evicted has no user, although victims are
  chosen, saved and removed in three critical sections; all of it is a lending
  cache; every request is answered and an idle project is unloaded.
* *Freshness.* No file changed after `built_at` is missing from the graph unnoticed,
  in memory or in a snapshot a later process finds, except the edits `hidden` names.
* *Healing.* The watcher never forgets a file the watched graph has wrong, and that
  graph becomes right once edits stop, but for files a snapshot brought in wrong;
  without a watcher, nothing but the listed cases loses a change, and the tracker
  reports no file it was seeded with and nobody touched.
* *Daemon.* One process listens, and it is the one clients reach: except a process
  that could not lock, which may listen beside it, and one whose socket a stop or such
  a process removed. A successful stop means a dead daemon, or one that had lost its
  socket; drains end.
* *Graph.* Buckets, cemetery, bloom filters, seen set and evidence mirror nodes and
  edges after any mix of operations; a reindex relinks every surviving symbol no
  namesake crowds out, and leaves all other files alone.
* *Pipeline.* An incremental graph has the symbols and the containment layer of the
  tree; it has every edge a clean build has, except where a name is also that of a
  synthetic node, or of the very definition whose doc comment is right before
  (`Volatile`), and those right after a doc comment it may have from the definition
  instead of from the comment (`Ends`); its reference edges have a reference in the text;
  running again without an edit adds no edge but volatile ones and a barrel's.
* *Extraction.* As the table's names say, for what the author wrote.
* *Queries.* Answers equal their definitions, pages deliver each edge once, and the
  front ends agree.
* *Viz.* Until something is cut off or fails, a current daemon is not restarted. A
  finished flight answers a later request only if its key is about to be removed, or a
  client left just before that; then the old graph stays for the next one to ask. A
  request ends.
* *Settings.* Whatever was killed or failed, and whatever writes the global file at
  the same time, no pattern is lost, none is doubled and the project's file is whole
  between commands, but for `intact`; but for `orderly` the patterns are in effect
  and not merely still in the legacy file or its copy. What is shown is not always
  what runs: section 6.

*Why these bounds.* Two projects over a cap of one make every load of the second
an eviction of the first; two threads give a loader and a waiter, an evictor and a
reviver; the second request meets what the first left behind; the third thread in
the liveness run waits while the other two load and evict. The kind "watch" takes
the steps of a "query" that changes the graph, so the safety run leaves it out.
For files, one that changes and one that does not is what a single timestamp
confuses; two edits allow one during and one after a step; two graphs are one and
its replacement, and a third is the replacement of one being healed; two evictors
share the temporary file. An edit between a snapshot and the eviction before its load
is what a warm load may have wrong: one edit and two evictor's steps, while two edits
are for a file edited again while it is healed; `MaxTurns` takes one or the other. Three
daemons are the one that stops, the one that
starts and one more that meets both. In the graph, two symbols of a name with a
lookup limit of one stand for five with four. Five tree nodes hold a doc comment, an
attribute, a wrapper, and a declaration with a name; a chain of three edges and a
cycle fit in eight. The bounds are the constants named `Max...` and the families in
the `MC` modules, each in the guard of the action it bounds. Because of them the
models stop, which the program does not: runs whose model stops do not check for
deadlock, and the liveness properties say instead that nothing hangs.

The type invariant `TypeOK` of each state machine holds in its run too; only the
manager's stands in a configuration, and section 4 proves eight of them. To check
another, or one of section 6, add it to an `INVARIANTS` or `PROPERTIES` line.

**Fairness.** `ProjectManager`, `Freshness`, `Healing`: weak fairness of every
thread, since the operating system runs threads, a loader returns and the mutex is
held for finite sections; a blocked `wait` is not enabled, hence not promised
anything. The sweeper wakes every 60 s and the watcher's loop runs while the daemon
does. `Daemon`: weak fairness of each process's steps (accept loop, drain, its
deadline) and of commands; requests need not end. `Viz`: weak fairness of each task,
since the runtime polls what can go on, and every call and the wait for a daemon
have a timeout. Arrivals, edits, time, disconnections and crashes are not fair. No
strong fairness is assumed anywhere: a liveness that needed it would depend on who
gets a lock.

## 4. Proofs

Every module named `...Proofs` holds theorems of the `Spec` of its state machine,
for all values of the constants: any files, projects, threads, requests, any bounds.
What is assumed of the constants is what the modules name in their ASSUMEs: bounds
are numbers, markers such as `NoThread` are no threads, `Thread` of the manager is
finite and smaller than a word (`ConstantsOK`: no reference count wraps), a request
of the viz server is a graph request or is not (`VizAssumption`), a legacy file is a
list of patterns (`SettingsAssumption`), a declaration is a record of three fields
(`DeclsAssumption`), and those on files and contents described with `Pipeline`. TLC
evaluates them in the runs.

| module | theorems | properties |
|---|---|---|
| `ProjectManagerProofs` | `TypeCorrect`, `SingleFlightHolds`, `GateHasBuilderHolds`, `CountsExactHolds`, `LruMatchesProjectsHolds`, `EvictedUnusedHolds`, `ImplementsCacheHolds` | `TypeOK`, `SingleFlight`, `GateHasBuilder`, `CountsExact`, `LruMatchesProjects`; `EvictedUnused` of every step; the refinement of `LeasedCache` |
| `FreshnessProofs` | `FreshTypeCorrect`, `WatermarkSoundHolds`, `ServedFreshHolds` | `TypeOK`, `WatermarkSound`; `ServedFresh` of every step |
| `HealingProofs` | `HealTypeCorrect`, `WatcherOwesHolds`, `TrackerExactHolds` | `TypeOK`, `WatcherOwes`, `TrackerExact` |
| `DaemonProofs` | `DaemonTypeCorrect`, `OneOwnerHolds`, `StopMeansDeadHolds` | `TypeOK`, `OneOwner`, `StopMeansDead` |
| `SymbolGraphProofs` | `GraphTypeCorrect`, `EvidenceExactHolds`, `LookupsExactHolds`, `RelinksSurvivorsHolds`, `ReindexIsLocalHolds` | `TypeOK`, `EvidenceExact`, `LookupsExact`; `RelinksSurvivors`, `ReindexIsLocal` of every step |
| `PipelineProofs` | `PipelineTypeCorrect`, `LayersExactHolds`, `GroundedHolds`, `IncrementalCoversHolds`, `RebuildIdempotentHolds` | `TypeOK`, `LayersExact`, `Grounded`, `IncrementalCovers`; `RebuildIdempotent` of every step |
| `VizProofs` | `VizTypeCorrect`, `RestartOnlyStaleHolds`, `AnswerFreshHolds` | `TypeOK`; `RestartOnlyStale`, `AnswerFresh` of every step |
| `SettingsProofs` | `SettingsTypeCorrect`, `SettingsKeptHolds` | `TypeOK`, `SettingsKept` |

None of the properties is inductive. What follows says, per module, what has to be
added and why the sum is preserved; the modules state each part with a comment.

*ProjectManager, gates* (`GateInv`). `SingleFlight` and `GateHasBuilder` need
`Control`: which locals a thread has at each label (a waiting or building thread has
a project and no graph). With it, a thread that starts to build takes a gate nobody
has, in the critical section in which it saw no entry; entries are inserted only by
gate owners, and `OpenGate` wakes exactly the waiters of its project.

*Counts* (`CountInv`). `CountsExact` needs `Attachment`: who holds a graph that the
map has, and that a thread's graph is detached only on a skewed project. `UsersJoin`,
`UsersLeave` state how one thread's step changes the cardinality of `Users`, from the
library's facts on finite sets; a release decrements because its thread is still a
user unless the project is skewed. `EvictedUnused` follows: only the three actions
that call `RemoveVictims` empty a set of victims, they remove entries whose count is
0, and those have no user.

*LRU list* (`LruInv`). The list has no project twice and names those of the map; that
its length is their number follows. `touch` and removal are retain followed by a
push: `WithoutIs` says what retain leaves of a list without repetition, from the
`Ranks` of the positions it keeps.

*Refinement.* Each step maps to one of `LeasedCache` or to a stutter: a stale hit, a
miss and an unload are `Refresh`, the end of a build is `Finish` or `Fail`, the three
evictions are `Reclaim`, and what only moves counts, times, lists or victims is a
stutter (`SameCache`). The abstract guards come from `CountInv`: what is evicted has
no holder because it has no user.

*Freshness* (`FreshInv`). A clock: an edit is later than every timestamp read so far.
Then, for everything that claims to be of a time, nothing edited after that time is
missed without an excuse: `GraphsSound` for the graphs in memory, `BuildsSound` for a
graph being built, except the files it still has to read, `WritesSound` for what an
evictor holds between its copy and its rename, `StoreSound` for both snapshot files,
the torn and the empty ones of which claim nothing. A build stamps itself before it
reads, and that is what the induction rests on. `ServedFresh` compares the load's time with
what it serves.

*Healing* (`HealingInv`). `WatcherOwes` alone fails at the watcher's last step, which
forgets its batch: `EventsOwed` says that once the batch is read again, or its graph
was replaced or evicted, a wrong file has another event waiting or is `inherited`. A
load makes `inherited` exactly what it has wrong and no event waits for, and nothing
but an edit takes a file out of it while the graph stays (`WrongSteps`). `Stored` gives
the snapshot the type of a graph. `OnlyTouchedHealed` needs `Untouched`: of a file the
tracker was seeded with and nobody edited, it has the hash. `LostOnlyIf` comes from
`Accounted`: a wrong file of an unwatched project was removed, is in `moved`,
`skipped` or `inherited`, or some query still has it to heal. A query holds the write lock of the graph it heals (`Locks`), so no two
heal the same one.

*Daemon* (`DaemonInv`). `LockHeld`: from removing the old socket file to its death a
daemon has the flock or is `unlocked`, so no two with the flock are there at once, and
whoever removes the socket of a listening daemon is unlocked or its victim is
(`SocketStolenOnlyBy`). `Signalled` and
`Outlived` carry what a stop has seen across its polls, for `StopMeansDead`.

*SymbolGraph* (`GraphInv`). `Sound(h)` is a predicate of a graph, and each method has
one lemma: of a sound graph it makes a sound one. It joins the two properties with
what they need of each other: ids are below `nextId`, so a new node has no key in any
index; an edge's evidence entry is unique, so removing a file's evidence removes its
edges and no others; the cemetery has only marked nodes; the bloom filters have all
names. Methods over several nodes or edges are folds, and their lemmas are
an induction (*Folds* below) with soundness of the intermediate graph as the hypothesis.
`RelinksSurvivors` rests on `LinksOlder`, an invariant of the re-link's fold (a key of
the seen set at a node of the file is an edge re-linked in this reindex), and on
`Replaced`, what a lookup with a limit finds. `ReindexIsLocal` follows the other
files' nodes and edges through the same four operators.

*Pipeline* (`PipelineInv`). The properties speak of graphs that are up to date, and
what an incremental build makes depends on the graph it starts from, so the
invariant speaks of all: the graph is `Built` but for the files edited since
(`dirty`). `Built(g, t, D)` is: every symbol outside of the files `D` is one of the
tree's and the other way round (`SymbolsBut`); a reference edge whose evidence is
outside of `D` has its text (`GroundedBut`); no file has two File nodes, and the
containment edges are among those there should be (`Sparse`) and are all of them
(`Complete`). An edit adds to `D`, which weakens the invariant; a batch takes in all
of `D`. Each stage has one lemma, from `Sound` (all but `Complete`) to `Sound`, and
`Complete` is lost by an invalidation and restored by the structural pass. The
delicate part is the module a file's children belong to: the *last* module of its
own, or else the *first* of its directory's name (`IsHome`). An incremental build
must find the one the old edges already point to, or a symbol would belong to two
modules. It does because an invalidation only closes gaps (`WithinIs`: what is kept
keeps its order), because new nodes come last (`ConcatIs`), and because a file whose
own modules change is in the batch, with all its edges. `Grounded` then follows
from the evidence: an edge of a changed file goes with it, and every stage that adds
reference edges takes them from the text (`ReferenceEdgeIs`, one case per rule of
resolution; `TypesSound`).

`IncrementalCovers` compares the graph with one a clean build would make, and
`RebuildIdempotent` a graph with what another build makes of it. Both are instances of
one comparison, between two graphs of the same tree, and the invariant has two more
parts for it. `Tidy`: every node is a symbol or one the passes name (a `SyntheticNames`
node or a package), with scopes only at files that have symbols and barrels only at
files that have none. `Covers`, when nothing is dirty: the graph has the edges of all
matches (`Twins`, `Configured`), those of all references as *some* graph of the tree
that is through the structural passes (`Ready`) resolves them, and those of
inheritance; which graph does not matter, because two of them resolve a reference that
is not volatile alike (`ResolvedAlike`): the candidates of a name no synthetic node has
are symbols, which the tree determines, and so are the scores; what encloses the
reference (`EnclosingAre`) plays the same role in both, unless a barrel does, or is a doc
comment in one and a definition in the other, neither of them a candidate. Then `FinishIs` says
where each edge of a finished graph is from (`FromStage`), and `StageCovered` finds, for
each origin, an edge alike (`Likeness`) in a graph that `Covers` the tree. The
exceptions are not for the proof: TLC showed them when the properties were stated
without.

TLC checks `PipelineInv` on the run's instance, in a module that extends both
`MCPipeline` and `PipelineProofs`; the graph `Covers` speaks of is of no bounded set,
so there it is one with the first nodes of the graph itself and all edges between
them.

*Viz* (`VizInv`). `Permits`: the cell's permit is with the one task that is between
its wait and its reply, and a cell with a value has none. `Turned`: who stands at the
restart gate was turned away by a daemon that is still the old one or has just been
restarted, as long as no task was cut off and no restart failed; `RestartOnlyStale`
follows. `Flights`: a cell is named after a request that has arrived, so a new one is
empty, and when the key's cell has its value some request is `Removing`: it is at that
step or was cut off in it (`RemoverStays`).

*Settings* (`SettingsInv`). `SettingsKept` is of states in which no command is in its
middle; `OneByOne` says that one command at most is on the project's file while it is
`intact`, `HoldsRight` for each step of that command what it carries (the table it is
about to write, or the migrated lines together with the default it has just written)
and what the file has should it be killed there, and `Rest` that otherwise the files
are `SettledWith` what is due: all the user counts on, or, once not `orderly`, all
but the legacy patterns. Steps on the global file leave all of it the `Same`. The
lemmas on tables and on adding patterns to a list are about any lists.

*Folds.* The library states induction with a predicate as a parameter, which the
provers here cannot instantiate. `SymbolGraphProofs` goes another way: the set of
counterexamples has a least element (`NatSet`, `SubsetInduction`), so a fold of the
community modules is a function with the recursion it was defined by (`Folded`,
`Folding`, `SeqChooses`), and a proof about a fold shows that the function's values
stay in a given set.

*Model-checked only.*

* `EveryRequestAnswered`, `IdleReclaimed`, `Converges`, `Drains`, `RequestsEnd`: liveness,
  which needs fairness, hence ENABLED.
* `ImpactExact`, `PagesExact`, `LookupExact`, `ReportsExact`, `FrontsAgree` of `Queries`
  and the five of `Extraction`: most say that a recursive function over a graph, a
  text or a tree equals another definition, which is induction over that data.

## 5. Not modelled, and what comes next

* The stack-graphs resolver: what it resolves is decided by a library and its rule
  files. Parsing: tree-sitter, manifests, git output, Markdown text.
* MCP and LSP message plumbing, argument parsing, text output and serializers, the
  editor extension, the viewer, the launcher: user interface and wording.
* Windows (named pipes, taskkill), log rotation, service files for launchd and
  systemd.
* Hooks, which run in order and cannot change the graph; epochs, which no reader
  compares; HealingSession, which the daemon does not use.
* Scanning: ignore rules, size and minification tests, and the excluders of an index.
* The cache of file contents behind line numbers (section 6 says why).
* A panic that unwinds a loader or poisons a lock, or leaves a query counted as active
  (the one of the fuzzy lookup is a request without an answer in `Queries`).

What could come next: what `PagesExact` says of a cursor, a property of the pages'
arithmetic alone; the cache of file contents as part of `Freshness`.

## 6. Where documents and code differ

One has a run, **graph_own_edges**: a comment in `cli/src/dispatch.rs:1576` says of
the edges a reindex does not capture "the extractor will re-emit them", and
1587-1588 "re-extraction will rebuild intra-file edges naturally". The per-file
extractor only inserts nodes; calls and containment inside the file are gone until
the next rebuild (`OwnEdgesReemitted`).

The others are properties of the modules that TLC refutes when they are added to
the configuration of their module; no standing run has them.

| property | what the code does | what is said |
|---|---|---|
| `ProjectManager!InFlightNeverEvicted` | a stale entry is dropped while queries use it; their releases count down its replacement, which can be evicted in use | docs/operations.md:129-130 "one with an active query is never dropped mid-flight" |
| `ProjectManager!NothingPinnedAtRest` | reload_project never releases its project | project_manager.rs:353 "Mark a query as finished so the entry can be evicted" |
| `ProjectManager!WatchLeavesIdle` | file-watch events go through get_or_load and touch last_query | docs/architecture.md:164-165 "File-watch events do not reset it" |
| `Freshness!NeverStale` | a reindex moves `built_at` past edits it has not read; so does the watcher's full rebuild with edits made during its walk | docs/architecture.md:149-151 "you never query a stale graph" |
| `Freshness!DeletionNoticed` | a deletion makes no file newer | the same |
| `Freshness!SnapshotNeverTorn` | concurrent snapshots of one project share a temporary file | persistence.rs:75-77 "never leaves a half-written snapshot" |
| `Freshness!EvictedSaved` | a graph changed between its snapshot and its removal is dropped with the change | docs/architecture.md:167-169 "is written ... before its memory is released" |
| `Healing!LoadedFresh` | load_cached_graph (server.rs:1179) looks only for files with a later modification time: one removed since the snapshot stays in the graph that is served | architecture.md:149-151 "if the source tree changed since the cached graph was built, the entry is evicted and rebuilt before answering" |
| `Healing!AnswersCorrect` | a query that comes while another heals answers from files not healed yet | healing.rs:33 "a point-in-time-correct view" |
| `Daemon!NoOrphan` | stop removes socket and pid file by name, which by then may be the next daemon's; a start that cannot lock removes a live daemon's socket | server.rs:503-505 "We hold the singleton lock here, so no live daemon owns the socket"; 473-480: the start lock is there against "an orphaned daemon (holding a graph, unreachable)" |
| `Pipeline!IncrementalCovers` without `Volatile` | a file newly defines a module named like a directory: a reference a clean build resolves to it stays unresolved while the directory's synthetic module is kept | extractor/src/lib.rs:617-618 "We keep the structural and reference edges correct" |
| `Pipeline!IncrementalCovers` with the ends of every edge | a file taken in by an incremental build has no doc comments' nodes, so a reference right after a doc comment is the definition's in it and the comment's in a clean build; it has no edge at all when it names that definition (Python: `main()` below a `main` with a docstring) | the same; lib.rs:619-628 names the edges that are dropped, and these are not among them |
| `Pipeline!IncrementalExact` | an edge resolved before the edit stays though a clean build would not make it | the same |
| `Viz!SingleFlight` | a waiter removes the key of a newer flight | viz.rs:334 "share one daemon extraction instead of racing several" |
| `Settings!LimitShownIsRun` | `config show` merges the project's `[limits]` over the global ones; apply_config_file (main.rs:135) reads them from one file only, by default the global one | config.rs:599-600 "the displayed "current" value reflects the merged view the runtime sees" |
| `Settings!ServerShownIsRun` | a negative integer of `[server]` is shown as written and runs as `n as u64`, a huge number (config.rs:710) | the same |
| `Settings!FlagWins` | an explicit flag that equals the default is overridden by the preset and the file; a file's value out of range ends every command that does not override it | main.rs:132-134 "Explicit CLI values always win" |
| `Settings!MigrationPreserves` | two first starts at once: one writes the plain default over the other's migrated patterns (a crash between the rename and the write, which the property excludes, leaves them in `ignore.bak`) | config.rs:505 "This preserves whatever the user had before" |
| `Queries!TruncatedIsResumable` | edges cut by the token budget are on no later page | agents/coregraph/skills/coregraph/references/llm-usage.md:27-28 "when a response is truncated it returns an opaque cursor; pass it back ... for the next page" |
| `Queries!CutAnnounced` | the human warning that the budget cut lines is left out when it does not fit itself; then only the count in the section's title and the budget's counter tell | docs/cli.md:219 ends a cut list by "... (14 total)"; the pager of 226-228 ("press `n` for the next page") is not in the code either |
| `Queries!LookupAnswers` | looking up a name that nothing contains slices every name at a byte count (symbol_graph.rs:443), and panics inside a letter of several bytes | symbol_graph.rs:397 "Levenshtein distance ≤ 2 between the query and index key" |
| `Queries!StatsAgree` | the daemon counts the empty path of external packages' stubs as a file, the command line without a daemon does not | nothing: two answers to one question |
| `Extraction!ComposeFansOut` | services are mappings, which config_extractor does not emit | docker_compose.rs:7-8 "already emits ConfigKey nodes for every YAML dotted path" |
| `Extraction!RoutesLinked` | paths are emitted as `api_path::/...`, the mediator looks for a leading `/` | docs/graph-model.md:220-221 |
| `Extraction!DocsReachDeclarators`, `BodylessSpan` | a comment above `const f = ...` documents nothing; a Kotlin declaration without a body takes the next body's end | |

One more is outside the models: `graph/src/file_content_cache.rs:3-4` says its
entries are "explicitly invalidated on reindex", and nothing in the daemon calls
invalidate, so line numbers may be resolved in an old text.
