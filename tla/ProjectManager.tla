--------------------------- MODULE ProjectManager ---------------------------
(***************************************************************************)
(* The daemon's multi-project cache (crates/cli/src/project_manager.rs)    *)
(* together with the request handler that drives it                        *)
(* (crates/cli/src/commands/server.rs).                                    *)
(*                                                                         *)
(* Every connection runs on a thread of its own.  A thread asks the        *)
(* manager for the graph of a project (get_or_load), may change the graph  *)
(* and report that (mark_dirty), and finally gives the graph back          *)
(* (release).  One thread loads a project, the others wait on its gate;    *)
(* loading past the cap or the byte budget, and the idle sweeper, evict    *)
(* entries in two locked steps with an unlocked snapshot write between     *)
(* them.  Each action is one critical section of ManagerInner's mutex, or  *)
(* one step taken outside of it.                                           *)
(*                                                                         *)
(* The manager's methods find an entry by the path of its project, never   *)
(* by the Arc a caller holds, so the fields of an entry that has left the  *)
(* map are never read again: they are kept per project, for the entry the  *)
(* map has now.  Of an entry out of the map only its holders matter, whose *)
(* Arc is then "detached".                                                 *)
(*                                                                         *)
(* What a graph contains is left to Freshness; what the manager knows of   *)
(* it is whether some source file is newer than built_at (stale), whether  *)
(* it differs from the snapshot (dirty) and whether its last query is      *)
(* older than idle_unload (idle).                                          *)
(***************************************************************************)
EXTENDS Naturals, Sequences, FiniteSets, SequencesExt

CONSTANTS
  Project,      \* canonical project roots
  Thread,       \* request threads, the preload thread and the watcher thread
  Sweeper,      \* the background sweeper thread
  NoProject,
  NoThread,
  Kinds,        \* which kinds of request the threads issue
  MaxLoaded,    \* config.max_loaded
  MaxBytes,     \* config.max_loaded_bytes, in graphs; 0 disables the budget
  WordSize,     \* one more than usize::MAX
  MaxRequests,  \* bound: requests per thread
  MaxEdits,     \* bound: edits of source files
  DiskFails     \* whether writing a snapshot may fail

\* "query" stands for every method but reindex and reload_project, and for the
\* preload thread; "watch" is the watcher's incremental rebuild, which does what
\* a query that heals does, and "rebuild" the full one it falls back to.
AllKinds == {"query", "reindex", "reload", "watch", "rebuild"}

ASSUME ConstantsOK ==
  /\ Sweeper \notin Thread
  /\ NoThread \notin Thread
  /\ NoProject \notin Project
  /\ IsFiniteSet(Thread) /\ Cardinality(Thread) < WordSize
  /\ Kinds \subseteq AllKinds
  /\ MaxLoaded \in Nat
  /\ MaxBytes \in Nat
  /\ WordSize \in Nat \ {0, 1}
  /\ MaxRequests \in Nat
  /\ MaxEdits \in Nat
  /\ DiskFails \in BOOLEAN

VARIABLES
  projects,  \* the projects inner.projects has an entry for
  loading,   \* inner.loading: the thread that owns the gate, or NoThread
  lru,       \* inner.lru, least recently used first
  active,    \* entry.active_queries, a usize
  idle,      \* now - entry.last_query >= idle_unload
  stale,     \* source_tree_is_newer(project, entry.built_at)
  dirty,     \* entry.dirty
  pc, kind, proj,
  graph,     \* the thread's graph Arc: the map's ("shared"), "detached", "none"
  edited,    \* a file of proj[t] was edited since t took its built_at
  victims,   \* the victims quiesce_and_remove was called with
  unsaved,   \* those persist_entry has still to visit and the map still has
  requests, edits,
  skewed     \* history: an entry of the project was dropped in use, or leaked

managerVars == <<projects, loading, lru>>
entryVars   == <<active, idle, stale, dirty>>
threadVars  == <<pc, kind, proj, graph, edited>>
evictVars   == <<victims, unsaved>>
boundVars   == <<requests, edits>>
vars == <<managerVars, entryVars, threadVars, evictVars, boundVars, skewed>>

Actor == Thread \cup {Sweeper}

\* The threads whose graph is the one in the map.
Users(p) == {t \in Thread : proj[t] = p /\ graph[t] = "shared"}

\* Mutants, here and below: slips a change of this code could make, which the
\* properties must notice.  DecBelowZero: release with a signed counter.
DecBelowZero(n) == n - 1
\* fetch_add and fetch_sub on an AtomicUsize wrap around.
Inc(n) == (n + 1) % WordSize
Dec(n) == (n + WordSize - 1) % WordSize

\* record_access that only pushes.
TouchedTwice(s, p) == Append(s, p)
\* Vec::retain and record_access.
Without(s, S) ==
  LET left == {i \in DOMAIN s : s[i] \notin S}
  IN [k \in 1..Cardinality(left) |->
        s[CHOOSE i \in left : Cardinality({j \in left : j <= i}) = k]]
Touched(s, p) == Append(Without(s, {p}), p)

Older(q, p) == \E i, j \in 1..Len(lru) : i < j /\ lru[i] = q /\ lru[j] = p

-----------------------------------------------------------------------------
Init ==
  /\ projects = {}
  /\ loading = [p \in Project |-> NoThread]
  /\ lru = <<>>
  /\ active = [p \in Project |-> 0]
  /\ idle = [p \in Project |-> FALSE]
  /\ stale = [p \in Project |-> FALSE]
  /\ dirty = [p \in Project |-> FALSE]
  /\ pc = [a \in Actor |-> "idle"]
  /\ kind = [t \in Thread |-> "none"]
  /\ proj = [t \in Thread |-> NoProject]
  /\ graph = [t \in Thread |-> "none"]
  /\ edited = [t \in Thread |-> FALSE]
  /\ victims = [a \in Actor |-> {}]
  /\ unsaved = [a \in Actor |-> {}]
  /\ requests = [t \in Thread |-> 0]
  /\ edits = 0
  /\ skewed = [p \in Project |-> FALSE]

Goto(a, label) == pc' = [pc EXCEPT ![a] = label]

\* The thread's request is over and its locals go out of scope.
Leave(t) ==
  /\ kind' = [kind EXCEPT ![t] = "none"]
  /\ proj' = [proj EXCEPT ![t] = NoProject]
  /\ graph' = [graph EXCEPT ![t] = "none"]
  /\ edited' = [edited EXCEPT ![t] = FALSE]

\* Taking the entries of the projects in S out of the map and the LRU list.
\* The Arcs of threads that still use them are detached, and their release,
\* which goes by path, is left to the entry that comes next.
Drop(S) ==
  /\ projects' = projects \ S
  /\ lru' = Without(lru, S)
  /\ active' = [p \in Project |-> IF p \in S THEN 0 ELSE active[p]]
  /\ idle' = [p \in Project |-> idle[p] /\ p \notin S]
  /\ stale' = [p \in Project |-> stale[p] /\ p \notin S]
  /\ dirty' = [p \in Project |-> dirty[p] /\ p \notin S]
  /\ graph' = [t \in Thread |->
                 IF graph[t] = "shared" /\ proj[t] \in S THEN "detached" ELSE graph[t]]
  /\ skewed' = [p \in Project |-> skewed[p] \/ (p \in S /\ Users(p) # {})]

\* A dropped entry is no longer the map's when its snapshot is written.
ForgetUnsaved(S) == unsaved' = [a \in Actor |-> unsaved[a] \ S]

-----------------------------------------------------------------------------
(* The request handler up to get_or_load.                                  *)

\* A request arrives (or the watcher reports a batch of changed files).
\* reload_project and the watcher's full rebuild unload the project first.
Receive(t) ==
  /\ pc[t] = "idle"
  /\ requests[t] < MaxRequests
  /\ requests' = [requests EXCEPT ![t] = @ + 1]
  /\ \E k \in Kinds, p \in Project :
       /\ kind' = [kind EXCEPT ![t] = k]
       /\ proj' = [proj EXCEPT ![t] = p]
       /\ Goto(t, IF k \in {"reload", "rebuild"} THEN "unload" ELSE "get")
  /\ UNCHANGED <<managerVars, entryVars, graph, edited, evictVars, edits, skewed>>

Unload(t) ==
  /\ pc[t] = "unload"
  /\ Drop({proj[t]})
  /\ ForgetUnsaved({proj[t]})
  /\ Goto(t, "get")
  /\ UNCHANGED <<loading, kind, proj, edited, victims, boundVars>>

-----------------------------------------------------------------------------
(* get_or_load_inner.                                                      *)

\* RefreshPolicy: only reindex goes through get_or_load_without_refresh.
MustEvict(t) == proj[t] \in projects /\ kind[t] # "reindex" /\ stale[proj[t]]

Hit(t) ==
  LET p == proj[t] IN
  /\ pc[t] = "get"
  /\ p \in projects
  /\ ~MustEvict(t)
  /\ idle' = [idle EXCEPT ![p] = FALSE]
  /\ active' = [active EXCEPT ![p] = Inc(@)]
  /\ lru' = Touched(lru, p)
  /\ graph' = [graph EXCEPT ![t] = "shared"]
  /\ Goto(t, "run")
  /\ UNCHANGED <<projects, loading, stale, dirty, kind, proj, edited, evictVars,
                 boundVars, skewed>>

\* Mutant: every caller that finds no entry builds one.
LeadAlways(t) == TRUE

\* Nobody has a gate for the project.
MayLead(t) == loading[proj[t]] = NoThread

\* No usable entry: a stale one is dropped, whoever still uses it, and the
\* thread joins the load in progress or becomes the loader itself.
Miss(t) ==
  LET p == proj[t]
      dropped == IF MustEvict(t) THEN {p} ELSE {}
  IN
  /\ pc[t] = "get"
  /\ p \notin projects \/ MustEvict(t)
  /\ Drop(dropped)
  /\ ForgetUnsaved(dropped)
  /\ \/ /\ ~MayLead(t)
        /\ Goto(t, "wait")
        /\ UNCHANGED <<loading, edited>>
     \/ /\ MayLead(t)
        /\ loading' = [loading EXCEPT ![p] = t]
        \* the watcher's rebuild brings a graph whose built_at is already set
        /\ edited' = [edited EXCEPT ![t] = IF kind[t] = "rebuild" THEN @ ELSE FALSE]
        /\ Goto(t, "build")
  /\ UNCHANGED <<kind, proj, victims, boundVars>>

\* Mutant: the gate is taken down but its waiters are not notified.
OpenGateSilently(t, next) ==
  /\ loading' = [loading EXCEPT ![proj[t]] = NoThread]
  /\ Goto(t, next)

\* The loader opens its gate: every waiter recurses into get_or_load_inner.
OpenGate(t, next) ==
  /\ loading' = [loading EXCEPT ![proj[t]] = NoThread]
  /\ pc' = [a \in Actor |->
              CASE a = t -> next
                [] a # t /\ pc[a] = "wait" /\ proj[a] = proj[t] -> "get"
                [] OTHER -> pc[a]]

\* The build fails: the gate is opened and the caller gets the error.  The
\* watcher's rebuild hands over a finished graph, which cannot fail.
BuildFails(t) ==
  /\ pc[t] = "build"
  /\ kind[t] # "rebuild"
  /\ OpenGate(t, "idle")
  /\ Leave(t)
  /\ UNCHANGED <<projects, lru, entryVars, evictVars, boundVars, skewed>>

\* LRU victims: the oldest idle entries other than p, as many as there are
\* entries over the cap once p is in.
CapVictims(p) ==
  LET candidates == {q \in projects \ {p} : active[q] = 0}
      loaded == Cardinality(projects \cup {p})
      before(q) == {r \in candidates : Older(r, q)}
  IN {q \in candidates : Cardinality(before(q)) + MaxLoaded < loaded}

\* The build succeeds, from the snapshot or from source; reload_project and
\* the watcher's rebuild never use the snapshot.
BuildSucceeds(t) ==
  LET p == proj[t] IN
  /\ pc[t] = "build"
  /\ OpenGate(t, IF CapVictims(p) = {} THEN "budget" ELSE "evict")
  /\ projects' = projects \cup {p}
  /\ active' = [active EXCEPT ![p] = 1]
  /\ idle' = [idle EXCEPT ![p] = FALSE]
  /\ stale' = [stale EXCEPT ![p] = edited[t]]
  /\ \E fromSnapshot \in BOOLEAN :
       /\ kind[t] \in {"reload", "rebuild"} => ~fromSnapshot
       /\ dirty' = [dirty EXCEPT ![p] = ~fromSnapshot]
  /\ graph' = [graph EXCEPT ![t] = "shared"]
  /\ edited' = [edited EXCEPT ![t] = FALSE]
  /\ lru' = Touched(lru, p)
  /\ victims' = [victims EXCEPT ![t] = CapVictims(p)]
  /\ unsaved' = [unsaved EXCEPT ![t] = CapVictims(p)]
  /\ UNCHANGED <<kind, proj, boundVars, skewed>>

-----------------------------------------------------------------------------
(* quiesce_and_remove: write the snapshots off-lock, then remove the       *)
(* victims that are still evictable when the lock is taken again.          *)

\* persist_entry clears the dirty flag if the snapshot could be written.
PersistVictim(a) ==
  /\ \E p \in unsaved[a] :
       /\ unsaved' = [unsaved EXCEPT ![a] = @ \ {p}]
       /\ \/ dirty' = [dirty EXCEPT ![p] = FALSE]
          \/ DiskFails /\ UNCHANGED dirty
  /\ UNCHANGED <<managerVars, active, idle, stale, threadVars, victims, boundVars, skewed>>

\* Mutants: no revive guard; and a dirty entry that is kept until saved.
EvictableAlways(a, p) == TRUE
EvictableSaved(a, p) == active[p] = 0 /\ ~dirty[p] /\ (a = Sweeper => idle[p])

\* still_evictable looks at the entry the path has NOW.
Evictable(a, p) == active[p] = 0 /\ (a = Sweeper => idle[p])

Removed(a) == {p \in victims[a] \cap projects : Evictable(a, p)}

RemoveVictims(a, next) ==
  /\ unsaved[a] = {}
  /\ Drop(Removed(a))
  /\ ForgetUnsaved(Removed(a))
  /\ victims' = [victims EXCEPT ![a] = {}]
  /\ Goto(a, next)
  /\ UNCHANGED <<loading, kind, proj, edited, boundVars>>

\* After the cap has been enforced comes the byte budget.
EvictForCap(t) == pc[t] = "evict" /\ RemoveVictims(t, "budget")

\* One turn of enforce_byte_budget, every graph counting one unit: the
\* oldest idle entry is the victim; within the budget, or when all entries
\* are busy, the load is over.
BudgetVictims ==
  LET candidates == {q \in projects : active[q] = 0} IN
  {q \in candidates : /\ 0 < MaxBytes
                      /\ MaxBytes < Cardinality(projects)
                      /\ ~\E r \in candidates : Older(r, q)}

EnforceByteBudget(t) ==
  /\ pc[t] = "budget"
  /\ victims' = [victims EXCEPT ![t] = BudgetVictims]
  /\ unsaved' = [unsaved EXCEPT ![t] = BudgetVictims]
  /\ Goto(t, IF BudgetVictims = {} THEN "run" ELSE "shrink")
  /\ UNCHANGED <<managerVars, entryVars, kind, proj, graph, edited, boundVars, skewed>>

\* A victim revived by a late query ends the loop.
EvictForBudget(t) ==
  /\ pc[t] = "shrink"
  /\ RemoveVictims(t, IF Removed(t) = {} THEN "run" ELSE "budget")

-----------------------------------------------------------------------------
(* The request handler from get_or_load on.                                *)

\* The request changes the graph under its write lock: a query that heals,
\* a reindex (which counts as a change even if it fails), the watcher's batch.
Mutate(t) ==
  /\ pc[t] = "run"
  /\ kind[t] \in {"query", "reindex", "watch"}
  /\ Goto(t, "mark")
  /\ UNCHANGED <<managerVars, entryVars, kind, proj, graph, edited, evictVars,
                 boundVars, skewed>>

\* mark_dirty goes by path: it reaches the entry resident now, if any, and
\* moves its built_at to the present.
MarkDirty(t) ==
  LET p == proj[t] IN
  /\ pc[t] = "mark"
  /\ dirty' = [dirty EXCEPT ![p] = p \in projects]
  /\ stale' = [stale EXCEPT ![p] = FALSE]
  /\ Goto(t, "release")
  /\ UNCHANGED <<managerVars, active, idle, kind, proj, graph, edited, evictVars,
                 boundVars, skewed>>

\* The reply is computed without a change to the graph.
Answer(t) ==
  /\ pc[t] = "run"
  /\ kind[t] \in {"query", "rebuild"}
  /\ Goto(t, "release")
  /\ UNCHANGED <<managerVars, entryVars, kind, proj, graph, edited, evictVars,
                 boundVars, skewed>>

\* reload_project replies and returns: its handler has no release.
AnswerReload(t) ==
  /\ pc[t] = "run"
  /\ kind[t] = "reload"
  /\ Leave(t)
  /\ skewed' = [skewed EXCEPT ![proj[t]] = TRUE]
  /\ Goto(t, "idle")
  /\ UNCHANGED <<managerVars, entryVars, evictVars, boundVars>>

\* Mutant: a handler that releases on two of its paths.
ReleaseTwice(t) ==
  LET p == proj[t] IN
  /\ pc[t] = "release"
  /\ active' = [active EXCEPT ![p] = IF p \in projects THEN Dec(Dec(@)) ELSE @]
  /\ Leave(t)
  /\ Goto(t, "idle")
  /\ UNCHANGED <<managerVars, idle, stale, dirty, evictVars, boundVars, skewed>>

\* release goes by path as well.
Release(t) ==
  LET p == proj[t] IN
  /\ pc[t] = "release"
  /\ active' = [active EXCEPT ![p] = IF p \in projects THEN Dec(@) ELSE @]
  /\ Leave(t)
  /\ Goto(t, "idle")
  /\ UNCHANGED <<managerVars, idle, stale, dirty, evictVars, boundVars, skewed>>

-----------------------------------------------------------------------------
(* The sweeper and the environment.                                        *)

SweepSelect ==
  LET chosen == {p \in projects : Evictable(Sweeper, p)} IN
  /\ pc[Sweeper] = "idle"
  /\ chosen # {}
  /\ victims' = [victims EXCEPT ![Sweeper] = chosen]
  /\ unsaved' = [unsaved EXCEPT ![Sweeper] = chosen]
  /\ Goto(Sweeper, "evict")
  /\ UNCHANGED <<managerVars, entryVars, kind, proj, graph, edited, boundVars, skewed>>

SweepRemove == pc[Sweeper] = "evict" /\ RemoveVictims(Sweeper, "idle")

\* idle_unload passes since the last query of p; the projects queried before
\* it went idle before it.
GrowIdle(p) ==
  /\ p \in projects
  /\ ~idle[p]
  /\ \A q \in projects : Older(q, p) => idle[q]
  /\ idle' = [idle EXCEPT ![p] = TRUE]
  /\ UNCHANGED <<managerVars, active, stale, dirty, threadVars, evictVars, boundVars, skewed>>

\* A source file of p (or its config.toml) gets a new modification time.
Edit(p) ==
  /\ edits < MaxEdits
  /\ edits' = edits + 1
  /\ stale' = [stale EXCEPT ![p] = p \in projects]
  /\ edited' = [t \in Thread |-> edited[t] \/ (proj[t] = p /\ pc[t] \in {"get", "wait", "build"})]
  /\ UNCHANGED <<managerVars, active, idle, dirty, pc, kind, proj, graph, evictVars,
                 requests, skewed>>

-----------------------------------------------------------------------------
GetOrLoad(t) == Hit(t) \/ Miss(t) \/ BuildFails(t) \/ BuildSucceeds(t)
Evict(t)     == PersistVictim(t) \/ EvictForCap(t) \/ EnforceByteBudget(t) \/ EvictForBudget(t)
Finish(t)    == Mutate(t) \/ MarkDirty(t) \/ Answer(t) \/ AnswerReload(t) \/ Release(t)

Serve(t) == Unload(t) \/ GetOrLoad(t) \/ Evict(t) \/ Finish(t)
Sweep    == SweepSelect \/ PersistVictim(Sweeper) \/ SweepRemove

Next ==
  \/ \E t \in Thread : Receive(t) \/ Serve(t)
  \/ Sweep
  \/ \E p \in Project : GrowIdle(p) \/ Edit(p)

\* Threads run: a request once received keeps being executed, and so does
\* the sweeper.  Nobody has to send requests, edit files or let time pass.
Fairness == (\A t \in Thread : WF_vars(Serve(t))) /\ WF_vars(Sweep)

Spec == Init /\ [][Next]_vars /\ Fairness

-----------------------------------------------------------------------------
(* Properties.                                                             *)

Labels == {"idle", "unload", "get", "wait", "build", "evict", "budget", "shrink",
           "run", "mark", "release"}

\* Every variable has its type, in particular active_queries is a usize; what
\* lru holds is said by LruMatchesProjects.
TypeOK ==
  /\ projects \subseteq Project
  /\ loading \in [Project -> Thread \cup {NoThread}]
  /\ active \in [Project -> 0..(WordSize - 1)]
  /\ idle \in [Project -> BOOLEAN]
  /\ stale \in [Project -> BOOLEAN]
  /\ dirty \in [Project -> BOOLEAN]
  /\ pc \in [Actor -> Labels]
  /\ kind \in [Thread -> AllKinds \cup {"none"}]
  /\ proj \in [Thread -> Project \cup {NoProject}]
  /\ graph \in [Thread -> {"none", "shared", "detached"}]
  /\ edited \in [Thread -> BOOLEAN]
  /\ victims \in [Actor -> SUBSET Project]
  /\ unsaved \in [Actor -> SUBSET Project]
  /\ requests \in [Thread -> 0..MaxRequests]
  /\ edits \in 0..MaxEdits
  /\ skewed \in [Project -> BOOLEAN]

\* Singleflight (get_or_load_inner): a thread that builds a graph owns the
\* project's gate, so no two threads build the same project, and nobody
\* builds a project that is resident, so an insert never replaces an entry.
SingleFlight ==
  \A t \in Thread : pc[t] = "build" => loading[proj[t]] = t /\ proj[t] \notin projects

\* A gate outlives its waiters: whoever waits for a load, or finds a gate,
\* has a builder to wait for, whatever unloads, edits and failures happen.
GateHasBuilder ==
  /\ \A t \in Thread : pc[t] = "wait" => loading[proj[t]] # NoThread
  /\ \A p \in Project : loading[p] # NoThread =>
       pc[loading[p]] = "build" /\ proj[loading[p]] = p

\* The LRU list and the map are changed in six places; they always name the
\* same projects, each once, so every entry can become a victim.
LruMatchesProjects ==
  /\ {lru[i] : i \in 1..Len(lru)} = projects
  /\ Len(lru) = Cardinality(projects)

\* active_queries counts the threads that use the entry, until an entry of
\* the project is dropped under its users or reload_project leaks one.
CountsExact ==
  \A p \in projects : ~skewed[p] => active[p] = Cardinality(Users(p))

\* What LRU, byte-budget and idle eviction take out of the map, after the
\* unlocked snapshot write, is used by no request in flight.
EvictedUnused ==
  [][\A a \in Actor, p \in projects :
       victims[a] # {} /\ victims'[a] = {} /\ p \notin projects' /\ ~skewed[p]
         => Users(p) = {}]_vars

\* What operations.md promises without exception: "one with an active query is
\* never dropped mid-flight".  A stale entry dropped under its users breaks it:
\* their releases count down the entry that replaced it.
InFlightNeverEvicted ==
  [][\A a \in Actor, p \in projects :
       victims[a] # {} /\ victims'[a] = {} /\ p \notin projects' => Users(p) = {}]_vars

\* architecture.md: "The idle timer resets on IPC query requests.  File-watch
\* events do not reset it".  The watcher loads the graph as a query does.
WatchLeavesIdle ==
  [][\A t \in Thread :
       kind[t] = "watch" /\ pc[t] = "get" /\ pc'[t] = "run" /\ idle[proj[t]]
         => idle'[proj[t]]]_vars

\* With no request in flight no entry is pinned by active_queries, so idle
\* unloading, auto-stop and the drain can go on.
NothingPinnedAtRest ==
  (\A t \in Thread : pc[t] = "idle") => \A p \in projects : active[p] = 0

\* Every request is answered: the gates, their waiters that start over, and
\* the eviction loops of a load never keep a request forever.
EveryRequestAnswered ==
  \A t \in Thread : pc[t] # "idle" ~> pc[t] = "idle"

\* An unused project that has grown idle is eventually unloaded or queried
\* again, even if its snapshot cannot be written.
IdleReclaimed ==
  \A p \in Project :
    p \in projects /\ idle[p] /\ active[p] = 0 ~> p \notin projects \/ ~idle[p] \/ skewed[p]

\* The refinement mapping: a thread holds what its Arc shares with the map.
Cache == INSTANCE LeasedCache WITH
  resident <- projects,
  builder <- loading,
  holds <- [t \in Thread |-> IF graph[t] = "shared" THEN {proj[t]} ELSE {}],
  torn <- {p \in Project : skewed[p]}

\* The manager implements the cache of LeasedCache: whatever LRU, counters,
\* timers and unlocked writes do, one thread builds, what is lent stays, and
\* only a refresh takes a graph from under its holders.
ImplementsCache == Cache!Spec
=============================================================================
