-------------------------------- MODULE Viz ---------------------------------
(***************************************************************************)
(* `coregraph viz': the local server that proxies the viewer's requests to *)
(* the daemon (commands/viz.rs).  Each HTTP request is a task.  It makes   *)
(* sure that a daemon runs, spawning one under start_lock, and calls it; a *)
(* daemon of an older binary answers "unknown method" and is restarted     *)
(* once, under restart_gate.  Requests for one graph share an OnceCell in  *)
(* the inflight map.  A client that disconnects cuts its task off at any   *)
(* await: locks and the cell's permit are released, but a blocking job     *)
(* (spawn, restart, a call to the daemon) runs to its end.                 *)
(* OnceCell, Mutex and spawn_blocking are tokio's; one graph key.          *)
(***************************************************************************)
EXTENDS Integers, FiniteSets

CONSTANTS Reqs,       \* HTTP requests
          KindsOf(_), \* of "graph", "reindex", "json", "start"; graph alone or not at all
          Quitters,   \* requests whose client may disconnect
          MaxMishaps, \* bound on the daemon's own stops and on failed restarts
          None

ASSUME VizAssumption ==
  /\ None \notin Reqs
  /\ \A r \in Reqs : \/ KindsOf(r) = {"graph"}
                     \/ KindsOf(r) \subseteq {"reindex", "json", "start"}
  /\ MaxMishaps \in Nat

VARIABLES
  up,      \* the daemon: "down", "booting", "old" or "new" binary
  mishaps, \* stops of the daemon by itself, failed restarts
  gate,    \* restart_gate's instant: "never", "recent", "expired"
  gateOwner, startOwner,   \* who holds restart_gate and start_lock
  inflight,                \* the key's cell, named after its first holder
  value, permit,           \* of each cell: the graph is there, the initialiser
  pc, kind, cell,          \* of each request
  again,                   \* it has been through the gate
  job,                     \* its blocking job: "none" "spawn" "call" "stop" "respawn"
  cut,                     \* a request has been cut off
  late                     \* those cut off with the answer at hand, the key still there

daemon == <<up, mishaps>>
locks == <<gate, gateOwner, startOwner>>
cells == <<inflight, value, permit>>
task == <<pc, kind, cell, again>>
history == <<cut, late>>
vars == <<daemon, locks, cells, task, job, history>>

Graph == {r \in Reqs : KindsOf(r) = {"graph"}}

Live == {r \in Reqs : pc[r] \notin {"new", "done", "gone"}}

Running == up \in {"old", "new"}

(* Every variable has its type, and a lock an owner that waits for its job.*)
TypeOK ==
  /\ up \in {"down", "booting", "old", "new"}
  /\ mishaps \in 0..MaxMishaps
  /\ gate \in {"never", "recent", "expired"}
  /\ {gateOwner, startOwner, inflight} \subseteq Reqs \cup {None}
  /\ value \in [Reqs -> BOOLEAN] /\ permit \in [Reqs -> Reqs \cup {None}]
  /\ \A r \in Reqs : /\ pc[r] = "restarting" <=> gateOwner = r
                     /\ startOwner = r <=> pc[r] \in {"spawning", "polling"}
                     /\ pc[r] = "calling" => job[r] = "call"
                     /\ permit[cell[r]] = r => ~value[cell[r]]

Init ==
  /\ up \in {"down", "old", "new"} /\ mishaps = 0
  /\ gate = "never" /\ gateOwner = None /\ startOwner = None
  /\ inflight = None
  /\ value = [r \in Reqs |-> FALSE] /\ permit = [r \in Reqs |-> None]
  /\ pc = [r \in Reqs |-> "new"] /\ cell = [r \in Reqs |-> r]
  /\ kind \in [Reqs -> UNION {KindsOf(r) : r \in Reqs}]
  /\ \A r \in Reqs : kind[r] \in KindsOf(r)
  /\ again = [r \in Reqs |-> FALSE]
  /\ job = [r \in Reqs |-> "none"]
  /\ cut = FALSE /\ late = {}

Go(r, to) == pc' = [pc EXCEPT ![r] = to]

Run(r, what) == job' = [job EXCEPT ![r] = what]

Freed(owner, r) == IF owner = r THEN None ELSE owner

(* A variant: an initialiser never gives its cell's permit back.           *)
ReleaseLocks(r) ==
  /\ startOwner' = Freed(startOwner, r)
  /\ gateOwner' = Freed(gateOwner, r)
  /\ UNCHANGED permit

(* What a task gives back when it ends, fails or is dropped.               *)
Release(r) ==
  /\ startOwner' = Freed(startOwner, r)
  /\ gateOwner' = Freed(gateOwner, r)
  /\ permit' = [c \in Reqs |-> Freed(permit[c], r)]

Answered(r) == IF r \in Graph THEN "leave" ELSE "done"

(* `?' out of the task with an error reply.                                *)
Fail(r) ==
  /\ Go(r, Answered(r))
  /\ Release(r)
  /\ UNCHANGED <<up, mishaps, gate, inflight, value, kind, cell, again, job, history>>

(***************************************************************************)
(* fetch_graph: the cell of the key, made by the first to ask.  The other  *)
(* handlers start by making sure of the daemon.                            *)
(***************************************************************************)
Arrive(r) ==
  /\ pc[r] = "new"
  /\ IF r \in Graph
     THEN /\ inflight' = IF inflight = None THEN r ELSE inflight
          /\ cell' = [cell EXCEPT ![r] = inflight']
          /\ Go(r, "wait")
     ELSE Go(r, "status") /\ UNCHANGED <<inflight, kind, cell>>
  /\ UNCHANGED <<daemon, locks, value, permit, kind, again, job, history>>

CellReady(r) ==
  /\ pc[r] = "wait"
  /\ value[cell[r]]
  /\ Go(r, "leave")
  /\ UNCHANGED <<daemon, locks, cells, kind, cell, again, job, history>>

CellInit(r) ==
  /\ pc[r] = "wait"
  /\ ~value[cell[r]] /\ permit[cell[r]] = None
  /\ permit' = [permit EXCEPT ![cell[r]] = r]
  /\ Go(r, "status")
  /\ UNCHANGED <<daemon, locks, inflight, value, kind, cell, again, job, history>>

(* A variant: the key stays, so that later requests find the value.        *)
LeaveKeeping(r) ==
  /\ pc[r] = "leave"
  /\ Go(r, "done")
  /\ UNCHANGED <<daemon, locks, cells, kind, cell, again, job, history>>

(* The key is removed whatever cell it leads to by now.                    *)
Leave(r) ==
  /\ pc[r] = "leave"
  /\ inflight' = None
  /\ Go(r, "done")
  /\ UNCHANGED <<daemon, locks, value, permit, kind, cell, again, job, history>>

(***************************************************************************)
(* ensure_daemon.  A status call finds a running daemon, none, or one too  *)
(* busy to answer (an error).                                              *)
(***************************************************************************)
Ensured(r) ==
  /\ IF kind[r] = "start"
     THEN Go(r, "done") /\ UNCHANGED job
     ELSE Go(r, "calling") /\ Run(r, "call")
  /\ startOwner' = Freed(startOwner, r)
  /\ UNCHANGED <<daemon, gate, gateOwner, cells, kind, cell, again, history>>

Status(r) ==
  /\ pc[r] = "status"
  /\ \/ Running /\ Ensured(r)
     \/ Running /\ Fail(r)
     \/ ~Running /\ Go(r, "startlock")
          /\ UNCHANGED <<daemon, locks, cells, kind, cell, again, job, history>>

(* Under the lock a second status; still no daemon, it is spawned.         *)
LockAndRecheck(r) ==
  /\ pc[r] = "startlock"
  /\ startOwner = None
  /\ \/ Running /\ Ensured(r)
     \/ Running /\ Fail(r)
     \/ /\ ~Running
        /\ startOwner' = r
        /\ Go(r, "spawning")
        /\ Run(r, "spawn")
        /\ UNCHANGED <<daemon, gate, gateOwner, cells, kind, cell, again, history>>

(* A child that finds the daemon's lock taken exits.                       *)
Spawned == up' = IF up = "down" THEN "booting" ELSE up

SpawnDone(r) ==
  /\ job[r] = "spawn"
  /\ Spawned
  /\ Run(r, "none")
  /\ pc' = [pc EXCEPT ![r] = IF @ = "spawning" THEN "polling" ELSE @]
  /\ UNCHANGED <<mishaps, locks, cells, kind, cell, again, history>>

SpawnFails(r) ==
  /\ job[r] = "spawn"
  /\ Run(r, "none")
  /\ Release(r)
  /\ pc' = [pc EXCEPT ![r] = IF @ = "spawning" THEN Answered(r) ELSE @]
  /\ UNCHANGED <<daemon, gate, inflight, value, kind, cell, again, history>>

(* Every 400 ms until it answers, reports an error, or 30 s are over.      *)
Poll(r) ==
  /\ pc[r] = "polling"
  /\ (Running /\ Ensured(r)) \/ Fail(r)

(***************************************************************************)
(* The call: export_graph, reload_project or a JSON method.                *)
(***************************************************************************)
(* The answer of a method the binary knows.                                *)
CallAnswered(r) ==
  /\ job[r] = "call" /\ pc[r] = "calling"
  /\ Run(r, "none")
  /\ up = "new" \/ (up = "old" /\ kind[r] = "json")
  /\ value' = IF r \in Graph THEN [value EXCEPT ![cell[r]] = TRUE] ELSE value
  /\ Release(r)
  /\ Go(r, Answered(r))
  /\ UNCHANGED <<daemon, gate, inflight, kind, cell, again, history>>

CallUnknown(r) ==
  /\ job[r] = "call" /\ pc[r] = "calling"
  /\ Run(r, "none")
  /\ up = "old" /\ kind[r] # "json"
  /\ ~again[r]
  /\ Go(r, "gate")
  /\ UNCHANGED <<daemon, locks, cells, kind, cell, again, history>>

(* No daemon, a busy one, an error, or "unknown method" a second time.     *)
CallFails(r) ==
  /\ job[r] = "call" /\ pc[r] = "calling"
  /\ Run(r, "none")
  /\ Release(r)
  /\ Go(r, Answered(r))
  /\ UNCHANGED <<daemon, gate, inflight, value, kind, cell, again, history>>

CallOrphaned(r) ==
  /\ job[r] = "call" /\ pc[r] = "gone"
  /\ Run(r, "none")
  /\ UNCHANGED <<daemon, locks, cells, task, history>>

(***************************************************************************)
(* restart_daemon_once: a restart of the last 10 s serves for this one.    *)
(***************************************************************************)
TakeGate(r) ==
  /\ pc[r] = "gate"
  /\ gateOwner = None
  /\ IF gate = "recent"
     THEN /\ again' = [again EXCEPT ![r] = TRUE]
          /\ Go(r, "status")
          /\ UNCHANGED <<gateOwner, job>>
     ELSE /\ gateOwner' = r
          /\ Go(r, "restarting")
          /\ Run(r, "stop")
          /\ UNCHANGED again
  /\ UNCHANGED <<daemon, gate, startOwner, cells, kind, cell, history>>

(* daemon::restart: a stop that times out is passed over.                  *)
RestartStop(r) ==
  /\ job[r] = "stop"
  /\ up' \in {"down", up}
  /\ Run(r, "respawn")
  /\ UNCHANGED <<mishaps, locks, cells, task, history>>

(* A variant: the gate is opened without noting the restart.               *)
RestartSpawnUnnoted(r) ==
  /\ job[r] = "respawn"
  /\ Spawned
  /\ Run(r, "none")
  /\ IF pc[r] = "restarting"
     THEN /\ gateOwner' = None
          /\ again' = [again EXCEPT ![r] = TRUE]
          /\ Go(r, "status")
     ELSE UNCHANGED <<gateOwner, again, pc>>
  /\ UNCHANGED <<mishaps, gate, startOwner, cells, kind, cell, history>>

RestartSpawn(r) ==
  /\ job[r] = "respawn"
  /\ Spawned
  /\ Run(r, "none")
  /\ IF pc[r] = "restarting"
     THEN /\ gate' = "recent"
          /\ gateOwner' = None
          /\ again' = [again EXCEPT ![r] = TRUE]
          /\ Go(r, "status")
     ELSE UNCHANGED <<gate, gateOwner, again, pc>>
  /\ UNCHANGED <<mishaps, startOwner, cells, kind, cell, history>>

RestartFails(r) ==
  /\ job[r] = "respawn"
  /\ mishaps < MaxMishaps
  /\ mishaps' = mishaps + 1
  /\ Run(r, "none")
  /\ Release(r)
  /\ pc' = [pc EXCEPT ![r] = IF @ = "restarting" THEN Answered(r) ELSE @]
  /\ UNCHANGED <<up, gate, inflight, value, kind, cell, again, history>>

(***************************************************************************)
(* The client goes away: the task is dropped where it awaits.              *)
(***************************************************************************)
Disconnect(r) ==
  /\ r \in Quitters \cap Live
  /\ Go(r, "gone")
  /\ Release(r)
  /\ cut' = TRUE
  /\ late' = IF pc[r] = "leave" THEN late \cup {r} ELSE late
  /\ UNCHANGED <<daemon, gate, inflight, value, kind, cell, again, job>>

(* Ten seconds: longer than a task needs to take a free gate.              *)
Elapse ==
  /\ gate = "recent"
  /\ \A r \in Reqs : pc[r] # "gate"
  /\ gate' = "expired"
  /\ UNCHANGED <<daemon, gateOwner, startOwner, cells, task, job, history>>

Boot ==
  /\ up = "booting"
  /\ up' = "new"
  /\ UNCHANGED <<mishaps, locks, cells, task, job, history>>

StopsItself ==
  /\ up # "down" /\ mishaps < MaxMishaps
  /\ up' = "down" /\ mishaps' = mishaps + 1
  /\ UNCHANGED <<locks, cells, task, job, history>>

Step(r) ==
  \/ CellReady(r) \/ CellInit(r) \/ Leave(r)
  \/ Status(r) \/ LockAndRecheck(r) \/ SpawnDone(r) \/ SpawnFails(r) \/ Poll(r)
  \/ CallAnswered(r) \/ CallUnknown(r) \/ CallFails(r) \/ CallOrphaned(r)
  \/ TakeGate(r) \/ RestartStop(r) \/ RestartSpawn(r) \/ RestartFails(r)

Next ==
  \/ \E r \in Reqs : Arrive(r) \/ Step(r) \/ Disconnect(r)
  \/ Elapse \/ Boot \/ StopsItself

(* The runtime polls every task that can go on; every call to the daemon   *)
(* has a timeout and the wait for a daemon a deadline.                     *)
Fairness == \A r \in Reqs : WF_vars(Step(r))

Spec == Init /\ [][Next]_vars /\ Fairness

-----------------------------------------------------------------------------
(***************************************************************************)
(* However many requests the old daemon turned away, the current one that  *)
(* replaced it is never restarted on their account, unless a task was cut  *)
(* off, a restart failed or the daemon stopped by itself (viz.rs           *)
(* restart_daemon_once).                                                   *)
(***************************************************************************)
RestartOnlyStale ==
  [][\A r \in Reqs : job[r] = "stop" /\ job'[r] # "stop" /\ ~cut /\ mishaps = 0 => up # "new"]_vars

(* The requests of a cell that have its value and still have to remove the *)
(* key, or never will, for their client left just then.                    *)
Removing(c) == {q \in Graph : cell[q] = c /\ (pc[q] = "leave" \/ q \in late)}

(***************************************************************************)
(* A request joins a flight that is over only in the gap between its       *)
(* answer and the removal of its key: some request of the flight is about  *)
(* to remove it, or was cut off in that very place.  Whoever else failed,  *)
(* waited, or was cut off elsewhere, a new request gets a graph of its own *)
(* time (viz.rs fetch_graph).                                              *)
(***************************************************************************)
AnswerFresh ==
  [][\A r \in Graph : pc[r] = "new" /\ pc'[r] = "wait" /\ value[cell'[r]]
                      => Removing(cell'[r]) # {}]_vars

(***************************************************************************)
(* Every request is answered or dropped, whoever failed or went away       *)
(* before it: a waiter of the cell takes over from an initialiser that     *)
(* failed or was cut off (viz.rs fetch_graph, get_or_try_init).            *)
(***************************************************************************)
RequestsEnd == \A r \in Reqs : pc[r] # "new" ~> pc[r] \in {"done", "gone"}

Doing(jobs) == {r \in Reqs : job[r] \in jobs}

(***************************************************************************)
(* "identical concurrent /api/graph requests share one daemon extraction   *)
(* instead of racing several" (viz.rs fetch_graph).  A waiter removes the  *)
(* key after it has read the value, and by then the key may lead to the    *)
(* cell of a newer flight.                                                 *)
(***************************************************************************)
SingleFlight == ~cut => Cardinality(Doing({"call"}) \cap Graph) <= 1
=============================================================================
