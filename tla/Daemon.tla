------------------------------- MODULE Daemon -------------------------------
(***************************************************************************)
(* The life of the daemon process (cli/src/daemon.rs, ipc.rs and the       *)
(* beginning and end of cli/src/commands/server.rs): commands that start,  *)
(* stop, restart it or start it on the way to a request, the processes     *)
(* they spawn, and the three files they all share: the socket, the lock    *)
(* file and the pid file.  Every action is one system call on a shared     *)
(* file, one signal, or one step of a process that another one can see.    *)
(*                                                                         *)
(* Unix only.  A socket file belongs to the process that bound it and      *)
(* outlives it; the exclusive flock is released when its process dies.     *)
(* Process ids are handed out in order and never used again.               *)
(***************************************************************************)
EXTENDS Naturals, FiniteSets

CONSTANTS
    Client,       \* terminals, bridges and editors that run commands
    MaxPids,      \* bound: daemon processes ever spawned
    MaxEvents     \* bound: commands given; foreground starts by hand or by a service
                  \* manager; daemons killed without warning, and those that find a
                  \* lock file they cannot open or lock

ASSUME BoundsAssumption ==
    /\ MaxPids \in Nat /\ MaxEvents \in Nat

Pid == 1..MaxPids
None == 0
Commands == {"start", "ensure", "stop", "restart"}

VARIABLES
    sock,       \* the process that bound the socket file there is, or None
    lock,       \* the process that has the flock
    pidFile,    \* the pid in server.pid, or None
    proc,       \* where each daemon process is
    stuck,      \* a process whose active_queries a reload_project left raised
    spawned,    \* processes spawned so far
    pc, cmd,    \* each client's step and command
    target,     \* the child it spawned, or the pid it read
    req,        \* its request: where it is in the daemon
    at,         \* the daemon that has it
    commands, launches, crashes,
    cut,        \* history: processes whose socket file a stop removed while they listened
    unlocked,   \* history: processes that went on without the lock
    robbers     \* history: for each process, those that removed its socket file
                \* as a corpse's while it listened

fileVars == <<sock, lock, pidFile>>
procVars == <<proc, spawned>>
clientVars == <<pc, cmd, target>>
reqVars == <<req, at, stuck>>
boundVars == <<commands, launches, crashes>>
historyVars == <<cut, unlocked, robbers>>
vars == <<fileVars, procVars, clientVars, reqVars, boundVars, historyVars>>

Listening == {"pidfile", "setup", "serve", "drain", "exit"}
Starting == {"probe", "lock", "unlink", "bind"}
Alive(p) == p # None /\ proc[p] \in Starting \cup Listening

MoreEvents == commands + launches + crashes + Cardinality(unlocked) < MaxEvents

\* is_running: the socket file is there and its owner listens.
IsRunning == sock # None /\ proc[sock] \in Listening

Init ==
    /\ sock = None /\ lock = None /\ pidFile = None
    /\ proc = [p \in Pid |-> "none"]
    /\ stuck = [p \in Pid |-> FALSE]
    /\ spawned = 0
    /\ pc = [c \in Client |-> "idle"]
    /\ cmd = [c \in Client |-> "start"]
    /\ target = [c \in Client |-> None]
    /\ req = [c \in Client |-> "none"]
    /\ at = [c \in Client |-> None]
    /\ commands = 0 /\ launches = 0 /\ crashes = 0
    /\ cut = {} /\ unlocked = {} /\ robbers = [p \in Pid |-> {}]

-----------------------------------------------------------------------------
(* A daemon process.                                                       *)

Step(p, label) == proc' = [proc EXCEPT ![p] = label]

\* The process is gone: its lock is released, its handlers are no more, its
\* clients see the connection close.  The socket file stays.
Die(p) ==
    /\ Step(p, "dead")
    /\ lock' = IF lock = p THEN None ELSE lock
    /\ stuck' = [stuck EXCEPT ![p] = FALSE]
    /\ req' = [c \in Client |-> IF at[c] = p THEN "none" ELSE req[c]]
    /\ at' = [c \in Client |-> IF at[c] = p THEN None ELSE at[c]]

Spawn ==
    /\ spawned < MaxPids
    /\ spawned' = spawned + 1
    /\ Step(spawned', "probe")

\* `server start --foreground`, as launchd and systemd run it.
Launch ==
    /\ MoreEvents
    /\ launches' = launches + 1
    /\ Spawn
    /\ UNCHANGED <<fileVars, clientVars, reqVars, commands, crashes,
                   historyVars>>

\* Another daemon that answers makes this one leave.
Probe(p) ==
    /\ proc[p] = "probe"
    /\ IF IsRunning THEN Die(p) ELSE Step(p, "lock") /\ UNCHANGED <<lock, reqVars>>
    /\ UNCHANGED <<sock, pidFile, spawned, clientVars, boundVars, historyVars>>

\* Mutant: the lock is looked at, not waited for.
LockProbed(p) == TRUE
\* flock with LOCK_NB.
LockFree(p) == lock = None

\* The lock is had, or someone else has it, or the lock file cannot be opened or
\* locked at all: then the daemon relies on the probe it has made and goes on.
AcquireLock(p) ==
    /\ proc[p] = "lock"
    /\ \/ LockFree(p) /\ Step(p, "unlink") /\ lock' = p /\ UNCHANGED <<reqVars, unlocked>>
       \/ ~LockFree(p) /\ Die(p) /\ UNCHANGED unlocked
       \/ /\ MoreEvents
          /\ Step(p, "unlink")
          /\ unlocked' = unlocked \cup {p}
          /\ UNCHANGED <<lock, reqVars>>
    /\ UNCHANGED <<sock, pidFile, spawned, clientVars, boundVars, cut, robbers>>

\* The corpse of a crashed daemon's socket is removed before binding, or, since
\* nobody looks, the socket of a daemon that lives.
Unlink(p) ==
    /\ proc[p] = "unlink"
    /\ sock' = None
    /\ robbers' = IF IsRunning THEN [robbers EXCEPT ![sock] = @ \cup {p}] ELSE robbers
    /\ Step(p, "bind")
    /\ UNCHANGED <<lock, pidFile, spawned, clientVars, reqVars, boundVars, cut, unlocked>>

Bind(p) ==
    /\ proc[p] = "bind"
    /\ IF sock = None
         THEN sock' = p /\ Step(p, "pidfile") /\ UNCHANGED <<lock, reqVars>>
         ELSE Die(p) /\ UNCHANGED sock
    /\ UNCHANGED <<pidFile, spawned, clientVars, boundVars, historyVars>>

WritePid(p) ==
    /\ proc[p] = "pidfile"
    /\ pidFile' = p
    /\ Step(p, "setup")
    /\ UNCHANGED <<sock, lock, spawned, clientVars, reqVars, boundVars, historyVars>>

\* The signal handlers are installed and the accept loop begins; until then
\* SIGTERM kills the process.
Install(p) ==
    /\ proc[p] = "setup"
    /\ Step(p, "serve")
    /\ UNCHANGED <<fileVars, spawned, clientVars, reqVars, boundVars, historyVars>>

Active(p) == {c \in Client : at[c] = p /\ req[c] = "active"}

\* should_auto_stop: no query in flight, nothing heard for long enough.  SHUTDOWN
\* is set and the poller sees it; the accept loop goes on.
AutoStop(p) ==
    /\ proc[p] = "serve"
    /\ Active(p) = {} /\ ~stuck[p]
    /\ Step(p, "drain")
    /\ UNCHANGED <<fileVars, spawned, clientVars, reqVars, boundVars, historyVars>>

\* Mutant: no deadline.
IdleOnly(p) == Active(p) = {} /\ ~stuck[p]
\* Nothing is in flight, or graceful_shutdown has passed, as it may at any time.
DrainedOrLate(p) == IdleOnly(p) \/ TRUE

Drained(p) ==
    /\ proc[p] = "drain"
    /\ DrainedOrLate(p)
    /\ Step(p, "exit")
    /\ UNCHANGED <<fileVars, spawned, clientVars, reqVars, boundVars, historyVars>>

\* persist_all_dirty, then exit(0), which runs no destructor: the socket file stays.
Exit(p) ==
    /\ proc[p] = "exit"
    /\ Die(p)
    /\ UNCHANGED <<sock, pidFile, spawned, clientVars, boundVars, historyVars>>

Crash(p) ==
    /\ Alive(p)
    /\ MoreEvents
    /\ crashes' = crashes + 1
    /\ Die(p)
    /\ UNCHANGED <<sock, pidFile, spawned, clientVars, commands,
                   launches, historyVars>>

-----------------------------------------------------------------------------
(* Requests inside the daemon: each has a thread of its own.               *)

Accept(c) ==
    /\ req[c] = "sent"
    /\ proc[at[c]] \in {"serve", "drain", "exit"}
    /\ req' = [req EXCEPT ![c] = "active"]
    /\ UNCHANGED <<fileVars, procVars, clientVars, at, stuck, boundVars, historyVars>>

\* The reply is written; a reload_project forgets to release its project.
Reply(c) ==
    /\ req[c] = "active"
    /\ req' = [req EXCEPT ![c] = "none"]
    /\ at' = [at EXCEPT ![c] = None]
    /\ UNCHANGED stuck \/ stuck' = [stuck EXCEPT ![at[c]] = TRUE]
    /\ UNCHANGED <<fileVars, procVars, clientVars, boundVars, historyVars>>

-----------------------------------------------------------------------------
(* A client.                                                               *)

Goto(c, label) == pc' = [pc EXCEPT ![c] = label]

\* What spawn_background is followed by once a daemon answers.
AfterStart(k) == IF k = "ensure" THEN "send" ELSE "idle"
\* What stop is followed by, whether it worked or not.
AfterStop(c) == IF cmd[c] = "restart" THEN "spawn" ELSE "idle"

\* spawn_background: nothing to do if a daemon answers.
Spawning(c, k) ==
    \/ /\ IsRunning
       /\ Goto(c, AfterStart(k))
       /\ UNCHANGED <<proc, spawned, target>>
    \/ /\ ~IsRunning
       /\ Spawn
       /\ target' = [target EXCEPT ![c] = spawned']
       /\ Goto(c, "record")

\* A command is given, on a client that has nothing else to do: any one stands
\* for it, as each command is a process of its own.  It looks whether the
\* daemon runs, and those that start one look again before they do, which is the
\* look that counts.
Command(c) ==
    /\ pc[c] = "idle" /\ req[c] = "none"
    /\ c = CHOOSE d \in Client : pc[d] = "idle" /\ req[d] = "none"
    /\ MoreEvents
    /\ commands' = commands + 1
    /\ \E k \in Commands :
         /\ cmd' = [cmd EXCEPT ![c] = k]
         /\ \/ k \in {"start", "ensure"} /\ Spawning(c, k)
            \/ k = "restart" /\ ~IsRunning /\ Spawning(c, k)
            \/ /\ k \in {"stop", "restart"} /\ IsRunning
               /\ Goto(c, "read")
               /\ UNCHANGED <<proc, spawned, target>>
    /\ UNCHANGED <<fileVars, reqVars, launches, crashes, historyVars>>

SpawnBackground(c) ==
    /\ pc[c] = "spawn"
    /\ Spawning(c, cmd[c])
    /\ UNCHANGED <<fileVars, cmd, reqVars, boundVars, historyVars>>

\* The parent writes its child's pid, whatever has become of the child.
Record(c) ==
    /\ pc[c] = "record"
    /\ pidFile' = target[c]
    /\ target' = [target EXCEPT ![c] = None]
    /\ Goto(c, "await")
    /\ UNCHANGED <<sock, lock, procVars, cmd, reqVars, boundVars, historyVars>>

\* Three seconds of probing, then an error.
Await(c) ==
    /\ pc[c] = "await"
    /\ \/ IsRunning /\ Goto(c, AfterStart(cmd[c]))
       \/ ~IsRunning /\ Goto(c, "idle")
    /\ UNCHANGED <<fileVars, procVars, cmd, target, reqVars, boundVars, historyVars>>

ReadPid(c) ==
    /\ pc[c] = "read"
    /\ target' = [target EXCEPT ![c] = pidFile]
    /\ Goto(c, IF pidFile = None THEN AfterStop(c) ELSE "kill")
    /\ UNCHANGED <<fileVars, procVars, cmd, reqVars, boundVars, historyVars>>

\* SIGTERM: a dead process is an error, one without its handlers dies of it, one
\* that serves drains.
Terminate(c) ==
    LET p == target[c] IN
    /\ pc[c] = "kill"
    /\ IF ~Alive(p) THEN /\ Goto(c, AfterStop(c))
                         /\ target' = [target EXCEPT ![c] = None]
                    ELSE Goto(c, "poll") /\ UNCHANGED target
    /\ CASE Alive(p) /\ proc[p] \in Starting \cup {"pidfile", "setup"} -> Die(p)
         [] Alive(p) /\ proc[p] = "serve" -> Step(p, "drain") /\ UNCHANGED <<lock, reqVars>>
         [] OTHER -> UNCHANGED <<proc, lock, reqVars>>
    /\ UNCHANGED <<sock, pidFile, spawned, cmd, boundVars, historyVars>>

\* Mutant: the stop does not look whether the daemon is still there.
SurelyGone == TRUE
Gone == ~IsRunning

\* Three seconds of probing, then an error, which restart ignores.
Poll(c) ==
    /\ pc[c] = "poll"
    /\ \/ Gone /\ Goto(c, "rmpid") /\ UNCHANGED target
       \/ ~Gone /\ Goto(c, AfterStop(c)) /\ target' = [target EXCEPT ![c] = None]
    /\ UNCHANGED <<fileVars, procVars, cmd, reqVars, boundVars, historyVars>>

RemovePid(c) ==
    /\ pc[c] = "rmpid"
    /\ pidFile' = None
    /\ Goto(c, "rmsock")
    /\ UNCHANGED <<sock, lock, procVars, cmd, target, reqVars, boundVars, historyVars>>

\* Whatever socket file is there now.
RemoveSocket(c) ==
    /\ pc[c] = "rmsock"
    /\ sock' = None
    /\ cut' = IF IsRunning THEN cut \cup {sock} ELSE cut
    /\ Goto(c, AfterStop(c))
    /\ target' = [target EXCEPT ![c] = None]
    /\ UNCHANGED <<lock, pidFile, procVars, cmd, reqVars, boundVars, unlocked, robbers>>

\* send: without a connection the command takes its own in-process path.
Send(c) ==
    /\ pc[c] = "send"
    /\ \/ /\ IsRunning
          /\ req' = [req EXCEPT ![c] = "sent"]
          /\ at' = [at EXCEPT ![c] = sock]
          /\ Goto(c, "reply")
          /\ UNCHANGED stuck
       \/ /\ ~IsRunning
          /\ Goto(c, "idle")
          /\ UNCHANGED reqVars
    /\ UNCHANGED <<fileVars, procVars, cmd, target, boundVars, historyVars>>

\* The reply, a closed connection or the receive timeout: in the last case the
\* request goes on without its client.
Receive(c) ==
    /\ pc[c] = "reply"
    /\ Goto(c, "idle")
    /\ UNCHANGED <<fileVars, procVars, cmd, target, reqVars, boundVars, historyVars>>

-----------------------------------------------------------------------------
DaemonStep(p) == \/ Probe(p) \/ AcquireLock(p) \/ Unlink(p) \/ Bind(p) \/ WritePid(p)
                 \/ Install(p) \/ Drained(p) \/ Exit(p)
HandlerStep(c) == Accept(c) \/ Reply(c)
ClientStep(c) == \/ SpawnBackground(c) \/ Record(c) \/ Await(c) \/ ReadPid(c) \/ Terminate(c)
                 \/ Poll(c) \/ RemovePid(c) \/ RemoveSocket(c) \/ Send(c) \/ Receive(c)

Next ==
    \/ Launch
    \/ \E p \in Pid : DaemonStep(p) \/ AutoStop(p) \/ Crash(p)
    \/ \E c \in Client : Command(c) \/ ClientStep(c) \/ HandlerStep(c)

\* Processes run on, and so do clients; requests need not end.
Fairness ==
    /\ \A p \in Pid : WF_vars(DaemonStep(p))
    /\ \A c \in Client : WF_vars(ClientStep(c))

Spec == Init /\ [][Next]_vars /\ Fairness

-----------------------------------------------------------------------------
(* Properties.                                                             *)

\* Every variable has its type; the lock's owner lives, a request has a daemon.
TypeOK ==
    /\ {sock, lock, pidFile} \subseteq Pid \cup {None}
    /\ proc \in [Pid -> Starting \cup Listening \cup {"none", "dead"}]
    /\ stuck \in [Pid -> BOOLEAN]
    /\ spawned \in 0..MaxPids
    /\ \A p \in Pid : proc[p] = "none" <=> spawned < p
    /\ lock # None => Alive(lock)
    /\ pc \in [Client -> {"idle", "spawn", "record", "await", "read", "kill", "poll", "rmpid",
                          "rmsock", "send", "reply"}]
    /\ cmd \in [Client -> Commands]
    /\ target \in [Client -> Pid \cup {None}]
    /\ req \in [Client -> {"none", "sent", "active"}]
    /\ at \in [Client -> Pid \cup {None}]
    /\ \A c \in Client : IF req[c] = "none" THEN at[c] = None
                                            ELSE at[c] # None /\ proc[at[c]] \in Listening
    /\ cut \subseteq Pid /\ unlocked \subseteq Pid /\ robbers \in [Pid -> SUBSET Pid]

\* server.rs: "only one daemon can ever get past here", whichever starts, stops,
\* crashes and restarts overlap: of the processes that went through the lock
\* never do two listen at once, each with a graph of its own.  (One that could
\* not lock may listen beside them.)
OneListener ==
    \A p, q \in Pid : {proc[p], proc[q]} \subseteq Listening /\ {p, q} \cap unlocked = {} => p = q

\* "No live daemon owns the socket -- removing it is safe": a live daemon loses
\* its socket to a stop, or to a daemon that comes up and takes it for a
\* corpse's; and that happens only where one of the two went on without the lock.
SocketStolenOnlyBy ==
    \A p \in Pid :
        /\ proc[p] \in Listening => sock = p \/ p \in cut \/ robbers[p] # {}
        /\ \A r \in robbers[p] : {p, r} \cap unlocked # {}

\* One daemon listens, and it is the one the clients reach.
OneOwner == OneListener /\ SocketStolenOnlyBy

\* A stop that reports success has outlived the daemon it signalled, unless
\* that daemon had lost its socket, and looked gone.
StopMeansDead ==
    \A c \in Client : pc[c] \in {"rmpid", "rmsock"} =>
        ~Alive(target[c]) \/ target[c] \in cut \/ robbers[target[c]] # {}

\* A daemon told to stop leaves its drain in the end, even when the count of its queries
\* never comes down to zero.
Drains == <>[](\A p \in Pid : proc[p] # "drain")

\* server.rs: without the lock there would be "an orphaned daemon (holding a
\* graph, unreachable)"; with it, "it never wedges a future start".  A stop
\* that removes the socket of the next daemon leaves exactly that, and so does a
\* start that cannot lock.
NoOrphan == \A p \in Pid : proc[p] = "serve" => sock = p
=============================================================================
