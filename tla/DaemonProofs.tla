---------------------------- MODULE DaemonProofs ----------------------------
(***************************************************************************)
(* Theorems about Daemon, for every set of clients and any number of       *)
(* processes, commands, launches and crashes.                              *)
(***************************************************************************)
EXTENDS Daemon, TLAPS

\* What the flock is for: from the moment a daemon removes the old socket file
\* until it dies, it holds the lock, unless it has gone on without.
LockHeld == \A p \in Pid : proc[p] \in {"unlink", "bind"} \cup Listening => lock = p \/ p \in unlocked

\* Who waits for a daemon to stop has signalled one that serves or is past it.
Signalled ==
    \A c \in Client : pc[c] = "poll" =>
        target[c] # None /\ proc[target[c]] \in {"drain", "exit", "dead"}

\* Who cleans up after it has seen it dead, or with its socket gone.
Outlived ==
    \A c \in Client : pc[c] \in {"rmpid", "rmsock"} =>
        /\ target[c] # None
        /\ proc[target[c]] = "dead" \/ target[c] \in cut \/ robbers[target[c]] # {}

\* TypeOK by the actors it is about.
Files ==
    /\ {sock, lock, pidFile} \subseteq Pid \cup {None}
    /\ lock # None => Alive(lock)
    /\ cut \subseteq Pid /\ unlocked \subseteq Pid /\ robbers \in [Pid -> SUBSET Pid]
Processes ==
    /\ proc \in [Pid -> Starting \cup Listening \cup {"none", "dead"}]
    /\ spawned \in 0..MaxPids
    /\ \A p \in Pid : proc[p] = "none" <=> spawned < p
Clients ==
    /\ pc \in [Client -> {"idle", "spawn", "record", "await", "read", "kill", "poll", "rmpid",
                          "rmsock", "send", "reply"}]
    /\ cmd \in [Client -> Commands]
    /\ target \in [Client -> Pid \cup {None}]
Requests ==
    /\ stuck \in [Pid -> BOOLEAN]
    /\ req \in [Client -> {"none", "sent", "active"}]
    /\ at \in [Client -> Pid \cup {None}]
    /\ \A c \in Client : IF req[c] = "none" THEN at[c] = None
                                            ELSE at[c] # None /\ proc[at[c]] \in Listening

DaemonInv == /\ Files /\ Processes /\ Clients /\ Requests
             /\ LockHeld /\ SocketStolenOnlyBy /\ Signalled /\ Outlived

-----------------------------------------------------------------------------
USE BoundsAssumption DEF Pid, None, Step, Goto, fileVars, procVars, clientVars, reqVars, boundVars, historyVars

LEMMA DaemonInit == Init => DaemonInv
  BY DEF Init, DaemonInv, Files, Processes, Clients, Requests, LockHeld, SocketStolenOnlyBy, Signalled, Outlived, Listening,
         Starting, Commands, Alive

USE DEF Files, Processes, Clients, Requests, LockHeld, SocketStolenOnlyBy, Signalled,
        Outlived, Listening, Starting, Alive, Commands

\* A process that dies takes its requests and its lock with it, and leaves the
\* socket file to others.
LEMMA DieKeeps ==
  ASSUME DaemonInv, NEW p \in Pid, Alive(p), Die(p), UNCHANGED <<sock, pidFile, spawned, historyVars>>,
         Clients', Signalled', Outlived'
  PROVE  DaemonInv'
  <1>1. proc' = [proc EXCEPT ![p] = "dead"]
    BY DEF Die
  <1>2. Files'
    BY <1>1 DEF DaemonInv, Die
  <1>3. Processes'
    BY <1>1 DEF DaemonInv
  <1>4. Requests'
    <2>1. stuck' \in [Pid -> BOOLEAN] /\ req' \in [Client -> {"none", "sent", "active"}]
      BY DEF DaemonInv, Die
    <2>2. at' \in [Client -> Pid \cup {None}]
      BY DEF DaemonInv, Die
    <2>3. ASSUME NEW c \in Client
          PROVE  IF req'[c] = "none" THEN at'[c] = None
                                     ELSE at'[c] # None /\ proc'[at'[c]] \in Listening
      <3>1. CASE at[c] = p
        BY <3>1 DEF DaemonInv, Die
      <3>2. CASE at[c] # p
        <4>1. at'[c] = at[c] /\ req'[c] = req[c]
          BY <3>2 DEF DaemonInv, Die
        <4>2. QED
          BY <1>1, <3>2, <4>1 DEF DaemonInv
      <3>3. QED
        BY <3>1, <3>2
    <2>4. QED
      BY <2>1, <2>2, <2>3
  <1>5. LockHeld'
    BY <1>1 DEF DaemonInv, Die
  <1>6. SocketStolenOnlyBy'
    BY <1>1 DEF DaemonInv
  <1>7. QED
    BY <1>2, <1>3, <1>4, <1>5, <1>6 DEF DaemonInv

\* A command that starts a daemon, or finds one running.
LEMMA SpawningKeeps ==
  ASSUME DaemonInv, NEW c \in Client, NEW k \in Commands, Spawning(c, k),
         cmd' \in [Client -> Commands], UNCHANGED <<fileVars, reqVars, historyVars>>
  PROVE  DaemonInv'
  <1>1. CASE IsRunning
    <2>1. pc' = [pc EXCEPT ![c] = AfterStart(k)] /\ UNCHANGED <<proc, spawned, target>>
      BY <1>1 DEF Spawning
    <2>2. AfterStart(k) \in {"idle", "send"}
      BY DEF AfterStart
    <2>3. QED
      BY <2>1, <2>2 DEF DaemonInv
  <1>2. CASE ~IsRunning
    <2>1. /\ spawned < MaxPids /\ spawned' = spawned + 1
          /\ proc' = [proc EXCEPT ![spawned'] = "probe"]
          /\ target' = [target EXCEPT ![c] = spawned']
          /\ pc' = [pc EXCEPT ![c] = "record"]
      BY <1>2 DEF Spawning, Spawn
    <2>2. Files' /\ Processes'
      BY <2>1 DEF DaemonInv
    <2>3. Clients'
      BY <2>1 DEF DaemonInv
    <2>4. Requests'
      BY <2>1 DEF DaemonInv
    <2>5. LockHeld' /\ SocketStolenOnlyBy'
      BY <2>1 DEF DaemonInv
    <2>6. Signalled' /\ Outlived'
      BY <2>1 DEF DaemonInv
    <2>7. QED
      BY <2>2, <2>3, <2>4, <2>5, <2>6 DEF DaemonInv
  <1>3. QED
    BY <1>1, <1>2

\* Every step keeps DaemonInv: those of a process first, then its handlers'
\* and the clients'.
LEMMA DaemonNext == DaemonInv /\ [Next]_vars => DaemonInv'
  <1> SUFFICES ASSUME DaemonInv, [Next]_vars PROVE DaemonInv'
    OBVIOUS
  <1>1. CASE Launch
    BY <1>1 DEF DaemonInv, Launch, Spawn
  <1>2. ASSUME NEW p \in Pid, Probe(p) PROVE DaemonInv'
    <2>1. CASE IsRunning
      <3>1. Alive(p) /\ Die(p) /\ UNCHANGED <<sock, pidFile, spawned, historyVars, clientVars>>
        BY <1>2, <2>1 DEF Probe
      <3>2. Clients' /\ Signalled' /\ Outlived'
        BY <3>1 DEF DaemonInv, Die
      <3>3. QED
        BY <3>1, <3>2, DieKeeps
    <2>2. CASE ~IsRunning
      <3>1. Step(p, "lock") /\ proc[p] = "probe"
        BY <1>2, <2>2 DEF Probe
      <3>2. UNCHANGED <<fileVars, spawned, clientVars, reqVars, historyVars>>
        BY <1>2, <2>2 DEF Probe
      <3>3. QED
        BY <3>1, <3>2 DEF DaemonInv
    <2>3. QED
      BY <2>1, <2>2
  <1>3. ASSUME NEW p \in Pid, AcquireLock(p) PROVE DaemonInv'
    <2>1. CASE ~LockFree(p) /\ Die(p) /\ UNCHANGED unlocked
      <3>1. Alive(p) /\ UNCHANGED <<sock, pidFile, spawned, historyVars, clientVars>>
        BY <1>3, <2>1 DEF AcquireLock
      <3>2. Clients' /\ Signalled' /\ Outlived'
        BY <2>1, <3>1 DEF DaemonInv, Die
      <3>3. QED
        BY <2>1, <3>1, <3>2, DieKeeps
    <2>2. CASE LockFree(p) /\ Step(p, "unlink") /\ lock' = p /\ UNCHANGED <<reqVars, unlocked>>
      <3>1. proc[p] = "lock" /\ UNCHANGED <<sock, pidFile, spawned, clientVars, cut, robbers>>
        BY <1>3 DEF AcquireLock
      <3>2. Files' /\ Processes' /\ Clients' /\ Requests'
        BY <2>2, <3>1 DEF DaemonInv
      <3>3. LockHeld' /\ SocketStolenOnlyBy'
        BY <2>2, <3>1 DEF DaemonInv, LockFree
      <3>4. Signalled' /\ Outlived'
        BY <2>2, <3>1 DEF DaemonInv
      <3>5. QED
        BY <3>2, <3>3, <3>4 DEF DaemonInv
    <2>3. CASE /\ Step(p, "unlink")
               /\ unlocked' = unlocked \cup {p}
               /\ UNCHANGED <<lock, reqVars>>
      <3>1. proc[p] = "lock" /\ UNCHANGED <<sock, pidFile, spawned, clientVars, cut, robbers>>
        BY <1>3 DEF AcquireLock
      <3>2. Files' /\ Processes' /\ Clients' /\ Requests'
        BY <2>3, <3>1 DEF DaemonInv
      <3>3. LockHeld' /\ SocketStolenOnlyBy'
        BY <2>3, <3>1 DEF DaemonInv
      <3>4. Signalled' /\ Outlived'
        BY <2>3, <3>1 DEF DaemonInv
      <3>5. QED
        BY <3>2, <3>3, <3>4 DEF DaemonInv
    <2>4. QED
      BY <1>3, <2>1, <2>2, <2>3 DEF AcquireLock
  <1>4. ASSUME NEW p \in Pid, Unlink(p) PROVE DaemonInv'
    <2>1. /\ proc[p] = "unlink" /\ sock' = None
          /\ robbers' = IF IsRunning THEN [robbers EXCEPT ![sock] = @ \cup {p}] ELSE robbers
          /\ proc' = [proc EXCEPT ![p] = "bind"]
          /\ UNCHANGED <<lock, pidFile, spawned, clientVars, reqVars, cut, unlocked>>
      BY <1>4 DEF Unlink
    <2>2. PICK o : o = sock
      OBVIOUS
    <2>3. CASE IsRunning
      <3>1. o \in Pid /\ proc[o] \in Listening /\ robbers' = [robbers EXCEPT ![o] = @ \cup {p}]
        BY <2>1, <2>2, <2>3 DEF DaemonInv, IsRunning
      <3>2. Files' /\ Processes' /\ Clients' /\ Requests'
        <4>1. robbers' \in [Pid -> SUBSET Pid]
          <5>1. robbers[o] \cup {p} \in SUBSET Pid
            BY <3>1 DEF DaemonInv
          <5>2. QED
            BY <3>1, <5>1 DEF DaemonInv
        <4>2. Files'
          BY <2>1, <4>1 DEF DaemonInv
        <4>3. Processes' /\ Clients'
          BY <2>1 DEF DaemonInv
        <4>4. Requests'
          BY <2>1 DEF DaemonInv
        <4>5. QED
          BY <4>2, <4>3, <4>4
      <3>3. {o, p} \cap unlocked # {}
        <4>1. (lock = o \/ o \in unlocked) /\ (lock = p \/ p \in unlocked) /\ o # p
          BY <2>1, <3>1 DEF DaemonInv
        <4>2. QED
          BY <4>1
      <3>4. LockHeld'
        BY <2>1 DEF DaemonInv
      <3>5. SocketStolenOnlyBy'
        <4>1. ASSUME NEW q \in Pid, proc'[q] \in Listening
              PROVE  sock' = q \/ q \in cut' \/ robbers'[q] # {}
          <5>1. proc[q] \in Listening /\ q # p
            BY <2>1, <4>1 DEF DaemonInv
          <5>2. CASE q = o
            BY <3>1, <5>2 DEF DaemonInv
          <5>3. CASE q # o
            <6>1. (sock = q \/ q \in cut \/ robbers[q] # {}) /\ robbers'[q] = robbers[q]
              BY <3>1, <5>1, <5>3 DEF DaemonInv
            <6>2. QED
              BY <2>1, <2>2, <5>3, <6>1
          <5>4. QED
            BY <5>2, <5>3
        <4>2. ASSUME NEW q \in Pid, NEW r \in robbers'[q] PROVE {q, r} \cap unlocked' # {}
          <5>1. CASE q = o /\ r = p
            BY <2>1, <3>3, <5>1
          <5>2. CASE ~(q = o /\ r = p)
            <6>1. r \in robbers[q]
              BY <3>1, <4>2, <5>2 DEF DaemonInv
            <6>2. QED
              BY <2>1, <6>1 DEF DaemonInv
          <5>3. QED
            BY <5>1, <5>2
        <4>3. QED
          BY <4>1, <4>2
      <3>6. Signalled'
        BY <2>1 DEF DaemonInv
      <3>7. Outlived'
        <4>1. ASSUME NEW q \in Pid, robbers[q] # {} PROVE robbers'[q] # {}
          BY <3>1, <4>1 DEF DaemonInv
        <4>2. ASSUME NEW c \in Client, pc'[c] \in {"rmpid", "rmsock"}
              PROVE  /\ target'[c] # None
                     /\ proc'[target'[c]] = "dead" \/ target'[c] \in cut' \/ robbers'[target'[c]] # {}
          <5>1. PICK t \in Pid : t = target[c] /\ (proc[t] = "dead" \/ t \in cut \/ robbers[t] # {})
            BY <2>1, <4>2 DEF DaemonInv
          <5>2. proc[t] = "dead" => proc'[t] = "dead"
            BY <2>1, <5>1 DEF DaemonInv
          <5>3. target'[c] = t /\ cut' = cut
            BY <2>1, <5>1
          <5>4. QED
            BY <4>1, <5>1, <5>2, <5>3
        <4>3. QED
          BY <4>2
      <3>8. QED
        BY <3>2, <3>4, <3>5, <3>6, <3>7 DEF DaemonInv
    <2>4. CASE ~IsRunning
      <3>1. UNCHANGED robbers
        BY <2>1, <2>4
      <3>2. \A q \in Pid : proc[q] \in Listening => sock # q
        BY <2>4 DEF DaemonInv, IsRunning
      <3>3. Files' /\ Processes' /\ Clients' /\ Requests'
        <4>1. {sock', lock', pidFile'} \subseteq Pid \cup {None} /\ (cut' \subseteq Pid)
          BY <2>1 DEF DaemonInv
        <4>2. lock' # None => Alive(lock)'
          BY <2>1 DEF DaemonInv
        <4>3. (unlocked' \subseteq Pid) /\ robbers' \in [Pid -> SUBSET Pid]
          BY <2>1, <3>1 DEF DaemonInv
        <4>4. Processes' /\ Clients'
          BY <2>1 DEF DaemonInv
        <4>5. Requests'
          BY <2>1 DEF DaemonInv
        <4>6. QED
          BY <4>1, <4>2, <4>3, <4>4, <4>5
      <3>4. LockHeld' /\ SocketStolenOnlyBy'
        BY <2>1, <3>1, <3>2 DEF DaemonInv
      <3>5. Signalled' /\ Outlived'
        BY <2>1, <3>1 DEF DaemonInv
      <3>6. QED
        BY <3>3, <3>4, <3>5 DEF DaemonInv
    <2>5. QED
      BY <2>3, <2>4
  <1>5. ASSUME NEW p \in Pid, Bind(p) PROVE DaemonInv'
    <2>1. CASE sock # None
      <3>1. Alive(p) /\ Die(p) /\ UNCHANGED <<sock, pidFile, spawned, historyVars, clientVars>>
        BY <1>5, <2>1 DEF Bind
      <3>2. Clients' /\ Signalled' /\ Outlived'
        BY <3>1 DEF DaemonInv, Die
      <3>3. QED
        BY <3>1, <3>2, DieKeeps
    <2>2. CASE sock = None
      <3>1. /\ proc[p] = "bind" /\ sock' = p /\ Step(p, "pidfile")
            /\ UNCHANGED <<lock, pidFile, spawned, clientVars, reqVars, historyVars>>
        BY <1>5, <2>2 DEF Bind
      <3>2. Files' /\ Processes' /\ Clients' /\ Requests'
        BY <3>1 DEF DaemonInv
      <3>3. LockHeld'
        BY <3>1 DEF DaemonInv
      <3>4. SocketStolenOnlyBy'
        <4>1. ASSUME NEW q \in Pid, proc'[q] \in Listening
              PROVE  sock' = q \/ q \in cut \/ robbers[q] # {}
          BY <2>2, <3>1, <4>1 DEF DaemonInv
        <4>2. QED
          BY <3>1, <4>1 DEF DaemonInv
      <3>5. Signalled' /\ Outlived'
        BY <3>1 DEF DaemonInv
      <3>6. QED
        BY <3>2, <3>3, <3>4, <3>5 DEF DaemonInv
    <2>3. QED
      BY <2>1, <2>2
  <1>6. ASSUME NEW p \in Pid, WritePid(p) PROVE DaemonInv'
    BY <1>6 DEF DaemonInv, WritePid
  <1>7. ASSUME NEW p \in Pid, Install(p) PROVE DaemonInv'
    BY <1>7 DEF DaemonInv, Install
  <1>8. ASSUME NEW p \in Pid, AutoStop(p) PROVE DaemonInv'
    BY <1>8 DEF DaemonInv, AutoStop
  <1>9. ASSUME NEW p \in Pid, Drained(p) PROVE DaemonInv'
    BY <1>9 DEF DaemonInv, Drained
  <1>10. ASSUME NEW p \in Pid, Exit(p) PROVE DaemonInv'
    <2>1. Alive(p) /\ Die(p) /\ UNCHANGED <<sock, pidFile, spawned, historyVars, clientVars>>
      BY <1>10 DEF Exit
    <2>2. Clients' /\ Signalled' /\ Outlived'
      BY <2>1 DEF DaemonInv, Die
    <2>3. QED
      BY <2>1, <2>2, DieKeeps
  <1>11. ASSUME NEW p \in Pid, Crash(p) PROVE DaemonInv'
    <2>1. Alive(p) /\ Die(p) /\ UNCHANGED <<sock, pidFile, spawned, historyVars, clientVars>>
      BY <1>11 DEF Crash
    <2>2. Clients' /\ Signalled' /\ Outlived'
      BY <2>1 DEF DaemonInv, Die
    <2>3. QED
      BY <2>1, <2>2, DieKeeps
  <1>12. ASSUME NEW c \in Client, Accept(c) PROVE DaemonInv'
    BY <1>12 DEF DaemonInv, Accept
  <1>13. ASSUME NEW c \in Client, Reply(c) PROVE DaemonInv'
    <2>1. /\ req[c] = "active" /\ req' = [req EXCEPT ![c] = "none"]
          /\ at' = [at EXCEPT ![c] = None]
          /\ UNCHANGED <<fileVars, procVars, clientVars, historyVars>>
      BY <1>13 DEF Reply
    <2>2. PICK p \in Pid : p = at[c]
      BY <2>1 DEF DaemonInv
    <2>3. stuck' \in [Pid -> BOOLEAN]
      BY <1>13, <2>2 DEF DaemonInv, Reply
    <2>4. Requests'
      BY <2>1, <2>3 DEF DaemonInv
    <2>5. Files' /\ Processes' /\ Clients' /\ LockHeld' /\ SocketStolenOnlyBy'
      BY <2>1 DEF DaemonInv
    <2>6. Signalled' /\ Outlived'
      BY <2>1 DEF DaemonInv
    <2>7. QED
      BY <2>4, <2>5, <2>6 DEF DaemonInv
  <1>14. ASSUME NEW c \in Client, Command(c) PROVE DaemonInv'
    <2>1. PICK k \in Commands :
            /\ cmd' = [cmd EXCEPT ![c] = k]
            /\ \/ Spawning(c, k)
               \/ Goto(c, "read") /\ UNCHANGED <<proc, spawned, target>>
      BY <1>14 DEF Command
    <2>2. UNCHANGED <<fileVars, reqVars, historyVars>> /\ cmd' \in [Client -> Commands]
      BY <1>14, <2>1 DEF Command, DaemonInv
    <2>3. CASE Spawning(c, k)
      BY <2>2, <2>3, SpawningKeeps
    <2>4. CASE Goto(c, "read") /\ UNCHANGED <<proc, spawned, target>>
      BY <2>2, <2>4 DEF DaemonInv
    <2>5. QED
      BY <2>1, <2>3, <2>4
  <1>15. ASSUME NEW c \in Client, SpawnBackground(c) PROVE DaemonInv'
    <2>1. cmd[c] \in Commands /\ cmd' \in [Client -> Commands]
      BY <1>15 DEF DaemonInv, SpawnBackground
    <2>2. QED
      BY <1>15, <2>1, SpawningKeeps DEF SpawnBackground
  <1>16. ASSUME NEW c \in Client, Record(c) PROVE DaemonInv'
    BY <1>16 DEF DaemonInv, Record
  <1>17. ASSUME NEW c \in Client, Await(c) PROVE DaemonInv'
    <2>1. \E l \in {"idle", "send"} : Goto(c, l)
      BY <1>17 DEF Await, AfterStart
    <2>2. UNCHANGED <<fileVars, procVars, cmd, target, reqVars, historyVars>>
      BY <1>17 DEF Await
    <2>3. QED
      BY <2>1, <2>2 DEF DaemonInv
  <1>18. ASSUME NEW c \in Client, ReadPid(c) PROVE DaemonInv'
    BY <1>18 DEF DaemonInv, ReadPid, AfterStop
  <1>19. ASSUME NEW c \in Client, Terminate(c) PROVE DaemonInv'
    <2>1. UNCHANGED <<sock, pidFile, spawned, historyVars, cmd>>
      BY <1>19 DEF Terminate
    <2>2. CASE ~Alive(target[c])
      <3>1. /\ UNCHANGED <<proc, lock, reqVars>>
            /\ Goto(c, AfterStop(c)) /\ target' = [target EXCEPT ![c] = None]
        BY <1>19, <2>2 DEF Terminate
      <3>2. QED
        BY <2>1, <3>1 DEF DaemonInv, AfterStop
    <2>3. CASE Alive(target[c])
      <3>1. PICK p \in Pid : p = target[c]
        BY <2>3 DEF DaemonInv
      <3>2. pc' = [pc EXCEPT ![c] = "poll"] /\ UNCHANGED target
        BY <1>19, <2>3 DEF Terminate
      <3>3. CASE proc[p] \in Starting \cup {"pidfile", "setup"}
        <4>1. Die(p)
          BY <1>19, <2>3, <3>1, <3>3 DEF Terminate
        <4>2. Clients' /\ Signalled' /\ Outlived'
          BY <2>1, <3>1, <3>2, <4>1 DEF DaemonInv, Die
        <4>3. QED
          BY <2>1, <2>3, <3>1, <4>1, <4>2, DieKeeps
      <3>4. CASE proc[p] = "serve"
        <4>1. proc' = [proc EXCEPT ![p] = "drain"] /\ UNCHANGED <<lock, reqVars>>
          BY <1>19, <2>3, <3>1, <3>4 DEF Terminate
        <4>2. Files' /\ Processes' /\ Clients' /\ Requests'
          BY <2>1, <3>1, <3>2, <3>4, <4>1 DEF DaemonInv
        <4>3. LockHeld' /\ SocketStolenOnlyBy' /\ Signalled' /\ Outlived'
          BY <2>1, <3>1, <3>2, <3>4, <4>1 DEF DaemonInv
        <4>4. QED
          BY <4>2, <4>3 DEF DaemonInv
      <3>5. CASE proc[p] \in {"drain", "exit"}
        <4>1. UNCHANGED <<proc, lock, reqVars>>
          BY <1>19, <2>3, <3>1, <3>5 DEF Terminate
        <4>2. QED
          BY <2>1, <2>3, <3>1, <3>2, <3>5, <4>1 DEF DaemonInv
      <3>6. QED
        BY <2>3, <3>1, <3>3, <3>4, <3>5
    <2>4. QED
      BY <2>2, <2>3
  <1>20. ASSUME NEW c \in Client, Poll(c) PROVE DaemonInv'
    <2>1. UNCHANGED <<fileVars, procVars, cmd, reqVars, historyVars>> /\ pc[c] = "poll"
      BY <1>20 DEF Poll
    <2>2. CASE IsRunning
      <3>1. \E l \in {"spawn", "idle"} : Goto(c, l) /\ target' = [target EXCEPT ![c] = None]
        BY <1>20, <2>2 DEF Poll, Gone, AfterStop
      <3>2. QED
        BY <2>1, <3>1 DEF DaemonInv
    <2>3. CASE ~IsRunning
      <3>1. Goto(c, "rmpid") /\ UNCHANGED target
        BY <1>20, <2>3 DEF Poll, Gone
      <3>2. PICK p \in Pid : p = target[c] /\ proc[p] \in {"drain", "exit", "dead"}
        BY <2>1 DEF DaemonInv
      <3>3. proc[p] = "dead" \/ p \in cut \/ robbers[p] # {}
        BY <2>3, <3>2 DEF DaemonInv, IsRunning
      <3>4. Signalled' /\ Outlived'
        BY <2>1, <3>1, <3>2, <3>3 DEF DaemonInv
      <3>5. QED
        BY <2>1, <3>1, <3>4 DEF DaemonInv
    <2>4. QED
      BY <2>2, <2>3
  <1>21. ASSUME NEW c \in Client, RemovePid(c) PROVE DaemonInv'
    BY <1>21 DEF DaemonInv, RemovePid
  <1>22. ASSUME NEW c \in Client, RemoveSocket(c) PROVE DaemonInv'
    <2>1. /\ sock' = None
          /\ cut' = IF IsRunning THEN cut \cup {sock} ELSE cut
          /\ target' = [target EXCEPT ![c] = None]
          /\ UNCHANGED <<lock, pidFile, procVars, cmd, reqVars, unlocked, robbers>>
      BY <1>22 DEF RemoveSocket
    <2>2. \E l \in {"spawn", "idle"} : Goto(c, l)
      BY <1>22 DEF RemoveSocket, AfterStop
    <2>3. /\ cut' \subseteq Pid
          /\ cut \subseteq cut'
          /\ \A q \in Pid : proc[q] \in Listening /\ sock = q => q \in cut'
      <3>1. CASE IsRunning
        <4>1. PICK o \in Pid : o = sock
          BY <3>1 DEF DaemonInv, IsRunning
        <4>2. cut' = cut \cup {o} /\ cut \subseteq Pid
          BY <2>1, <3>1, <4>1 DEF DaemonInv
        <4>3. QED
          BY <4>1, <4>2
      <3>2. CASE ~IsRunning
        <4>1. cut' = cut /\ \A q \in Pid : proc[q] \in Listening => sock # q
          BY <2>1, <3>2 DEF IsRunning
        <4>2. QED
          BY <4>1 DEF DaemonInv
      <3>3. QED
        BY <3>1, <3>2
    <2>4. Files'
      BY <2>1, <2>3 DEF DaemonInv
    <2>5. Processes' /\ Clients' /\ Requests'
      BY <2>1, <2>2 DEF DaemonInv
    <2>6. LockHeld' /\ SocketStolenOnlyBy'
      BY <2>1, <2>3 DEF DaemonInv
    <2>7. Signalled' /\ Outlived'
      BY <2>1, <2>2, <2>3 DEF DaemonInv
    <2>8. QED
      BY <2>4, <2>5, <2>6, <2>7 DEF DaemonInv
  <1>23. ASSUME NEW c \in Client, Send(c) PROVE DaemonInv'
    <2>1. UNCHANGED <<fileVars, procVars, cmd, target, historyVars>>
      BY <1>23 DEF Send
    <2>2. CASE IsRunning
      <3>1. PICK p \in Pid : p = sock /\ proc[p] \in Listening
        BY <2>2 DEF DaemonInv, IsRunning
      <3>2. /\ req' = [req EXCEPT ![c] = "sent"]
            /\ at' = [at EXCEPT ![c] = p]
            /\ Goto(c, "reply")
            /\ UNCHANGED stuck
        BY <1>23, <2>2, <3>1 DEF Send
      <3>3. QED
        BY <2>1, <3>1, <3>2 DEF DaemonInv
    <2>3. CASE ~IsRunning
      <3>1. Goto(c, "idle") /\ UNCHANGED reqVars
        BY <1>23, <2>3 DEF Send
      <3>2. QED
        BY <2>1, <3>1 DEF DaemonInv
    <2>4. QED
      BY <2>2, <2>3
  <1>24. ASSUME NEW c \in Client, Receive(c) PROVE DaemonInv'
    BY <1>24 DEF DaemonInv, Receive
  <1>25. CASE UNCHANGED vars
    BY <1>25 DEF DaemonInv, vars
  <1> QED
    BY <1>1, <1>2, <1>3, <1>4, <1>5, <1>6, <1>7, <1>8, <1>9, <1>10, <1>11, <1>12, <1>13, <1>14, <1>15, <1>16, <1>17, <1>18, <1>19, <1>20, <1>21, <1>22, <1>23, <1>24, <1>25
    DEF Next, DaemonStep, ClientStep, HandlerStep

LEMMA DaemonInvariant == Spec => []DaemonInv
  BY DaemonInit, DaemonNext, PTL DEF Spec

-----------------------------------------------------------------------------
\* Every variable keeps its type, whatever processes are spawned and killed:
\* the owner of the lock lives, and a request in progress has a daemon.
THEOREM DaemonTypeCorrect == Spec => []TypeOK
  <1>1. DaemonInv => TypeOK
    BY DEF DaemonInv, TypeOK, Files, Processes, Clients, Requests
  <1>2. QED
    BY <1>1, DaemonInvariant, PTL

\* However many daemons start, stop, crash and restart at once, one at most of
\* those that have locked listens, and its socket file is taken from it by a stop
\* or by a daemon that could not lock.
THEOREM OneOwnerHolds == Spec => []OneOwner
  <1>1. DaemonInv => OneOwner
    BY DEF DaemonInv, OneOwner, OneListener, LockHeld
  <1>2. QED
    BY <1>1, DaemonInvariant, PTL

\* A stop that goes on to remove the files has outlived the daemon it
\* signalled, or found it without its socket.
THEOREM StopMeansDeadHolds == Spec => []StopMeansDead
  <1>1. DaemonInv => StopMeansDead
    BY DEF DaemonInv, Outlived, StopMeansDead, Alive, Listening, Starting
  <1>2. QED
    BY <1>1, DaemonInvariant, PTL
=============================================================================
