------------------------------ MODULE VizProofs -----------------------------
(***************************************************************************)
(* Theorems about Viz, for every set of requests of any kinds, and of      *)
(* clients that disconnect.                                                *)
(***************************************************************************)
EXTENDS Viz, TLAPS

\* TypeOK, with what it leaves out: the places of a task.
Places == {"new", "wait", "leave", "status", "startlock", "spawning", "polling", "calling", "gate",
           "restarting", "done", "gone"}
Types ==
  /\ up \in {"down", "booting", "old", "new"}
  /\ mishaps \in 0..MaxMishaps
  /\ gate \in {"never", "recent", "expired"}
  /\ {gateOwner, startOwner, inflight} \subseteq Reqs \cup {None}
  /\ value \in [Reqs -> BOOLEAN] /\ permit \in [Reqs -> Reqs \cup {None}]
  /\ pc \in [Reqs -> Places]
  /\ \A r \in Reqs : kind[r] \in KindsOf(r)
  /\ cell \in [Reqs -> Reqs]
  /\ again \in [Reqs -> BOOLEAN]
  /\ job \in [Reqs -> {"none", "spawn", "call", "stop", "respawn"}]
  /\ cut \in BOOLEAN /\ late \subseteq Reqs

\* A lock has the owner that waits for its job, or for the daemon it spawned.
Owners == \A r \in Reqs : /\ pc[r] = "restarting" <=> gateOwner = r
                          /\ startOwner = r <=> pc[r] \in {"spawning", "polling"}

\* A task waits for its own job; only one that was cut off leaves its job behind.
Jobs == \A r \in Reqs :
  /\ pc[r] = "spawning" <=> job[r] = "spawn" /\ pc[r] # "gone"
  /\ pc[r] = "calling" <=> job[r] = "call" /\ pc[r] # "gone"
  /\ pc[r] = "restarting" <=> job[r] \in {"stop", "respawn"} /\ pc[r] # "gone"
  /\ pc[r] = "gone" => cut

\* Between the wait for its cell and the reply a graph request, and no other
\* one, is the cell's initialiser, and a cell with a value has none.
Busy == {"status", "startlock", "spawning", "polling", "calling", "gate", "restarting"}
Permits ==
  /\ \A r \in Reqs : pc[r] \in {"wait", "leave"} => r \in Graph
  /\ \A r \in Graph : pc[r] \in Busy => permit[cell[r]] = r
  /\ \A c \in Reqs : permit[c] # None => /\ permit[c] \in Graph /\ cell[permit[c]] = c
                                         /\ pc[permit[c]] \in Busy
                                         /\ ~value[c]

\* Who waits for the gate was turned away by a daemon that is still the old
\* one, or is being restarted, or has just been: what RestartOnlyStale needs.
Turned ==
  ~cut /\ mishaps = 0 =>
    \A r \in Reqs : /\ pc[r] = "gate" => gate = "recent" \/ up = "old" \/ gateOwner # None
                    /\ job[r] = "stop" => up = "old"

\* What AnswerFresh needs: a cell is named after a request that has arrived, and
\* once it has its value some request is still to remove the key, or was cut off
\* as it was about to.
Flights ==
  /\ \A c \in Reqs : value[c] => pc[c] # "new"
  /\ \A r \in Graph : pc[r] # "new" => pc[cell[r]] # "new"
  /\ inflight # None => pc[inflight] # "new"
  /\ \A q \in late : pc[q] # "new"
  /\ inflight # None /\ value[inflight] => Removing(inflight) # {}

VizInv == Types /\ Owners /\ Jobs /\ Permits /\ Turned /\ Flights

-----------------------------------------------------------------------------
USE VizAssumption DEF Go, Run, Freed

LEMMA GraphKind == \A r \in Graph : r \in Reqs /\ KindsOf(r) = {"graph"}
  BY DEF Graph

LEMMA VizInit == Init => VizInv
  <1> SUFFICES ASSUME Init PROVE VizInv
    OBVIOUS
  <1>1. Types
    <2>1. kind \in [Reqs -> UNION {KindsOf(r) : r \in Reqs}] /\ \A r \in Reqs : kind[r] \in KindsOf(r)
      BY DEF Init
    <2>2. mishaps \in 0..MaxMishaps
      BY DEF Init
    <2>3. QED
      BY <2>1, <2>2 DEF Init, Types, Places
  <1>2. Owners /\ Jobs /\ Permits
    BY DEF Init, Owners, Jobs, Permits, Busy, Graph
  <1>3. Turned /\ Flights
    BY DEF Init, Turned, Flights, Graph, Removing
  <1>4. QED
    BY <1>1, <1>2, <1>3 DEF VizInv

\* A step of a request by the way its task goes on: every action of Next.
Arriving(r) == Arrive(r) \/ CellReady(r) \/ CellInit(r) \/ Leave(r)
Ensuring(r) == Status(r) \/ LockAndRecheck(r) \/ Poll(r)
Spawning(r) == SpawnDone(r) \/ SpawnFails(r)
Calling(r) == CallAnswered(r) \/ CallUnknown(r) \/ CallFails(r) \/ CallOrphaned(r)
Restarting(r) == TakeGate(r) \/ RestartStop(r) \/ RestartSpawn(r) \/ RestartFails(r)

LEMMA TypesNext == Types /\ [Next]_vars => Types'
  <1> SUFFICES ASSUME Types, [Next]_vars PROVE Types'
    OBVIOUS
  <1> USE DEF Types, Places, daemon, locks, cells, task, history
  <1>1. ASSUME NEW r \in Reqs, Arriving(r) PROVE Types'
    BY <1>1 DEF Arriving, Arrive, CellReady, CellInit, Leave
  <1>2. ASSUME NEW r \in Reqs, Ensured(r) PROVE Types'
    BY <1>2 DEF Ensured
  <1>3. ASSUME NEW r \in Reqs, Release(r)
        PROVE  {gateOwner', startOwner'} \subseteq Reqs \cup {None} /\ permit' \in [Reqs -> Reqs \cup {None}]
    BY <1>3 DEF Release
  <1>4. ASSUME NEW r \in Reqs, Fail(r) PROVE Types'
    BY <1>3, <1>4 DEF Fail, Answered
  <1>5. ASSUME NEW r \in Reqs, Ensuring(r) PROVE Types'
    <2>1. CASE Ensured(r) \/ Fail(r)
      BY <1>2, <1>4, <2>1
    <2>2. CASE ~(Ensured(r) \/ Fail(r))
      BY <1>5, <2>2 DEF Ensuring, Status, LockAndRecheck, Poll
    <2>3. QED
      BY <2>1, <2>2
  <1>6. ASSUME NEW r \in Reqs, SpawnDone(r) PROVE Types'
    BY <1>6 DEF SpawnDone, Spawned
  <1>7. ASSUME NEW r \in Reqs, SpawnFails(r) PROVE Types'
    BY <1>3, <1>7 DEF SpawnFails, Answered
  <1>8. ASSUME NEW r \in Reqs, CallAnswered(r) PROVE Types'
    BY <1>3, <1>8 DEF CallAnswered, Answered
  <1>9. ASSUME NEW r \in Reqs, CallUnknown(r) \/ CallOrphaned(r) PROVE Types'
    BY <1>9 DEF CallUnknown, CallOrphaned
  <1>10. ASSUME NEW r \in Reqs, CallFails(r) PROVE Types'
    BY <1>3, <1>10 DEF CallFails, Answered
  <1>11. ASSUME NEW r \in Reqs, TakeGate(r) \/ RestartStop(r) PROVE Types'
    <2>1. CASE TakeGate(r)
      <3>1. CASE gate = "recent"
        BY <2>1, <3>1 DEF TakeGate
      <3>2. CASE gate # "recent"
        BY <2>1, <3>2 DEF TakeGate
      <3>3. QED
        BY <3>1, <3>2
    <2>2. CASE RestartStop(r)
      BY <2>2 DEF RestartStop
    <2>3. QED
      BY <1>11, <2>1, <2>2
  <1>12. ASSUME NEW r \in Reqs, RestartSpawn(r) PROVE Types'
    <2>1. up' \in {"down", "booting", "old", "new"}
      BY <1>12 DEF RestartSpawn, Spawned
    <2>2. CASE pc[r] = "restarting"
      BY <1>12, <2>1, <2>2 DEF RestartSpawn
    <2>3. CASE pc[r] # "restarting"
      BY <1>12, <2>1, <2>3 DEF RestartSpawn
    <2>4. QED
      BY <2>2, <2>3
  <1>13. ASSUME NEW r \in Reqs, RestartFails(r) PROVE Types'
    <2>1. mishaps' \in 0..MaxMishaps
      BY <1>13 DEF RestartFails
    <2>2. QED
      BY <1>3, <1>13, <2>1 DEF RestartFails, Answered
  <1>14. ASSUME NEW r \in Reqs, Disconnect(r) PROVE Types'
    BY <1>3, <1>14 DEF Disconnect
  <1>15. CASE Elapse \/ Boot
    BY <1>15 DEF Elapse, Boot
  <1>16. CASE StopsItself
    <2>1. mishaps' \in 0..MaxMishaps
      BY <1>16 DEF StopsItself
    <2>2. QED
      BY <1>16, <2>1 DEF StopsItself
  <1>17. CASE UNCHANGED vars
    BY <1>17 DEF vars
  <1>18. QED
    BY <1>1, <1>5, <1>6, <1>7, <1>8, <1>9, <1>10, <1>11, <1>12, <1>13, <1>14, <1>15, <1>16, <1>17
       DEF Next, Step, Arriving, Ensuring

LEMMA OwnersNext == VizInv /\ [Next]_vars => Owners'
  <1> SUFFICES ASSUME Types, Owners, Jobs, [Next]_vars PROVE Owners'
    BY DEF VizInv
  <1> USE DEF Owners, Types, Places, daemon, locks, cells, task, history
  <1>1. ASSUME NEW r \in Reqs, Arriving(r) PROVE Owners'
    BY <1>1 DEF Arriving, Arrive, CellReady, CellInit, Leave
  <1>2. ASSUME NEW r \in Reqs, Ensured(r), pc[r] # "restarting" PROVE Owners'
    BY <1>2 DEF Ensured
  <1>3. ASSUME NEW r \in Reqs, Release(r), NEW l \in {"leave", "done", "gone"}, pc' = [pc EXCEPT ![r] = l] PROVE Owners'
    BY <1>3 DEF Release
  <1>4. ASSUME NEW r \in Reqs, Fail(r) PROVE Owners'
    BY <1>3, <1>4 DEF Fail, Answered
  <1>5. ASSUME NEW r \in Reqs, Ensuring(r) PROVE Owners'
    <2>1. CASE Ensured(r) \/ Fail(r)
      BY <1>2, <1>4, <1>5, <2>1 DEF Ensuring, Status, LockAndRecheck, Poll
    <2>2. CASE ~(Ensured(r) \/ Fail(r))
      BY <1>5, <2>2 DEF Ensuring, Status, LockAndRecheck, Poll
    <2>3. QED
      BY <2>1, <2>2
  <1>6. ASSUME NEW r \in Reqs, SpawnDone(r) PROVE Owners'
    BY <1>6 DEF SpawnDone
  <1>7. ASSUME NEW r \in Reqs, SpawnFails(r) PROVE Owners'
    <2>1. pc[r] \in {"spawning", "gone"} /\ Release(r)
      BY <1>7 DEF Jobs, SpawnFails
    <2>2. pc' = [pc EXCEPT ![r] = IF @ = "spawning" THEN Answered(r) ELSE @]
      BY <1>7 DEF SpawnFails
    <2>3. QED
      BY <1>3, <2>1, <2>2 DEF Answered
  <1>8. ASSUME NEW r \in Reqs, Calling(r) PROVE Owners'
    <2>1. CASE CallAnswered(r) \/ CallFails(r)
      BY <1>3, <2>1 DEF CallAnswered, CallFails, Answered
    <2>2. CASE CallUnknown(r) \/ CallOrphaned(r)
      BY <2>2 DEF CallUnknown, CallOrphaned
    <2>3. QED
      BY <1>8, <2>1, <2>2 DEF Calling
  <1>9. ASSUME NEW r \in Reqs, TakeGate(r) \/ RestartStop(r) PROVE Owners'
    BY <1>9 DEF TakeGate, RestartStop
  <1>10. ASSUME NEW r \in Reqs, RestartSpawn(r) PROVE Owners'
    BY <1>10 DEF RestartSpawn
  <1>11. ASSUME NEW r \in Reqs, RestartFails(r) PROVE Owners'
    <2>1. pc[r] \in {"restarting", "gone"} /\ Release(r)
      BY <1>11 DEF Jobs, RestartFails
    <2>2. pc' = [pc EXCEPT ![r] = IF @ = "restarting" THEN Answered(r) ELSE @]
      BY <1>11 DEF RestartFails
    <2>3. QED
      BY <1>3, <2>1, <2>2 DEF Answered
  <1>12. ASSUME NEW r \in Reqs, Disconnect(r) PROVE Owners'
    BY <1>3, <1>12 DEF Disconnect
  <1>13. CASE Elapse \/ Boot \/ StopsItself \/ UNCHANGED vars
    BY <1>13 DEF Elapse, Boot, StopsItself, vars
  <1>14. QED
    BY <1>1, <1>5, <1>6, <1>7, <1>8, <1>9, <1>10, <1>11, <1>12, <1>13
       DEF Next, Step, Arriving, Ensuring, Calling

LEMMA JobsNext == VizInv /\ [Next]_vars => Jobs'
  <1> SUFFICES ASSUME Types, Jobs, [Next]_vars PROVE Jobs'
    BY DEF VizInv
  <1> USE DEF Jobs, Types, Places, daemon, locks, cells, task, history
  <1>1. ASSUME NEW r \in Reqs, Arriving(r) PROVE Jobs'
    BY <1>1 DEF Arriving, Arrive, CellReady, CellInit, Leave
  <1>2. ASSUME NEW r \in Reqs, Ensured(r), pc[r] \in {"status", "startlock", "polling"} PROVE Jobs'
    BY <1>2 DEF Ensured
  <1>3. ASSUME NEW r \in Reqs, Fail(r), pc[r] \in {"status", "startlock", "polling"} PROVE Jobs'
    BY <1>3 DEF Fail, Answered
  <1>4. ASSUME NEW r \in Reqs, Ensuring(r) PROVE Jobs'
    <2>1. CASE Ensured(r) \/ Fail(r)
      BY <1>2, <1>3, <1>4, <2>1 DEF Ensuring, Status, LockAndRecheck, Poll
    <2>2. CASE ~(Ensured(r) \/ Fail(r))
      BY <1>4, <2>2 DEF Ensuring, Status, LockAndRecheck, Poll
    <2>3. QED
      BY <2>1, <2>2
  <1>5. ASSUME NEW r \in Reqs, Spawning(r) PROVE Jobs'
    BY <1>5 DEF Spawning, SpawnDone, SpawnFails, Answered
  <1>6. ASSUME NEW r \in Reqs, Calling(r) PROVE Jobs'
    BY <1>6 DEF Calling, CallAnswered, CallUnknown, CallFails, CallOrphaned, Answered
  <1>7. ASSUME NEW r \in Reqs, Restarting(r) PROVE Jobs'
    BY <1>7 DEF Restarting, TakeGate, RestartStop, RestartSpawn, RestartFails, Answered
  <1>8. ASSUME NEW r \in Reqs, Disconnect(r) PROVE Jobs'
    BY <1>8 DEF Disconnect, Live
  <1>9. CASE Elapse \/ Boot \/ StopsItself \/ UNCHANGED vars
    BY <1>9 DEF Elapse, Boot, StopsItself, vars
  <1>10. QED
    BY <1>1, <1>4, <1>5, <1>6, <1>7, <1>8, <1>9
       DEF Next, Step, Arriving, Ensuring, Spawning, Calling, Restarting

LEMMA PermitsNext == VizInv /\ [Next]_vars => Permits'
  <1> SUFFICES ASSUME Types, Jobs, Permits, [Next]_vars PROVE Permits'
    BY DEF VizInv
  <1> USE GraphKind DEF Types, Places, Busy, daemon, locks, cells, task, history
  \* A task goes on: the cells stay as they are.
  <1>1. ASSUME NEW r \in Reqs, UNCHANGED <<permit, cell, value>>, NEW l \in Places,
               pc' = [pc EXCEPT ![r] = l],
               pc[r] \in Busy => l \in Busy \/ r \notin Graph,
               pc[r] \notin Busy => l \notin Busy \/ r \notin Graph,
               l \in {"wait", "leave"} => r \in Graph
        PROVE  Permits'
    BY <1>1 DEF Permits
  <1>2. ASSUME UNCHANGED <<permit, cell, value, pc>> PROVE Permits'
    BY <1>2 DEF Permits
  \* A task gives back what it has: its cell may have got a value from it.
  <1>3. ASSUME NEW r \in Reqs, Release(r), NEW l \in {"leave", "done", "gone"}, UNCHANGED cell,
               pc' = [pc EXCEPT ![r] = l] \/ (pc[r] = "gone" /\ pc' = pc), l = "leave" => r \in Graph,
               value' = value \/ (value' = [value EXCEPT ![cell[r]] = TRUE] /\ r \in Graph /\ pc[r] \in Busy)
        PROVE  Permits'
    <2>1. permit' = [c \in Reqs |-> IF permit[c] = r THEN None ELSE permit[c]]
      BY <1>3 DEF Release
    <2>2. \A q \in Reqs : q = r \/ pc'[q] = pc[q]
      BY <1>3
    <2>3. pc'[r] \notin Busy /\ (pc'[r] = "leave" => r \in Graph) /\ pc'[r] # "wait"
      BY <1>3
    <2>4. ASSUME NEW q \in Graph, pc'[q] \in Busy PROVE permit'[cell'[q]] = q
      BY <1>3, <2>1, <2>2, <2>3, <2>4 DEF Permits
    <2>5. ASSUME NEW c \in Reqs, permit'[c] # None
          PROVE  /\ permit'[c] \in Graph /\ cell'[permit'[c]] = c /\ pc'[permit'[c]] \in Busy
                 /\ ~value'[c]
      <3>1. permit'[c] = permit[c] /\ permit[c] # r /\ permit[c] \in Graph /\ cell[permit[c]] = c
            /\ pc[permit[c]] \in Busy /\ ~value[c]
        BY <2>1, <2>5 DEF Permits
      <3>2. value'[c] = value[c]
        BY <1>3, <3>1 DEF Permits
      <3>3. QED
        BY <1>3, <2>2, <3>1, <3>2
    <2>6. \A q \in Reqs : pc'[q] \in {"wait", "leave"} => q \in Graph
      BY <2>2, <2>3 DEF Permits
    <2>7. QED
      BY <2>4, <2>5, <2>6 DEF Permits
  <1>4. ASSUME NEW r \in Reqs, Arrive(r) PROVE Permits'
    <2>1. CASE r \in Graph
      <3>1. PICK d \in Reqs : cell' = [cell EXCEPT ![r] = d]
        BY <1>4, <2>1 DEF Arrive
      <3>2. pc[r] = "new" /\ pc' = [pc EXCEPT ![r] = "wait"] /\ UNCHANGED <<permit, value>>
        BY <1>4, <2>1 DEF Arrive
      <3>3. QED
        BY <2>1, <3>1, <3>2 DEF Permits
    <2>2. CASE r \notin Graph
      BY <1>1, <1>4, <2>2 DEF Arrive
    <2>3. QED
      BY <2>1, <2>2
  <1>5. ASSUME NEW r \in Reqs, CellReady(r) \/ Leave(r) PROVE Permits'
    <2>1. r \in Graph
      BY <1>5 DEF CellReady, Leave, Permits
    <2>2. QED
      BY <1>1, <1>5, <2>1 DEF CellReady, Leave
  <1>6. ASSUME NEW r \in Reqs, CellInit(r) PROVE Permits'
    <2>1. PICK c \in Reqs : c = cell[r]
      OBVIOUS
    <2>2. /\ permit[c] = None /\ ~value[c] /\ permit' = [permit EXCEPT ![c] = r]
          /\ pc[r] = "wait" /\ pc' = [pc EXCEPT ![r] = "status"] /\ UNCHANGED <<value, cell>>
      BY <1>6, <2>1 DEF CellInit
    <2>3. r \in Graph
      BY <2>2 DEF Permits
    <2>4. QED
      BY <2>1, <2>2, <2>3 DEF Permits
  <1>7. ASSUME NEW r \in Reqs, Ensured(r), pc[r] \in Busy PROVE Permits'
    <2>1. kind[r] = "start" => r \notin Graph
      OBVIOUS
    <2>2. PICK l \in {"done", "calling"} : pc' = [pc EXCEPT ![r] = l] /\ (l = "done" => r \notin Graph)
      BY <1>7, <2>1 DEF Ensured
    <2>3. QED
      BY <1>1, <1>7, <2>2 DEF Ensured
  <1>8. ASSUME NEW r \in Reqs, Fail(r) PROVE Permits'
    BY <1>3, <1>8 DEF Fail, Answered
  <1>9. ASSUME NEW r \in Reqs, Ensuring(r) PROVE Permits'
    <2>1. CASE Ensured(r) \/ Fail(r)
      BY <1>7, <1>8, <1>9, <2>1 DEF Ensuring, Status, LockAndRecheck, Poll
    <2>2. CASE ~(Ensured(r) \/ Fail(r))
      <3>1. PICK l \in {"startlock", "spawning"} : pc' = [pc EXCEPT ![r] = l]
        BY <1>9, <2>2 DEF Ensuring, Status, LockAndRecheck, Poll
      <3>2. pc[r] \in Busy /\ UNCHANGED <<permit, cell, value>>
        BY <1>9, <2>2 DEF Ensuring, Status, LockAndRecheck, Poll
      <3>3. QED
        BY <1>1, <3>1, <3>2
    <2>3. QED
      BY <2>1, <2>2
  <1>10. ASSUME NEW r \in Reqs, SpawnDone(r) PROVE Permits'
    <2>1. (pc[r] = "spawning" /\ pc' = [pc EXCEPT ![r] = "polling"]) \/ pc' = pc
      BY <1>10 DEF SpawnDone
    <2>2. UNCHANGED <<permit, cell, value>>
      BY <1>10 DEF SpawnDone
    <2>3. QED
      BY <1>1, <1>2, <2>1, <2>2
  <1>11. ASSUME NEW r \in Reqs, SpawnFails(r) \/ RestartFails(r) PROVE Permits'
    <2>1. Answered(r) \in {"leave", "done"} /\ (Answered(r) = "leave" => r \in Graph)
      BY DEF Answered
    <2>2. \/ pc' = [pc EXCEPT ![r] = Answered(r)]
          \/ pc[r] = "gone" /\ pc' = pc
      BY <1>11 DEF SpawnFails, RestartFails, Jobs
    <2>3. Release(r) /\ UNCHANGED <<cell, value>>
      BY <1>11 DEF SpawnFails, RestartFails
    <2>4. QED
      BY <1>3, <2>1, <2>2, <2>3
  <1>12. ASSUME NEW r \in Reqs, CallAnswered(r) \/ CallFails(r) PROVE Permits'
    <2>1. Answered(r) \in {"leave", "done"} /\ (Answered(r) = "leave" => r \in Graph)
      BY DEF Answered
    <2>2. /\ pc' = [pc EXCEPT ![r] = Answered(r)] /\ Release(r) /\ UNCHANGED cell
          /\ value' = value \/ (value' = [value EXCEPT ![cell[r]] = TRUE] /\ r \in Graph /\ pc[r] \in Busy)
      BY <1>12 DEF CallAnswered, CallFails
    <2>3. QED
      BY <1>3, <2>1, <2>2
  <1>13. ASSUME NEW r \in Reqs, CallUnknown(r) PROVE Permits'
    BY <1>1, <1>13 DEF CallUnknown
  <1>14. ASSUME NEW r \in Reqs, CallOrphaned(r) \/ RestartStop(r) PROVE Permits'
    BY <1>2, <1>14 DEF CallOrphaned, RestartStop
  <1>15. ASSUME NEW r \in Reqs, TakeGate(r) PROVE Permits'
    <2>1. PICK l \in {"status", "restarting"} : pc' = [pc EXCEPT ![r] = l]
      BY <1>15 DEF TakeGate
    <2>2. pc[r] \in Busy /\ UNCHANGED <<permit, cell, value>>
      BY <1>15 DEF TakeGate
    <2>3. QED
      BY <1>1, <2>1, <2>2
  <1>16. ASSUME NEW r \in Reqs, RestartSpawn(r) PROVE Permits'
    <2>1. (pc[r] = "restarting" /\ pc' = [pc EXCEPT ![r] = "status"]) \/ pc' = pc
      BY <1>16 DEF RestartSpawn
    <2>2. UNCHANGED <<permit, cell, value>>
      BY <1>16 DEF RestartSpawn
    <2>3. QED
      BY <1>1, <1>2, <2>1, <2>2
  <1>17. ASSUME NEW r \in Reqs, Disconnect(r) PROVE Permits'
    BY <1>3, <1>17 DEF Disconnect
  <1>18. CASE Elapse \/ Boot \/ StopsItself \/ UNCHANGED vars
    BY <1>2, <1>18 DEF Elapse, Boot, StopsItself, vars
  <1>19. QED
    BY <1>4, <1>5, <1>6, <1>9, <1>10, <1>11, <1>12, <1>13, <1>14, <1>15, <1>16, <1>17, <1>18
       DEF Next, Step, Ensuring

LEMMA TurnedNext == VizInv /\ [Next]_vars => Turned'
  <1> SUFFICES ASSUME Types, Owners, Jobs, Turned, [Next]_vars, ~cut', mishaps' = 0 PROVE Turned'
    BY DEF VizInv, Turned
  <1> USE DEF Types, Places, daemon, locks, cells, task, history
  <1>0. ~cut /\ mishaps = 0 /\ \A r \in Reqs : pc[r] # "gone"
    <2>1. mishaps = mishaps' \/ mishaps' = mishaps + 1
      BY DEF Next, Arrive, Step, CellReady, CellInit, Leave, Status, LockAndRecheck, Poll, Ensured, Fail,
         SpawnDone, SpawnFails, CallAnswered, CallUnknown, CallFails, CallOrphaned, TakeGate,
         RestartStop, RestartSpawn, RestartFails, Disconnect, Elapse, Boot, StopsItself, vars
    <2>2. mishaps = 0
      BY <2>1
    <2>3. cut' = cut \/ cut'
      BY DEF Next, Arrive, Step, CellReady, CellInit, Leave, Status, LockAndRecheck, Poll, Ensured, Fail,
         SpawnDone, SpawnFails, CallAnswered, CallUnknown, CallFails, CallOrphaned, TakeGate,
         RestartStop, RestartSpawn, RestartFails, Disconnect, Elapse, Boot, StopsItself, vars
    <2>4. QED
      BY <2>2, <2>3 DEF Jobs
  <1>1. ASSUME NEW r \in Reqs, Arriving(r) PROVE Turned'
    BY <1>0, <1>1 DEF Turned, Arriving, Arrive, CellReady, CellInit, Leave
  <1>2. ASSUME NEW r \in Reqs, Release(r), pc[r] # "restarting" PROVE gateOwner' = gateOwner
    BY <1>2 DEF Release, Owners
  <1>3. ASSUME NEW r \in Reqs, Ensuring(r) PROVE Turned'
    <2>1. CASE Ensured(r)
      BY <1>0, <2>1 DEF Turned, Ensured
    <2>2. CASE Fail(r)
      <3>1. gateOwner' = gateOwner
        BY <1>2, <1>3, <2>2 DEF Fail, Ensuring, Status, LockAndRecheck, Poll
      <3>2. QED
        BY <1>0, <2>2, <3>1 DEF Turned, Fail, Answered
    <2>3. CASE ~(Ensured(r) \/ Fail(r))
      BY <1>0, <1>3, <2>3 DEF Turned, Ensuring, Status, LockAndRecheck, Poll
    <2>4. QED
      BY <2>1, <2>2, <2>3
  <1>4. ASSUME NEW r \in Reqs, SpawnDone(r) PROVE Turned'
    BY <1>0, <1>4 DEF Turned, SpawnDone, Spawned
  <1>5. ASSUME NEW r \in Reqs, SpawnFails(r) \/ CallAnswered(r) \/ CallFails(r) PROVE Turned'
    <2>1. Release(r) /\ pc[r] # "restarting" /\ UNCHANGED <<up, gate>>
      BY <1>0, <1>5 DEF SpawnFails, CallAnswered, CallFails, Jobs
    <2>2. gateOwner' = gateOwner
      BY <1>2, <2>1
    <2>3. Answered(r) \in {"leave", "done"}
      BY DEF Answered
    <2>4. \A q \in Reqs : (pc'[q] = "gate" => pc[q] = "gate") /\ (job'[q] = "stop" => job[q] = "stop")
      BY <1>5, <2>3 DEF SpawnFails, CallAnswered, CallFails
    <2>5. QED
      BY <1>0, <2>1, <2>2, <2>4 DEF Turned
  <1>6. ASSUME NEW r \in Reqs, CallUnknown(r) \/ CallOrphaned(r) PROVE Turned'
    BY <1>0, <1>6 DEF Turned, CallUnknown, CallOrphaned
  <1>7. ASSUME NEW r \in Reqs, TakeGate(r) PROVE Turned'
    BY <1>0, <1>7 DEF Turned, TakeGate
  <1>8. ASSUME NEW r \in Reqs, RestartStop(r) PROVE Turned'
    <2>1. pc[r] = "restarting" /\ gateOwner = r /\ job[r] = "stop" /\ UNCHANGED <<pc, gateOwner>>
      BY <1>0, <1>8 DEF RestartStop, Jobs, Owners
    <2>2. \A q \in Reqs : job[q] = "stop" => q = r
      BY <1>0, <2>1 DEF Jobs, Owners
    <2>3. QED
      BY <1>0, <1>8, <2>1, <2>2 DEF Turned, RestartStop
  <1>9. ASSUME NEW r \in Reqs, RestartSpawn(r) PROVE Turned'
    <2>1. pc[r] = "restarting"
      BY <1>0, <1>9 DEF RestartSpawn, Jobs
    <2>2. /\ gate' = "recent" /\ job' = [job EXCEPT ![r] = "none"]
          /\ up' = up \/ up = "down"
      BY <1>9, <2>1 DEF RestartSpawn, Spawned
    <2>3. QED
      BY <1>0, <2>2 DEF Turned
  <1>10. ASSUME NEW r \in Reqs PROVE ~RestartFails(r) /\ ~Disconnect(r)
    BY <1>0 DEF RestartFails, Disconnect
  <1>11. CASE Elapse \/ Boot \/ UNCHANGED vars
    BY <1>0, <1>11 DEF Turned, Elapse, Boot, vars
  <1>12. ~StopsItself
    BY <1>0 DEF StopsItself
  <1>13. QED
    BY <1>1, <1>3, <1>4, <1>5, <1>6, <1>7, <1>8, <1>9, <1>10, <1>11, <1>12
       DEF Next, Step, Arriving, Ensuring

\* A request that is to remove the key does so, or is cut off there, or stays.
LEMMA RemoverStays ==
  ASSUME Types, Jobs, [Next]_vars, NEW q \in Reqs, pc[q] = "leave" \/ q \in late
  PROVE  Leave(q) \/ pc'[q] = "leave" \/ q \in late'
  <1> USE DEF Types, Places, Live, daemon, locks, cells, task, history
  <1>1. ASSUME NEW r \in Reqs, pc[r] # "leave", NEW l, late' = late,
               pc' = [pc EXCEPT ![r] = l] \/ pc' = pc
        PROVE  pc'[q] = "leave" \/ q \in late'
    BY <1>1
  <1>2. ASSUME NEW r \in Reqs, Arriving(r) PROVE Leave(q) \/ pc'[q] = "leave" \/ q \in late'
    BY <1>2 DEF Arriving, Arrive, CellReady, CellInit, Leave
  <1>3. ASSUME NEW r \in Reqs, Ensuring(r) PROVE pc'[q] = "leave" \/ q \in late'
    <2>1. CASE Ensured(r)
      <3>1. PICK l \in {"done", "calling"} : pc' = [pc EXCEPT ![r] = l]
        BY <2>1 DEF Ensured
      <3>2. pc[r] # "leave" /\ late' = late
        BY <1>3, <2>1 DEF Ensuring, Status, LockAndRecheck, Poll, Ensured
      <3>3. QED
        BY <1>1, <3>1, <3>2
    <2>2. CASE Fail(r)
      <3>1. pc[r] # "leave" /\ late' = late
        BY <1>3, <2>2 DEF Ensuring, Status, LockAndRecheck, Poll, Fail
      <3>2. QED
        BY <1>1, <2>2, <3>1 DEF Fail
    <2>3. CASE ~(Ensured(r) \/ Fail(r))
      BY <1>3, <2>3 DEF Ensuring, Status, LockAndRecheck, Poll
    <2>4. QED
      BY <2>1, <2>2, <2>3
  <1>4. ASSUME NEW r \in Reqs, SpawnDone(r) \/ CallUnknown(r) \/ CallOrphaned(r)
        PROVE  pc'[q] = "leave" \/ q \in late'
    BY <1>4 DEF SpawnDone, CallUnknown, CallOrphaned
  <1>5. ASSUME NEW r \in Reqs, SpawnFails(r) \/ CallAnswered(r) \/ CallFails(r) \/ RestartFails(r)
        PROVE  pc'[q] = "leave" \/ q \in late'
    <2>1. pc' = [pc EXCEPT ![r] = Answered(r)] \/ pc' = pc
      BY <1>5 DEF SpawnFails, CallAnswered, CallFails, RestartFails
    <2>2. pc[r] # "leave" /\ late' = late
      BY <1>5 DEF SpawnFails, CallAnswered, CallFails, RestartFails, Jobs
    <2>3. QED
      BY <1>1, <2>1, <2>2
  <1>6. ASSUME NEW r \in Reqs, TakeGate(r) \/ RestartStop(r) \/ RestartSpawn(r)
        PROVE  pc'[q] = "leave" \/ q \in late'
    BY <1>6 DEF TakeGate, RestartStop, RestartSpawn
  <1>7. ASSUME NEW r \in Reqs, Disconnect(r) PROVE pc'[q] = "leave" \/ q \in late'
    BY <1>7 DEF Disconnect
  <1>8. CASE Elapse \/ Boot \/ StopsItself \/ UNCHANGED vars
    BY <1>8 DEF Elapse, Boot, StopsItself, vars
  <1>9. QED
    BY <1>2, <1>3, <1>4, <1>5, <1>6, <1>7, <1>8 DEF Next, Step, Arriving, Ensuring

\* What the steps do to a cell: who asks joins the one of the key, who is
\* answered fills its own, who leaves takes the key away.
LEMMA CellSteps ==
  ASSUME Types, Jobs, [Next]_vars
  PROVE  /\ \A r \in Reqs : pc[r] # "new" => pc'[r] # "new"
         /\ \A r \in late' : r \in late \/ pc'[r] = "gone"
         /\ \/ UNCHANGED <<inflight, cell, value>> /\ \A r \in Graph : pc[r] = "new" => pc'[r] = "new"
            \/ \E r \in Graph : Arrive(r)
            \/ \E r \in Graph : /\ CallAnswered(r) /\ value' = [value EXCEPT ![cell[r]] = TRUE]
                                /\ UNCHANGED <<inflight, cell>>
                                /\ \A q \in Graph : pc[q] = "new" => pc'[q] = "new"
            \/ /\ \E r \in Reqs : Leave(r)
               /\ inflight' = None /\ UNCHANGED <<cell, value>>
               /\ \A q \in Graph : pc[q] = "new" => pc'[q] = "new"
  <1> USE GraphKind DEF Types, Places, daemon, locks, cells, task, history
  <1> DEFINE Same == /\ UNCHANGED <<inflight, cell, value>>
                     /\ \A r \in late' : r \in late \/ pc'[r] = "gone"
                     /\ \A r \in Reqs : pc[r] = "new" <=> pc'[r] = "new"
  <1>1. ASSUME NEW r \in Reqs, NEW l, pc[r] # "new" /\ l # "new",
               pc' = [pc EXCEPT ![r] = l] \/ pc' = pc, UNCHANGED <<inflight, cell, value, late>>
        PROVE  Same
    BY <1>1
  <1>2. ASSUME NEW r \in Reqs PROVE Answered(r) # "new"
    BY DEF Answered
  <1>3. ASSUME NEW r \in Reqs, CellReady(r) \/ CellInit(r) PROVE Same
    BY <1>3 DEF CellReady, CellInit
  <1>4. ASSUME NEW r \in Reqs, Ensuring(r) PROVE Same
    <2>1. CASE Ensured(r)
      <3>1. PICK l \in {"done", "calling"} : pc' = [pc EXCEPT ![r] = l]
        BY <2>1 DEF Ensured
      <3>2. pc[r] # "new"
        BY <1>4 DEF Ensuring, Status, LockAndRecheck, Poll
      <3>3. QED
        BY <1>1, <2>1, <3>1, <3>2 DEF Ensured
    <2>2. CASE Fail(r)
      <3>1. pc[r] # "new"
        BY <1>4 DEF Ensuring, Status, LockAndRecheck, Poll
      <3>2. QED
        BY <1>1, <1>2, <2>2, <3>1 DEF Fail
    <2>3. CASE ~(Ensured(r) \/ Fail(r))
      BY <1>4, <2>3 DEF Ensuring, Status, LockAndRecheck, Poll
    <2>4. QED
      BY <2>1, <2>2, <2>3
  <1>5. ASSUME NEW r \in Reqs, SpawnDone(r) \/ CallUnknown(r) \/ CallOrphaned(r) PROVE Same
    BY <1>5 DEF SpawnDone, CallUnknown, CallOrphaned
  <1>6. ASSUME NEW r \in Reqs, SpawnFails(r) \/ CallFails(r) \/ RestartFails(r) PROVE Same
    <2>1. pc' = [pc EXCEPT ![r] = Answered(r)] \/ pc' = pc
      BY <1>6 DEF SpawnFails, CallFails, RestartFails
    <2>2. pc[r] # "new" /\ UNCHANGED <<inflight, cell, value, late>>
      BY <1>6 DEF SpawnFails, CallFails, RestartFails, Jobs
    <2>3. QED
      BY <1>1, <1>2, <2>1, <2>2
  <1>7. ASSUME NEW r \in Reqs, TakeGate(r) \/ RestartStop(r) \/ RestartSpawn(r) PROVE Same
    BY <1>7 DEF TakeGate, RestartStop, RestartSpawn
  <1>8. ASSUME NEW r \in Reqs, Disconnect(r) PROVE Same
    BY <1>8 DEF Disconnect, Live
  <1>9. CASE Elapse \/ Boot \/ StopsItself \/ UNCHANGED vars
    BY <1>9 DEF Elapse, Boot, StopsItself, vars
  <1>10. ASSUME NEW r \in Reqs, CallAnswered(r)
         PROVE  /\ UNCHANGED <<inflight, cell, late>> /\ \A q \in Reqs : pc[q] = "new" <=> pc'[q] = "new"
                /\ r \in Graph => value' = [value EXCEPT ![cell[r]] = TRUE]
                /\ r \notin Graph => value' = value
    BY <1>2, <1>10 DEF CallAnswered
  <1>11. ASSUME NEW r \in Reqs, Arrive(r)
         PROVE  /\ r \in Graph \/ UNCHANGED <<inflight, cell, value>>
                /\ \A q \in Reqs : pc[q] # "new" => pc'[q] # "new"
                /\ \A q \in Reqs : q # r => pc'[q] = pc[q]
                /\ late' = late
    BY <1>11 DEF Arrive
  <1>12. ASSUME NEW r \in Reqs, Leave(r)
         PROVE  /\ inflight' = None /\ UNCHANGED <<cell, value, late>>
                /\ \A q \in Reqs : pc[q] = "new" <=> pc'[q] = "new"
    BY <1>12 DEF Leave
  <1>13. QED
    <2>1. CASE Same
      BY <2>1
    <2>2. CASE \E r \in Reqs : CallAnswered(r)
      BY <1>10, <2>2
    <2>3. CASE \E r \in Reqs : Arrive(r)
      <3>1. PICK r \in Reqs : Arrive(r)
        BY <2>3
      <3>2. CASE r \in Graph
        BY <1>11, <3>1, <3>2
      <3>3. CASE r \notin Graph
        BY <1>11, <3>1, <3>3
      <3>4. QED
        BY <3>2, <3>3
    <2>4. CASE \E r \in Reqs : Leave(r)
      BY <1>12, <2>4
    <2>5. QED
      BY <1>3, <1>4, <1>5, <1>6, <1>7, <1>8, <1>9, <2>1, <2>2, <2>3, <2>4 DEF Next, Step, Ensuring

LEMMA FlightsNext == VizInv /\ [Next]_vars => Flights'
  <1> SUFFICES ASSUME Types, Jobs, Permits, Flights, [Next]_vars PROVE Flights'
    BY DEF VizInv
  <1> USE GraphKind DEF Flights
  <1>1. /\ \A r \in Reqs : pc[r] # "new" => pc'[r] # "new"
        /\ \A r \in late' : r \in late \/ pc'[r] = "gone"
    BY CellSteps
  <1>2. /\ value \in [Reqs -> BOOLEAN] /\ cell \in [Reqs -> Reqs] /\ inflight \in Reqs \cup {None}
        /\ pc \in [Reqs -> Places] /\ late \subseteq Reqs
    BY DEF Types
  <1>3. \A q \in late' : pc'[q] # "new"
    BY <1>1, <1>2
  <1>4. ASSUME NEW c \in Reqs, Removing(c) # {}, \A q \in Reqs : pc[q] # "new" => cell'[q] = cell[q],
               \A q \in Reqs : ~Leave(q)
        PROVE  Removing(c)' # {}
    <2>1. PICK q \in Graph : cell[q] = c /\ (pc[q] = "leave" \/ q \in late)
      BY <1>4 DEF Removing
    <2>2. pc[q] # "new" /\ q \in Reqs
      BY <2>1
    <2>3. cell'[q] = c
      BY <1>4, <2>1, <2>2
    <2>4. pc'[q] = "leave" \/ q \in late'
      BY <1>4, <2>1, <2>2, RemoverStays
    <2>5. q \in Removing(c)'
      BY <2>3, <2>4 DEF Removing, Graph
    <2>6. QED
      BY <2>5
  <1>5. CASE \E r \in Reqs : Leave(r)
    <2>1. PICK r \in Reqs : Leave(r)
      BY <1>5
    <2>2. inflight' = None /\ UNCHANGED <<cell, value>> /\ pc' = [pc EXCEPT ![r] = "done"] /\ pc[r] = "leave"
      BY <2>1 DEF Leave
    <2>3. /\ \A c \in Reqs : value'[c] => pc'[c] # "new"
          /\ \A q \in Graph : pc'[q] # "new" => pc'[cell'[q]] # "new"
      BY <1>1, <1>2, <2>2
    <2>4. QED
      BY <1>3, <2>2, <2>3
  <1>6. CASE /\ UNCHANGED <<inflight, cell, value>> /\ \A r \in Graph : pc[r] = "new" => pc'[r] = "new"
             /\ \A q \in Reqs : ~Leave(q)
    <2>1. ASSUME inflight' # None, value'[inflight'] PROVE Removing(inflight)' # {}
      <3>1. PICK c \in Reqs : c = inflight /\ inflight' = c
        BY <1>2, <1>6, <2>1
      <3>2. Removing(c) # {}
        BY <1>6, <2>1, <3>1
      <3>3. Removing(c)' # {}
        BY <1>4, <1>6, <3>2
      <3>4. QED
        BY <3>1, <3>3
    <2>2. /\ \A c \in Reqs : value'[c] => pc'[c] # "new"
          /\ \A q \in Graph : pc'[q] # "new" => pc'[cell'[q]] # "new"
          /\ inflight' # None => pc'[inflight'] # "new"
      BY <1>1, <1>2, <1>6
    <2>3. QED
      BY <1>3, <2>1, <2>2
  <1>7. CASE \E r \in Graph : /\ CallAnswered(r) /\ value' = [value EXCEPT ![cell[r]] = TRUE]
                              /\ UNCHANGED <<inflight, cell>>
                              /\ \A q \in Graph : pc[q] = "new" => pc'[q] = "new"
    <2>1. PICK r \in Graph : /\ CallAnswered(r) /\ value' = [value EXCEPT ![cell[r]] = TRUE]
                             /\ UNCHANGED <<inflight, cell>>
                             /\ \A q \in Graph : pc[q] = "new" => pc'[q] = "new"
      BY <1>7
    <2>2. /\ pc[cell[r]] # "new" /\ pc[r] = "calling" /\ pc' = [pc EXCEPT ![r] = "leave"]
          /\ late' = late
      BY <2>1 DEF CallAnswered, Answered, history
    <2>3. \A c \in Reqs : value'[c] => pc[c] # "new"
      BY <1>2, <2>1, <2>2
    <2>4. ASSUME inflight' # None, value'[inflight'] PROVE Removing(inflight)' # {}
      <3>1. PICK c \in Reqs : c = inflight /\ inflight' = c
        BY <1>2, <2>1, <2>4
      <3>2. CASE c = cell[r]
        <4>1. cell'[r] = c /\ pc'[r] = "leave"
          BY <1>2, <2>1, <2>2, <3>2
        <4>2. r \in Removing(c)'
          BY <4>1 DEF Removing, Graph
        <4>3. QED
          BY <3>1, <4>2
      <3>3. CASE c # cell[r]
        <4>1. value[c]
          BY <1>2, <2>1, <2>4, <3>1, <3>3
        <4>2. PICK q \in Graph : cell[q] = c /\ (pc[q] = "leave" \/ q \in late)
          BY <3>1, <4>1 DEF Removing
        <4>3. cell'[q] = c /\ (pc'[q] = "leave" \/ q \in late')
          BY <1>2, <2>1, <2>2, <3>3, <4>2
        <4>4. q \in Removing(c)'
          BY <4>3 DEF Removing, Graph
        <4>5. QED
          BY <3>1, <4>4
      <3>4. QED
        BY <3>2, <3>3
    <2>5. /\ \A c \in Reqs : value'[c] => pc'[c] # "new"
          /\ \A q \in Graph : pc'[q] # "new" => pc'[cell'[q]] # "new"
          /\ inflight' # None => pc'[inflight'] # "new"
      BY <1>1, <1>2, <2>1, <2>3
    <2>6. QED
      BY <1>3, <2>4, <2>5
  <1>8. CASE \E r \in Graph : Arrive(r)
    <2>1. PICK r \in Graph : Arrive(r)
      BY <1>8
    <2>2. PICK d \in Reqs : d = inflight' /\ (d = inflight \/ d = r)
      BY <1>2, <2>1 DEF Arrive
    <2>3. /\ cell' = [cell EXCEPT ![r] = d] /\ pc' = [pc EXCEPT ![r] = "wait"] /\ value' = value
          /\ pc[r] = "new" /\ late' = late
      BY <2>1, <2>2 DEF Arrive, cells, history
    <2>4. pc'[d] # "new"
      BY <1>1, <1>2, <2>2, <2>3
    <2>5. \A q \in Graph : pc'[q] # "new" => pc'[cell'[q]] # "new"
      BY <1>1, <1>2, <2>3, <2>4
    <2>6. \A c \in Reqs : value'[c] => pc'[c] # "new"
      BY <1>1, <2>3
    <2>7. ASSUME value'[d] PROVE Removing(d)' # {}
      <3>1. d = inflight
        BY <2>2, <2>3, <2>7
      <3>2. PICK q \in Graph : cell[q] = d /\ (pc[q] = "leave" \/ q \in late)
        BY <2>3, <2>7, <3>1 DEF Removing
      <3>3. q # r
        BY <2>3, <3>2
      <3>4. cell'[q] = d /\ (pc'[q] = "leave" \/ q \in late')
        BY <1>2, <2>3, <3>2, <3>3
      <3>5. q \in Removing(d)'
        BY <3>4 DEF Removing, Graph
      <3>6. QED
        BY <3>5
    <2>8. Removing(inflight)' = Removing(d)'
      BY <2>2 DEF Removing
    <2>9. QED
      BY <1>3, <2>2, <2>4, <2>5, <2>6, <2>7, <2>8
  <1>9. QED
    BY <1>5, <1>6, <1>7, <1>8, CellSteps

LEMMA VizInvariant == Spec => []VizInv
  <1>1. VizInv /\ [Next]_vars => VizInv'
    BY TypesNext, OwnersNext, JobsNext, PermitsNext, TurnedNext, FlightsNext DEF VizInv
  <1>2. QED
    BY <1>1, VizInit, PTL DEF Spec

-----------------------------------------------------------------------------
\* Every variable has its type; restart_gate and start_lock are held by who
\* waits under them, and no cell with a value has an initialiser.
THEOREM VizTypeCorrect == Spec => []TypeOK
  <1>1. VizInv => TypeOK
    BY DEF VizInv, Types, Owners, Jobs, Permits, TypeOK
  <1>2. QED
    BY <1>1, VizInvariant, PTL

\* The one step that takes the daemon down for a restart finds the old binary,
\* however many requests it turned away, until something else went wrong.
THEOREM RestartOnlyStaleHolds == Spec => RestartOnlyStale
  <1> DEFINE P == \A r \in Reqs : job[r] = "stop" /\ job'[r] # "stop" /\ ~cut /\ mishaps = 0 => up # "new"
  <1>1. VizInv => P
    BY DEF VizInv, Turned
  <1>2. VizInv /\ [Next]_vars => [P]_vars
    BY <1>1
  <1>3. QED
    BY <1>2, VizInvariant, PTL DEF Spec, RestartOnlyStale

\* A graph request joins a cell with a value only while a request of that cell
\* still has to remove the key, or was cut off as it was about to.
THEOREM AnswerFreshHolds == Spec => AnswerFresh
  <1> DEFINE P == \A r \in Graph : pc[r] = "new" /\ pc'[r] = "wait" /\ value[cell'[r]]
                                   => Removing(cell'[r]) # {}
  <1>1. VizInv /\ [Next]_vars => P
    <2> SUFFICES ASSUME VizInv, [Next]_vars, NEW r \in Graph, pc[r] = "new", pc'[r] = "wait",
                        value[cell'[r]]
                 PROVE  Removing(cell'[r]) # {}
      OBVIOUS
    <2>1. PICK q \in Graph : Arrive(q)
      <3>1. ~(\A p \in Graph : pc[p] = "new" => pc'[p] = "new")
        OBVIOUS
      <3>2. Types /\ Jobs
        BY DEF VizInv
      <3>3. QED
        BY <3>1, <3>2, CellSteps
    <2>2. q = r
      BY <2>1, GraphKind DEF Arrive, VizInv, Types
    <2>3. PICK d \in Reqs : d = inflight' /\ (d = r \/ d = inflight)
      BY <2>1, <2>2, GraphKind DEF Arrive, VizInv, Types
    <2>4. cell'[r] = d
      BY <2>1, <2>2, <2>3, GraphKind DEF Arrive, VizInv, Types
    <2>5. d = inflight /\ inflight # None
      BY <2>3, <2>4, VizAssumption DEF VizInv, Flights
    <2>6. Removing(inflight) # {}
      BY <2>4, <2>5 DEF VizInv, Flights
    <2>7. QED
      BY <2>4, <2>5, <2>6
  <1>2. VizInv /\ [Next]_vars => [P]_vars
    BY <1>1
  <1>3. QED
    BY <1>2, VizInvariant, PTL DEF Spec, AnswerFresh
=============================================================================
