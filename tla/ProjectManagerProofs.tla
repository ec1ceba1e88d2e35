------------------------ MODULE ProjectManagerProofs ------------------------
(***************************************************************************)
(* Theorems about ProjectManager, for every set of projects and threads,   *)
(* every cap and budget, and every number of requests and edits.           *)
(***************************************************************************)
EXTENDS ProjectManager, FiniteSetTheorems, TLAPS

Holding == {"evict", "budget", "shrink", "run", "mark", "release"}

\* What a thread's program counter says of its locals: a thread past
\* get_or_load holds a graph, and before it none; the sweeper is in its loop.
Control ==
  /\ pc[Sweeper] \in {"idle", "evict"}
  /\ \A t \in Thread :
       /\ pc[t] # "idle" => proj[t] \in Project
       /\ pc[t] \in Holding <=> graph[t] # "none"

\* Whose graph is the map's and whose is not: an Arc is detached only by a
\* drop that leaves the project's count skewed.
Attachment ==
  \A t \in Thread :
    /\ graph[t] = "shared" => proj[t] \in projects
    /\ graph[t] = "detached" => skewed[proj[t]]

\* The inductive invariant of the loading gates ...
GateInv == TypeOK /\ Control /\ SingleFlight /\ GateHasBuilder

\* ... and that of the reference counts.
CountInv == GateInv /\ Attachment /\ CountsExact

-----------------------------------------------------------------------------
USE ConstantsOK DEF managerVars, entryVars, threadVars, evictVars, boundVars, Actor, Goto

LEMMA GateInit == Init => GateInv
  BY DEF Init, GateInv, TypeOK, Control, SingleFlight, GateHasBuilder, Labels, AllKinds, Holding

LEMMA WrapType ==
  ASSUME NEW n \in 0..(WordSize - 1)
  PROVE  Inc(n) \in 0..(WordSize - 1) /\ Dec(n) \in 0..(WordSize - 1)
  BY DEF Inc, Dec

\* Taking entries out of the map leaves every type as it was.
LEMMA DropType ==
  ASSUME TypeOK, NEW S, Drop(S), ForgetUnsaved(S)
  PROVE  /\ projects' = projects \ S
         /\ projects' \subseteq Project
         /\ active' \in [Project -> 0..(WordSize - 1)]
         /\ idle' \in [Project -> BOOLEAN]
         /\ stale' \in [Project -> BOOLEAN]
         /\ dirty' \in [Project -> BOOLEAN]
         /\ graph' \in [Thread -> {"none", "shared", "detached"}]
         /\ unsaved' \in [Actor -> SUBSET Project]
         /\ skewed' \in [Project -> BOOLEAN]
         /\ \A t \in Thread : graph'[t] = "none" <=> graph[t] = "none"
  BY DEF Drop, ForgetUnsaved, TypeOK

LEMMA MissType ==
  ASSUME TypeOK, NEW t \in Thread, Miss(t)
  PROVE  edited' \in [Thread -> BOOLEAN]
  <1>1. edited \in [Thread -> BOOLEAN]
    BY DEF TypeOK
  <1>2. edited' = edited \/ edited' = [edited EXCEPT ![t] = IF kind[t] = "rebuild" THEN @ ELSE FALSE]
    BY DEF Miss
  <1>3. QED
    BY <1>1, <1>2

LEMMA PersistType ==
  ASSUME TypeOK, NEW a \in Actor, PersistVictim(a)
  PROVE  unsaved' \in [Actor -> SUBSET Project] /\ dirty' \in [Project -> BOOLEAN]
  <1>1. PICK p \in unsaved[a] :
          /\ unsaved' = [unsaved EXCEPT ![a] = @ \ {p}]
          /\ dirty' = [dirty EXCEPT ![p] = FALSE] \/ UNCHANGED dirty
    BY DEF PersistVictim
  <1>2. unsaved \in [Actor -> SUBSET Project] /\ dirty \in [Project -> BOOLEAN]
    BY DEF TypeOK
  <1>3. QED
    BY <1>1, <1>2

\* The gates survive every step: who owns one builds its project, and who
\* waits has such a builder.
LEMMA GateNext == GateInv /\ [Next]_vars => GateInv'
  <1> SUFFICES ASSUME GateInv, [Next]_vars PROVE GateInv'
    OBVIOUS
  <1> USE DEF GateInv, TypeOK, Control, SingleFlight, GateHasBuilder, Labels, Holding
  <1>1. ASSUME NEW t \in Thread, Receive(t) PROVE GateInv'
    BY <1>1 DEF Receive, AllKinds
  <1>2. ASSUME NEW t \in Thread, Hit(t) PROVE GateInv'
    BY <1>2 DEF Hit, Inc
  <1>3. ASSUME NEW t \in Thread, BuildFails(t) PROVE GateInv'
    BY <1>3 DEF BuildFails, OpenGate, Leave, AllKinds
  <1>4. ASSUME NEW t \in Thread, BuildSucceeds(t) PROVE GateInv'
    BY <1>4 DEF BuildSucceeds, OpenGate, CapVictims
  <1>5. ASSUME NEW t \in Thread, EnforceByteBudget(t) PROVE GateInv'
    BY <1>5 DEF EnforceByteBudget, BudgetVictims
  <1>6. ASSUME NEW t \in Thread, Mutate(t) PROVE GateInv'
    BY <1>6 DEF Mutate
  <1>7. ASSUME NEW t \in Thread, MarkDirty(t) PROVE GateInv'
    BY <1>7 DEF MarkDirty
  <1>8. ASSUME NEW t \in Thread, Answer(t) PROVE GateInv'
    BY <1>8 DEF Answer
  <1>9. ASSUME NEW t \in Thread, AnswerReload(t) PROVE GateInv'
    BY <1>9 DEF AnswerReload, Leave, AllKinds
  <1>10. ASSUME NEW t \in Thread, Release(t) PROVE GateInv'
    BY <1>10 DEF Release, Leave, Dec, AllKinds
  <1>11. ASSUME NEW t \in Thread, Unload(t) PROVE GateInv'
    <2>1. Drop({proj[t]}) /\ ForgetUnsaved({proj[t]})
      BY <1>11 DEF Unload
    <2>2. QED
      BY <1>11, <2>1, DropType DEF Unload
  <1>12. ASSUME NEW t \in Thread, Miss(t) PROVE GateInv'
    <2> DEFINE dropped == IF MustEvict(t) THEN {proj[t]} ELSE {}
    <2>1. Drop(dropped) /\ ForgetUnsaved(dropped)
      BY <1>12 DEF Miss
    <2>2. projects' = projects \ dropped /\ (proj[t] \notin projects \/ proj[t] \in dropped)
      BY <1>12, <2>1 DEF Miss, Drop
    <2>3. CASE ~MayLead(t)
      <3>1. /\ pc[t] = "get"
            /\ pc' = [pc EXCEPT ![t] = "wait"]
            /\ UNCHANGED <<loading, edited, kind, proj, victims, boundVars>>
        BY <1>12, <2>3 DEF Miss
      <3> HIDE DEF dropped
      <3>2. QED
        BY <2>1, <2>2, <2>3, <3>1, DropType DEF MayLead
    <2>4. CASE MayLead(t)
      <3>1. /\ pc[t] = "get"
            /\ pc' = [pc EXCEPT ![t] = "build"]
            /\ loading' = [loading EXCEPT ![proj[t]] = t]
            /\ UNCHANGED <<kind, proj, victims, boundVars>>
        BY <1>12, <2>4 DEF Miss, MayLead
      <3> HIDE DEF dropped
      <3>2. TypeOK'
        BY <1>12, <2>1, <3>1, DropType, MissType
      <3>3. Control'
        BY <2>1, <2>2, <3>1, DropType
      <3>4. SingleFlight'
        BY <2>2, <2>4, <3>1 DEF MayLead
      <3>5. GateHasBuilder'
        BY <2>4, <3>1 DEF MayLead
      <3>6. QED
        BY <3>2, <3>3, <3>4, <3>5
    <2>5. QED
      BY <2>3, <2>4
  <1>13. ASSUME NEW a \in Actor, PersistVictim(a) PROVE GateInv'
    <2>1. UNCHANGED <<managerVars, active, idle, stale, threadVars, victims, boundVars, skewed>>
      BY <1>13 DEF PersistVictim
    <2>2. QED
      BY <1>13, <2>1, PersistType
  <1>14. ASSUME NEW t \in Thread, EvictForCap(t) PROVE GateInv'
    <2>1. Drop(Removed(t)) /\ ForgetUnsaved(Removed(t))
      BY <1>14 DEF EvictForCap, RemoveVictims
    <2>2. QED
      BY <1>14, <2>1, DropType DEF EvictForCap, RemoveVictims
  <1>15. ASSUME NEW t \in Thread, EvictForBudget(t) PROVE GateInv'
    <2>1. Drop(Removed(t)) /\ ForgetUnsaved(Removed(t))
      BY <1>15 DEF EvictForBudget, RemoveVictims
    <2>2. QED
      BY <1>15, <2>1, DropType DEF EvictForBudget, RemoveVictims
  <1>16. CASE SweepRemove
    <2>1. Drop(Removed(Sweeper)) /\ ForgetUnsaved(Removed(Sweeper))
      BY <1>16 DEF SweepRemove, RemoveVictims
    <2>2. QED
      BY <1>16, <2>1, DropType DEF SweepRemove, RemoveVictims
  <1>17. CASE SweepSelect
    BY <1>17 DEF SweepSelect
  <1>18. ASSUME NEW p \in Project, GrowIdle(p) PROVE GateInv'
    BY <1>18 DEF GrowIdle
  <1>19. ASSUME NEW p \in Project, Edit(p) PROVE GateInv'
    BY <1>19 DEF Edit
  <1>20. CASE UNCHANGED vars
    BY <1>20 DEF vars
  <1> HIDE DEF GateInv
  <1> QED
    BY <1>1, <1>2, <1>3, <1>4, <1>5, <1>6, <1>7, <1>8, <1>9, <1>10, <1>11, <1>12, <1>13, <1>14, <1>15, <1>16, <1>17, <1>18, <1>19, <1>20
    DEF Next, Serve, GetOrLoad, Evict, Finish, Sweep

-----------------------------------------------------------------------------
LEMMA GateInvariant == Spec => []GateInv
  BY GateInit, GateNext, PTL DEF Spec

\* Whatever the interleaving of requests, evictions and edits, every variable
\* keeps its type; active_queries is a usize even where its count is wrong.
THEOREM TypeCorrect == Spec => []TypeOK
  BY GateInvariant, PTL DEF GateInv

\* get_or_load_inner never lets two threads build one project, nor replaces a
\* resident entry, for any number of threads and projects.
THEOREM SingleFlightHolds == Spec => []SingleFlight
  BY GateInvariant, PTL DEF GateInv

\* Every thread that waits on a gate, and every gate left in inner.loading,
\* has a builder that will open it: what makes the waits terminate.
THEOREM GateHasBuilderHolds == Spec => []GateHasBuilder
  BY GateInvariant, PTL DEF GateInv

-----------------------------------------------------------------------------
(* The reference counts.                                                   *)

LEMMA UsersFinite ==
  ASSUME NEW p
  PROVE  /\ IsFiniteSet(Users(p))
         /\ Cardinality(Users(p)) \in Nat
         /\ Cardinality(Users(p)) <= Cardinality(Thread)
  <1>1. Users(p) \subseteq Thread
    BY DEF Users
  <1>2. QED
    BY <1>1, FS_Subset, FS_CardinalityType

\* A thread that joins the users leaves room in the word, and one that leaves
\* them was counted: neither fetch_add nor fetch_sub wraps.
LEMMA UsersJoin ==
  ASSUME NEW p, NEW t \in Thread, t \notin Users(p)
  PROVE  /\ Cardinality(Users(p) \cup {t}) = Inc(Cardinality(Users(p)))
  <1>1. Users(p) \cup {t} \subseteq Thread
    BY DEF Users
  <1>2. Cardinality(Users(p) \cup {t}) <= Cardinality(Thread)
    BY <1>1, FS_Subset
  <1>3. Cardinality(Users(p) \cup {t}) = Cardinality(Users(p)) + 1
    BY UsersFinite, FS_AddElement
  <1>4. Cardinality(Thread) \in Nat
    BY FS_CardinalityType
  <1>5. QED
    BY <1>2, <1>3, <1>4, UsersFinite DEF Inc

LEMMA UsersLeave ==
  ASSUME NEW p, NEW t \in Users(p)
  PROVE  /\ Cardinality(Users(p) \ {t}) = Dec(Cardinality(Users(p)))
  <1>1. Cardinality(Users(p) \ {t}) = Cardinality(Users(p)) - 1
    BY UsersFinite, FS_RemoveElement
  <1>2. IsFiniteSet(Users(p) \ {t})
    BY UsersFinite, FS_RemoveElement
  <1>3. Cardinality(Users(p) \ {t}) \in Nat
    BY <1>2, FS_CardinalityType
  <1>4. Cardinality(Thread) \in Nat
    BY FS_CardinalityType
  <1>5. QED
    BY <1>1, <1>3, <1>4, UsersFinite DEF Dec

\* A drop detaches the Arcs of the users it finds and remembers it did.
LEMMA DropCounts ==
  ASSUME TypeOK, Control, Attachment, CountsExact, NEW S, Drop(S), proj' = proj
  PROVE  Attachment' /\ CountsExact'
  <1>1. ASSUME NEW t \in Thread
        PROVE  /\ graph'[t] = "shared" => proj'[t] \in projects'
               /\ graph'[t] = "detached" => skewed'[proj'[t]]
    <2>1. graph'[t] = IF graph[t] = "shared" /\ proj[t] \in S THEN "detached" ELSE graph[t]
      BY DEF Drop
    <2>2. CASE graph[t] = "shared"
      <3>1. proj[t] \in projects /\ proj[t] \in Project
        BY <2>2 DEF Attachment, TypeOK
      <3>2. skewed'[proj[t]] = (skewed[proj[t]] \/ (proj[t] \in S /\ Users(proj[t]) # {}))
        BY <3>1 DEF Drop
      <3>3. t \in Users(proj[t])
        BY <2>2 DEF Users
      <3>4. QED
        BY <2>1, <2>2, <3>1, <3>2, <3>3 DEF Drop
    <2>3. CASE graph[t] # "shared"
      <3>1. ASSUME graph[t] = "detached" PROVE skewed'[proj[t]]
        <4>1. proj[t] \in Project /\ skewed[proj[t]]
          BY <3>1 DEF Attachment, Control, Holding
        <4>2. QED
          BY <4>1 DEF Drop
      <3>2. QED
        BY <2>1, <2>3, <3>1
    <2>4. QED
      BY <2>2, <2>3
  <1>2. ASSUME NEW p \in projects', ~skewed'[p]
        PROVE  active'[p] = Cardinality(Users(p)')
    <2>1. p \in projects /\ p \notin S /\ ~skewed[p] /\ active'[p] = active[p]
      BY <1>2 DEF Drop, TypeOK
    <2>2. Users(p)' = Users(p)
      BY <2>1 DEF Users, Drop
    <2>3. QED
      BY <2>1, <2>2 DEF CountsExact
  <1>3. QED
    BY <1>1, <1>2 DEF Attachment, CountsExact

LEMMA SameCounts ==
  ASSUME Attachment, CountsExact, UNCHANGED <<projects, active, proj, graph, skewed>>
  PROVE  Attachment' /\ CountsExact'
  <1>1. \A p : Users(p)' = Users(p)
    BY DEF Users
  <1>2. QED
    BY <1>1 DEF Attachment, CountsExact

\* A thread without a graph may take up or give up a project unnoticed.
LEMMA IdleCounts ==
  ASSUME Attachment, CountsExact, NEW t \in Thread, graph[t] = "none", graph'[t] = "none",
         \A u \in Thread \ {t} : proj'[u] = proj[u] /\ graph'[u] = graph[u],
         UNCHANGED <<projects, active, skewed>>
  PROVE  Attachment' /\ CountsExact'
  <1>1. \A p : Users(p)' = Users(p)
    BY DEF Users
  <1>2. QED
    BY <1>1 DEF Attachment, CountsExact

LEMMA CountNext == CountInv /\ [Next]_vars => Attachment' /\ CountsExact'
  <1> SUFFICES ASSUME CountInv, [Next]_vars PROVE Attachment' /\ CountsExact'
    OBVIOUS
  <1>0. TypeOK /\ Control /\ SingleFlight /\ Attachment /\ CountsExact
    BY DEF CountInv, GateInv
  <1>1. ASSUME NEW t \in Thread, Receive(t) PROVE Attachment' /\ CountsExact'
    <2>1. graph[t] = "none"
      BY <1>0, <1>1 DEF Receive, Control, Holding
    <2>2. \A u \in Thread \ {t} : proj'[u] = proj[u]
      BY <1>0, <1>1 DEF Receive, TypeOK
    <2>3. UNCHANGED <<graph, projects, active, skewed>>
      BY <1>1 DEF Receive
    <2>4. QED
      BY <1>0, <2>1, <2>2, <2>3, IdleCounts
  <1>2. ASSUME NEW t \in Thread, Unload(t) PROVE Attachment' /\ CountsExact'
    BY <1>0, <1>2, DropCounts DEF Unload
  <1>3. ASSUME NEW t \in Thread, Hit(t) PROVE Attachment' /\ CountsExact'
    <2> DEFINE p == proj[t]
    <2>1. graph[t] = "none" /\ p \in projects /\ p \in Project
      BY <1>0, <1>3 DEF Hit, Control, Holding, TypeOK
    <2>2. /\ graph' = [graph EXCEPT ![t] = "shared"]
          /\ active' = [active EXCEPT ![p] = Inc(active[p])]
          /\ UNCHANGED <<projects, proj, skewed>>
      BY <1>3 DEF Hit
    <2>3. graph'[t] = "shared" /\ \A u \in Thread \ {t} : graph'[u] = graph[u]
      BY <1>0, <2>2 DEF TypeOK
    <2>4. Users(p)' = Users(p) \cup {t} /\ t \notin Users(p)
      BY <2>1, <2>2, <2>3 DEF Users
    <2>5. \A q : q # p => Users(q)' = Users(q)
      BY <2>2, <2>3 DEF Users
    <2>6. active'[p] = Inc(active[p]) /\ \A q \in Project \ {p} : active'[q] = active[q]
      BY <1>0, <2>1, <2>2 DEF TypeOK
    <2>7. Attachment'
      BY <1>0, <2>1, <2>2, <2>3 DEF Attachment
    <2>8. ASSUME NEW q \in projects', ~skewed'[q] PROVE active'[q] = Cardinality(Users(q)')
      <3>1. CASE q = p
        BY <1>0, <2>2, <2>4, <2>6, <2>8, <3>1, UsersJoin DEF CountsExact
      <3>2. CASE q # p
        BY <1>0, <2>2, <2>5, <2>6, <2>8, <3>2 DEF CountsExact, TypeOK
      <3>3. QED
        BY <3>1, <3>2
    <2>9. QED
      BY <2>7, <2>8 DEF CountsExact
  <1>4. ASSUME NEW t \in Thread, Miss(t) PROVE Attachment' /\ CountsExact'
    BY <1>0, <1>4, DropCounts DEF Miss
  <1>5. ASSUME NEW t \in Thread, BuildFails(t) PROVE Attachment' /\ CountsExact'
    <2>1. graph[t] = "none"
      BY <1>0, <1>5 DEF BuildFails, Control, Holding
    <2>2. graph'[t] = "none" /\ \A u \in Thread \ {t} : proj'[u] = proj[u] /\ graph'[u] = graph[u]
      BY <1>0, <1>5 DEF BuildFails, Leave, TypeOK
    <2>3. UNCHANGED <<projects, active, skewed>>
      BY <1>5 DEF BuildFails
    <2>4. QED
      BY <1>0, <2>1, <2>2, <2>3, IdleCounts
  <1>6. ASSUME NEW t \in Thread, BuildSucceeds(t) PROVE Attachment' /\ CountsExact'
    <2>0. PICK p \in Project : p = proj[t]
      BY <1>0, <1>6 DEF BuildSucceeds, Control
    <2>1. graph[t] = "none" /\ p \notin projects
      BY <1>0, <1>6, <2>0 DEF BuildSucceeds, Control, Holding, SingleFlight
    <2>2. /\ graph' = [graph EXCEPT ![t] = "shared"]
          /\ active' = [active EXCEPT ![p] = 1]
          /\ projects' = projects \cup {p}
          /\ UNCHANGED <<proj, skewed>>
      BY <1>6, <2>0 DEF BuildSucceeds
    <2>3. graph'[t] = "shared" /\ \A u \in Thread \ {t} : graph'[u] = graph[u]
      BY <1>0, <2>2 DEF TypeOK
    <2>4. Users(p)' = {t}
      BY <1>0, <2>0, <2>1, <2>2, <2>3 DEF Users, Attachment
    <2>5. \A q : q # p => Users(q)' = Users(q)
      BY <2>0, <2>2, <2>3 DEF Users
    <2>6. active'[p] = 1 /\ \A q \in Project \ {p} : active'[q] = active[q]
      BY <1>0, <2>1, <2>2 DEF TypeOK
    <2>7. Attachment'
      BY <1>0, <2>0, <2>1, <2>2, <2>3 DEF Attachment
    <2>8. ASSUME NEW q \in projects', ~skewed'[q] PROVE active'[q] = Cardinality(Users(q)')
      <3>1. CASE q = p
        BY <2>4, <2>6, <3>1, FS_Singleton
      <3>2. CASE q # p
        BY <1>0, <2>2, <2>5, <2>6, <2>8, <3>2 DEF CountsExact, TypeOK
      <3>3. QED
        BY <3>1, <3>2
    <2>9. QED
      BY <2>7, <2>8 DEF CountsExact
  <1>7. ASSUME NEW a \in Actor, PersistVictim(a) PROVE Attachment' /\ CountsExact'
    BY <1>0, <1>7, SameCounts DEF PersistVictim
  <1>8. ASSUME NEW t \in Thread, EvictForCap(t) PROVE Attachment' /\ CountsExact'
    BY <1>0, <1>8, DropCounts DEF EvictForCap, RemoveVictims
  <1>9. ASSUME NEW t \in Thread, EnforceByteBudget(t) PROVE Attachment' /\ CountsExact'
    BY <1>0, <1>9, SameCounts DEF EnforceByteBudget
  <1>10. ASSUME NEW t \in Thread, EvictForBudget(t) PROVE Attachment' /\ CountsExact'
    BY <1>0, <1>10, DropCounts DEF EvictForBudget, RemoveVictims
  <1>11. ASSUME NEW t \in Thread, Mutate(t) PROVE Attachment' /\ CountsExact'
    BY <1>0, <1>11, SameCounts DEF Mutate
  <1>12. ASSUME NEW t \in Thread, MarkDirty(t) PROVE Attachment' /\ CountsExact'
    BY <1>0, <1>12, SameCounts DEF MarkDirty
  <1>13. ASSUME NEW t \in Thread, Answer(t) PROVE Attachment' /\ CountsExact'
    BY <1>0, <1>13, SameCounts DEF Answer
  <1>14. ASSUME NEW t \in Thread, AnswerReload(t) PROVE Attachment' /\ CountsExact'
    <2> DEFINE p == proj[t]
    <2>1. p \in Project
      BY <1>0, <1>14 DEF AnswerReload, Control
    <2>2. /\ graph'[t] = "none"
          /\ \A u \in Thread \ {t} : proj'[u] = proj[u] /\ graph'[u] = graph[u]
          /\ skewed' = [skewed EXCEPT ![p] = TRUE]
          /\ UNCHANGED <<projects, active>>
      BY <1>0, <1>14 DEF AnswerReload, Leave, TypeOK
    <2>3. skewed'[p] = TRUE /\ \A q \in Project \ {p} : skewed'[q] = skewed[q]
      BY <1>0, <2>1, <2>2 DEF TypeOK
    <2>4. \A q : q # p => Users(q)' = Users(q)
      BY <2>2 DEF Users
    <2>5. ASSUME NEW u \in Thread
          PROVE  /\ graph'[u] = "shared" => proj'[u] \in projects'
                 /\ graph'[u] = "detached" => skewed'[proj'[u]]
      <3>1. CASE u = t
        BY <2>2, <3>1
      <3>2. CASE u # t
        <4>1. graph[u] # "none" => proj[u] \in Project
          BY <1>0 DEF Control, Holding
        <4>2. QED
          BY <1>0, <2>2, <2>3, <3>2, <4>1 DEF Attachment
      <3>3. QED
        BY <3>1, <3>2
    <2>6. ASSUME NEW q \in projects', ~skewed'[q] PROVE active'[q] = Cardinality(Users(q)')
      BY <1>0, <2>2, <2>3, <2>4, <2>6 DEF CountsExact, TypeOK
    <2>7. QED
      BY <2>5, <2>6 DEF Attachment, CountsExact
  <1>15. ASSUME NEW t \in Thread, Release(t) PROVE Attachment' /\ CountsExact'
    <2>0. PICK p \in Project : p = proj[t]
      BY <1>0, <1>15 DEF Release, Control
    <2>1. graph[t] \in {"shared", "detached"}
      BY <1>0, <1>15 DEF Release, Control, Holding, TypeOK
    <2>2. /\ graph'[t] = "none"
          /\ \A u \in Thread \ {t} : proj'[u] = proj[u] /\ graph'[u] = graph[u]
          /\ active' = [active EXCEPT ![p] = IF p \in projects THEN Dec(active[p]) ELSE active[p]]
          /\ UNCHANGED <<projects, skewed>>
      BY <1>0, <1>15, <2>0 DEF Release, Leave, TypeOK
    <2>3. \A q : q # p => Users(q)' = Users(q)
      BY <2>0, <2>2 DEF Users
    <2>4. Attachment'
      BY <1>0, <2>2 DEF Attachment
    <2>5. \A q \in Project \ {p} : active'[q] = active[q]
      BY <1>0, <2>2 DEF TypeOK
    <2>6. ASSUME NEW q \in projects', ~skewed'[q] PROVE active'[q] = Cardinality(Users(q)')
      <3>1. CASE q # p
        BY <1>0, <2>2, <2>3, <2>5, <2>6, <3>1 DEF CountsExact, TypeOK
      <3>2. CASE q = p
        <4>1. graph[t] = "shared"
          BY <1>0, <2>0, <2>1, <2>2, <2>6, <3>2 DEF Attachment
        <4>2. t \in Users(p) /\ Users(p)' = Users(p) \ {t}
          BY <2>0, <2>2, <4>1 DEF Users
        <4>3. active'[p] = Dec(active[p])
          BY <1>0, <2>1, <2>2, <2>6, <3>2 DEF TypeOK
        <4>4. active[p] = Cardinality(Users(p))
          BY <1>0, <2>2, <2>6, <3>2 DEF CountsExact
        <4>5. QED
          BY <3>2, <4>2, <4>3, <4>4, UsersLeave
      <3>3. QED
        BY <3>1, <3>2
    <2>7. QED
      BY <2>4, <2>6 DEF CountsExact
  <1>16. CASE SweepSelect
    BY <1>0, <1>16, SameCounts DEF SweepSelect
  <1>17. CASE SweepRemove
    BY <1>0, <1>17, DropCounts DEF SweepRemove, RemoveVictims
  <1>18. ASSUME NEW p \in Project, GrowIdle(p) PROVE Attachment' /\ CountsExact'
    BY <1>0, <1>18, SameCounts DEF GrowIdle
  <1>19. ASSUME NEW p \in Project, Edit(p) PROVE Attachment' /\ CountsExact'
    BY <1>0, <1>19, SameCounts DEF Edit
  <1>20. CASE UNCHANGED vars
    BY <1>0, <1>20, SameCounts DEF vars
  <1>21. QED
    BY <1>1, <1>2, <1>3, <1>4, <1>5, <1>6, <1>7, <1>8, <1>9, <1>10, <1>11, <1>12, <1>13, <1>14, <1>15, <1>16, <1>17, <1>18, <1>19, <1>20
    DEF Next, Serve, GetOrLoad, Evict, Finish, Sweep

LEMMA CountInvariant == Spec => []CountInv
  <1>1. Init => CountInv
    BY GateInit DEF CountInv, Init, Attachment, CountsExact
  <1>2. CountInv /\ [Next]_vars => CountInv'
    BY GateNext, CountNext DEF CountInv
  <1>3. QED
    BY <1>1, <1>2, PTL DEF Spec

\* active_queries is the number of threads that use the resident graph, for
\* any number of threads below the word size, until a stale entry is dropped
\* under its users or reload_project keeps its count.
THEOREM CountsExactHolds == Spec => []CountsExact
  BY CountInvariant, PTL DEF CountInv

-----------------------------------------------------------------------------
(* The LRU list.                                                           *)

\* The list names the resident projects, each once.
LruInv ==
  /\ lru \in Seq(Project)
  /\ IsInjective(lru)
  /\ ToSet(lru) = projects

Rank(D, i) == Cardinality({j \in D : j <= i})

\* The members of a finite set of numbers have the ranks 1, 2, ..., in order.
LEMMA Ranks ==
  ASSUME NEW D, D \subseteq Nat, IsFiniteSet(D)
  PROVE  /\ Cardinality(D) \in Nat
         /\ \A i \in D : Rank(D, i) \in 1..Cardinality(D)
         /\ \A i, j \in D : i < j => Rank(D, i) < Rank(D, j)
         /\ \A k \in 1..Cardinality(D) : \E i \in D : Rank(D, i) = k
  <1> DEFINE Low(i) == {j \in D : j <= i}
             n == Cardinality(D)
  <1>1. n \in Nat
    BY FS_CardinalityType
  <1>2. \A i \in D : IsFiniteSet(Low(i)) /\ Cardinality(Low(i)) \in Nat /\ Cardinality(Low(i)) <= n
    BY FS_Subset, FS_CardinalityType
  <1>3. ASSUME NEW i \in D PROVE Rank(D, i) \in 1..n
    <2>1. i \in Low(i)
      OBVIOUS
    <2>2. Cardinality(Low(i)) # 0
      <3>1. IsFiniteSet(Low(i)) /\ Low(i) # {}
        BY <1>2, <2>1
      <3> HIDE DEF Low
      <3>2. QED
        BY <3>1, FS_EmptySet
    <2> HIDE DEF Low, n
    <2>3. Rank(D, i) = Cardinality(Low(i))
      BY DEF Rank, Low
    <2>4. QED
      BY <1>1, <1>2, <2>2, <2>3
  <1>4. ASSUME NEW i \in D, NEW j \in D, i < j PROVE Rank(D, i) < Rank(D, j)
    <2>1. Low(i) \in SUBSET Low(j) /\ Low(i) # Low(j)
      <3>1. i \in Nat /\ j \in Nat /\ \A x \in D : x \in Nat
        OBVIOUS
      <3>2. j \in Low(j) /\ j \notin Low(i)
        BY <1>4, <3>1
      <3>3. \A x \in Low(i) : x \in Low(j)
        BY <1>4, <3>1
      <3>4. QED
        BY <3>2, <3>3
    <2>2. Cardinality(Low(i)) <= Cardinality(Low(j)) /\ Cardinality(Low(i)) # Cardinality(Low(j))
      BY <1>2, <2>1, FS_Subset
    <2> HIDE DEF Low
    <2>3. Rank(D, i) = Cardinality(Low(i)) /\ Rank(D, j) = Cardinality(Low(j))
      BY DEF Rank, Low
    <2>4. QED
      BY <1>2, <2>2, <2>3
  <1> DEFINE r == [i \in D |-> Rank(D, i)]
  <1>5. r \in Injection(D, 1..n)
    <2>1. r \in [D -> 1..n]
      BY <1>3
    <2>2. ASSUME NEW i \in D, NEW j \in D, r[i] = r[j] PROVE i = j
      <3>1. i \in Nat /\ j \in Nat /\ Rank(D, i) = Rank(D, j)
        BY <2>2
      <3>2. Rank(D, i) \in Nat /\ Rank(D, j) \in Nat
        BY <1>1, <1>3
      <3>3. ~ i < j /\ ~ j < i
        BY <1>4, <3>1, <3>2
      <3>4. QED
        BY <3>1, <3>3
    <2>3. QED
      BY <2>1, <2>2 DEF Injection, IsInjective
  <1>6. IsFiniteSet(1..n) /\ Cardinality(1..n) = n
    BY <1>1, FS_Interval
  <1>7. r \in Surjection(D, 1..n)
    BY <1>5, <1>6, FS_Injection
  <1>8. \A k \in 1..n : \E i \in D : Rank(D, i) = k
    BY <1>7 DEF Surjection
  <1>9. QED
    BY <1>1, <1>3, <1>4, <1>8

LEMMA AppendIs ==
  ASSUME NEW X, NEW s \in Seq(X), NEW x \in X
  PROVE  /\ Append(s, x) \in Seq(X)
         /\ ToSet(Append(s, x)) = ToSet(s) \cup {x}
         /\ IsInjective(s) /\ x \notin ToSet(s) => IsInjective(Append(s, x))
  <1>1. /\ Append(s, x) \in Seq(X) /\ DOMAIN Append(s, x) = 1..(Len(s) + 1)
        /\ DOMAIN s = 1..Len(s) /\ Len(s) \in Nat
        /\ \A j \in 1..Len(s) : Append(s, x)[j] = s[j]
        /\ Append(s, x)[Len(s) + 1] = x
    OBVIOUS
  <1>2. ToSet(Append(s, x)) = ToSet(s) \cup {x}
    BY <1>1 DEF ToSet
  <1>3. ASSUME IsInjective(s), x \notin ToSet(s) PROVE IsInjective(Append(s, x))
    BY <1>1, <1>3 DEF IsInjective, ToSet
  <1>4. QED
    BY <1>1, <1>2, <1>3

\* Without leaves what is not in the set, once.
LEMMA WithoutIs ==
  ASSUME NEW s \in Seq(Project), IsInjective(s), NEW S
  PROVE  /\ Without(s, S) \in Seq(Project) /\ IsInjective(Without(s, S))
         /\ ToSet(Without(s, S)) = ToSet(s) \ S
  <1> DEFINE D == {i \in DOMAIN s : s[i] \notin S}
             n == Cardinality(D)
             at(k) == CHOOSE i \in D : Rank(D, i) = k
             w == [k \in 1..n |-> s[at(k)]]
  <1>1. DOMAIN s = 1..Len(s) /\ Len(s) \in Nat /\ \A i \in DOMAIN s : s[i] \in Project
    OBVIOUS
  <1>2. D \subseteq Nat /\ IsFiniteSet(D)
    <2>1. IsFiniteSet(1..Len(s)) /\ D \in SUBSET (1..Len(s))
      BY <1>1, FS_Interval
    <2>2. QED
      BY <2>1, FS_Subset
  <1>3. /\ n \in Nat
        /\ \A i \in D : Rank(D, i) \in 1..n
        /\ \A i, j \in D : i < j => Rank(D, i) < Rank(D, j)
        /\ \A k \in 1..n : \E i \in D : Rank(D, i) = k
    <2> HIDE DEF D
    <2>1. QED
      BY <1>2, Ranks
  <1>4. Without(s, S) = w
    BY DEF Without, Rank
  <1>5. \A k \in 1..n : at(k) \in D /\ Rank(D, at(k)) = k
    BY <1>3
  <1>6. \A i, j \in D : Rank(D, i) = Rank(D, j) => i = j
    <2> HIDE DEF D, n
    <2>1. ASSUME NEW i \in D, NEW j \in D, Rank(D, i) = Rank(D, j) PROVE i = j
      <3>1. i \in Nat /\ j \in Nat /\ Rank(D, i) \in Nat /\ Rank(D, j) \in Nat
        BY <1>2, <1>3
      <3>2. ~ i < j /\ ~ j < i
        BY <1>3, <2>1, <3>1
      <3>3. QED
        BY <3>1, <3>2
    <2>2. QED
      BY <2>1
  <1>7. \A i \in D : Rank(D, i) \in 1..n /\ at(Rank(D, i)) = i
    BY <1>3, <1>5, <1>6
  <1>8. \A i : i \in D <=> i \in DOMAIN s /\ s[i] \notin S
    OBVIOUS
  <1> HIDE DEF D, n, at
  <1>9. \A k \in 1..n : at(k) \in DOMAIN s /\ w[k] = s[at(k)] /\ w[k] \in Project \ S
    BY <1>1, <1>5, <1>8
  <1>10. w \in Seq(Project) /\ DOMAIN w = 1..n
    BY <1>3, <1>9
  <1>11. IsInjective(w)
    <2>1. ASSUME NEW k \in 1..n, NEW l \in 1..n, w[k] = w[l] PROVE k = l
      <3>1. at(k) = at(l)
        BY <1>9, <2>1 DEF IsInjective
      <3>2. QED
        BY <1>5, <3>1
    <2>2. QED
      BY <1>10, <2>1 DEF IsInjective
  <1>12. ToSet(w) = ToSet(s) \ S
    <2>1. \A k \in 1..n : w[k] \in ToSet(s) \ S
      BY <1>9 DEF ToSet
    <2>2. ASSUME NEW x \in ToSet(s) \ S PROVE \E k \in 1..n : w[k] = x
      <3>1. PICK i \in DOMAIN s : s[i] = x
        BY DEF ToSet
      <3>2. i \in D
        BY <1>8, <3>1
      <3>3. QED
        BY <1>7, <3>1, <3>2
    <2>3. ToSet(w) = {w[k] : k \in 1..n}
      <3> HIDE DEF w
      <3>1. QED
        BY <1>10 DEF ToSet
    <2> HIDE DEF w
    <2>4. QED
      BY <2>1, <2>2, <2>3
  <1>13. QED
    BY <1>4, <1>10, <1>11, <1>12

\* record_access moves a project to the end, or appends a new one.
LEMMA TouchedIs ==
  ASSUME NEW s \in Seq(Project), IsInjective(s), NEW p \in Project
  PROVE  /\ Touched(s, p) \in Seq(Project) /\ IsInjective(Touched(s, p))
         /\ ToSet(Touched(s, p)) = ToSet(s) \cup {p}
  <1>1. PICK w : w = Without(s, {p})
    OBVIOUS
  <1>2. w \in Seq(Project) /\ IsInjective(w) /\ ToSet(w) = ToSet(s) \ {p}
    BY <1>1, WithoutIs
  <1>3. Touched(s, p) = Append(w, p)
    BY <1>1 DEF Touched
  <1>4. QED
    BY <1>2, <1>3, AppendIs

LEMMA DropKeepsLru ==
  ASSUME LruInv, NEW S, Drop(S)
  PROVE  LruInv'
  <1>1. lru' = Without(lru, S) /\ projects' = projects \ S
    BY DEF Drop
  <1>2. PICK s : s = lru /\ s \in Seq(Project) /\ IsInjective(s) /\ ToSet(s) = projects
    BY DEF LruInv
  <1>3. PICK r : r = Without(s, S)
    OBVIOUS
  <1>4. r \in Seq(Project) /\ IsInjective(r) /\ ToSet(r) = projects \ S
    BY <1>2, <1>3, WithoutIs
  <1>5. lru' = r /\ projects' = projects \ S
    BY <1>1, <1>2, <1>3
  <1>6. QED
    BY <1>4, <1>5 DEF LruInv

LEMMA LruNext == GateInv /\ LruInv /\ [Next]_vars => LruInv'
  <1> SUFFICES ASSUME GateInv, LruInv, [Next]_vars PROVE LruInv'
    OBVIOUS
  <1>0. TypeOK /\ Control
    BY DEF GateInv
  <1>1. ASSUME UNCHANGED <<projects, lru>> PROVE LruInv'
    BY <1>1 DEF LruInv
  <1>2. ASSUME NEW t \in Thread, Hit(t) PROVE LruInv'
    <2>1. PICK p \in projects : lru' = Touched(lru, p) /\ projects' = projects
      BY <1>2 DEF Hit
    <2>2. p \in Project
      BY <1>0, <2>1 DEF TypeOK
    <2>3. PICK s : s = lru /\ s \in Seq(Project) /\ IsInjective(s) /\ ToSet(s) = projects
      BY DEF LruInv
    <2>4. PICK r : r = Touched(s, p)
      OBVIOUS
    <2>5. r \in Seq(Project) /\ IsInjective(r) /\ ToSet(r) = projects \cup {p}
      BY <2>2, <2>3, <2>4, TouchedIs
    <2>6. lru' = r /\ projects' = projects \cup {p}
      BY <2>1, <2>3, <2>4
    <2>7. QED
      BY <2>5, <2>6 DEF LruInv
  <1>3. ASSUME NEW t \in Thread, BuildSucceeds(t) PROVE LruInv'
    <2>1. PICK p : p = proj[t] /\ lru' = Touched(lru, p) /\ projects' = projects \cup {p}
      BY <1>3 DEF BuildSucceeds
    <2>2. p \in Project
      BY <1>0, <1>3, <2>1 DEF Control, BuildSucceeds
    <2>3. PICK s : s = lru /\ s \in Seq(Project) /\ IsInjective(s) /\ ToSet(s) = projects
      BY DEF LruInv
    <2>4. PICK r : r = Touched(s, p)
      OBVIOUS
    <2>5. r \in Seq(Project) /\ IsInjective(r) /\ ToSet(r) = projects \cup {p}
      BY <2>2, <2>3, <2>4, TouchedIs
    <2>6. lru' = r /\ projects' = projects \cup {p}
      BY <2>1, <2>3, <2>4
    <2>7. QED
      BY <2>5, <2>6 DEF LruInv
  <1>4. ASSUME NEW t \in Thread, Unload(t) \/ Miss(t) PROVE LruInv'
    <2>1. \E S : Drop(S)
      BY <1>4 DEF Unload, Miss
    <2>2. QED
      BY <2>1, DropKeepsLru
  <1>5. ASSUME NEW a \in Actor, NEW next, RemoveVictims(a, next) PROVE LruInv'
    BY <1>5, DropKeepsLru DEF RemoveVictims
  <1>6. ASSUME NEW t \in Thread, EvictForCap(t) \/ EvictForBudget(t) PROVE LruInv'
    BY <1>5, <1>6 DEF EvictForCap, EvictForBudget
  <1>7. CASE SweepRemove
    BY <1>5, <1>7 DEF SweepRemove
  <1>8. ASSUME NEW t \in Thread,
               Receive(t) \/ BuildFails(t) \/ EnforceByteBudget(t) \/ Finish(t)
        PROVE  LruInv'
    BY <1>1, <1>8 DEF Receive, BuildFails, EnforceByteBudget, Finish, Mutate, MarkDirty, Answer,
                      AnswerReload, Release
  <1>9. ASSUME NEW a \in Actor, PersistVictim(a) PROVE LruInv'
    BY <1>1, <1>9 DEF PersistVictim
  <1>10. CASE SweepSelect
    BY <1>1, <1>10 DEF SweepSelect
  <1>11. ASSUME NEW p \in Project, GrowIdle(p) \/ Edit(p) PROVE LruInv'
    BY <1>1, <1>11 DEF GrowIdle, Edit
  <1>12. CASE UNCHANGED vars
    BY <1>1, <1>12 DEF vars
  <1>13. QED
    BY <1>2, <1>3, <1>4, <1>6, <1>7, <1>8, <1>9, <1>10, <1>11, <1>12
    DEF Next, Serve, GetOrLoad, Evict, Sweep

LEMMA LruInit == Init => LruInv
  BY DEF Init, LruInv, IsInjective, ToSet

\* Every entry of the map is in the list that victims are taken from, once,
\* and the list names no other project.
THEOREM LruMatchesProjectsHolds == Spec => []LruMatchesProjects
  <1>1. LruInv => LruMatchesProjects
    <2> SUFFICES ASSUME LruInv PROVE LruMatchesProjects
      OBVIOUS
    <2>1. PICK n \in Nat : n = Len(lru) /\ DOMAIN lru = 1..n /\ lru \in [1..n -> Project]
      BY DEF LruInv
    <2>2. {lru[i] : i \in 1..n} = projects
      BY <2>1 DEF LruInv, ToSet
    <2>3. lru \in Surjection(1..n, projects) /\ lru \in Injection(1..n, projects)
      <3>1. lru \in [1..n -> projects] /\ \A p \in projects : \E i \in 1..n : lru[i] = p
        BY <2>1, <2>2
      <3>2. \A i, j \in 1..n : lru[i] = lru[j] => i = j
        BY <2>1 DEF LruInv, IsInjective
      <3>3. QED
        BY <3>1, <3>2 DEF Surjection, Injection, IsInjective
    <2>4. IsFiniteSet(1..n) /\ Cardinality(1..n) = n
      BY FS_Interval
    <2>5. Cardinality(projects) = n
      BY <2>3, <2>4, FS_Surjection
    <2>6. QED
      BY <2>1, <2>2, <2>5 DEF LruMatchesProjects
  <1>2. QED
    BY <1>1, LruInit, LruNext, GateInvariant, PTL DEF Spec

-----------------------------------------------------------------------------
(* Eviction.                                                               *)

\* Re-checking active_queries under the lock is enough, however long the
\* snapshots took to write.
LEMMA RemoveSparesUsers ==
  ASSUME CountInv, NEW b \in Actor, NEW next, RemoveVictims(b, next),
         NEW a \in Actor, NEW p \in projects,
         victims[a] # {}, victims'[a] = {}, p \notin projects', ~skewed[p]
  PROVE  Users(p) = {}
  <1>1. p \in Removed(b)
    BY DEF RemoveVictims, Drop
  <1>2. active[p] = 0
    BY <1>1 DEF Removed, Evictable
  <1>3. Cardinality(Users(p)) = 0
    BY <1>2 DEF CountInv, CountsExact
  <1>4. QED
    BY <1>3, UsersFinite, FS_EmptySet

\* What LRU, byte-budget and idle eviction take out of the map after the
\* unlocked snapshot write is used by no request, for any number of them.
THEOREM EvictedUnusedHolds == Spec => EvictedUnused
  <1>1. CountInv /\ [Next]_vars =>
        [\A a \in Actor, p \in projects :
           victims[a] # {} /\ victims'[a] = {} /\ p \notin projects' /\ ~skewed[p]
             => Users(p) = {}]_vars
    <2> SUFFICES ASSUME CountInv, Next, NEW a \in Actor, NEW p \in projects,
                        victims[a] # {}, victims'[a] = {}, p \notin projects', ~skewed[p]
                 PROVE  Users(p) = {}
      OBVIOUS
    <2>1. TypeOK
      BY DEF CountInv, GateInv
    <2>2. ASSUME NEW t \in Thread, EvictForCap(t) PROVE Users(p) = {}
      BY <2>2, RemoveSparesUsers DEF EvictForCap
    <2>3. ASSUME NEW t \in Thread, EvictForBudget(t) PROVE Users(p) = {}
      BY <2>3, RemoveSparesUsers DEF EvictForBudget
    <2>4. CASE SweepRemove
      BY <2>4, RemoveSparesUsers DEF SweepRemove
    <2>5. ASSUME NEW t \in Thread, BuildSucceeds(t) PROVE FALSE
      BY <2>5 DEF BuildSucceeds
    <2>6. ASSUME NEW t \in Thread, EnforceByteBudget(t) PROVE FALSE
      BY <2>6 DEF EnforceByteBudget
    <2>7. ASSUME NEW t \in Thread, Receive(t) \/ Unload(t) \/ Hit(t) \/ Miss(t) \/ BuildFails(t)
          PROVE FALSE
      BY <2>7 DEF Receive, Unload, Hit, Miss, BuildFails
    <2>8. ASSUME NEW t \in Thread, Finish(t) PROVE FALSE
      BY <2>8 DEF Finish, Mutate, MarkDirty, Answer, AnswerReload, Release
    <2>9. ASSUME NEW b \in Actor, PersistVictim(b) PROVE FALSE
      BY <2>9 DEF PersistVictim
    <2>10. CASE SweepSelect
      BY <2>10 DEF SweepSelect
    <2>11. ASSUME NEW q \in Project, GrowIdle(q) \/ Edit(q) PROVE FALSE
      BY <2>11 DEF GrowIdle, Edit
    <2>12. QED
      BY <2>2, <2>3, <2>4, <2>5, <2>6, <2>7, <2>8, <2>9, <2>10, <2>11
      DEF Next, Serve, GetOrLoad, Evict, Sweep
  <1>2. QED
    BY <1>1, CountInvariant, PTL DEF Spec, EvictedUnused

-----------------------------------------------------------------------------
(* The refinement of LeasedCache.                                          *)

\* What Attachment is for: who holds a project's graph in LeasedCache are the
\* users active_queries counts.
LEMMA HoldersAreUsers ==
  ASSUME NEW p
  PROVE  Cache!Holders(p) = Users(p)
  BY DEF Cache!Holders, Users

LEMMA CacheInit == Init => Cache!Init
  BY DEF Init, Cache!Init

\* A drop of entries is what LeasedCache calls Forget.
LEMMA DropForgets ==
  ASSUME TypeOK, NEW S \in SUBSET Project, Drop(S), proj' = proj
  PROVE  Cache!Forget(S)
  <1>1. projects' = projects \ S
    BY DEF Drop
  <1>2. ASSUME NEW t \in Thread
        PROVE  (IF graph'[t] = "shared" THEN {proj'[t]} ELSE {})
                 = (IF graph[t] = "shared" THEN {proj[t]} ELSE {}) \ S
    <2>1. graph'[t] = IF graph[t] = "shared" /\ proj[t] \in S THEN "detached" ELSE graph[t]
      BY DEF Drop
    <2>2. QED
      BY <2>1
  <1>3. {p \in Project : skewed'[p]}
          = {p \in Project : skewed[p]} \cup {p \in S : Users(p) # {}}
    BY DEF Drop
  <1>4. QED
    BY <1>1, <1>2, <1>3, HoldersAreUsers DEF Cache!Forget
\* A step that changes neither the map nor its users is a stutter, and so is
\* one of a thread that has no graph before it or after it.
LEMMA SameCache ==
  ASSUME UNCHANGED <<projects, loading, skewed>>,
         \A t \in Thread : \/ proj'[t] = proj[t] /\ graph'[t] = graph[t]
                           \/ graph[t] = "none" /\ graph'[t] = "none"
  PROVE  UNCHANGED Cache!vars
  <1>1. \A t \in Thread : (IF graph'[t] = "shared" THEN {proj'[t]} ELSE {})
                            = (IF graph[t] = "shared" THEN {proj[t]} ELSE {})
    OBVIOUS
  <1>2. QED
    BY <1>1 DEF Cache!vars

\* quiesce_and_remove is Reclaim: what still_evictable lets it take has no
\* user, or is torn.
LEMMA RemoveReclaims ==
  ASSUME CountInv, NEW a \in Actor, NEW next, RemoveVictims(a, next)
  PROVE  Cache!Reclaim
  <1>1. TypeOK /\ CountsExact
    BY DEF CountInv, GateInv
  <1>2. PICK S : S = Removed(a)
    OBVIOUS
  <1>3. S \in SUBSET projects /\ S \in SUBSET Project
    BY <1>1, <1>2 DEF Removed, TypeOK
  <1>4. Drop(S) /\ UNCHANGED <<proj, loading>>
    BY <1>2 DEF RemoveVictims
  <1>5. Cache!Forget(S)
    BY <1>1, <1>3, <1>4, DropForgets
  <1>6. ASSUME NEW p \in S, ~skewed[p]
        PROVE  Users(p) = {}
    <2>1. active[p] = 0 /\ p \in projects
      BY <1>2 DEF Removed, Evictable
    <2>2. Cardinality(Users(p)) = 0
      BY <1>1, <1>6, <2>1 DEF CountsExact
    <2>3. QED
      BY <2>2, UsersFinite, FS_EmptySet
  <1>7. \A p \in S : p \in {q \in Project : skewed[q]} \/ Cache!Holders(p) = {}
    BY <1>3, <1>6, HoldersAreUsers
  <1>8. QED
    BY <1>3, <1>4, <1>5, <1>7 DEF Cache!Reclaim

\* A thread without a graph that drops its project, or finds none to drop.
LEMMA DropRefreshes ==
  ASSUME CountInv, NEW t \in Thread, NEW p \in Project, p = proj[t], graph[t] = "none",
         NEW S \in SUBSET Project, Drop(S), proj' = proj,
         S = {p} \/ (S = {} /\ p \notin projects),
         \/ UNCHANGED loading
         \/ /\ loading[p] = NoThread
            /\ loading' = [loading EXCEPT ![p] = t]
  PROVE  Cache!Refresh(t, p)
  <1>1. TypeOK /\ Attachment
    BY DEF CountInv, GateInv
  <1>2. Cache!Forget(S)
    BY <1>1, DropForgets
  <1>3. Cache!Forget({p})
    <2>1. CASE S = {p}
      BY <1>2, <2>1
    <2>2. CASE S = {} /\ p \notin projects
      <3>1. \A u \in Thread : p \notin (IF graph[u] = "shared" THEN {proj[u]} ELSE {})
        BY <1>1, <2>2 DEF Attachment
      <3>2. Cache!Holders(p) = {}
        BY <3>1 DEF Cache!Holders
      <3>3. projects' = projects \ {p}
        BY <2>2 DEF Drop
      <3>4. \A u \in Thread : (IF graph'[u] = "shared" THEN {proj'[u]} ELSE {})
                                = (IF graph[u] = "shared" THEN {proj[u]} ELSE {}) \ {p}
        <4>1. \A u \in Thread : graph'[u] = graph[u]
          BY <2>2 DEF Drop
        <4>2. QED
          BY <3>1, <4>1
      <3>5. \A q \in Project : skewed'[q] = skewed[q]
        BY <1>1, <2>2 DEF Drop, TypeOK
      <3>6. {q \in Project : skewed'[q]} = {q \in Project : skewed[q]} \cup {q \in {p} : Cache!Holders(q) # {}}
        BY <3>2, <3>5
      <3>7. QED
        BY <3>3, <3>4, <3>6 DEF Cache!Forget
    <2>3. QED
      BY <2>1, <2>2
  <1>4. QED
    BY <1>3 DEF Cache!Refresh

\* Every step of the manager is a step of LeasedCache or a stutter.
LEMMA CacheStep == CountInv /\ [Next]_vars => [Cache!Next]_Cache!vars
  <1> SUFFICES ASSUME CountInv, [Next]_vars PROVE [Cache!Next]_Cache!vars
    OBVIOUS
  <1>0. TypeOK /\ Control /\ SingleFlight /\ Attachment
    BY DEF CountInv, GateInv
  <1>1. ASSUME NEW t \in Thread, Receive(t) PROVE UNCHANGED Cache!vars
    <2>1. graph[t] = "none"
      BY <1>0, <1>1 DEF Receive, Control, Holding
    <2>2. \A u \in Thread \ {t} : proj'[u] = proj[u]
      BY <1>0, <1>1 DEF Receive, TypeOK
    <2>3. UNCHANGED <<graph, projects, loading, skewed>>
      BY <1>1 DEF Receive
    <2>4. QED
      BY <2>1, <2>2, <2>3, SameCache
  <1>2. ASSUME NEW t \in Thread, Unload(t) PROVE Cache!Next
    <2>1. PICK p \in Project : p = proj[t]
      BY <1>0, <1>2 DEF Unload, Control
    <2>2. graph[t] = "none" /\ UNCHANGED <<proj, loading>>
      BY <1>0, <1>2 DEF Unload, Control, Holding
    <2>3. PICK S : S = {p}
      OBVIOUS
    <2>4. Drop(S)
      BY <1>2, <2>1, <2>3 DEF Unload, Drop
    <2>5. Cache!Refresh(t, p)
      BY <2>1, <2>2, <2>3, <2>4, DropRefreshes
    <2>6. QED
      BY <2>1, <2>5 DEF Cache!Next
  <1>3. ASSUME NEW t \in Thread, Hit(t) PROVE Cache!Next
    <2>0. PICK p \in Project : p = proj[t]
      BY <1>0, <1>3 DEF Hit, Control
    <2>1. graph[t] = "none" /\ p \in projects
      BY <1>0, <1>3, <2>0 DEF Hit, Control, Holding
    <2>2. /\ graph' = [graph EXCEPT ![t] = "shared"]
          /\ UNCHANGED <<projects, loading, proj, skewed>>
      BY <1>3 DEF Hit
    <2>3. graph'[t] = "shared" /\ \A u \in Thread \ {t} : graph'[u] = graph[u]
      BY <1>0, <2>2 DEF TypeOK
    <2>4. Cache!Borrow(t, p)
      BY <2>0, <2>1, <2>2, <2>3 DEF Cache!Borrow
    <2>5. QED
      BY <2>0, <2>4 DEF Cache!Next
  <1>4. ASSUME NEW t \in Thread, Miss(t) PROVE [Cache!Next]_Cache!vars
    <2>1. PICK p \in Project : p = proj[t]
      BY <1>0, <1>4 DEF Miss, Control
    <2>2. PICK S \in SUBSET Project : S = IF MustEvict(t) THEN {p} ELSE {}
      OBVIOUS
    <2>3. graph[t] = "none" /\ Drop(S) /\ proj' = proj
      BY <1>0, <1>4, <2>1, <2>2 DEF Miss, Control, Holding, Drop
    <2>4. S = {p} \/ (S = {} /\ p \notin projects)
      BY <1>4, <2>1, <2>2 DEF Miss
    <2>5. \/ UNCHANGED loading
          \/ /\ loading[p] = NoThread
             /\ loading' = [loading EXCEPT ![p] = t]
      BY <1>4, <2>1 DEF Miss, MayLead
    <2>6. Cache!Refresh(t, p)
      BY <2>1, <2>2, <2>3, <2>4, <2>5, DropRefreshes
    <2>7. QED
      BY <2>1, <2>6 DEF Cache!Next
  <1>5. ASSUME NEW t \in Thread, BuildFails(t) PROVE Cache!Next
    <2>0. PICK p \in Project : p = proj[t]
      BY <1>0, <1>5 DEF BuildFails, Control
    <2>1. /\ graph[t] = "none"
          /\ loading[p] = t
      BY <1>0, <1>5, <2>0 DEF BuildFails, Control, Holding, SingleFlight
    <2>2. /\ loading' = [loading EXCEPT ![p] = NoThread]
          /\ UNCHANGED <<projects, skewed>>
          /\ graph'[t] = "none"
          /\ \A u \in Thread \ {t} : proj'[u] = proj[u] /\ graph'[u] = graph[u]
      BY <1>0, <1>5, <2>0 DEF BuildFails, OpenGate, Leave, TypeOK
    <2>3. \A u \in Thread : (IF graph'[u] = "shared" THEN {proj'[u]} ELSE {})
                              = (IF graph[u] = "shared" THEN {proj[u]} ELSE {})
      BY <2>1, <2>2
    <2>4. Cache!Fail(t, p)
      BY <2>0, <2>1, <2>2, <2>3 DEF Cache!Fail
    <2>5. QED
      BY <2>0, <2>4 DEF Cache!Next
  <1>6. ASSUME NEW t \in Thread, BuildSucceeds(t) PROVE Cache!Next
    <2>0. PICK p \in Project : p = proj[t]
      BY <1>0, <1>6 DEF BuildSucceeds, Control
    <2>1. /\ graph[t] = "none"
          /\ loading[p] = t
          /\ p \notin projects
      BY <1>0, <1>6, <2>0 DEF BuildSucceeds, Control, Holding, SingleFlight
    <2>2. /\ loading' = [loading EXCEPT ![p] = NoThread]
          /\ projects' = projects \cup {p}
          /\ graph' = [graph EXCEPT ![t] = "shared"]
          /\ UNCHANGED <<proj, skewed>>
      BY <1>6, <2>0 DEF BuildSucceeds, OpenGate
    <2>3. graph'[t] = "shared" /\ \A u \in Thread \ {t} : graph'[u] = graph[u]
      BY <1>0, <2>2 DEF TypeOK
    <2>4. Cache!Finish(t, p)
      BY <2>0, <2>1, <2>2, <2>3 DEF Cache!Finish
    <2>5. QED
      BY <2>0, <2>4 DEF Cache!Next
  <1>7. ASSUME NEW t \in Thread, AnswerReload(t) PROVE Cache!Next
    <2>1. PICK p \in Project : p = proj[t]
      BY <1>0, <1>7 DEF AnswerReload, Control
    <2>2. /\ graph'[t] = "none"
          /\ \A u \in Thread \ {t} : proj'[u] = proj[u] /\ graph'[u] = graph[u]
          /\ skewed' = [skewed EXCEPT ![p] = TRUE]
          /\ UNCHANGED <<projects, loading>>
      BY <1>0, <1>7, <2>1 DEF AnswerReload, Leave, TypeOK
    <2>3. {q \in Project : skewed'[q]} = {q \in Project : skewed[q]} \cup {p}
      BY <1>0, <2>1, <2>2 DEF TypeOK
    <2>4. Cache!Leak(t, p)
      BY <2>1, <2>2, <2>3 DEF Cache!Leak
    <2>5. QED
      BY <2>1, <2>4 DEF Cache!Next
  <1>8. ASSUME NEW t \in Thread, Release(t) PROVE Cache!Next
    <2>1. /\ graph'[t] = "none"
          /\ \A u \in Thread \ {t} : proj'[u] = proj[u] /\ graph'[u] = graph[u]
          /\ UNCHANGED <<projects, loading, skewed>>
      BY <1>0, <1>8 DEF Release, Leave, TypeOK
    <2>2. Cache!Return(t)
      BY <2>1 DEF Cache!Return
    <2>3. QED
      BY <2>2 DEF Cache!Next
  <1>9. ASSUME NEW t \in Thread, EvictForCap(t) \/ EvictForBudget(t) PROVE Cache!Next
    BY <1>9, RemoveReclaims DEF EvictForCap, EvictForBudget, Cache!Next
  <1>10. CASE SweepRemove
    BY <1>10, RemoveReclaims DEF SweepRemove, Cache!Next
  <1>11. ASSUME NEW a \in Actor, PersistVictim(a) PROVE UNCHANGED Cache!vars
    BY <1>11, SameCache DEF PersistVictim
  <1>12. ASSUME NEW t \in Thread, EnforceByteBudget(t) \/ Mutate(t) \/ MarkDirty(t) \/ Answer(t)
         PROVE UNCHANGED Cache!vars
    BY <1>12, SameCache DEF EnforceByteBudget, Mutate, MarkDirty, Answer
  <1>13. CASE SweepSelect
    BY <1>13, SameCache DEF SweepSelect
  <1>14. ASSUME NEW p \in Project, GrowIdle(p) \/ Edit(p) PROVE UNCHANGED Cache!vars
    BY <1>14, SameCache DEF GrowIdle, Edit
  <1>15. CASE UNCHANGED vars
    BY <1>15, SameCache DEF vars
  <1>16. QED
    BY <1>1, <1>2, <1>3, <1>4, <1>5, <1>6, <1>7, <1>8, <1>9, <1>10, <1>11, <1>12, <1>13, <1>14, <1>15
    DEF Next, Serve, GetOrLoad, Evict, Finish, Sweep

\* The manager implements the cache of LeasedCache, for any number of projects
\* and threads, caps, budgets and word sizes: one thread builds a project, what
\* is lent stays, and only a refresh takes a graph from under its holders.
THEOREM ImplementsCacheHolds == Spec => ImplementsCache
  <1>1. Init => Cache!Init
    BY CacheInit
  <1>2. CountInv /\ [Next]_vars => [Cache!Next]_Cache!vars
    BY CacheStep
  <1>3. QED
    BY <1>1, <1>2, CountInvariant, PTL DEF Spec, ImplementsCache, Cache!Spec

=============================================================================
