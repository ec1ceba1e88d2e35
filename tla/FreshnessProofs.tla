--------------------------- MODULE FreshnessProofs ---------------------------
(***************************************************************************)
(* Theorems about Freshness, for every set of files, threads and evictors, *)
(* and any number of requests, edits, loads, evictions and crashes.        *)
(***************************************************************************)
EXTENDS Freshness, TLAPS

\* Nothing of a graph c that claims to be of time "at" is missed without an
\* excuse, but perhaps among the files of S.
Sound(c, at, S) == \A f \in File \ S : Excused(f) \/ ~Missed(c, at, f)

\* The clock: an edit is later than every reading of it.
Clock ==
  /\ now <= edits + 1
  /\ \A f \in File : disk[f] <= now
  /\ \A n \in {"tmp", "snap"} : store[n].builtAt <= now

\* What a program counter says of an actor's locals.
Control ==
  /\ current <= loads
  /\ \A a \in Actor :
       /\ held[a] <= loads
       /\ pc[a] \in {"run", "extract", "release", "persist", "open", "write", "rename", "remove"}
            => held[a] # None
  /\ \A t \in Thread :
       /\ pc[t] \in {"get", "load", "accept"} => todo[t] = {}
       /\ pc[t] \in {"load", "accept"} => kind[t] # "rebuild"

\* Every pair of a content and a built_at that is, or may become, the cached
\* graph or the snapshot: the entries of all graphs, the files, the restored or
\* half-built graph of a thread, and what an evictor is about to write.
GraphsSound == \A g \in Graph : g <= loads => Sound(content[g], builtAt[g], {})
StoreSound == \A n \in {"tmp", "snap"} : Sound(store[n].content, store[n].builtAt, {})
BuildsSound ==
  \A t \in Thread : pc[t] \in {"accept", "scan"} /\ kind[t] # "rebuild" =>
    Sound(fresh[t], stamp[t], todo[t])
WritesSound ==
  \A e \in Evictor : pc[e] \in {"open", "write"} => Sound(content[held[e]], stamp[e], {})

-----------------------------------------------------------------------------
USE ConstantsOK DEF sourceVars, managerVars, entryVars, buildVars, boundVars, Actor, Goto, Time,
                    Graph, None

\* TypeOK in parts: the source tree and the bounds, the manager and its entries,
\* the snapshot files, the threads' and evictors' locals.
TreeOK ==
  /\ disk \in Content /\ now \in Time /\ hidden \in Content
  /\ requests \in [Thread -> 0..MaxRequests]
  /\ evictions \in [Evictor -> 0..MaxEvictions]
  /\ edits \in 0..MaxEdits /\ crashes \in 0..MaxCrashes
EntriesOK ==
  /\ current \in Graph \cup {None}
  /\ gate \in Thread \cup {NoThread}
  /\ loads \in 0..MaxLoads
  /\ content \in [Graph -> Content]
  /\ builtAt \in [Graph -> 0..now]
  /\ dirty \in [Graph -> BOOLEAN]
  /\ active \in [Graph -> Int]
StoreOK ==
  /\ store \in [{"tmp", "snap"} -> SnapshotFile]
  /\ handle \in [Evictor -> {"none", "tmp", "snap"}]
LocalsOK ==
  /\ pc \in [Actor -> Labels]
  /\ kind \in [Thread -> AllKinds \cup {"none"}]
  /\ held \in [Actor -> Graph \cup {None}]
  /\ stamp \in [Actor -> 0..now]
BuildsOK ==
  /\ todo \in [Thread -> SUBSET File]
  /\ fresh \in [Thread -> Content]
  /\ warm \in [Thread -> BOOLEAN]

\* The types, the clock and the locals, without what is sound.
Basics == TreeOK /\ EntriesOK /\ StoreOK /\ LocalsOK /\ BuildsOK /\ Clock /\ Control

\* The inductive invariant.
FreshInv == Basics /\ GraphsSound /\ StoreSound /\ BuildsSound /\ WritesSound

LEMMA FileType ==
  /\ Empty \in Content
  /\ Absent \in SnapshotFile /\ Torn \in SnapshotFile
  /\ Absent.builtAt = 0 /\ Torn.builtAt = 0 /\ Absent.content = Empty /\ Torn.content = Empty
  /\ \A c \in Content, at \in Time :
       /\ Whole(c, at) \in SnapshotFile
       /\ Whole(c, at).content = c /\ Whole(c, at).builtAt = at
  BY DEF Empty, Content, Absent, Torn, Whole, SnapshotFile

LEMMA BasicsInit == Init => Basics
  BY FileType DEF Init, Basics, TreeOK, EntriesOK, StoreOK, LocalsOK, BuildsOK, Clock, Control, Content, Labels, AllKinds

\* What the lookups and updates of the actions keep to.
LEMMA Reads ==
  ASSUME Basics, NEW n \in {"tmp", "snap"}
  PROVE  /\ store[n].content \in Content
         /\ store[n].builtAt \in 0..now /\ store[n].builtAt \in Time
         /\ store[n].state \in {"absent", "torn", "whole"}
  BY DEF Basics, TreeOK, StoreOK, Clock, SnapshotFile

LEMMA CountUp ==
  ASSUME NEW S, NEW M \in Nat, NEW r \in [S -> 0..M], NEW x \in S, r[x] < M
  PROVE  [r EXCEPT ![x] = @ + 1] \in [S -> 0..M]
  <1>1. r[x] + 1 \in 0..M
    OBVIOUS
  <1>2. QED
    BY <1>1

LEMMA FileRead ==
  ASSUME Basics, NEW c \in Content, NEW f \in File
  PROVE  [c EXCEPT ![f] = disk[f]] \in Content
  BY DEF Basics, TreeOK, Content

LEMMA BasicsNext == Basics /\ [Next]_vars => Basics'
  <1> SUFFICES ASSUME Basics, [Next]_vars PROVE Basics'
    OBVIOUS
  <1> USE FileType DEF Labels
  <1>1. ASSUME NEW t \in Thread, Receive(t) PROVE Basics'
    <2>1. EntriesOK' /\ StoreOK'
      BY <1>1 DEF Basics, TreeOK, EntriesOK, StoreOK, Receive
    <2>0. Clock'
      BY <1>1 DEF Basics, TreeOK, StoreOK, Clock, Receive
    <2>3. LocalsOK' /\ BuildsOK'
      BY <1>1 DEF Basics, TreeOK, LocalsOK, BuildsOK, Receive, AllKinds
    <2>4. Control'
      <3>1. /\ pc'[t] \in {"get", "prebuild"} /\ (pc'[t] = "get" => todo'[t] = {})
            /\ \A a \in Actor \ {t} : pc'[a] = pc[a]
            /\ \A u \in Thread \ {t} : todo'[u] = todo[u] /\ kind'[u] = kind[u]
            /\ current' \in {current, None} /\ UNCHANGED <<loads, held>>
        BY <1>1 DEF Basics, LocalsOK, BuildsOK, Receive
      <3>2. current' <= loads'
        BY <3>1 DEF Basics, EntriesOK, Control
      <3>3. \A u \in Thread : /\ pc'[u] \in {"get", "load", "accept"} => todo'[u] = {}
                              /\ pc'[u] \in {"load", "accept"} => kind'[u] # "rebuild"
        BY <3>1 DEF Basics, Control
      <3>4. QED
        BY <3>1, <3>2, <3>3 DEF Basics, Control
    <2>2. TreeOK'
      <3>1. requests' \in [Thread -> 0..MaxRequests]
        BY <1>1, CountUp DEF Basics, TreeOK, Receive
      <3>2. QED
        BY <1>1, <3>1 DEF Basics, TreeOK, Receive
    <2> QED
      BY <2>0, <2>1, <2>2, <2>3, <2>4 DEF Basics
  <1>2. ASSUME NEW t \in Thread, Prebuilt(t) PROVE Basics'
    <2>1. TreeOK' /\ StoreOK' /\ BuildsOK' /\ Clock'
      BY <1>2 DEF Basics, TreeOK, StoreOK, BuildsOK, Clock, Prebuilt
    <2>2. EntriesOK'
      BY <1>2 DEF Basics, TreeOK, EntriesOK, Prebuilt
    <2>3. LocalsOK'
      BY <1>2 DEF Basics, TreeOK, LocalsOK, Prebuilt
    <2>4. Control'
      BY <1>2 DEF Basics, EntriesOK, LocalsOK, BuildsOK, Control, Prebuilt
    <2> QED
      BY <2>1, <2>2, <2>3, <2>4 DEF Basics
  <1>3. ASSUME NEW t \in Thread, Hit(t) PROVE Basics'
    <2>1. TreeOK' /\ StoreOK' /\ Clock'
      BY <1>3 DEF Basics, TreeOK, StoreOK, Clock, Hit
    <2>0. BuildsOK'
      BY <1>3 DEF Basics, TreeOK, BuildsOK, Hit, EndBuild
    <2>2. EntriesOK'
      BY <1>3 DEF Basics, TreeOK, EntriesOK, Hit, EndBuild
    <2>3. LocalsOK'
      BY <1>3 DEF Basics, TreeOK, EntriesOK, LocalsOK, Hit, EndBuild
    <2>4. Control'
      BY <1>3 DEF Basics, EntriesOK, LocalsOK, BuildsOK, Control, Hit, EndBuild
    <2> QED
      BY <2>0, <2>1, <2>2, <2>3, <2>4 DEF Basics
  <1>4. ASSUME NEW t \in Thread, Miss(t) PROVE Basics'
    <2>1. TreeOK' /\ StoreOK' /\ BuildsOK' /\ Clock'
      BY <1>4 DEF Basics, TreeOK, StoreOK, BuildsOK, Clock, Miss
    <2>2. EntriesOK'
      BY <1>4 DEF Basics, TreeOK, EntriesOK, Miss
    <2>3. LocalsOK'
      BY <1>4 DEF Basics, TreeOK, LocalsOK, Miss
    <2>4. Control'
      BY <1>4 DEF Basics, EntriesOK, LocalsOK, BuildsOK, Control, Miss
    <2> QED
      BY <2>1, <2>2, <2>3, <2>4 DEF Basics
  <1>5. ASSUME NEW t \in Thread, ReadSnapshot(t) PROVE Basics'
    <2>1. TreeOK' /\ EntriesOK' /\ StoreOK' /\ Clock'
      BY <1>5 DEF Basics, TreeOK, EntriesOK, StoreOK, Clock, ReadSnapshot
    <2>2. LocalsOK'
      BY <1>5, Reads DEF Basics, TreeOK, LocalsOK, ReadSnapshot
    <2>3. BuildsOK'
      BY <1>5, Reads DEF Basics, BuildsOK, ReadSnapshot
    <2>4. Control'
      BY <1>5 DEF Basics, EntriesOK, LocalsOK, BuildsOK, Control, ReadSnapshot
    <2> QED
      BY <2>1, <2>2, <2>3, <2>4 DEF Basics
  <1>6. ASSUME NEW t \in Thread, WarmLoad(t) PROVE Basics'
    BY <1>6 DEF Basics, TreeOK, EntriesOK, StoreOK, LocalsOK, BuildsOK, Clock, Control, WarmLoad
  <1>7. ASSUME NEW t \in Thread, ColdLoad(t) PROVE Basics'
    <2>1. TreeOK' /\ EntriesOK' /\ StoreOK' /\ Clock'
      BY <1>7 DEF Basics, TreeOK, EntriesOK, StoreOK, Clock, ColdLoad
    <2>2. LocalsOK'
      BY <1>7 DEF Basics, TreeOK, LocalsOK, ColdLoad
    <2>3. BuildsOK'
      BY <1>7 DEF Basics, BuildsOK, ColdLoad
    <2>4. Control'
      BY <1>7 DEF Basics, EntriesOK, LocalsOK, BuildsOK, Control, ColdLoad
    <2> QED
      BY <2>1, <2>2, <2>3, <2>4 DEF Basics
  <1>8. ASSUME NEW t \in Thread, Scan(t) PROVE Basics'
    <2>1. TreeOK' /\ EntriesOK' /\ StoreOK' /\ LocalsOK' /\ Clock'
      BY <1>8 DEF Basics, TreeOK, EntriesOK, StoreOK, LocalsOK, Clock, Scan
    <2>2. BuildsOK'
      <3>1. PICK f \in todo[t] : /\ todo' = [todo EXCEPT ![t] = @ \ {f}]
                                 /\ fresh' = [fresh EXCEPT ![t][f] = disk[f]]
        BY <1>8 DEF Scan
      <3>2. [fresh[t] EXCEPT ![f] = disk[f]] \in Content
        BY FileRead DEF Basics, TreeOK, BuildsOK
      <3>3. QED
        BY <1>8, <3>1, <3>2 DEF Basics, BuildsOK, Scan
    <2>3. Control'
      <3>1. \A u \in Thread : u = t \/ todo'[u] = todo[u]
        BY <1>8 DEF Basics, BuildsOK, Scan
      <3>2. UNCHANGED <<managerVars, pc, held, kind>> /\ pc[t] \in {"prebuild", "scan"}
        BY <1>8 DEF Scan
      <3>3. QED
        BY <3>1, <3>2 DEF Basics, EntriesOK, LocalsOK, BuildsOK, Control
    <2> QED
      BY <2>1, <2>2, <2>3 DEF Basics
  <1>9. ASSUME NEW t \in Thread, BuildFails(t) PROVE Basics'
    <2>1. TreeOK' /\ EntriesOK' /\ StoreOK' /\ Clock'
      BY <1>9 DEF Basics, TreeOK, EntriesOK, StoreOK, Clock, BuildFails
    <2>2. LocalsOK' /\ BuildsOK'
      BY <1>9 DEF Basics, TreeOK, LocalsOK, BuildsOK, BuildFails, EndBuild, AllKinds
    <2>3. Control'
      BY <1>9 DEF Basics, EntriesOK, LocalsOK, BuildsOK, Control, BuildFails, EndBuild
    <2>4. QED
      BY <2>1, <2>2, <2>3 DEF Basics
  <1>10. ASSUME NEW t \in Thread, Insert(t) PROVE Basics'
    <2>1. TreeOK' /\ StoreOK' /\ BuildsOK' /\ Clock'
      BY <1>10 DEF Basics, TreeOK, StoreOK, BuildsOK, Clock, Insert, EndBuild, StampAtStart, Content
    <2>2. EntriesOK'
      <3>1. stamp[t] \in 0..now /\ fresh[t] \in Content
        BY DEF Basics, LocalsOK, BuildsOK
      <3>2. QED
        BY <1>10, <3>1 DEF Basics, TreeOK, EntriesOK, Insert, StampAtStart
    <2>3. LocalsOK'
      <3>1. loads + 1 \in Graph /\ 0 \in 0..now
        BY <1>10 DEF Basics, TreeOK, EntriesOK, Insert
      <3>2. /\ held' = [held EXCEPT ![t] = loads + 1]
            /\ stamp' = [stamp EXCEPT ![t] = 0]
            /\ pc' = [pc EXCEPT ![t] = "run"]
            /\ UNCHANGED <<kind, now>>
        BY <1>10 DEF Insert, EndBuild
      <3>3. QED
        BY <3>1, <3>2 DEF Basics, LocalsOK
    <2>4. Control'
      BY <1>10 DEF Basics, EntriesOK, LocalsOK, BuildsOK, Control, Insert, EndBuild, StampAtStart, Content
    <2> QED
      BY <2>1, <2>2, <2>3, <2>4 DEF Basics
  <1>11. ASSUME NEW t \in Thread, StartExtract(t) PROVE Basics'
    <2>1. TreeOK' /\ EntriesOK' /\ StoreOK' /\ LocalsOK' /\ Clock'
      BY <1>11 DEF Basics, TreeOK, EntriesOK, StoreOK, LocalsOK, Clock, StartExtract
    <2>2. BuildsOK'
      <3>1. PICK S \in Batches(kind[t]) : todo' = [todo EXCEPT ![t] = S]
        BY <1>11 DEF StartExtract
      <3>2. S \in SUBSET File
        BY DEF Batches
      <3>3. QED
        BY <1>11, <3>1, <3>2 DEF Basics, BuildsOK, StartExtract
    <2>3. Control'
      BY <1>11 DEF Basics, EntriesOK, LocalsOK, BuildsOK, Control, StartExtract
    <2> QED
      BY <2>1, <2>2, <2>3 DEF Basics
  <1>12. ASSUME NEW t \in Thread, Extract(t) PROVE Basics'
    <2>1. PICK f \in todo[t] : /\ todo' = [todo EXCEPT ![t] = @ \ {f}]
                               /\ content' = [content EXCEPT ![held[t]][f] = disk[f]]
      BY <1>12 DEF Extract
    <2>2. /\ UNCHANGED <<sourceVars, store, managerVars, builtAt, dirty, active, pc, kind, held,
                         fresh, warm, stamp, handle, boundVars, hidden>>
          /\ pc[t] = "extract"
      BY <1>12 DEF Extract
    <2>3. held[t] \in Graph /\ f \in File
      BY <2>1, <2>2 DEF Basics, LocalsOK, BuildsOK, Control
    <2>4. [content[held[t]] EXCEPT ![f] = disk[f]] \in Content
      BY <2>3, FileRead DEF Basics, TreeOK, EntriesOK, LocalsOK
    <2>5. content' \in [Graph -> Content]
      BY <2>1, <2>3, <2>4 DEF Basics, EntriesOK
    <2>6. EntriesOK'
      BY <2>2, <2>5 DEF Basics, TreeOK, EntriesOK
    <2>7. BuildsOK'
      BY <2>1, <2>2 DEF Basics, BuildsOK
    <2>8. Control'
      <3>1. \A u \in Thread : u = t \/ todo'[u] = todo[u]
        BY <2>1 DEF Basics, BuildsOK
      <3>2. QED
        BY <2>2, <3>1 DEF Basics, EntriesOK, LocalsOK, BuildsOK, Control
    <2>9. TreeOK' /\ StoreOK' /\ LocalsOK' /\ Clock'
      BY <2>2 DEF Basics, TreeOK, StoreOK, LocalsOK, Clock
    <2> QED
      BY <2>6, <2>7, <2>8, <2>9 DEF Basics
  <1>13. ASSUME NEW t \in Thread, MarkDirty(t) PROVE Basics'
    <2>1. hidden' \in Content
      <3>1. hidden' = hidden \/ hidden' = [f \in File |->
               IF content[current][f] # disk[f] THEN disk[f] ELSE hidden[f]]
        BY <1>13 DEF MarkDirty
      <3>2. disk \in [File -> Time] /\ hidden \in [File -> Time]
        BY DEF Basics, TreeOK, Content
      <3> HIDE DEF Time
      <3>3. QED
        BY <3>1, <3>2 DEF Content
    <2>2. /\ dirty' = dirty \/ dirty' = [dirty EXCEPT ![current] = TRUE]
          /\ builtAt' = builtAt \/ builtAt' = [builtAt EXCEPT ![current] = now]
          /\ UNCHANGED <<sourceVars, managerVars, content, active, boundVars>>
      BY <1>13 DEF MarkDirty, DirtyStamp
    <2>3. TreeOK'
      BY <2>1, <2>2 DEF Basics, TreeOK
    <2>4. EntriesOK'
      <3>1. now \in 0..now
        BY DEF Basics, TreeOK
      <3>2. builtAt' \in [Graph -> 0..now] /\ dirty' \in [Graph -> BOOLEAN]
        <4>1. builtAt \in [Graph -> 0..now] /\ dirty \in [Graph -> BOOLEAN]
          BY DEF Basics, TreeOK, EntriesOK
        <4>2. now' = now
          BY <2>2
        <4>3. builtAt' \in [Graph -> 0..now]
          BY <2>2, <3>1, <4>1
        <4>4. dirty' \in [Graph -> BOOLEAN]
          BY <2>2, <4>1
        <4> QED
          BY <4>2, <4>3, <4>4
      <3>3. QED
        BY <2>2, <3>2 DEF Basics, TreeOK, EntriesOK
    <2>5. StoreOK' /\ LocalsOK' /\ BuildsOK'
      BY <1>13 DEF Basics, TreeOK, StoreOK, LocalsOK, BuildsOK, MarkDirty
    <2>6. Clock' /\ Control'
      BY <1>13 DEF Basics, TreeOK, EntriesOK, StoreOK, LocalsOK, BuildsOK, Clock, Control, MarkDirty
    <2> QED
      BY <2>3, <2>4, <2>5, <2>6 DEF Basics
  <1>14. ASSUME NEW t \in Thread, Answer(t) PROVE Basics'
    BY <1>14 DEF Basics, TreeOK, EntriesOK, StoreOK, LocalsOK, BuildsOK, Clock, Control, Answer
  <1>15. ASSUME NEW t \in Thread, Finish(t) PROVE Basics'
    <2>1. EntriesOK'
      <3>1. active' = active \/ (current # None /\ active' = [active EXCEPT ![current] = @ - 1])
        BY <1>15 DEF Finish
      <3>2. UNCHANGED <<sourceVars, managerVars, content, builtAt, dirty>>
        BY <1>15 DEF Finish
      <3>3. active' \in [Graph -> Int]
        BY <3>1 DEF Basics, EntriesOK
      <3>4. QED
        BY <3>2, <3>3 DEF Basics, TreeOK, EntriesOK
    <2>2. TreeOK' /\ StoreOK' /\ BuildsOK' /\ Clock'
      BY <1>15 DEF Basics, TreeOK, StoreOK, BuildsOK, Clock, Finish
    <2>3. /\ kind' = [kind EXCEPT ![t] = "none"]
          /\ held' = [held EXCEPT ![t] = None]
          /\ pc' = [pc EXCEPT ![t] = "idle"]
          /\ UNCHANGED <<sourceVars, managerVars, todo, stamp>>
      BY <1>15 DEF Finish
    <2>4. LocalsOK' /\ Control'
      BY <2>3 DEF Basics, TreeOK, EntriesOK, LocalsOK, BuildsOK, Control
    <2> QED
      BY <2>1, <2>2, <2>4 DEF Basics
  <1>16. ASSUME NEW e \in Evictor, Select(e) PROVE Basics'
    <2>1. EntriesOK' /\ StoreOK' /\ BuildsOK' /\ Clock'
      BY <1>16 DEF Basics, TreeOK, EntriesOK, StoreOK, BuildsOK, Clock, Select
    <2>2. TreeOK'
      <3>1. evictions' \in [Evictor -> 0..MaxEvictions]
        BY <1>16, CountUp DEF Basics, TreeOK, Select
      <3>2. QED
        BY <1>16, <3>1 DEF Basics, TreeOK, Select
    <2>3. LocalsOK'
      BY <1>16 DEF Basics, TreeOK, EntriesOK, LocalsOK, Select
    <2>4. Control'
      BY <1>16 DEF Basics, EntriesOK, LocalsOK, BuildsOK, Control, Select
    <2> QED
      BY <2>1, <2>2, <2>3, <2>4 DEF Basics
  <1>17. ASSUME NEW e \in Evictor, CheckDirty(e) PROVE Basics'
    <2>1. /\ pc[e] = "persist" /\ pc' \in {[pc EXCEPT ![e] = l] : l \in {"open", "remove"}}
          /\ stamp' = stamp \/ stamp' = [stamp EXCEPT ![e] = builtAt[held[e]]]
          /\ UNCHANGED <<sourceVars, store, managerVars, entryVars, kind, held, buildVars, handle,
                         boundVars, hidden>>
      BY <1>17 DEF CheckDirty
    <2>2. held[e] \in Graph
      BY <2>1 DEF Basics, LocalsOK, Control
    <2>3. stamp' \in [Actor -> 0..now]
      <3>1. stamp \in [Actor -> 0..now] /\ builtAt[held[e]] \in 0..now
        BY <2>2 DEF Basics, TreeOK, EntriesOK, LocalsOK
      <3>2. QED
        BY <2>1, <3>1
    <2>4. LocalsOK' /\ Control'
      <3>1. PICK l \in {"open", "remove"} : pc' = [pc EXCEPT ![e] = l]
        BY <2>1
      <3>2. LocalsOK'
        BY <2>1, <2>3, <3>1 DEF Basics, TreeOK, LocalsOK
      <3>3. Control'
        BY <2>1, <3>1 DEF Basics, EntriesOK, LocalsOK, BuildsOK, Control
      <3>4. QED
        BY <3>2, <3>3
    <2>5. TreeOK' /\ EntriesOK' /\ StoreOK' /\ BuildsOK' /\ Clock'
      BY <2>1 DEF Basics, TreeOK, EntriesOK, StoreOK, BuildsOK, Clock
    <2> QED
      BY <2>4, <2>5 DEF Basics
  <1>18. ASSUME NEW e \in Evictor, OpenTmp(e) PROVE Basics'
    <2>1. TreeOK' /\ EntriesOK' /\ LocalsOK' /\ BuildsOK'
      BY <1>18 DEF Basics, TreeOK, EntriesOK, LocalsOK, BuildsOK, OpenTmp
    <2>2. StoreOK'
      BY <1>18 DEF Basics, StoreOK, OpenTmp
    <2>3. Clock'
      BY <1>18 DEF Basics, TreeOK, StoreOK, Clock, OpenTmp
    <2>4. Control'
      BY <1>18 DEF Basics, EntriesOK, LocalsOK, BuildsOK, Control, OpenTmp
    <2> QED
      BY <2>1, <2>2, <2>3, <2>4 DEF Basics
  <1>19. ASSUME NEW e \in Evictor, WriteTmp(e) PROVE Basics'
    <2>1. UNCHANGED <<sourceVars, managerVars, entryVars, kind, held, buildVars, stamp, handle,
                      boundVars, hidden>>
          /\ pc[e] = "write" /\ pc' = [pc EXCEPT ![e] = "rename"]
      BY <1>19 DEF WriteTmp
    <2>2. held[e] \in Graph
      BY <2>1 DEF Basics, LocalsOK, Control
    <2>3. content[held[e]] \in Content /\ stamp[e] \in Time /\ stamp[e] <= now
      BY <2>2 DEF Basics, TreeOK, EntriesOK, LocalsOK
    <2>4. PICK w \in SnapshotFile : w = Whole(content[held[e]], stamp[e]) /\ w.builtAt <= now
      BY <2>3
    <2>5. store' = store \/ \E n \in {"tmp", "snap"} : store' = [store EXCEPT ![n] = w]
      BY <1>19, <2>4 DEF WriteTmp
    <2>6. StoreOK'
      <3>1. store \in [{"tmp", "snap"} -> SnapshotFile]
        BY DEF Basics, StoreOK
      <3>2. store' \in [{"tmp", "snap"} -> SnapshotFile]
        BY <2>4, <2>5, <3>1
      <3>3. QED
        BY <2>1, <3>2 DEF Basics, StoreOK
    <2>7. Clock'
      BY <2>1, <2>4, <2>5 DEF Basics, TreeOK, StoreOK, Clock
    <2>8. TreeOK' /\ EntriesOK' /\ LocalsOK' /\ BuildsOK' /\ Control'
      BY <2>1 DEF Basics, TreeOK, EntriesOK, LocalsOK, BuildsOK, Control
    <2> QED
      BY <2>6, <2>7, <2>8 DEF Basics
  <1>20. ASSUME NEW e \in Evictor, WriteFails(e) PROVE Basics'
    BY <1>20 DEF Basics, TreeOK, EntriesOK, StoreOK, LocalsOK, BuildsOK, Clock, Control, WriteFails
  <1>21. ASSUME NEW e \in Evictor, Rename(e) PROVE Basics'
    <2>1. /\ pc[e] = "rename" /\ pc' = [pc EXCEPT ![e] = "remove"]
          /\ UNCHANGED <<sourceVars, managerVars, content, builtAt, active, kind, held, buildVars,
                         stamp, boundVars, hidden>>
      BY <1>21 DEF Rename
    <2>2. dirty' = dirty \/ dirty' = [dirty EXCEPT ![held[e]] = FALSE]
      BY <1>21 DEF Rename
    <2>3. store' = store \/ store' = [tmp |-> Absent, snap |-> store["tmp"]]
      BY <1>21 DEF Rename
    <2>4. handle' \in [Evictor -> {"none", "tmp", "snap"}]
      <3>1. handle \in [Evictor -> {"none", "tmp", "snap"}]
        BY DEF Basics, StoreOK
      <3>2. \/ handle' = [handle EXCEPT ![e] = "none"]
            \/ handle' = [d \in Evictor |->
                            CASE d = e \/ handle[d] = "snap" -> "none"
                              [] d # e /\ handle[d] = "tmp"  -> "snap"
                              [] OTHER                       -> handle[d]]
        BY <1>21 DEF Rename
      <3>3. QED
        BY <3>1, <3>2
    <2>5. EntriesOK'
      <3>1. dirty' \in [Graph -> BOOLEAN]
        BY <2>2 DEF Basics, EntriesOK
      <3>2. QED
        BY <2>1, <3>1 DEF Basics, TreeOK, EntriesOK
    <2>6. StoreOK'
      BY <2>3, <2>4 DEF Basics, StoreOK
    <2>7. Clock'
      BY <2>1, <2>3 DEF Basics, TreeOK, StoreOK, Clock
    <2>8. TreeOK' /\ LocalsOK' /\ BuildsOK' /\ Control'
      BY <2>1 DEF Basics, TreeOK, EntriesOK, LocalsOK, BuildsOK, Control
    <2> QED
      BY <2>5, <2>6, <2>7, <2>8 DEF Basics
  <1>22. ASSUME NEW e \in Evictor, Remove(e) PROVE Basics'
    <2>1. /\ current' \in {current, None}
          /\ held' = [held EXCEPT ![e] = None]
          /\ stamp' = [stamp EXCEPT ![e] = 0]
          /\ pc' = [pc EXCEPT ![e] = "idle"]
          /\ UNCHANGED <<sourceVars, store, gate, loads, entryVars, kind, buildVars, handle,
                         boundVars, hidden>>
      BY <1>22 DEF Remove
    <2>2. TreeOK' /\ EntriesOK' /\ StoreOK' /\ BuildsOK' /\ Clock'
      BY <2>1 DEF Basics, TreeOK, EntriesOK, StoreOK, BuildsOK, Clock
    <2>3. LocalsOK'
      <3>1. now' = now /\ 0 \in 0..now
        BY <2>1 DEF Basics, TreeOK
      <3>2. stamp' \in [Actor -> 0..now]
        BY <2>1, <3>1 DEF Basics, TreeOK, LocalsOK
      <3>3. QED
        BY <2>1, <3>1, <3>2 DEF Basics, TreeOK, LocalsOK
    <2>4. Control'
      <3>1. current' <= loads'
        BY <2>1 DEF Basics, EntriesOK, LocalsOK, Control
      <3>2. \A a \in Actor : /\ a = e \/ (held'[a] = held[a] /\ pc'[a] = pc[a])
                             /\ held'[e] = None /\ pc'[e] = "idle"
        BY <2>1 DEF Basics, LocalsOK
      <3>3. QED
        BY <2>1, <3>1, <3>2 DEF Basics, EntriesOK, LocalsOK, BuildsOK, Control
    <2> QED
      BY <2>2, <2>3, <2>4 DEF Basics
  <1>23. ASSUME NEW f \in File, Edit(f) PROVE Basics'
    <2>1. /\ edits < MaxEdits /\ edits' = edits + 1 /\ now' = now + 1
          /\ disk' = [disk EXCEPT ![f] = now + 1]
          /\ UNCHANGED <<store, managerVars, entryVars, pc, kind, held, buildVars, stamp, handle,
                         boundVars, hidden>>
      BY <1>23 DEF Edit
    <2>2. now' \in Time /\ edits' \in 0..MaxEdits /\ now' <= edits' + 1
      <3>1. now \in Nat /\ edits \in Nat /\ now <= edits + 1
        BY DEF Basics, TreeOK, Clock
      <3>2. QED
        BY <2>1, <3>1
    <2>3. TreeOK'
      BY <2>1, <2>2 DEF Basics, TreeOK, Content
    <2>4. EntriesOK' /\ LocalsOK'
      <3>1. \A i \in 0..now : i \in 0..now'
        BY <2>1, <2>2 DEF Basics, TreeOK
      <3>2. QED
        BY <2>1, <3>1 DEF Basics, TreeOK, EntriesOK, LocalsOK
    <2>5. StoreOK' /\ BuildsOK' /\ Control'
      BY <2>1 DEF Basics, EntriesOK, StoreOK, LocalsOK, BuildsOK, Control
    <2>6. Clock'
      <3>1. \A g \in File : disk'[g] <= now'
        BY <2>1 DEF Basics, TreeOK, Clock, Content
      <3>2. \A n \in {"tmp", "snap"} : store[n].builtAt <= now'
        <4>1. now \in Nat
          BY DEF Basics, TreeOK
        <4>2. \A n \in {"tmp", "snap"} : store[n].builtAt \in 0..now
          BY Reads
        <4>3. QED
          BY <2>1, <4>1, <4>2
      <3>3. QED
        BY <2>1, <2>2, <3>1, <3>2 DEF Clock
    <2> QED
      BY <2>3, <2>4, <2>5, <2>6 DEF Basics
  <1>24. ASSUME NEW f \in File, Delete(f) PROVE Basics'
    <2>1. EntriesOK' /\ StoreOK' /\ LocalsOK' /\ BuildsOK' /\ Control'
      <3>1. /\ \A n : n \in 0..now' <=> n \in 0..now
            /\ UNCHANGED <<now, store, current, gate, loads, content, builtAt, dirty, active, pc,
                          kind, held, todo, fresh, warm, stamp, handle>>
        BY <1>24 DEF Delete
      <3>2. EntriesOK' /\ StoreOK' /\ Control'
        BY <3>1 DEF Basics, EntriesOK, StoreOK, Control
      <3>3. LocalsOK' /\ BuildsOK'
        BY <3>1 DEF Basics, LocalsOK, BuildsOK
      <3>4. QED
        BY <3>2, <3>3
    <2>2. TreeOK'
      BY <1>24 DEF Basics, TreeOK, Delete, Content
    <2>3. Clock'
      BY <1>24 DEF Basics, TreeOK, StoreOK, Clock, Delete, Content
    <2> QED
      BY <2>1, <2>2, <2>3 DEF Basics
  <1>25. CASE Crash
    <2>1. TreeOK' /\ EntriesOK' /\ StoreOK' /\ Clock'
      BY <1>25 DEF Basics, TreeOK, EntriesOK, StoreOK, Clock, Crash
    <2>2. LocalsOK' /\ BuildsOK'
      BY <1>25 DEF Basics, TreeOK, LocalsOK, BuildsOK, Crash
    <2>3. Control'
      BY <1>25 DEF Basics, EntriesOK, Control, Crash
    <2>4. QED
      BY <2>1, <2>2, <2>3 DEF Basics
  <1>26. CASE UNCHANGED vars
    BY <1>26 DEF Basics, TreeOK, EntriesOK, StoreOK, LocalsOK, BuildsOK, Clock, Control, vars
  <1> QED
    BY <1>1, <1>2, <1>3, <1>4, <1>5, <1>6, <1>7, <1>8, <1>9, <1>10, <1>11, <1>12, <1>13, <1>14, <1>15, <1>16, <1>17, <1>18, <1>19, <1>20, <1>21, <1>22, <1>23, <1>24, <1>25, <1>26
    DEF Next, Load, Serve, Quiesce

-----------------------------------------------------------------------------
\* What a step does to the source and to the excuses: an edit is later than
\* everything, and what is hidden is the version on disk.
Ages ==
  \A f \in File : \/ disk'[f] = disk[f] /\ hidden'[f] \in {hidden[f], disk[f]}
                  \/ disk'[f] = 0
                  \/ disk'[f] > now

LEMMA EveryStepAges == Basics /\ [Next]_vars => Ages
  <1> SUFFICES ASSUME Basics, [Next]_vars PROVE Ages
    OBVIOUS
  <1>0. disk \in [File -> Time] /\ hidden \in [File -> Time] /\ now \in Nat
    BY DEF Basics, TreeOK, Content
  <1>1. ASSUME NEW f \in File, Edit(f) \/ Delete(f) PROVE Ages
    BY <1>0, <1>1 DEF Ages, Edit, Delete
  <1>2. ASSUME NEW t \in Thread, Insert(t) PROVE Ages
    <2>1. UNCHANGED disk /\ \A f \in File : hidden'[f] \in {hidden[f], disk[f]}
      BY <1>2 DEF Insert
    <2>2. QED
      BY <2>1 DEF Ages
  <1>3. ASSUME NEW t \in Thread, MarkDirty(t) PROVE Ages
    <2>1. UNCHANGED disk /\ \A f \in File : hidden'[f] \in {hidden[f], disk[f]}
      BY <1>3 DEF MarkDirty
    <2>2. QED
      BY <2>1 DEF Ages
  <1>4. CASE UNCHANGED <<disk, hidden>>
    BY <1>4 DEF Ages
  <1>5. QED
    BY <1>1, <1>2, <1>3, <1>4
    DEF Next, Load, Serve, Quiesce, vars, Receive, Prebuilt, Hit, Miss, ReadSnapshot, WarmLoad,
        ColdLoad, Scan, BuildFails, StartExtract, Extract, Answer, Finish, Select, CheckDirty,
        OpenTmp, WriteTmp, WriteFails, Rename, Remove, Crash

\* A sound watermark stays one, as long as nothing is added to the content.
LEMMA SoundLasts ==
  ASSUME Basics, Basics', Ages, NEW c, NEW at \in Time, at <= now, NEW S, Sound(c, at, S)
  PROVE  Sound(c, at, S)'
  <1>1. disk \in [File -> Time] /\ now \in Nat /\ at \in Nat
    BY DEF Basics, TreeOK, Content
  <1> SUFFICES ASSUME NEW f \in File \ S PROVE Excused(f)' \/ ~Missed(c, at, f)'
    BY DEF Sound
  <1>2. Excused(f) \/ ~Missed(c, at, f)
    BY DEF Sound
  <1>3. CASE disk'[f] = disk[f] /\ hidden'[f] \in {hidden[f], disk[f]}
    BY <1>2, <1>3 DEF Excused, Missed
  <1>4. CASE disk'[f] = 0
    BY <1>4 DEF Excused
  <1>5. CASE disk'[f] > now
    <2>1. disk'[f] \in Nat
      BY DEF Basics, TreeOK, Content
    <2>2. QED
      BY <1>1, <1>5, <2>1 DEF Missed
  <1>6. QED
    BY <1>3, <1>4, <1>5 DEF Ages

\* What a step does to the content of a graph that is loaded: a file is left
\* as it is or read again.
LEMMA ContentSteps ==
  ASSUME Basics, [Next]_vars, NEW g \in Graph, g <= loads
  PROVE  \/ content'[g] = content[g]
         \/ /\ UNCHANGED <<disk, hidden>>
            /\ \E f \in File : content'[g] = [content[g] EXCEPT ![f] = disk[f]]
  <1>0. content \in [Graph -> Content] /\ loads \in Nat
    BY DEF Basics, EntriesOK
  <1>1. ASSUME NEW t \in Thread, Insert(t) PROVE content'[g] = content[g]
    BY <1>0, <1>1 DEF Insert
  <1>2. ASSUME NEW t \in Thread, Extract(t)
        PROVE  \/ content'[g] = content[g]
               \/ /\ UNCHANGED <<disk, hidden>>
                  /\ \E f \in File : content'[g] = [content[g] EXCEPT ![f] = disk[f]]
    <2>1. PICK f \in todo[t] : content' = [content EXCEPT ![held[t]][f] = disk[f]]
      BY <1>2 DEF Extract
    <2>2. f \in File
      BY DEF Basics, BuildsOK
    <2>3. UNCHANGED <<disk, hidden>>
      BY <1>2 DEF Extract
    <2>4. QED
      BY <1>0, <2>1, <2>2, <2>3
  <1>3. CASE UNCHANGED content
    BY <1>3
  <1>4. QED
    BY <1>1, <1>2, <1>3
    DEF Next, Load, Serve, Quiesce, vars, Receive, Prebuilt, Hit, Miss, ReadSnapshot, WarmLoad,
        ColdLoad, Scan, BuildFails, StartExtract, MarkDirty, Answer, Finish, Select, CheckDirty,
        OpenTmp, WriteTmp, WriteFails, Rename, Remove, Edit, Delete, Crash

LEMMA GraphLasts ==
  ASSUME Basics, [Next]_vars, NEW g \in Graph, g <= loads, NEW at \in Time, at <= now,
         Sound(content[g], at, {})
  PROVE  Sound(content[g], at, {})'
  <1>1. CASE content'[g] = content[g]
    <2>1. PICK c : c = content[g]
      OBVIOUS
    <2>2. Sound(c, at, {})'
      BY <2>1, BasicsNext, EveryStepAges, SoundLasts
    <2>3. QED
      BY <1>1, <2>1, <2>2 DEF Sound, Missed
  <1>2. ASSUME UNCHANGED <<disk, hidden>>, NEW f \in File,
               content'[g] = [content[g] EXCEPT ![f] = disk[f]]
        PROVE  Sound(content[g], at, {})'
    <2>1. content[g] \in [File -> Time]
      BY DEF Basics, EntriesOK, Content
    <2>2. \A h \in File : content'[g][h] = IF h = f THEN disk[f] ELSE content[g][h]
      BY <1>2, <2>1
    <2>3. QED
      BY <1>2, <2>2 DEF Sound, Excused, Missed
  <1>3. QED
    BY <1>1, <1>2, ContentSteps

-----------------------------------------------------------------------------
(* The four parts of what is sound.                                        *)

LEMMA SoundInit == Init => FreshInv
  <1> SUFFICES ASSUME Init PROVE FreshInv
    OBVIOUS
  <1>1. Basics
    BY BasicsInit
  <1>2. GraphsSound /\ BuildsSound /\ WritesSound
    BY DEF Init, GraphsSound, BuildsSound, WritesSound
  <1>3. StoreSound
    BY FileType DEF Init, StoreSound, Sound, Missed, Excused
  <1>4. QED
    BY <1>1, <1>2, <1>3 DEF FreshInv

\* A new graph is what its thread built, an extracted file is what is on disk,
\* and what mark_dirty passes over is hidden.
LEMMA GraphsNext == FreshInv /\ [Next]_vars => GraphsSound'
  <1> SUFFICES ASSUME FreshInv, [Next]_vars, NEW g \in Graph, g <= loads'
               PROVE  Sound(content[g], builtAt[g], {})'
    BY DEF GraphsSound
  <1>0. Basics /\ Basics' /\ Ages
    BY BasicsNext, EveryStepAges DEF FreshInv
  <1>1. CASE g <= loads /\ builtAt'[g] = builtAt[g]
    <2>1. PICK at : at = builtAt[g]
      OBVIOUS
    <2>2. at \in Time /\ at <= now
      BY <1>0, <2>1 DEF Basics, EntriesOK, TreeOK
    <2>3. Sound(content[g], at, {})
      BY <1>1, <2>1 DEF FreshInv, GraphsSound
    <2>4. Sound(content[g], at, {})'
      BY <1>0, <1>1, <2>2, <2>3, GraphLasts
    <2>5. QED
      BY <1>1, <2>1, <2>4 DEF Sound, Missed
  <1>2. ASSUME NEW t \in Thread, Insert(t) PROVE Sound(content[g], builtAt[g], {})'
    <2>1. CASE g = loads + 1
      <3>1. /\ content'[g] = fresh[t] /\ builtAt'[g] = stamp[t]
            /\ pc[t] = "scan" /\ todo[t] = {} /\ disk' = disk
            /\ \A f \in File : hidden'[f] = IF PassedOver(t, f) THEN disk[f] ELSE hidden[f]
        BY <1>0, <1>2, <2>1 DEF Insert, StampAtStart, Basics, EntriesOK
      <3>2. CASE kind[t] = "rebuild"
        BY <3>1, <3>2 DEF Sound, Missed, Excused, PassedOver
      <3>3. CASE kind[t] # "rebuild"
        <4>1. Sound(fresh[t], stamp[t], {})
          BY <3>1, <3>3 DEF FreshInv, BuildsSound
        <4>2. QED
          BY <3>1, <3>3, <4>1 DEF Sound, Missed, Excused, PassedOver
      <3>4. QED
        BY <3>2, <3>3
    <2>2. CASE g # loads + 1
      <3>1. g <= loads
        BY <1>0, <1>2, <2>2 DEF Insert, Basics, EntriesOK
      <3>2. builtAt'[g] = builtAt[g]
        BY <1>0, <1>2, <2>2 DEF Insert, Basics, EntriesOK
      <3>3. QED
        BY <1>1, <3>1, <3>2
    <2>3. QED
      BY <2>1, <2>2
  <1>3. ASSUME NEW t \in Thread, MarkDirty(t) PROVE Sound(content[g], builtAt[g], {})'
    <2>1. g <= loads /\ content' = content /\ disk' = disk
      BY <1>3 DEF MarkDirty
    <2>2. CASE current = g
      <3>1. \A f \in File : hidden'[f] = IF content[g][f] # disk[f] THEN disk[f] ELSE hidden[f]
        BY <1>3, <2>2 DEF MarkDirty
      <3>2. QED
        BY <2>1, <3>1 DEF Sound, Missed, Excused
    <2>3. CASE current # g
      <3>1. builtAt'[g] = builtAt[g]
        BY <1>0, <1>3, <2>3 DEF MarkDirty, Basics, EntriesOK
      <3>2. QED
        BY <1>1, <2>1, <3>1
    <2>4. QED
      BY <2>2, <2>3
  <1>4. CASE UNCHANGED <<loads, builtAt>>
    BY <1>1, <1>4
  <1>5. QED
    BY <1>2, <1>3, <1>4
    DEF Next, Load, Serve, Quiesce, vars, Receive, Prebuilt, Hit, Miss, ReadSnapshot, WarmLoad,
        ColdLoad, Scan, BuildFails, StartExtract, Extract, Answer, Finish, Select, CheckDirty,
        OpenTmp, WriteTmp, WriteFails, Rename, Remove, Edit, Delete, Crash

\* A snapshot file that is written has the built_at read before the graph was
\* locked; a torn one claims nothing.
LEMMA StoreNext == FreshInv /\ [Next]_vars => StoreSound'
  <1> SUFFICES ASSUME FreshInv, [Next]_vars, NEW n \in {"tmp", "snap"}
               PROVE  Sound(store[n].content, store[n].builtAt, {})'
    BY DEF StoreSound
  <1>0. Basics /\ Basics' /\ Ages
    BY BasicsNext, EveryStepAges DEF FreshInv
  <1>1. ASSUME NEW m \in {"tmp", "snap"}, store'[n] = store[m]
        PROVE  Sound(store[n].content, store[n].builtAt, {})'
    <2>1. PICK c, at : c = store[m].content /\ at = store[m].builtAt
      OBVIOUS
    <2>2. at \in Time /\ at <= now
      BY <1>0, <2>1, Reads DEF Basics, Clock
    <2>3. Sound(c, at, {})'
      BY <1>0, <2>1, <2>2, SoundLasts DEF FreshInv, StoreSound
    <2>4. QED
      BY <1>1, <2>1, <2>3 DEF Sound, Missed
  <1>2. ASSUME store'[n] \in {Absent, Torn} PROVE Sound(store[n].content, store[n].builtAt, {})'
    BY <1>0, <1>2, FileType DEF Sound, Missed, Excused, Basics, TreeOK, Content
  <1>3. ASSUME NEW e \in Evictor, OpenTmp(e) PROVE Sound(store[n].content, store[n].builtAt, {})'
    <2>1. store'[n] = store[n] \/ store'[n] = Torn
      BY <1>0, <1>3 DEF OpenTmp, Basics, StoreOK
    <2>2. QED
      BY <1>1, <1>2, <2>1
  <1>4. ASSUME NEW e \in Evictor, WriteTmp(e) PROVE Sound(store[n].content, store[n].builtAt, {})'
    <2>1. PICK c, at : c = content[held[e]] /\ at = stamp[e]
      OBVIOUS
    <2>2. pc[e] = "write" /\ UNCHANGED <<disk, hidden>>
      BY <1>4 DEF WriteTmp
    <2>3. Sound(c, at, {})'
      BY <2>1, <2>2 DEF FreshInv, WritesSound, Sound, Missed, Excused
    <2>4. c \in Content /\ at \in Time
      <3>1. held[e] \in Graph /\ stamp[e] \in 0..now
        BY <1>0, <2>2 DEF Basics, Control, LocalsOK
      <3>2. content[held[e]] \in Content
        BY <1>0, <3>1 DEF Basics, EntriesOK
      <3>3. stamp[e] \in Time
        BY <1>0, <3>1 DEF Basics, TreeOK
      <3>4. QED
        BY <2>1, <3>2, <3>3
    <2>5. store'[n] = store[n] \/ store'[n] = Whole(c, at)
      BY <1>0, <1>4, <2>1 DEF WriteTmp, Basics, StoreOK
    <2>6. QED
      BY <1>1, <2>3, <2>4, <2>5, FileType DEF Sound, Missed
  <1>5. ASSUME NEW e \in Evictor, Rename(e) PROVE Sound(store[n].content, store[n].builtAt, {})'
    <2>1. store'[n] = store[n] \/ store'[n] = Absent \/ store'[n] = store["tmp"]
      BY <1>5 DEF Rename
    <2>2. QED
      BY <1>1, <1>2, <2>1
  <1>6. CASE UNCHANGED store
    BY <1>1, <1>6
  <1>7. QED
    BY <1>3, <1>4, <1>5, <1>6
    DEF Next, Load, Serve, Quiesce, vars, Receive, Prebuilt, Hit, Miss, ReadSnapshot, WarmLoad,
        ColdLoad, Scan, BuildFails, Insert, StartExtract, Extract, MarkDirty, Answer, Finish, Select,
        CheckDirty, WriteFails, Remove, Edit, Delete, Crash

\* A build that goes on has read, or restored, all it has not to read.
LEMMA BuildSteps ==
  ASSUME Basics, [Next]_vars, NEW t \in Thread, pc'[t] \in {"accept", "scan"}, kind'[t] # "rebuild"
  PROVE  \/ ReadSnapshot(t) \/ ColdLoad(t) \/ Scan(t)
         \/ /\ pc[t] \in {"accept", "scan"} /\ kind[t] # "rebuild"
            /\ fresh'[t] = fresh[t] /\ stamp'[t] = stamp[t] /\ todo'[t] = todo[t]
  <1> DEFINE Same == /\ pc[t] \in {"accept", "scan"} /\ kind[t] # "rebuild"
                     /\ fresh'[t] = fresh[t] /\ stamp'[t] = stamp[t] /\ todo'[t] = todo[t]
  <1>0. /\ pc \in [Actor -> Labels] /\ kind \in [Thread -> AllKinds \cup {"none"}]
        /\ fresh \in [Thread -> Content] /\ todo \in [Thread -> SUBSET File]
        /\ stamp \in [Actor -> 0..now]
    BY DEF Basics, LocalsOK, BuildsOK
  <1>1. ASSUME NEW u \in Thread,
               (((Receive(u) \/ Prebuilt(u)) \/ Hit(u)) \/ Miss(u)) \/ BuildFails(u) \/ Insert(u)
        PROVE  Same
    BY <1>0, <1>1 DEF Receive, Prebuilt, Hit, EndBuild, Miss, BuildFails, Insert
  <1>2. ASSUME NEW u \in Thread, u # t, (ReadSnapshot(u) \/ ColdLoad(u)) \/ Scan(u) PROVE Same
    BY <1>0, <1>2 DEF ReadSnapshot, ColdLoad, Scan
  <1>3. ASSUME NEW u \in Thread, WarmLoad(u) PROVE Same
    BY <1>0, <1>3 DEF WarmLoad
  <1>4. ASSUME NEW u \in Thread,
               ((StartExtract(u) \/ Extract(u)) \/ MarkDirty(u)) \/ Answer(u) \/ Finish(u)
        PROVE  Same
    BY <1>0, <1>4 DEF StartExtract, Extract, MarkDirty, Answer, Finish
  <1>5. ASSUME NEW e \in Evictor, Select(e) \/ Quiesce(e) PROVE Same
    BY <1>0, <1>5 DEF Select, Quiesce, CheckDirty, OpenTmp, WriteTmp, WriteFails, Rename, Remove
  <1>6. ASSUME NEW f \in File, Edit(f) \/ Delete(f) PROVE Same
    BY <1>6 DEF Edit, Delete
  <1>7. CASE UNCHANGED vars
    BY <1>7 DEF vars
  <1>8. ~Crash
    BY DEF Crash
  <1>9. QED
    BY <1>1, <1>2, <1>3, <1>4, <1>5, <1>6, <1>7, <1>8 DEF Next, Load, Serve

LEMMA BuildsNext == FreshInv /\ [Next]_vars => BuildsSound'
  <1> SUFFICES ASSUME FreshInv, [Next]_vars, NEW t \in Thread,
                      pc'[t] \in {"accept", "scan"}, kind'[t] # "rebuild"
               PROVE  Sound(fresh[t], stamp[t], todo[t])'
    BY DEF BuildsSound
  <1>0. Basics /\ Basics' /\ Ages
    BY BasicsNext, EveryStepAges DEF FreshInv
  <1>1. CASE ReadSnapshot(t)
    <2>1. PICK c, at : c = store["snap"].content /\ at = store["snap"].builtAt
      OBVIOUS
    <2>2. fresh'[t] = c /\ stamp'[t] = at /\ UNCHANGED <<disk, hidden, todo>> /\ todo[t] = {}
      BY <1>0, <1>1, <2>1 DEF ReadSnapshot, Basics, LocalsOK, BuildsOK, Control
    <2>3. Sound(c, at, {})
      BY <2>1 DEF FreshInv, StoreSound
    <2>4. QED
      BY <2>2, <2>3 DEF Sound, Missed, Excused
  <1>2. CASE ColdLoad(t)
    <2>1. todo'[t] = File
      BY <1>0, <1>2 DEF ColdLoad, Basics, BuildsOK
    <2>2. QED
      BY <2>1 DEF Sound
  <1>3. CASE Scan(t)
    <2>1. PICK f \in todo[t] : /\ todo' = [todo EXCEPT ![t] = @ \ {f}]
                             /\ fresh' = [fresh EXCEPT ![t][f] = disk[f]]
      BY <1>3 DEF Scan
    <2>2. /\ UNCHANGED <<disk, hidden, stamp, kind, pc>>
          /\ pc[t] = "scan" /\ kind[t] # "rebuild"
      BY <1>3 DEF Scan
    <2>3. Sound(fresh[t], stamp[t], todo[t])
      BY <2>2 DEF FreshInv, BuildsSound
    <2>4. /\ todo'[t] = todo[t] \ {f}
          /\ \A h \in File : fresh'[t][h] = IF h = f THEN disk[f] ELSE fresh[t][h]
      BY <1>0, <2>1 DEF Basics, BuildsOK, Content
    <2>5. QED
      BY <2>2, <2>3, <2>4 DEF Sound, Missed, Excused
  <1>4. CASE /\ pc[t] \in {"accept", "scan"} /\ kind[t] # "rebuild"
             /\ fresh'[t] = fresh[t] /\ stamp'[t] = stamp[t] /\ todo'[t] = todo[t]
    <2>1. PICK c, at, S : c = fresh[t] /\ at = stamp[t] /\ S = todo[t]
      OBVIOUS
    <2>2. at \in Time /\ at <= now
      BY <1>0, <2>1 DEF Basics, LocalsOK, TreeOK
    <2>3. Sound(c, at, S)
      BY <1>4, <2>1 DEF FreshInv, BuildsSound
    <2>4. Sound(c, at, S)'
      BY <1>0, <2>2, <2>3, SoundLasts
    <2>5. QED
      BY <1>4, <2>1, <2>4 DEF Sound, Missed
  <1>5. QED
    BY <1>0, <1>1, <1>2, <1>3, <1>4, BuildSteps

\* An evictor about to write holds the same graph, with the same built_at, as
\* when it looked whether the graph was dirty.
LEMMA WriteSteps ==
  ASSUME Basics, [Next]_vars, NEW e \in Evictor, pc'[e] \in {"open", "write"}
  PROVE  /\ held'[e] = held[e]
         /\ \/ pc[e] \in {"open", "write"} /\ stamp'[e] = stamp[e]
            \/ pc[e] = "persist" /\ stamp'[e] = builtAt[held[e]]
  <1> DEFINE Same == /\ held'[e] = held[e]
                     /\ pc[e] \in {"open", "write"} /\ stamp'[e] = stamp[e]
  <1>0. /\ pc \in [Actor -> Labels] /\ held \in [Actor -> Graph \cup {None}]
        /\ stamp \in [Actor -> 0..now] /\ e \notin Thread
    BY DEF Basics, LocalsOK
  <1>1. ASSUME NEW t \in Thread, (Receive(t) \/ Load(t)) \/ Serve(t) PROVE Same
    BY <1>0, <1>1 DEF Load, Serve, Receive, Prebuilt, Hit, EndBuild, Miss, ReadSnapshot, WarmLoad,
       ColdLoad, Scan, BuildFails, Insert, StartExtract, Extract, MarkDirty, Answer, Finish
  <1>2. ASSUME NEW d \in Evictor, ((Select(d) \/ OpenTmp(d)) \/ WriteTmp(d)) \/ WriteFails(d) \/
               Rename(d) \/ Remove(d)
        PROVE  Same
    BY <1>0, <1>2 DEF Select, OpenTmp, WriteTmp, WriteFails, Rename, Remove
  <1>3. ASSUME NEW d \in Evictor, d # e, CheckDirty(d) PROVE Same
    BY <1>0, <1>3 DEF CheckDirty
  <1>4. CASE CheckDirty(e)
    BY <1>0, <1>4 DEF CheckDirty
  <1>5. ASSUME NEW f \in File, Edit(f) \/ Delete(f) PROVE Same
    BY <1>5 DEF Edit, Delete
  <1>6. CASE UNCHANGED vars
    BY <1>6 DEF vars
  <1>7. ~Crash
    BY DEF Crash
  <1>8. QED
    BY <1>1, <1>2, <1>3, <1>4, <1>5, <1>6, <1>7 DEF Next, Quiesce

LEMMA WritesNext == FreshInv /\ [Next]_vars => WritesSound'
  <1> SUFFICES ASSUME FreshInv, [Next]_vars, NEW e \in Evictor, pc'[e] \in {"open", "write"}
               PROVE  Sound(content[held[e]], stamp[e], {})'
    BY DEF WritesSound
  <1>0. Basics /\ Basics'
    BY BasicsNext DEF FreshInv
  <1>1. pc[e] \in {"open", "write", "persist"} /\ held'[e] = held[e]
    BY <1>0, WriteSteps
  <1>2. held[e] \in Graph /\ held[e] <= loads
    BY <1>0, <1>1 DEF Basics, LocalsOK, Control
  <1>3. PICK g \in Graph : g = held[e]
    BY <1>2
  <1>4. PICK at \in Time : at = stamp'[e]
    BY <1>0 DEF Basics, LocalsOK, TreeOK
  <1>5. g <= loads /\ at <= now
    <2>1. stamp[e] \in 0..now /\ builtAt[held[e]] \in 0..now
      BY <1>0, <1>2 DEF Basics, LocalsOK, EntriesOK
    <2>2. QED
      BY <1>0, <1>2, <1>3, <1>4, <2>1, WriteSteps DEF Basics, TreeOK
  <1>6. Sound(content[g], at, {})
    BY <1>0, <1>3, <1>4, <1>5, WriteSteps DEF FreshInv, WritesSound, GraphsSound, Sound, Missed
  <1>7. Sound(content[g], at, {})'
    BY <1>0, <1>4, <1>5, <1>6, GraphLasts
  <1>8. QED
    BY <1>1, <1>3, <1>4, <1>7 DEF Sound, Missed

LEMMA FreshInvariant == Spec => []FreshInv
  <1>1. FreshInv /\ [Next]_vars => FreshInv'
    BY BasicsNext, GraphsNext, StoreNext, BuildsNext, WritesNext DEF FreshInv
  <1>2. QED
    BY <1>1, SoundInit, PTL DEF Spec

-----------------------------------------------------------------------------
\* Every variable has its type, and no built_at, in memory, in a snapshot or
\* in a thread's hands, is ahead of the clock.
THEOREM FreshTypeCorrect == Spec => []TypeOK
  <1>1. FreshInv => TypeOK
    BY DEF FreshInv, Basics, TypeOK, TreeOK, EntriesOK, StoreOK, LocalsOK, BuildsOK
  <1>2. QED
    BY <1>1, FreshInvariant, PTL

\* However builds, heals, reindexes, snapshot writes, evictions, crashes and
\* edits interleave, the cached graph and the snapshot miss no version of a
\* file that is not newer than their built_at, but for what is excused.
THEOREM WatermarkSoundHolds == Spec => []WatermarkSound
  <1>1. FreshInv => WatermarkSound
    BY DEF FreshInv, Basics, EntriesOK, Control, GraphsSound, StoreSound, Sound, WatermarkSound
  <1>2. QED
    BY <1>1, FreshInvariant, PTL

\* Who is served, and by which step.
LEMMA ServingSteps ==
  ASSUME Basics, [Next]_vars, NEW t \in Thread
  PROVE  /\ pc[t] = "get" /\ pc'[t] = "run" => Hit(t)
         /\ pc[t] = "accept" /\ pc'[t] = "scan" => WarmLoad(t) \/ ColdLoad(t)
  <1> DEFINE Elsewhere == /\ ~(pc[t] = "get" /\ pc'[t] = "run")
                          /\ ~(pc[t] = "accept" /\ pc'[t] = "scan")
  <1>0. pc \in [Actor -> Labels]
    BY DEF Basics, LocalsOK
  <1>1. ASSUME NEW u \in Thread, u # t, ((Receive(u) \/ Load(u)) \/ Serve(u)) PROVE Elsewhere
    BY <1>0, <1>1 DEF Receive, Load, Serve, Prebuilt, Hit, Miss, ReadSnapshot, WarmLoad, ColdLoad,
       Scan, BuildFails, Insert, StartExtract, Extract, MarkDirty, Answer, Finish
  <1>2. CASE (((Receive(t) \/ Prebuilt(t)) \/ Miss(t)) \/ ReadSnapshot(t)) \/ Scan(t) \/ BuildFails(t)
    BY <1>0, <1>2 DEF Receive, Prebuilt, Miss, ReadSnapshot, Scan, BuildFails
  <1>3. CASE Insert(t) \/ Serve(t)
    BY <1>0, <1>3 DEF Insert, Serve, StartExtract, Extract, MarkDirty, Answer, Finish
  <1>4. CASE Hit(t)
    BY <1>4 DEF Hit
  <1>5. CASE WarmLoad(t) \/ ColdLoad(t)
    BY <1>0, <1>5 DEF WarmLoad, ColdLoad
  <1>6. ASSUME NEW e \in Evictor, Select(e) \/ Quiesce(e) PROVE Elsewhere
    BY <1>0, <1>6 DEF Select, Quiesce, CheckDirty, OpenTmp, WriteTmp, WriteFails, Rename, Remove
  <1>7. ASSUME NEW f \in File, Edit(f) \/ Delete(f) PROVE Elsewhere
    BY <1>7 DEF Edit, Delete
  <1>8. CASE Crash \/ UNCHANGED vars
    BY <1>8 DEF Crash, vars
  <1>9. QED
    BY <1>1, <1>2, <1>3, <1>4, <1>5, <1>6, <1>7, <1>8 DEF Next, Load

\* A query, a reload or a rebuild is given a graph of the source as it is, but
\* for what is excused, and so is a thread that restores a snapshot.
THEOREM ServedFreshHolds == Spec => ServedFresh
  <1> DEFINE Served(t, f) ==
        /\ pc[t] = "get" /\ pc'[t] = "run" /\ kind[t] # "reindex"
             => Excused(f) \/ content[held'[t]][f] = disk[f]
        /\ pc[t] = "accept" /\ pc'[t] = "scan" /\ warm'[t]
             => Excused(f) \/ fresh'[t][f] = disk[f]
  <1>1. ASSUME FreshInv, [Next]_vars, NEW t \in Thread, NEW f \in File PROVE Served(t, f)
    <2>1. Basics /\ disk[f] \in Nat /\ now \in Nat
      BY <1>1 DEF FreshInv, Basics, TreeOK, Content
    <2>2. ASSUME pc[t] = "get", pc'[t] = "run", kind[t] # "reindex"
          PROVE  Excused(f) \/ content[held'[t]][f] = disk[f]
      <3>1. Hit(t)
        BY <1>1, <2>1, <2>2, ServingSteps
      <3>2. current \in Graph /\ current <= loads /\ held'[t] = current
        BY <2>1, <3>1 DEF Hit, Basics, EntriesOK, LocalsOK, Control
      <3>3. ~(disk[f] > builtAt[current])
        BY <2>2, <3>1 DEF Hit, MustEvict, Newer
      <3>4. disk[f] <= builtAt[current]
        BY <2>1, <3>2, <3>3 DEF Basics, EntriesOK
      <3>5. Sound(content[current], builtAt[current], {})
        BY <1>1, <3>2 DEF FreshInv, GraphsSound
      <3>6. QED
        BY <3>2, <3>4, <3>5 DEF Sound, Missed
    <2>3. ASSUME pc[t] = "accept", pc'[t] = "scan", warm'[t]
          PROVE  Excused(f) \/ fresh'[t][f] = disk[f]
      <3>1. WarmLoad(t)
        BY <1>1, <2>1, <2>3, ServingSteps DEF ColdLoad, Basics, BuildsOK
      <3>2. ~(disk[f] > stamp[t]) /\ fresh' = fresh
        BY <3>1 DEF WarmLoad, Accepted, Newer
      <3>3. disk[f] <= stamp[t]
        BY <2>1, <3>2 DEF Basics, LocalsOK
      <3>4. Sound(fresh[t], stamp[t], {})
        BY <1>1, <2>1, <2>3 DEF FreshInv, BuildsSound, Basics, Control
      <3>5. QED
        BY <3>2, <3>3, <3>4 DEF Sound, Missed
    <2>4. QED
      BY <2>2, <2>3
  <1>2. FreshInv /\ [Next]_vars => \A t \in Thread, f \in File : Served(t, f)
    BY <1>1
  <1>3. QED
    BY <1>2, FreshInvariant, PTL DEF Spec, ServedFresh
=============================================================================
