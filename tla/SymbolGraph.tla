---------------------------- MODULE SymbolGraph ----------------------------
(***************************************************************************)
(* The symbol graph held in memory (graph/src/symbol_graph.rs) with the    *)
(* structures kept beside its nodes and edges: the name, qualified-name    *)
(* and value indexes, the set of seen edges, the per-file evidence, the    *)
(* cemetery of nodes marked Gone and the per-file bloom filters.  Every    *)
(* operation that changes the graph must keep all of them in step:         *)
(* insertion by the extraction passes, the reclassification of string      *)
(* matches, status marks and garbage collection, the round trip through a  *)
(* snapshot, invalidation, and the reindex of one file in place            *)
(* (cli/src/dispatch.rs).                                                  *)
(*                                                                         *)
(* The graph is one record, so that an operation made of several calls is  *)
(* a composition of the operators that stand for those calls.              *)
(***************************************************************************)
EXTENDS Naturals, Sequences, FiniteSets, FiniteSetsExt, SequencesExt

CONSTANTS
    Files,        \* source files
    Decls,        \* declarations a file may hold: [name, qual, kind]
    MaxId,        \* bound: ids 0 .. MaxId-1 are handed out
    MaxContent,   \* bound: declarations in one file
    MaxEdges,     \* bound: edges a pass may add to
    LookupLimit,  \* matches a lookup by name returns (4 in the reindex)
    MaxStale      \* bound: where the stale-evidence counter saturates

ASSUME DeclsAssumption ==
    \A d \in Decls : DOMAIN d = {"name", "qual", "kind"}
ASSUME BoundsAssumption ==
    /\ MaxId \in Nat /\ MaxContent \in Nat /\ MaxEdges \in Nat
    /\ LookupLimit \in Nat \ {0} /\ MaxStale \in Nat \ {0}

VARIABLE g        \* the graph

Contents == UNION {[1..n -> Decls] : n \in 0..MaxContent}
Valued == {"StringLiteral", "EnumVariant", "Constant"}
Statuses == {"Live", "Gone"}   \* Live is Verified or Stale: the graph reads only Gone
EdgeKinds == {"Contains", "Imports", "StringMatch", "EnumValueMatch"}
NoId == MaxId     \* no node found

(***************************************************************************)
(* Partial maps.                                                           *)
(***************************************************************************)
Put(f, k, v) == [x \in (DOMAIN f) \cup {k} |-> IF x = k THEN v ELSE f[x]]
Only(f, S) == [x \in (DOMAIN f) \cap S |-> f[x]]
At(f, k, default) == IF k \in DOMAIN f THEN f[k] ELSE default

Empty == [x \in {} |-> x]
NoEvidence == [nodes |-> {}, edges |-> {}]

EmptyGraph ==
    [nodes |-> Empty, edges |-> {}, nextId |-> 0, index |-> Empty, seen |-> {},
     evidence |-> Empty, gone |-> Empty, blooms |-> Empty]

InFile(h, f) == {id \in DOMAIN h.nodes : h.nodes[id].file = f}
EdgeKey(e) == <<e.from, e.to, e.kind>>

(***************************************************************************)
(* The buckets a declaration is recorded in.  A qualified name that is     *)
(* empty or equals the name has no bucket of its own.                      *)
(***************************************************************************)
Buckets(d) ==
    {<<"name", d.name>>}
      \cup {b \in {<<"qual", d.qual>>} : d.qual \notin {"", d.name}}
      \cup {b \in {<<"value", d.name>>} : d.kind \in Valued}

RecordIndexes(h, id, f, d) ==
    [h EXCEPT
      !.index = [b \in (DOMAIN @) \cup Buckets(d) |->
                   IF b \in Buckets(d) THEN Append(At(@, b, <<>>), id) ELSE @[b]],
      !.blooms = Put(@, f, At(@, f, {}) \cup {d.name})]

AddEvidence(evidence, f, nodes, edges) ==
    LET old == At(evidence, f, NoEvidence)
    IN Put(evidence, f, [nodes |-> old.nodes \cup nodes, edges |-> old.edges \cup edges])

\* Evidence and indexes first, then the node itself, as both inserts do.
PlaceNode(h, id, node) ==
    [RecordIndexes(h, id, node.file, node.decl) EXCEPT
      !.nodes = Put(@, id, node),
      !.evidence = AddEvidence(@, node.file, {id}, {})]

InsertNode(h, f, d) ==
    [PlaceNode(h, h.nextId, [file |-> f, decl |-> d, status |-> "Live"])
       EXCEPT !.nextId = @ + 1]

InsertPreservingId(h, id, node) ==
    [PlaceNode(h, id, node) EXCEPT !.nextId = IF id >= @ THEN id + 1 ELSE @]

\* Refused when an endpoint is unknown; a key seen before adds nothing.
InsertEdge(h, e) ==
    IF {e.from, e.to} \subseteq DOMAIN h.nodes /\ EdgeKey(e) \notin h.seen
      THEN [h EXCEPT
             !.edges = @ \cup {e},
             !.seen = @ \cup {EdgeKey(e)},
             !.evidence = AddEvidence(@, e.ev, {}, {EdgeKey(e)})]
      ELSE h

\* The edge goes, but its key stays in the seen set and in the evidence.
RetainEdges(h, keep) == [h EXCEPT !.edges = @ \cap keep]

(***************************************************************************)
(* remove_node for every id of a set (the order of the calls is            *)
(* immaterial): incident edges, index entries, seen keys and evidence go   *)
(* with the nodes, a bucket or an evidence entry left empty is dropped,    *)
(* and the bloom filter of a file goes with the file's last node.          *)
(***************************************************************************)
\* A sequence of ids but for those of a set.
Without(ids, S) == FoldLeft(LAMBDA left, id : IF id \in S THEN left ELSE Append(left, id), <<>>, ids)

\* Mutant: the qualified-name index is forgotten.
CutIndexByName(index, S) ==
    LET left(b) == IF b[1] = "qual" THEN index[b] ELSE Without(index[b], S)
    IN [b \in {k \in DOMAIN index : left(k) # <<>>} |-> left(b)]

CutIndex(index, S) ==
    LET left(b) == Without(index[b], S)
    IN [b \in {k \in DOMAIN index : left(k) # <<>>} |-> left(b)]

\* Mutant: only the evidence of outgoing edges is dropped.
CutEvidenceFrom(evidence, S) ==
    LET left(f) == [nodes |-> evidence[f].nodes \ S,
                    edges |-> {k \in evidence[f].edges : k[1] \notin S}]
    IN [f \in {x \in DOMAIN evidence : left(x) # NoEvidence} |-> left(f)]

CutEvidence(evidence, S) ==
    LET left(f) == [nodes |-> evidence[f].nodes \ S,
                    edges |-> {k \in evidence[f].edges : {k[1], k[2]} \cap S = {}}]
    IN [f \in {x \in DOMAIN evidence : left(x) # NoEvidence} |-> left(f)]

RemoveNodes(h, S) ==
    LET live == (DOMAIN h.nodes) \ S
        Emptied(f) == /\ \E id \in S : h.nodes[id].file = f
                      /\ \A id \in live : h.nodes[id].file # f
    IN [h EXCEPT
         !.nodes = Only(@, live),
         !.edges = {e \in @ : {e.from, e.to} \cap S = {}},
         !.index = CutIndex(@, S),
         !.seen = {k \in @ : {k[1], k[2]} \cap S = {}},
         !.evidence = CutEvidence(@, S),
         !.gone = Only(@, (DOMAIN @) \ S),
         !.blooms = Only(@, {f \in DOMAIN @ : ~Emptied(f)})]

\* A mark as Gone starts the grace period; any other mark ends it.
SetStatus(h, ids, status) ==
    LET live == ids \cap DOMAIN h.nodes
    IN [h EXCEPT
         !.nodes = [id \in DOMAIN h.nodes |-> IF id \in live THEN [h.nodes[id] EXCEPT !.status = status]
                                                            ELSE h.nodes[id]],
         !.gone = IF status = "Gone"
                    THEN [id \in (DOMAIN @) \cup live |-> IF id \in live THEN "young" ELSE @[id]]
                    ELSE Only(@, (DOMAIN @) \ live)]

(***************************************************************************)
(* from_graph and into_graph: the nodes and edges kept, inserted in the    *)
(* order of their slots (order) into an empty graph.                       *)
(***************************************************************************)
Restored(h, order, edges) ==
    LET nodes == FoldLeft(LAMBDA a, id : InsertPreservingId(a, id, h.nodes[id]), EmptyGraph, order)
    IN FoldSet(LAMBDA e, a : InsertEdge(a, e), nodes, edges)

-----------------------------------------------------------------------------
(***************************************************************************)
(* Reindex of one file in place.                                           *)
(***************************************************************************)

\* Edges with one end in the file and evidence in another.
Captured(h, f) ==
    {e \in h.edges : /\ e.ev # f
                     /\ (h.nodes[e.from].file = f) # (h.nodes[e.to].file = f)}

Extracted(h, f, content) == FoldLeft(LAMBDA a, d : InsertNode(a, f, d), h, content)

\* Mutant: the file of the hit is not looked at.
HitAnywhere(h, f, b) ==
    IF b \in DOMAIN h.index THEN Head(h.index[b]) ELSE NoId

\* The first of the bucket's first LookupLimit nodes that lies in the file.
Hit(h, f, b) ==
    LET bucket == At(h.index, b, <<>>)
        hits == {i \in DOMAIN bucket : i <= LookupLimit /\ h.nodes[bucket[i]].file = f}
    IN IF hits = {} THEN NoId ELSE bucket[Min(hits)]

\* Mutant: both lookups are given the qualified name.
RelinkTargetQualOnly(h, f, d) ==
    IF Hit(h, f, <<"qual", d.qual>>) # NoId THEN Hit(h, f, <<"qual", d.qual>>)
                                            ELSE Hit(h, f, <<"name", d.qual>>)

\* By qualified name, then by bare name.
RelinkTarget(h, f, d) ==
    IF Hit(h, f, <<"qual", d.qual>>) # NoId THEN Hit(h, f, <<"qual", d.qual>>)
                                            ELSE Hit(h, f, <<"name", d.name>>)

Older(e) == IF e.stale < MaxStale THEN e.stale + 1 ELSE e.stale

\* e is an edge of h0, the graph before its file-side node was removed.
Relinked(h, h0, f, e) ==
    LET incoming == h0.nodes[e.to].file = f
        target == RelinkTarget(h, f, h0.nodes[IF incoming THEN e.to ELSE e.from].decl)
    IN IF target = NoId
         THEN h
         ELSE InsertEdge(h, IF incoming THEN [e EXCEPT !.to = target, !.stale = Older(e)]
                                        ELSE [e EXCEPT !.from = target, !.stale = Older(e)])

Reindexed(h, f, content, order) ==
    FoldLeft(LAMBDA a, e : Relinked(a, h, f, e),
             Extracted(RemoveNodes(h, InFile(h, f)), f, content),
             order)

-----------------------------------------------------------------------------
Init == g = EmptyGraph

\* An extraction pass adds a symbol.
AddNode(f, d) ==
    /\ g.nextId < MaxId
    /\ Cardinality(InFile(g, f)) < MaxContent
    /\ g' = InsertNode(g, f, d)

\* A resolution or matching pass adds an edge; the evidence lies at one end.
AddEdge(from, to, kind) ==
    /\ from # to
    /\ Cardinality(g.seen) < MaxEdges
    /\ (kind = "Contains") <=> (g.nodes[from].file = g.nodes[to].file)
    /\ kind = "StringMatch" => /\ g.nodes[from].decl.kind \in Valued
                               /\ g.nodes[to].decl.kind \in Valued
                               /\ g.nodes[from].decl.name = g.nodes[to].decl.name
    /\ g' = InsertEdge(g, [from |-> from, to |-> to, kind |-> kind,
                           ev |-> g.nodes[from].file, stale |-> 0])

\* String matches between two enum variants get the narrower kind.
ReclassifyStringMatch ==
    LET IsVariant(id) == g.nodes[id].decl.kind = "EnumVariant"
        old == {e \in g.edges : e.kind = "StringMatch" /\ IsVariant(e.from) /\ IsVariant(e.to)}
        new == {[e EXCEPT !.kind = "EnumValueMatch", !.stale = 0] : e \in old}
    IN /\ old # {}
       /\ g' = FoldSet(LAMBDA e, a : InsertEdge(a, e), RetainEdges(g, g.edges \ old), new)

\* mark_file_nodes, for a file in a change batch.
MarkFile(f, status) ==
    /\ f \in DOMAIN g.evidence
    /\ g' = SetStatus(g, g.evidence[f].nodes, status)

\* The grace period of everything buried so far runs out.
GracePasses == DOMAIN g.gone # {} /\ g' = [g EXCEPT !.gone = [id \in DOMAIN @ |-> "ripe"]]

GcGone ==
    LET ripe == {id \in DOMAIN g.gone : g.gone[id] = "ripe"}
    IN ripe # {} /\ g' = RemoveNodes(g, ripe)

\* The content of the changed files is dropped by way of a snapshot.
Invalidate(changed) ==
    LET kept == {id \in DOMAIN g.nodes : g.nodes[id].file \notin changed}
    IN \E order \in SetToSeqs(kept) : g' = Restored(g, order, {e \in g.edges : e.ev \notin changed})

\* A snapshot is written and loaded again.
SaveAndLoad ==
    \E order \in SetToSeqs(DOMAIN g.nodes) : g' = Restored(g, order, g.edges)

\* A deleted file reads as one without content.
ReindexFile(f, content) ==
    /\ g.nextId + Len(content) <= MaxId
    /\ \E order \in SetToSeqs(Captured(g, f)) : g' = Reindexed(g, f, content, order)

Next ==
    \/ \E f \in Files, d \in Decls : AddNode(f, d)
    \/ \E from, to \in DOMAIN g.nodes, kind \in {"Contains", "Imports", "StringMatch"} : AddEdge(from, to, kind)
    \/ ReclassifyStringMatch
    \/ \E f \in Files, s \in Statuses : MarkFile(f, s)
    \/ GracePasses
    \/ GcGone
    \/ \E changed \in (SUBSET Files) \ {{}} : Invalidate(changed)
    \/ SaveAndLoad
    \/ \E f \in Files, content \in Contents : ReindexFile(f, content)

Spec == Init /\ [][Next]_g

-----------------------------------------------------------------------------
(***************************************************************************)
(* Properties.                                                             *)
(***************************************************************************)
Ids == 0..(MaxId - 1)
Keys == Ids \X Ids \X EdgeKinds

\* The graph has its type; an edge's ends are nodes of the graph.
TypeOK ==
    /\ DOMAIN g.nodes \subseteq Ids
    /\ \A id \in DOMAIN g.nodes :
         g.nodes[id] \in [file : Files, decl : Decls, status : Statuses]
    /\ g.edges \subseteq [from : DOMAIN g.nodes, to : DOMAIN g.nodes, kind : EdgeKinds,
                          ev : Files, stale : 0..MaxStale]
    /\ g.nextId \in 0..MaxId
    /\ \A id \in DOMAIN g.nodes : id < g.nextId
    /\ DOMAIN g.evidence \subseteq Files

\* The buckets a lookup reads hold each live node once under each of its
\* keys and nothing else: removal, reindex and restoration keep the three
\* secondary indexes exact (record_indexes against remove_node).
IndexExact ==
    LET keys == UNION {Buckets(g.nodes[id].decl) : id \in DOMAIN g.nodes}
    IN /\ DOMAIN g.index = keys
       /\ \A b \in keys :
            /\ IsInjective(g.index[b])
            /\ ToSet(g.index[b]) = {id \in DOMAIN g.nodes : b \in Buckets(g.nodes[id].decl)}

\* The seen set that insert_edge consults and the per-file evidence agree:
\* every key is the evidence of exactly one file and has two live ends,
\* every edge in the graph has its key recorded for its evidence file, no
\* two edges share a key, and a file's defined nodes are the nodes in it.
EvidenceExact ==
    /\ \A k \in g.seen : {k[1], k[2]} \subseteq DOMAIN g.nodes
    /\ \A k \in g.seen :
         Cardinality({f \in DOMAIN g.evidence : k \in g.evidence[f].edges}) = 1
    /\ UNION {g.evidence[f].edges : f \in DOMAIN g.evidence} = g.seen
    /\ \A e \in g.edges :
         e.ev \in DOMAIN g.evidence /\ EdgeKey(e) \in g.evidence[e.ev].edges
    /\ \A e1, e2 \in g.edges : EdgeKey(e1) = EdgeKey(e2) => e1 = e2
    /\ \A f \in Files : At(g.evidence, f, NoEvidence).nodes = InFile(g, f)
    /\ \A f \in DOMAIN g.evidence : g.evidence[f] # NoEvidence

\* gc_gone counts what the cemetery holds as removed: every id in it is a
\* live node marked Gone, so that a node marked otherwise since, or an id
\* given to another symbol, is never collected.
GoneResident ==
    \A id \in DOMAIN g.gone : id \in DOMAIN g.nodes /\ g.nodes[id].status = "Gone"

\* A negative answer of file_might_define is definitive, and the filters
\* stay bounded by the files that have nodes.
BloomsCover ==
    /\ DOMAIN g.blooms = {g.nodes[id].file : id \in DOMAIN g.nodes}
    /\ \A id \in DOMAIN g.nodes : g.nodes[id].decl.name \in g.blooms[g.nodes[id].file]

\* What looks symbols up without walking the graph agrees with it: the name
\* index, the cemetery and the bloom filters.
LookupsExact == IndexExact /\ GoneResident /\ BloomsCover

\* The step is the reindex of f (the first conjuncts are cheap to refute).
IsReindex(f, content) ==
    /\ g'.nextId = g.nextId + Len(content)
    /\ DOMAIN g'.nodes \cap InFile(g, f) = {}
    /\ ReindexFile(f, content)

\* lookup_by_name returns all of the symbols of a name.
Uncrowded(b) == b \in DOMAIN g'.index /\ Len(g'.index[b]) <= LookupLimit

\* A reindex that finds a symbol again under its qualified name, or under
\* its name when no namesake crowds the lookup, keeps the edges other files
\* have with it: same kind, same other end, one step staler, and at this end
\* a symbol of the file that has its qualified name or its name.
RelinksSurvivors ==
    [][\A f \in Files, content \in Contents :
         IsReindex(f, content) =>
           \A e \in Captured(g, f) :
             LET incoming == g.nodes[e.to].file = f
                 old == g.nodes[IF incoming THEN e.to ELSE e.from].decl
                 again == \/ /\ old \in ToSet(content)
                             /\ Uncrowded(<<"name", old.name>>)
                          \/ /\ old \in ToSet(content) /\ old.qual \notin {"", old.name}
                             /\ Uncrowded(<<"qual", old.qual>>)
             IN again => \E e2 \in g'.edges :
                           LET end == g'.nodes[IF incoming THEN e2.to ELSE e2.from]
                           IN /\ e2.kind = e.kind
                              /\ IF incoming THEN e2.from = e.from ELSE e2.to = e.to
                              /\ end.file = f
                              /\ \/ end.decl.name = old.name
                                 \/ old.qual # "" /\ end.decl.qual = old.qual
                              /\ e2.stale > 0]_g

\* A reindex of one file leaves every other file's nodes, and the edges
\* between other files, as they were.
ReindexIsLocal ==
    [][\A f \in Files, content \in Contents :
         IsReindex(f, content) =>
           LET Away(h) == {id \in DOMAIN h.nodes : h.nodes[id].file # f}
               Outside(h) == {e \in h.edges : {e.from, e.to} \subseteq Away(h)}
           IN /\ Only(g'.nodes, Away(g')) = Only(g.nodes, Away(g))
              /\ Outside(g') = Outside(g)]_g

\* What dispatch.rs says of the edges a reindex does not capture ("the
\* extractor will re-emit them", "re-extraction will rebuild intra-file
\* edges naturally"): reindexing a file whose content has not changed keeps
\* every edge the file is the evidence of.
OwnEdgesReemitted ==
    [][\A f \in Files, content \in Contents :
         /\ IsReindex(f, content)
         /\ Len(content) = Cardinality(InFile(g, f))
         /\ ToSet(content) = {g.nodes[id].decl : id \in InFile(g, f)}
         => \A e \in g.edges :
              e.ev = f => \E e2 \in g'.edges :
                            /\ e2.kind = e.kind
                            /\ g'.nodes[e2.from].decl = g.nodes[e.from].decl
                            /\ g'.nodes[e2.to].decl = g.nodes[e.to].decl]_g

=============================================================================
