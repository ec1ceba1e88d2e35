------------------------------ MODULE Pipeline ------------------------------
(***************************************************************************)
(* The extraction pipeline (extractor/src/lib.rs) over an abstract source  *)
(* tree: build_graph makes a graph from every file; build_graph_incremental*)
(* invalidates the changed files, extracts them again and re-runs most of  *)
(* the stages over the whole graph.  The question is what the incremental  *)
(* graph keeps of the graph a clean build would make.                      *)
(*                                                                         *)
(* A file is what its extractor sees in it: its definitions in order, and  *)
(* its references, each at a place below a definition or above them all.   *)
(* A node is known by its kind, name and file (no file defines one name    *)
(* twice); ids, spans, confidence and origin are left out.  Nodes are kept *)
(* in the order of their slots: invalidation closes the gaps and re-made   *)
(* nodes come last.                                                        *)
(***************************************************************************)
EXTENDS Integers, Sequences, FiniteSets, SequencesExt

CONSTANTS
    FileOrder,   \* the files, sorted by path
    Dir,         \* file -> its directory, which names its synthetic module
    Score,       \* file -> how representative it is of its directory
    Contents,    \* file -> the contents it may have
    DocName,     \* a definition's name -> the name of its doc comment's node
    NoFile,      \* no file: ExternalPackage stubs, references without import
    Section,     \* names the project's one Markdown section puts in backticks
    Markdown,    \* the file of that section
    MaxFiles,    \* string_match_max_files (0 = unlimited)
    MaxEdits     \* bound: edits in one behaviour

Files == ToSet(FileOrder)

ASSUME BoundsAssumption == MaxFiles \in Nat /\ MaxEdits \in Nat
ASSUME FilesAssumption ==
    /\ FileOrder \in Seq(Files) /\ IsInjective(FileOrder) /\ \A f \in Files : Score[f] \in Int
    /\ NoFile \notin Files /\ Markdown \notin Files

Symbols == {"Function", "Type", "Field", "Api", "Module"}
References == {"Calls", "Imports", "Implements", "Extends", "TypeOf"}

(***************************************************************************)
(* A content is [exists, defs, refs].                                      *)
(* A definition is [kind, name, qual, doc]: qual, it has a qualified name; *)
(* doc, the names its doc comment links to, or {NoFile} without a comment. *)
(* A reference is [kind, name, at, doc, from]: at, the definition it is    *)
(* under (0: above all); doc, the definition whose doc comment is nearer   *)
(* before it (0: none), being above the next definition, or a docstring in *)
(* the last one's body; from, the file an import names, or NoFile.         *)
(***************************************************************************)
ASSUME ContentsAssumption ==
    \A f \in Files : \A c \in Contents[f] :
      /\ c.defs \in Seq(ToSet(c.defs))
      /\ \A i, j \in DOMAIN c.defs : c.defs[i].name = c.defs[j].name => i = j
      /\ \A d \in ToSet(c.defs) : d.kind \in Symbols
      /\ IsFiniteSet(c.refs)
      /\ \A r \in c.refs : /\ r.kind \in References \cup {"ReexportAll"}
                           /\ r.at \in 0..Len(c.defs) /\ r.from \in Files \cup {NoFile}
                           /\ r.doc \in 0..Len(c.defs)
                           /\ r.doc # 0 => c.defs[r.doc].kind # "Module" /\ r.kind # "ReexportAll"
ASSUME DocNameAssumption ==
    \A f \in Files : \A c \in Contents[f] : \A d1, d2 \in ToSet(c.defs) :
      /\ d1.name \in DOMAIN DocName
      /\ DocName[d1.name] = DocName[d2.name] => d1.name = d2.name

VARIABLES
    tree,        \* file -> its content on disk
    graph,       \* the graph held: [nodes, edges]
    dirty,       \* files edited since the graph last took them in
    edits        \* number of edits so far

vars == <<tree, graph, dirty, edits>>

Synthetic == {"File", "Module", "ExternalPackage", "DocComment", "DocSection"}

Present(t) == {f \in Files : t[f].exists}
Defs(t, f) == t[f].defs
Refs(t, f) == t[f].refs
DirNames == {Dir[f] : f \in Files}

-----------------------------------------------------------------------------
(***************************************************************************)
(* Graphs.  Edges carry their evidence file; two edges with the same ends  *)
(* and kind always have the same evidence, so a set removes duplicates as  *)
(* insert_edge does.                                                       *)
(***************************************************************************)
NoGraph == [nodes |-> <<>>, edges |-> {}]
Nodes(g) == ToSet(g.nodes)
Edge(from, to, kind, ev) == [from |-> from, to |-> to, kind |-> kind, ev |-> ev]
Stub(name) == [kind |-> "ExternalPackage", name |-> name, file |-> NoFile, qual |-> FALSE, span |-> "none"]
FileNode(f) == [kind |-> "File", name |-> f, file |-> f, qual |-> FALSE, span |-> "none"]
BarrelNode(f) == [FileNode(f) EXCEPT !.span = "whole"]
ModuleNode(d, f) == [kind |-> "Module", name |-> d, file |-> f, qual |-> FALSE, span |-> "none"]
DefNode(f, d) == [kind |-> d.kind, name |-> d.name, file |-> f, qual |-> d.qual, span |-> "own"]
DocNode(f, d) == [kind |-> "DocComment", name |-> DocName[d.name], file |-> f, qual |-> FALSE, span |-> "doc"]
SectionNode == [kind |-> "DocSection", name |-> "docsection", file |-> Markdown, qual |-> FALSE, span |-> "own"]

AddNodes(g, nodes) == [g EXCEPT !.nodes = @ \o nodes]
AddEdges(g, edges) == [g EXCEPT !.edges = @ \cup edges]
InFile(g, f) == {n \in Nodes(g) : n.file = f}

\* Of the nodes that are in S, the first and the last in slot order.
First(g, S) == g.nodes[Min({i \in DOMAIN g.nodes : g.nodes[i] \in S})]
Latest(g, S) == g.nodes[Max({i \in DOMAIN g.nodes : g.nodes[i] \in S})]

\* The elements of the sequence that are in S, in order.
Within(s, S) ==
    LET kept == {i \in DOMAIN s : s[i] \in S}
    IN [k \in 1..Cardinality(kept) |->
          s[CHOOSE i \in kept : Cardinality({j \in kept : j <= i}) = k]]

\* Stage 2: the definitions of the files, in their order.
Extract(g, files, t) ==
    AddNodes(g, FlattenSeq([i \in DOMAIN files |->
                  [j \in DOMAIN Defs(t, files[i]) |-> DefNode(files[i], Defs(t, files[i])[j])]]))

\* Stage 3: equal string values in different files, unless in too many.
MatchStrings(g) ==
    LET Places(v) == {i \in DOMAIN g.nodes : g.nodes[i].kind = "Api" /\ g.nodes[i].name = v}
        values == {n.name : n \in {x \in Nodes(g) : x.kind = "Api"}}
        matched == {v \in values : \/ MaxFiles = 0
                                   \/ Cardinality({g.nodes[i].file : i \in Places(v)}) <= MaxFiles}
        pairs == UNION {{<<g.nodes[p[1]], g.nodes[p[2]]>> : p \in
                           {q \in Places(v) \X Places(v) :
                              q[1] < q[2] /\ g.nodes[q[1]].file # g.nodes[q[2]].file}} : v \in matched}
    IN AddEdges(g, {Edge(p[1], p[2], "StringMatch", p[1].file) : p \in pairs})

\* Stage 4: a field is configured by the type of its name in another file.
Mediate(g) ==
    LET pairs == {p \in {n \in Nodes(g) : n.kind = "Field"} \X {n \in Nodes(g) : n.kind = "Type"} :
                    p[1].name = p[2].name /\ p[1].file # p[2].file}
    IN AddEdges(g, {Edge(p[1], p[2], "Configures", p[1].file) : p \in pairs})

(***************************************************************************)
(* Stage 4.5, the structural pass: a File node for every file with         *)
(* children, Contains to each child, BelongsTo from each child to the      *)
(* file's own module or to the module of its directory, made at the        *)
(* directory's most representative file unless one of that name exists.    *)
(***************************************************************************)
Children(g, f) == {n \in InFile(g, f) : n.kind \notin Synthetic}
Parents(g) == {f \in Files : Children(g, f) # {}}
OwnModules(g, f) == {n \in InFile(g, f) : n.kind = "Module"}

Indexed(f) == CHOOSE i \in DOMAIN FileOrder : FileOrder[i] = f

\* The highest score wins, the first path among equals.
Representative(g, d) ==
    CHOOSE f \in Files :
      LET rivals == {x \in Parents(g) : Dir[x] = d /\ OwnModules(g, x) = {}}
      IN /\ f \in rivals
         /\ \A x \in rivals : \/ Score[x] < Score[f]
                              \/ Score[x] = Score[f] /\ Indexed(f) <= Indexed(x)

AddFileNodes(g) ==
    LET new == Within(FileOrder, {f \in Parents(g) : \A n \in InFile(g, f) : n.kind # "File"})
    IN AddNodes(g, [i \in DOMAIN new |-> FileNode(new[i])])

AddModules(g) ==
    LET homeless == {f \in Parents(g) : OwnModules(g, f) = {}}
        taken == {n.name : n \in {x \in Nodes(g) : x.kind = "Module"}}
        new == {Dir[f] : f \in homeless} \ taken
    IN AddNodes(g, SetToSeq({ModuleNode(d, Representative(g, d)) : d \in new}))

\* The module the children of f belong to; f's modules are those g0 had.
ModuleOf(g, g0, f) ==
    IF OwnModules(g0, f) # {}
      THEN Latest(g0, OwnModules(g0, f))
      ELSE First(g, {n \in Nodes(g) : n.kind = "Module" /\ n.name = Dir[f]})

StructuralPass(g0) ==
    LET files == AddFileNodes(g0)
        g == AddModules(files)
        FileOf(f) == CHOOSE n \in InFile(g, f) : n.kind = "File"
    IN AddEdges(g, UNION {UNION {{Edge(FileOf(f), c, "Contains", f),
                                  Edge(c, ModuleOf(g, g0, f), "BelongsTo", f)} :
                                    c \in Children(g0, f)} : f \in Parents(g0)})

(***************************************************************************)
(* Stages 4.6 to 4.8, the documentation layer.                             *)
(***************************************************************************)
Documented(t, f) == {d \in ToSet(Defs(t, f)) : NoFile \notin d.doc /\ d.kind # "Module"}

DocumentsPass(g, t) ==
    LET defs(f) == Within(Defs(t, f), Documented(t, f))
    IN AddEdges(AddNodes(g, FlattenSeq([i \in DOMAIN FileOrder |->
                              [j \in DOMAIN defs(FileOrder[i]) |->
                                 DocNode(FileOrder[i], defs(FileOrder[i])[j])]])),
                UNION {{Edge(DocNode(f, d), DefNode(f, d), "Documents", f) :
                          d \in Documented(t, f)} : f \in Files})

\* The one node of that name that is not synthetic (an external stub is not
\* there yet), as a set.
Unique(g, name) ==
    LET named == {n \in Nodes(g) : n.name = name /\ n.kind \notin {"DocComment", "File", "Module"}}
    IN IF Cardinality(named) = 1 THEN named ELSE {}

MentionsPass(g, t) ==
    AddEdges(g, UNION {UNION {{Edge(DocNode(f, d), n, "Mentions", f) :
                                 n \in UNION {Unique(g, m) : m \in d.doc} \ {DefNode(f, d)}} :
                                   d \in Documented(t, f)} : f \in Files})

MarkdownPass(g) ==
    LET described == UNION {Unique(g, m) : m \in Section}
    IN IF described = {} THEN g
       ELSE AddEdges(AddNodes(g, <<SectionNode>>),
                     {Edge(n, SectionNode, "DescribedIn", Markdown) : n \in described})

(***************************************************************************)
(* Stage 5, references.                                                    *)
(***************************************************************************)

\* The doc comment a reference is right after, if the graph has its node.
NearestDoc(g, t, f, r) ==
    IF r.doc = 0 THEN {} ELSE {n \in Nodes(g) : n = DocNode(f, t[f].defs[r.doc])}

\* The node a reference is under: the barrel's spans its file; else it is the
\* last that starts before it, the doc comments' nodes included; above all of
\* them it is the last of the nodes without a span.
Enclosing(g, t, f, r) ==
    LET whole == {n \in InFile(g, f) : n.span = "whole"}
        flat == {n \in InFile(g, f) : n.span = "none"}
    IN IF whole # {} THEN whole
       ELSE IF NearestDoc(g, t, f, r) # {} THEN NearestDoc(g, t, f, r)
       ELSE IF r.at # 0 THEN {DefNode(f, t[f].defs[r.at])}
       ELSE IF flat # {} THEN {Latest(g, flat)} ELSE {}

\* A specifier resolves to a file that exists.
Target(t, from) == {x \in Present(t) : x = from}

\* Mutant: the stubs of an earlier run are candidates.
CandidatesWithStubs(g, name) == {n \in Nodes(g) : n.name = name}

Candidates(g, name) == {n \in Nodes(g) : n.name = name /\ n.kind # "ExternalPackage"}

\* The module the file imports the name from.
ImportTargets(t, f, name) ==
    UNION {Target(t, r.from) : r \in {x \in Refs(t, f) : x.kind = "Imports" /\ x.name = name}}

PickResolveTargets(g, t, f, src, name) ==
    LET others == Candidates(g, name) \ {src}
        same == {n \in others : n.file = f}
        near == {n \in others : n.file \in Files /\ Dir[n.file] = Dir[f]}
        qualified == {n \in others : n.qual}
        imported == {n \in others : n.file \in ImportTargets(t, f, name)}
    IN IF same # {} THEN same
       ELSE IF Cardinality(near) = 1 THEN near
       ELSE IF Cardinality(qualified) = 1 THEN qualified
       ELSE IF imported # {} THEN imported
       ELSE IF Cardinality(others) = 1 THEN others ELSE {}

\* export * from a file with public symbols: from the enclosing node, or
\* from a File node made on demand for a barrel that has none.
Reexports(g, t, f, r) ==
    LET public == UNION {Children(g, x) : x \in Target(t, r.from)}
        src == IF Enclosing(g, t, f, r) # {} THEN Enclosing(g, t, f, r) ELSE {BarrelNode(f)}
    IN {Edge(s, n, "Imports", f) : s \in src, n \in public}

\* A name no node has: imported or implemented, it is an external package.
External(g, r) ==
    /\ Candidates(g, r.name) = {}
    /\ r.kind \in {"Imports", "Implements"}
    /\ r.name \notin DirNames

Resolved(g, t, f, r) ==
    UNION {{Edge(src, n, r.kind, f) :
              n \in IF External(g, r) THEN {Stub(r.name)}
                                      ELSE PickResolveTargets(g, t, f, src, r.name)} :
             src \in Enclosing(g, t, f, r)}

\* Mutant: a named import links to every symbol of its module.
NamedImportsAll(g, t, f, r) ==
    {Edge(src, n, "Imports", f) :
       src \in Enclosing(g, t, f, r), n \in UNION {Children(g, x) : x \in Target(t, r.from)}}

\* A named import also links to its own module's symbol of the name.
NamedImports(g, t, f, r) ==
    {Edge(src, n, "Imports", f) :
       src \in Enclosing(g, t, f, r),
       n \in {x \in Candidates(g, r.name) : x.file \in Target(t, r.from)}}

ReferenceEdges(g, t, f, r) ==
    {e \in CASE r.kind = "ReexportAll" -> Reexports(g, t, f, r)
             [] r.kind = "Imports" -> Resolved(g, t, f, r) \cup NamedImports(g, t, f, r)
             [] r.kind = "TypeOf" -> {}
             [] OTHER -> Resolved(g, t, f, r) : e.from # e.to}

ResolveReferences(g, t) ==
    LET edges == UNION {UNION {ReferenceEdges(g, t, f, r) : r \in Refs(t, f)} : f \in Files}
        new == {n \in {e.from : e \in edges} \cup {e.to : e \in edges} : n \notin Nodes(g)}
    IN AddEdges(AddNodes(g, SetToSeq(new)), edges)

\* Stage 5.5: an Extends edge is inheritance (Java and Kotlin files).
DeriveInherits(g) ==
    AddEdges(g, {[e EXCEPT !.kind = "Inherits"] : e \in {x \in g.edges : x.kind = "Extends"}})

\* Stage 6.6: a string match between API paths is an ApiPathMatch.
ReclassifyStringMatch(g) ==
    [g EXCEPT !.edges = {IF e.kind = "StringMatch" THEN [e EXCEPT !.kind = "ApiPathMatch"] ELSE e : e \in @}]

\* Stage 6.7: from the file's node to the first type of the name.
ExtractTypeRelationships(g, t) ==
    LET Used(f) == {r.name : r \in {x \in Refs(t, f) : x.kind = "TypeOf"}}
        types == {n.name : n \in {x \in Nodes(g) : x.kind = "Type"}}
    IN AddEdges(g, UNION {{Edge(n, First(g, {x \in Nodes(g) : x.kind = "Type" /\ x.name = name}), "TypeOf", f) :
                             n \in {x \in InFile(g, f) : x.kind = "File"}, name \in Used(f) \cap types} : f \in Files})

-----------------------------------------------------------------------------
(***************************************************************************)
(* The two builds.                                                         *)
(***************************************************************************)
BuildGraph(t) ==
    LET g1 == Mediate(MatchStrings(Extract(NoGraph, FileOrder, t)))
        g2 == MarkdownPass(MentionsPass(DocumentsPass(StructuralPass(g1), t), t))
        g3 == DeriveInherits(ResolveReferences(g2, t))
    IN ExtractTypeRelationships(ReclassifyStringMatch(g3), t)

\* An edge whose end is gone cannot be inserted again.
Invalidate(g, changed) ==
    LET kept == {n \in Nodes(g) : n.file \notin changed}
    IN [nodes |-> Within(g.nodes, kept),
        edges |-> {e \in g.edges : e.ev \notin changed /\ {e.from, e.to} \subseteq kept}]

\* Mutant: only the references of the changed files are resolved again.
BuildGraphIncrementalOwnRefs(g, t, changed) ==
    LET own == [f \in Files |-> [t[f] EXCEPT !.refs = IF f \in ToSet(changed) THEN @ ELSE {}]]
        g1 == Mediate(MatchStrings(Extract(Invalidate(g, ToSet(changed)), changed, t)))
        g2 == DeriveInherits(ResolveReferences(StructuralPass(g1), own))
    IN ExtractTypeRelationships(ReclassifyStringMatch(g2), t)

\* Mutant: files that cannot be read, the deleted ones, are skipped.
BuildGraphIncrementalReadable(g, t, changed) ==
    LET read == Within(changed, Present(t))
        g1 == Mediate(MatchStrings(Extract(Invalidate(g, ToSet(read)), read, t)))
        g2 == DeriveInherits(ResolveReferences(StructuralPass(g1), t))
    IN ExtractTypeRelationships(ReclassifyStringMatch(g2), t)

BuildGraphIncremental(g, t, changed) ==
    LET g1 == Mediate(MatchStrings(Extract(Invalidate(g, ToSet(changed)), changed, t)))
        g2 == DeriveInherits(ResolveReferences(StructuralPass(g1), t))
    IN ExtractTypeRelationships(ReclassifyStringMatch(g2), t)

-----------------------------------------------------------------------------
Init ==
    /\ tree \in {t \in [Files -> UNION {Contents[f] : f \in Files}] : \A f \in Files : t[f] \in Contents[f]}
    /\ graph = BuildGraph(tree)
    /\ dirty = {}
    /\ edits = 0

\* A file is created, changed or deleted.
Edit(f, c) ==
    /\ edits < MaxEdits /\ edits' = edits + 1
    /\ c # tree[f]
    /\ tree' = [tree EXCEPT ![f] = c]
    /\ dirty' = dirty \cup {f}
    /\ UNCHANGED graph

\* The watcher's batch holds the files edited, in any order, and perhaps
\* files only touched.
IncrementalRebuild(touched) ==
    LET batch == dirty \cup touched
    IN /\ batch # {}
       /\ \E changed \in SetToSeqs(batch) : graph' = BuildGraphIncremental(graph, tree, changed)
       /\ dirty' = {}
       /\ UNCHANGED <<tree, edits>>

FullBuild ==
    /\ graph' = BuildGraph(tree)
    /\ dirty' = {}
    /\ UNCHANGED <<tree, edits>>

Next ==
    \/ \E f \in Files : \E c \in Contents[f] : Edit(f, c)
    \/ \E touched \in SUBSET Files : Cardinality(touched) <= 1 /\ IncrementalRebuild(touched)
    \/ FullBuild

Spec == Init /\ [][Next]_vars

-----------------------------------------------------------------------------
(***************************************************************************)
(* Properties.                                                             *)
(***************************************************************************)
Settled == dirty = {}
Rebuilt == BuildGraph(tree)

\* Where a synthetic node is placed is not its identity: a module may be
\* kept at another file of its directory, and what is above a file's
\* definitions hangs from either synthetic node of the file.
Role(n) == IF n.kind \in {"File", "Module"} THEN <<"scope">> ELSE <<n.kind, n.name, n.file>>

\* The references an edge may be from that are right after a doc comment.  An
\* incremental build makes no doc comments' nodes for the files of its batch, so
\* what these are under is the comment in one graph and the definition in another.
ReferenceKind(e) == IF e.kind = "Inherits" THEN "Extends" ELSE e.kind
AfterDoc(t, e) ==
    IF ReferenceKind(e) \notin References THEN {}
    ELSE {r \in Refs(t, e.ev) : r.doc # 0 /\ r.kind = ReferenceKind(e) /\ r.name = e.to.name}

Ends(t, e) == {IF AfterDoc(t, e) = {} THEN Role(e.from) ELSE <<"file", e.ev>>, Role(e.to)}
Likeness(t, e) == <<Ends(t, e), e.kind, IF e.kind = "ApiPathMatch" THEN NoFile ELSE e.ev>>

Derived == {"Contains", "BelongsTo", "Calls", "Imports", "Implements", "Extends", "Inherits",
            "Configures", "ApiPathMatch"}

\* The graph has its type, and an edge's ends are among its nodes.
TypeOK ==
    /\ dirty \subseteq Files /\ edits \in 0..MaxEdits
    /\ IsInjective(graph.nodes)
    /\ \A e \in graph.edges : {e.from, e.to} \subseteq Nodes(graph) /\ e.ev \in Files \cup {Markdown}

\* However an incremental build got there, the symbols it holds are those
\* of the tree: none of a deleted or changed definition is left, none is
\* missing, and none is there twice.
SymbolsExact ==
    Settled => {n \in Nodes(graph) : n.span = "own" /\ n.kind # "DocSection"}
                 = UNION {{DefNode(f, d) : d \in ToSet(Defs(tree, f))} : f \in Files}

\* The containment layer does not grow from rebuild to rebuild: every symbol
\* is in exactly one File node, the one of its file, and belongs to exactly
\* one module, and no file has two File nodes (the structural pass's notes on
\* idempotency).
ContainmentExact ==
    Settled =>
      /\ \A n \in UNION {Children(graph, f) : f \in Files} :
           /\ {e.from : e \in {x \in graph.edges : x.kind = "Contains" /\ x.to = n}}
                = {m \in InFile(graph, n.file) : m.kind = "File"}
           /\ Cardinality({e \in graph.edges : e.kind = "BelongsTo" /\ e.from = n}) = 1
      /\ \A f \in Files : Cardinality({m \in InFile(graph, f) : m.kind = "File"}) <= 1

\* A build from nothing or from any graph before it has the tree's symbols and
\* its containment layer.
LayersExact == SymbolsExact /\ ContainmentExact

\* What the passes name themselves.  An incremental build may hold a synthetic
\* node that a clean build would not make (beside a file that newly defines
\* the module of a directory, the synthetic one) or lack one that it would
\* (the documentation layer): another number of candidates for its name.
SyntheticNames == DirNames \cup Files \cup {DocName[n] : n \in DOMAIN DocName} \cup {SectionNode.name}

\* The references whose resolution may depend on it.  So may that of a module
\* to its own name, in a barrel: the barrel's node encloses it then; and that of
\* a name right after the doc comment of its own definition.
Volatile(t, e) ==
    /\ e.kind \in References \cup {"Inherits"}
    /\ \/ e.to.name \in SyntheticNames
       \/ e.from.kind = "Module" /\ e.from.name = e.to.name
       \/ \E r \in AfterDoc(t, e) : r.at # 0 /\ Defs(t, e.ev)[r.at].name = e.to.name

\* The derived edges of a graph of the tree, without those.
Linked(g, t) == {Likeness(t, e) : e \in {x \in g.edges : x.kind \in Derived /\ ~ Volatile(t, x)}}

\* "We keep the structural and reference edges correct", one direction: what
\* a clean build would link, whatever file changed, the incremental graph
\* links too, also from files that did not change; but for volatile ones.
IncrementalCovers ==
    Settled => Linked(Rebuilt, tree) \subseteq {Likeness(tree, e) : e \in graph.edges}

\* No reference edge outlives its text: its evidence file still makes a
\* reference of that kind and name, or re-exports the file of the target.
Grounded ==
    Settled => \A e \in graph.edges :
      e.kind \in References =>
        \E r \in Refs(tree, e.ev) :
          \/ r.kind = e.kind /\ r.name = e.to.name
          \/ r.kind = "ReexportAll" /\ e.to.file = r.from

\* Rebuilding what nobody edited adds no derived edge: from a graph that is
\* already resolved the passes make nothing they did not make before.  Excepted
\* are volatile references, and the imports of a barrel: the File node made for
\* it on demand encloses, in the next run, the references the first run dropped.
RebuildIdempotent ==
    [][Settled /\ tree' = tree =>
         Linked([graph' EXCEPT !.edges = {x \in @ : x.from.span # "whole"}], tree)
           \subseteq {Likeness(tree, e) : e \in graph.edges}]_vars

\* "We keep the structural and reference edges correct", the other
\* direction: an edge the incremental graph has, a clean build would make.
IncrementalExact ==
    Settled => {Likeness(tree, e) : e \in {x \in graph.edges : x.kind \in Derived}}
                 \subseteq {Likeness(tree, e) : e \in Rebuilt.edges}
=============================================================================
