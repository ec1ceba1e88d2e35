----------------------------- MODULE FrontEnds ------------------------------
(***************************************************************************)
(* The other readers of the graph: the HTTP server's handlers, and the     *)
(* commands that compute on a graph of their own (batch, export, inspect,  *)
(* review, stats' breakdown).                                              *)
(***************************************************************************)
EXTENDS Impact, Answers

(* query_symbol: every exact match, else up to 1024 fuzzy ones.            *)
QuerySymbol(g, name) ==
  LET exact == LookupByName(g, name, Len(g.nodes))
  IN  IF exact # <<>> THEN exact ELSE LookupByNameFuzzy(g, name, 1024)

(* One name's panic ends the command.                                      *)
RunQueries(g, names) ==
  IF \E k \in DOMAIN names : QuerySymbol(g, names[k]) = Panic THEN Panic
  ELSE [k \in DOMAIN names |-> QuerySymbol(g, names[k])]

(* GET /api/query, /api/expand and /api/impact.                            *)
ApiQuery(g, name, page, size) ==
  LET found == QuerySymbol(g, name)
  IN  IF found = Panic THEN [ok |-> FALSE]
      ELSE [ok |-> TRUE, matches |-> PageSlice(found, page, size), total |-> Len(found),
            pages |-> TotalPages(Len(found), size)]

ApiExpand(g, i) ==
  IF i \notin Ids(g) THEN [ok |-> FALSE]
  ELSE [ok |-> TRUE, in  |-> SelectSeq(g.edges, LAMBDA e : e.to = i),
                     out |-> SelectSeq(g.edges, LAMBDA e : e.from = i)]

(* The first symbol of the name, not the most referenced one.              *)
ApiImpact(g, name, depth) ==
  LET found == Picked(g, LAMBDA i : NodeOf(g, i).name = name)
  IN  IF found = <<>> THEN [ok |-> FALSE]
      ELSE [ok |-> TRUE, seed |-> found[1]] @@ ComputeImpact(g, found[1], depth)

(***************************************************************************)
(* `export': the kept nodes, and the confident edges between them.         *)
(***************************************************************************)
(* A variant: an edge is followed from its source only.                    *)
SubgraphIdsForward(g, name, hops) ==
  LET step[k \in 0..hops] ==
        IF k = 0 THEN {i \in Ids(g) : Infix(name, NodeOf(g, i).name)}
        ELSE step[k - 1] \cup {e.to : e \in {x \in ToSet(g.edges) : x.from \in step[k - 1]}}
  IN  step[hops]

SubgraphIds(g, name, hops) ==
  LET Beside(S) == {e.to : e \in {x \in ToSet(g.edges) : x.from \in S}}
                     \cup {e.from : e \in {x \in ToSet(g.edges) : x.to \in S}}
      step[k \in 0..hops] ==
        IF k = 0
        THEN LET seeds == {i \in Ids(g) : Infix(name, NodeOf(g, i).name)}
             IN  [keep |-> seeds, frontier |-> seeds]
        ELSE LET next == Beside(step[k - 1].frontier) \ step[k - 1].keep
             IN  [keep |-> step[k - 1].keep \cup next, frontier |-> next]
  IN  step[hops].keep

JsonGraph(g, keep, minConfidence, excluded) ==
  [nodes |-> Picked(g, LAMBDA i : i \in keep),
   edges |-> SelectSeq(g.edges, LAMBDA e : /\ StoredConfidence(e) >= minConfidence
                                           /\ e.kind \notin excluded
                                           /\ {e.from, e.to} \subseteq keep),
   total |-> <<Len(g.nodes), Len(g.edges)>>]

(* p == [subgraph, hops, langs, minConfidence, excluded]; the daemon's     *)
(* export_graph keeps every node.                                          *)
CachedExportGraph(g, p) == JsonGraph(g, Ids(g), p.minConfidence, p.excluded)

RunExport(g, p) ==
  LET near == IF p.subgraph = <<>> THEN Ids(g) ELSE SubgraphIds(g, p.subgraph, p.hops)
  IN  JsonGraph(g, {i \in near : MatchLangs(p.langs, NodeOf(g, i).file)}, p.minConfidence, {})

(***************************************************************************)
(* `inspect' without a daemon: the symbols whose span holds the line, else *)
(* those of the file by distance; five of them.                            *)
(***************************************************************************)
RunInspect(g, f, at) ==
  LET Here == NodesInFile(g, f)
      Holds(i) == NodeOf(g, i).from <= at /\ at <= NodeOf(g, i).to
      hits == SelectSeq(Here, Holds)
      Off(i) == IF NodeOf(g, i).from > at THEN NodeOf(g, i).from - at ELSE at - NodeOf(g, i).from
      near == InOrder(ToSet(Here), LAMBDA i, j : Off(i) < Off(j) \/ (Off(i) = Off(j) /\ i < j))
  IN  Limited(IF hits # <<>> THEN hits ELSE near, 5)

(***************************************************************************)
(* `stats --breakdown': counts by kind, by origin, by owning package (the  *)
(* deepest first, a stub's own bucket) and by file, and the most           *)
(* referenced symbols.                                                     *)
(***************************************************************************)
PackageOf(cfg, f) ==
  LET Owners == {k \in DOMAIN cfg.packages : IsPrefix(cfg.packages[k].path, f.dirs)}
  IN  IF f = NoFile THEN "(external)"
      ELSE IF Owners = {} THEN "(no package)" ELSE ToString(Min(Owners))

Tally(S, Of(_)) == [k \in {Of(x) : x \in S} |-> Cardinality({x \in S : Of(x) = k})]

Breakdown(g, cfg) ==
  LET Edges == DOMAIN g.edges
      Files == {i \in Ids(g) : NodeOf(g, i).file # NoFile}
      Referenced == {i \in Ids(g) : ImpactInDegree(g, i) > 0}
  IN  [kinds |-> Tally(Ids(g), LAMBDA i : NodeOf(g, i).kind),
       edgeKinds |-> Tally(Edges, LAMBDA k : g.edges[k].kind),
       origins |-> Tally(Edges, LAMBDA k : g.edges[k].origin),
       packages |-> Tally(Ids(g), LAMBDA i : PackageOf(cfg, NodeOf(g, i).file)),
       files |-> Tally(Files, LAMBDA i : NodeOf(g, i).file),
       external |-> Cardinality(Ids(g) \ Files),
       top |-> InOrder(Referenced,
                 LAMBDA i, j : \/ ImpactInDegree(g, i) > ImpactInDegree(g, j)
                               \/ ImpactInDegree(g, i) = ImpactInDegree(g, j) /\ i < j)]
=============================================================================
