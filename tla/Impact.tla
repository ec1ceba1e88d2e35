------------------------------- MODULE Impact -------------------------------
(***************************************************************************)
(* Who breaks if a symbol changes: compute_impact (the cone of dependents  *)
(* and its spanning tree), compute_risk (the best path to each dependent   *)
(* and the score), and the handlers built on them: impact, impact_batch,   *)
(* the two diffs, cross_lang and the stats table's in-degree.              *)
(***************************************************************************)
EXTENDS QueryGraph

(* An incident edge leads to a dependent of cur when it points at cur,     *)
(* carries impact and leaves from a symbol rather than a container.        *)
LeadsTo(g, cur, ie) ==
  /\ ie[2].to = cur
  /\ IsImpactBearing(ie[2].kind)
  /\ IsImpactNode(NodeOf(g, ie[1]).kind)

Dependents(g, cur) == SelectSeq(Incident(g, cur), LAMBDA ie : LeadsTo(g, cur, ie))

(***************************************************************************)
(* compute_impact.  The queue is first in, first out, so the walk goes     *)
(* level by level; an edge is kept only on the first visit of its source.  *)
(***************************************************************************)
FirstVisit(c, ie) ==
  IF ie[1] \in c.seen
  THEN c
  ELSE [c EXCEPT !.seen = @ \cup {ie[1]},
                 !.nodes = Append(@, ie[1]),
                 !.edges = Append(@, ie[2]),
                 !.frontier = Append(@, ie[1])]

ComputeImpact(g, seed, maxDepth) ==
  LET Pop(c, cur) == FoldLeft(FirstVisit, c, Dependents(g, cur))
      level[d \in 0..maxDepth] ==
        IF d = 0
        THEN [seen |-> {seed}, nodes |-> <<>>, edges |-> <<>>,
              frontier |-> <<seed>>, depth |-> 0]
        ELSE LET last == level[d - 1]
                 c == FoldLeft(Pop, [last EXCEPT !.frontier = <<>>], last.frontier)
             IN  IF c.frontier = <<>> THEN c ELSE [c EXCEPT !.depth = d]
      cone == level[maxDepth]
  IN  [reachable |-> cone.nodes, edges |-> cone.edges, depth |-> cone.depth]

IncomingImpactDegree(g, i) == Len(Dependents(g, i))

(* Exact names, else names that contain the query; the most referenced     *)
(* wins, the first of them on ties.  0 when there is none.                 *)
PickImpactSeed(g, name) ==
  LET Exact == Picked(g, LAMBDA i : NodeOf(g, i).name = name)
      Candidates == IF Exact # <<>>
                    THEN Exact
                    ELSE Picked(g, LAMBDA i : Infix(name, NodeOf(g, i).name))
      Better(best, i) ==
        IF best = 0 \/ IncomingImpactDegree(g, i) > IncomingImpactDegree(g, best)
        THEN i ELSE best
  IN  FoldLeft(Better, 0, Candidates)

(* A variant: the first path found to a dependent stays.                   *)
BestPathsFirst(g, seed, maxDepth) ==
  LET Relax(item, c, ie) ==
        IF ie[1] \in DOMAIN c.best
        THEN c
        ELSE LET new == [loss |-> item.loss + CurrentLoss(ie[2]), hops |-> item.hops + 1]
             IN  [best |-> (ie[1] :> new) @@ c.best,
                  queue |-> Append(c.queue, [id |-> ie[1]] @@ new)]
      Pop(c, item) ==
        FoldLeft(LAMBDA a, ie : Relax(item, a, ie), c, Dependents(g, item.id))
      level[d \in 0..maxDepth] ==
        IF d = 0
        THEN [best |-> seed :> [loss |-> 0, hops |-> 0],
              queue |-> <<[id |-> seed, loss |-> 0, hops |-> 0]>>]
        ELSE FoldLeft(Pop, [level[d - 1] EXCEPT !.queue = <<>>], level[d - 1].queue)
      best == level[maxDepth].best
  IN  [i \in DOMAIN best \ {seed} |-> best[i]]

(***************************************************************************)
(* compute_risk.  best maps a dependent to the loss of the best path to    *)
(* the seed found so far and that path's hops; a dependent is queued again *)
(* whenever a better path to it turns up.                                  *)
(***************************************************************************)
BestPaths(g, seed, maxDepth) ==
  LET Relax(item, c, ie) ==
        LET loss == item.loss + CurrentLoss(ie[2])
            hops == item.hops + 1
        IN  IF ie[1] \in DOMAIN c.best /\ c.best[ie[1]].loss <= loss
            THEN c
            ELSE [best |-> (ie[1] :> [loss |-> loss, hops |-> hops]) @@ c.best,
                  queue |-> Append(c.queue, [id |-> ie[1], loss |-> loss, hops |-> hops])]
      Pop(c, item) ==
        FoldLeft(LAMBDA a, ie : Relax(item, a, ie), c, Dependents(g, item.id))
      level[d \in 0..maxDepth] ==
        IF d = 0
        THEN [best |-> seed :> [loss |-> 0, hops |-> 0],
              queue |-> <<[id |-> seed, loss |-> 0, hops |-> 0]>>]
        ELSE FoldLeft(Pop, [level[d - 1] EXCEPT !.queue = <<>>], level[d - 1].queue)
      best == level[maxDepth].best
  IN  [i \in DOMAIN best \ {seed} |-> best[i]]

(* The crate after `crates/', the directory before `src/', or the stem.    *)
ModuleOf(f) ==
  LET path == Append(f.dirs, f.stem)
      Names(k) == \/ path[k] = "crates" /\ k < Len(path)
                  \/ path[k] = "src" /\ k > 1
      At == {k \in DOMAIN path : Names(k)}
  IN  IF At = {}
      THEN f.stem
      ELSE LET k == Min(At) IN IF path[k] = "crates" THEN path[k + 1] ELSE path[k - 1]

(* In percent. *)
VisibilityOf(n) ==
  CASE n.vis = "Public"  -> 100
    [] n.vis = "Private" -> 40
    [] OTHER -> IF n.name[1] = "_" THEN 40
                ELSE IF n.kind \in {"Class", "Interface", "Trait", "Enum", "Struct",
                                    "TypeAlias", "Module", "Namespace"}
                     THEN 100 ELSE 75

(* The share, in percent, of breaking kinds among all the incoming edges.  *)
ImpactKindFactor(es) ==
  LET Breaking(e) == e.kind \in {"Calls", "Implements", "Extends", "Overrides",
                                 "Resolves", "References", "DependsOn"}
  IN  IF es = <<>> THEN 0
      ELSE (100 * SumConfidence(SelectSeq(es, Breaking))) \div SumConfidence(es)

ClassifyBlastRadius(modules, callers) ==
  CASE modules > 10 \/ callers > 50 -> "Critical"
    [] modules > 5 \/ callers > 20  -> "High"
    [] modules >= 3 \/ callers >= 6 -> "Medium"
    [] OTHER                        -> "Low"

RiskLevel(percent) ==
  CASE percent < 40 -> "Low" [] percent < 60 -> "Medium"
    [] percent < 80 -> "High" [] OTHER -> "Critical"

(* The root's own directories count in is_test_symbol: it sees the path.   *)
RiskOf(g, root, seed, best) ==
  LET Callers == DOMAIN best
      Modules == {ModuleOf(NodeOf(g, i).file) : i \in Callers}
      OfModule(m) == {i \in Callers : ModuleOf(NodeOf(g, i).file) = m}
      Best(m) == Max({Weight(best[i].loss) : i \in OfModule(m)})
      weighted == MapThenSumSet(LAMBDA i : Weight(best[i].loss), Callers)
      spread == MapThenSumSet(Best, Modules)
      Incoming == SelectSeq(Incident(g, seed), LAMBDA ie : ie[2].to = seed)
      Capped(x) == IF x > Full THEN Full ELSE x
      Percent(x) == (100 * Capped(x)) \div Full
      modules == IF Modules = {} THEN 1 ELSE Cardinality(Modules)
      score == (20 * VisibilityOf(NodeOf(g, seed)) + 45 * Percent(weighted \div 20)
                + 25 * Percent(spread \div 10)
                + 10 * ImpactKindFactor([k \in DOMAIN Incoming |-> Incoming[k][2]])) \div 100
      IsTest(i) == /\ NodeOf(g, i).kind \in {"Function", "Method"}
                   /\ IsTestSymbol(root, NodeOf(g, i))
  IN  [callers |-> Cardinality(Callers), modules |-> modules, weighted |-> weighted,
       score |-> score, level |-> RiskLevel(score),
       radius |-> ClassifyBlastRadius(modules, Cardinality(Callers)),
       tests |-> {[id |-> i, hops |-> best[i].hops, loss |-> best[i].loss] :
                    i \in {j \in Callers : IsTest(j)}}]

ComputeRisk(g, root, seed, maxDepth) ==
  RiskOf(g, root, seed, BestPaths(g, seed, maxDepth))

(***************************************************************************)
(* `impact'.  The reachable list and the affected tests lose the excluded  *)
(* files (and the list the other languages); the edges, the depth and the  *)
(* score do not.                                                           *)
(***************************************************************************)
ImpactAnswer(g, cfg, langs, seed, cone, risk) ==
  LET Kept(i) == /\ MatchLangs(langs, NodeOf(g, i).file)
                 /\ ~IndexExcluded(cfg, NodeOf(g, i).file)
  IN  [ok |-> TRUE, seed |-> seed, reachable |-> SelectSeq(cone.reachable, Kept),
       edges |-> cone.edges, depth |-> cone.depth,
       risk |-> [risk EXCEPT !.tests =
                   {t \in @ : ~IndexExcluded(cfg, NodeOf(g, t.id).file)}]]

ImpactOfSeed(g, cfg, p, seed) ==
  IF seed = 0 THEN [ok |-> TRUE, seed |-> 0]
  ELSE ImpactAnswer(g, cfg, p.langs, seed, ComputeImpact(g, seed, p.depth),
                    ComputeRisk(g, cfg.root, seed, p.depth))

CachedImpact(g, cfg, p) ==
  IF p.symbol = <<>> THEN [ok |-> FALSE]
  ELSE ImpactOfSeed(g, cfg, p, PickImpactSeed(g, p.symbol))

CONSTANTS MaxSymbolsPerBatch, MaxSeedsPerName

(* `impact_batch': one entry per name, its seeds' cones added up.          *)
CachedImpactBatch(g, symbols) ==
  LET Seeds(s) == Picked(g, LAMBDA i : NodeOf(g, i).name = s)
      Used(s) == SubSeq(Seeds(s), 1, Min({Len(Seeds(s)), MaxSeedsPerName}))
      Cones(s) == [k \in DOMAIN Used(s) |-> ComputeImpact(g, Used(s)[k], 3)]
      Total(s, Of(_)) == FoldLeft(LAMBDA t, c : t + Of(c), 0, Cones(s))
      Entry(s) ==
        [seeds |-> Len(Seeds(s)), used |-> Len(Used(s)),
         truncated |-> Len(Used(s)) < Len(Seeds(s)),
         nodes |-> Total(s, LAMBDA c : Len(c.reachable)),
         edges |-> Total(s, LAMBDA c : Len(c.edges)),
         weighted |-> Total(s, LAMBDA c : SumConfidence(c.edges))]
  IN  IF Len(symbols) > MaxSymbolsPerBatch
      THEN [ok |-> FALSE]
      ELSE [ok |-> TRUE, results |-> [s \in ToSet(symbols) |-> Entry(s)]]

(***************************************************************************)
(* `diff' in summary: the symbols of the changed files that still exist    *)
(* (a deleted file does not canonicalize), and how many more they reach.   *)
(***************************************************************************)
ComputeDiffSummary(g, cfg, changed, depth, excludeTests) ==
  LET Touched == {i \in Ids(g) : /\ NodeOf(g, i).file \in changed
                                 /\ excludeTests => ~IsTestPath(cfg.root, NodeOf(g, i).file)}
      Reached == UNION {ToSet(ComputeImpact(g, i, depth).reachable) : i \in Touched}
  IN  [changed |-> Cardinality(changed), touched |-> Touched,
       reachable |-> Cardinality(Reached \ Touched)]

(***************************************************************************)
(* `diff' through git: per changed file, the cones of its symbols added    *)
(* up; the five most confident ends of their edges, the file's own symbols *)
(* left out, ties by id.                                                   *)
(***************************************************************************)
TopAffected(edges, seeds) ==
  LET Ends == {e.from : e \in edges} \cup {e.to : e \in edges}
      score == [i \in Ends |-> Max({CurrentConfidence(e) :
                                     e \in {x \in edges : i \in {x.from, x.to}}})]
      Ranked == InOrder(Ends \ seeds,
                  LAMBDA a, b : \/ score[a] > score[b]
                                \/ score[a] = score[b] /\ a < b)
  IN  SubSeq(Ranked, 1, Min({Len(Ranked), 5}))

DiffOfCones(seeds, cones) ==
  LET Edges == FoldLeft(LAMBDA es, c : es \o c.edges, <<>>, cones)
  IN  [seeds |-> seeds,
       reached |-> UNION {ToSet(cones[k].reachable) : k \in DOMAIN cones},
       weighted |-> SumConfidence(Edges),
       perSymbol |-> [k \in DOMAIN cones |-> SumConfidence(cones[k].edges)],
       top |-> TopAffected(ToSet(Edges), seeds)]

DiffOfFile(g, f) ==
  LET Seeds == NodesInFile(g, f)
  IN  DiffOfCones(ToSet(Seeds), [k \in DOMAIN Seeds |-> ComputeImpact(g, Seeds[k], 3)])

(* Git failing is an empty diff.  A changed file without nodes counts as a *)
(* changed file of no impact.                                              *)
DispatchDiffWithGit(g, changed, gitOk, inconsistencies, orphans) ==
  LET Files == IF gitOk THEN changed ELSE {}
      Of == [f \in Files |-> DiffOfFile(g, f)]
  IN  [ok |-> TRUE, files |-> Of,
       reachable |-> Cardinality(UNION {Of[f].reached : f \in Files}),
       weighted |-> MapThenSumSet(LAMBDA f : Of[f].weighted, Files),
       inconsistencies |-> {r \in inconsistencies :
                              \/ NodeOf(g, r.a).file \in Files
                              \/ NodeOf(g, r.b).file \in Files},
       orphans |-> {NodeOf(g, i).name : i \in {j \in orphans : NodeOf(g, j).file \in Files}}]

(* `diff' without a project: the sources of edges with stale evidence.     *)
CachedDiff(g, inconsistencies) ==
  [ok |-> TRUE, inconsistencies |-> inconsistencies,
   impacted |-> {e.from : e \in {x \in ToSet(g.edges) : x.stale > 0}}]

CachedCrossLang(g) ==
  SelectSeq(g.edges, LAMBDA e : LanguageOf(NodeOf(g, e.from).file)
                                # LanguageOf(NodeOf(g, e.to).file))

(* `stats --breakdown': the table of the most referenced symbols.          *)
ImpactInDegree(g, i) ==
  Cardinality({k \in DOMAIN g.edges :
                 /\ g.edges[k].to = i
                 /\ IsImpactBearing(g.edges[k].kind)
                 /\ IsImpactNode(NodeOf(g, g.edges[k].from).kind)
                 /\ IsImpactNode(NodeOf(g, i).kind)})
=============================================================================
