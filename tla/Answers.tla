------------------------------ MODULE Answers -------------------------------
(***************************************************************************)
(* `query' and the lookups: finding the nodes a name means, walking out    *)
(* from the chosen centre, filtering, and rendering one page of the edges  *)
(* under a token budget, with a cursor to the next page.                   *)
(***************************************************************************)
EXTENDS QueryGraph, EditDistance

Limited(s, n) == SubSeq(s, 1, Min({Len(s), n}))

(***************************************************************************)
(* Name lookup.                                                            *)
(***************************************************************************)
LookupByName(g, name, limit) ==
  Limited(Picked(g, LAMBDA i : NodeOf(g, i).name = name), limit)

(* Ids in the order of a rank in 0..top; equal ranks in slot order (the    *)
(* code's order among them is the hash map's).                             *)
Ranked(g, Rank(_), top) ==
  FoldLeft(LAMBDA s, r : s \o Picked(g, LAMBDA i : Rank(i) = r), <<>>,
           [k \in 1..(top + 1) |-> k - 1])

(* Cutting a name inside a letter of several bytes panics: the request is  *)
(* not answered.                                                           *)
Panic == <<0>>

TailBytes == {"bc"}

Boundary(name, n) == n = Len(name) \/ name[n + 1] \notin TailBytes

Allowed(query) == IF Len(query) < 4 THEN 1 ELSE 2

(* Names that contain the query whatever their case (the name itself, then *)
(* prefixes, then the rest, the shortest first); when there is none, names *)
(* whose start is within one edit (two from four bytes on) of it, closest  *)
(* first.  A name is cut some bytes beyond the query's length first.       *)
LookupCutting(g, query, limit, extra) ==
  LET lower == Folded(query)
      NameOf(i) == Folded(NodeOf(g, i).name)
      longest == Max({0} \cup {Len(NameOf(i)) : i \in Ids(g)})
      Class(i) == IF NameOf(i) = lower THEN 0 ELSE IF IsPrefix(lower, NameOf(i)) THEN 1 ELSE 2
      Score(i) == IF Infix(lower, NameOf(i)) THEN Class(i) * (longest + 1) + Len(NameOf(i)) ELSE -1
      Containing == Ranked(g, Score, 3 * longest + 2)
      Kept(i) == Min({Len(NameOf(i)), Len(query) + extra})
      Distance(i) == LevenshteinBounded(lower, SubSeq(NameOf(i), 1, Kept(i)), Allowed(query) + 1)
  IN  IF Containing # <<>> THEN Limited(Containing, limit)
      ELSE IF \E i \in Ids(g) : ~Boundary(NameOf(i), Kept(i)) THEN Panic
      ELSE Limited(Ranked(g, Distance, Allowed(query)), limit)

(* A variant: a typo is measured against the whole name.                   *)
LookupByNameFuzzyWhole(g, query, limit) ==
  LookupCutting(g, query, limit, Max({0} \cup {Len(NodeOf(g, i).name) : i \in Ids(g)}))

LookupByNameFuzzy(g, query, limit) ==
  LookupCutting(g, query, limit, Allowed(query))

Definition(g, name) ==
  IF name = <<>> THEN [ok |-> FALSE]
  ELSE [ok |-> TRUE, locations |-> Picked(g, LAMBDA i : NodeOf(g, i).name = name)]

(* `lsp.references': the far end of each semantic edge at the name.        *)
LspReferences(g, name) ==
  LET Targets == {i \in Ids(g) : NodeOf(g, i).name = name}
      At(e) == e.from \in Targets \/ e.to \in Targets
      Semantic == SelectSeq(g.edges, LAMBDA e :
                    e.kind \notin {"Resolves", "Contains", "BelongsTo"} /\ At(e))
  IN  IF name = <<>> THEN [ok |-> FALSE]
      ELSE [ok |-> TRUE,
            locations |-> [k \in DOMAIN Semantic |->
              IF Semantic[k].from \in Targets THEN Semantic[k].to ELSE Semantic[k].from]]

WorkspaceSymbol(g, query) ==
  Limited(Picked(g, LAMBDA i : Infix(query, NodeOf(g, i).name)), 200)

(* `inspect': the narrowest node that starts on the line, a file's own     *)
(* node last, and every edge at it.                                        *)
Inspect(g, f, start) ==
  LET Here == Picked(g, LAMBDA i : NodeOf(g, i).file = f /\ NodeOf(g, i).from = start)
      Width(i) == NodeOf(g, i).to - NodeOf(g, i).from
                    + IF NodeOf(g, i).kind = "File" THEN 1000 ELSE 0
      Narrower(best, i) == IF best = 0 \/ Width(i) < Width(best) THEN i ELSE best
      node == FoldLeft(Narrower, 0, Here)
  IN  [symbol |-> node,
       in  |-> SelectSeq(g.edges, LAMBDA e : e.to = node),
       out |-> SelectSeq(g.edges, LAMBDA e : e.from = node)]

(***************************************************************************)
(* Walking.  A stored confidence below the threshold hides the edge (an    *)
(* edge's stale flag does too, but no edge is ever given an epoch).  An    *)
(* edge is listed once, at the depth its near end was reached.             *)
(***************************************************************************)
EdgeKinds == <<"Calls", "Implements", "Extends", "Inherits", "Overrides", "Imports",
               "References", "DependsOn", "TypeOf", "GenericParam", "Configures",
               "EnumValueMatch", "ApiPathMatch", "StringMatch", "Contains", "BelongsTo",
               "Documents", "Mentions", "DescribedIn", "Resolves">>

EdgeKindPriority(kind) == CHOOSE k \in DOMAIN EdgeKinds : EdgeKinds[k] = kind

(* A stable sort: by depth, then by the kind's priority.                   *)
ByDepthThenKind(edges) ==
  LET Rank(x) == 32 * x.depth + EdgeKindPriority(x.edge.kind)
      Ranks == InOrder({Rank(edges[k]) : k \in DOMAIN edges}, LAMBDA m, n : m < n)
  IN  FoldLeft(LAMBDA s, r : s \o SelectSeq(edges, LAMBDA x : Rank(x) = r), <<>>, Ranks)

Walk(g, centre, depth, minConfidence, Near(_), Far(_)) ==
  LET Passes(e) == StoredConfidence(e) >= minConfidence
      See(d, c, e) ==
        [c EXCEPT !.edges = Append(@, [edge |-> e, depth |-> d]),
                  !.seen = @ \cup {Far(e)},
                  !.next = IF Far(e) \in c.seen THEN @ ELSE Append(@, Far(e))]
      Source(d, c, i) ==
        FoldLeft(LAMBDA a, e : See(d, a, e), c,
                 SelectSeq(g.edges, LAMBDA e : Near(e) = i /\ Passes(e)))
      level[d \in 0..depth] ==
        IF d = 0 THEN [edges |-> <<>>, seen |-> {centre}, next |-> <<centre>>]
        ELSE FoldLeft(LAMBDA c, i : Source(d, c, i),
                      [level[d - 1] EXCEPT !.next = <<>>], level[d - 1].next)
  IN  ByDepthThenKind(level[depth].edges)

BfsEdgesFiltered(g, centre, depth, minConfidence) ==
  [out |-> Walk(g, centre, depth, minConfidence, LAMBDA e : e.from, LAMBDA e : e.to),
   in  |-> Walk(g, centre, depth, minConfidence, LAMBDA e : e.to, LAMBDA e : e.from)]

(* The union over the definitions of one name; an edge keeps the depth the *)
(* first of them gave it.                                                  *)
BfsEdgesAggregated(g, centres, depth, minConfidence) ==
  LET Key(x) == <<x.edge.from, x.edge.to, x.edge.kind>>
      New(s, x) == IF \E k \in DOMAIN s : Key(s[k]) = Key(x) THEN s ELSE Append(s, x)
      Merge(s, more) == FoldLeft(New, s, more)
      Both(c, i) == LET b == BfsEdgesFiltered(g, i, depth, minConfidence)
                    IN  [out |-> Merge(c.out, b.out), in |-> Merge(c.in, b.in)]
      all == FoldLeft(Both, [out |-> <<>>, in |-> <<>>], centres)
  IN  [out |-> ByDepthThenKind(all.out), in |-> ByDepthThenKind(all.in)]

(* The centre: the first public definition, else the first match.          *)
PickCenter(g, matches) ==
  LET Public == SelectSeq(matches, LAMBDA i : NodeOf(g, i).vis = "Public")
  IN  IF Public = <<>> THEN matches[1] ELSE Min(ToSet(Public))

MultiDefNote(g, matches, centre) ==
  {i \in ToSet(matches) \ {centre} : NodeOf(g, i).name = NodeOf(g, centre).name}

(***************************************************************************)
(* Path trust.                                                             *)
(***************************************************************************)
EdgeIsVerified(e) ==
  /\ StoredConfidence(e) >= 7000
  /\ e.origin \in {"NameResolved", "CompilerDerived", "SyntaxMatched"}

SummarizePathTrust(in, out) ==
  LET all == out \o in
      broken == SelectSeq(all, LAMBDA x : ~EdgeIsVerified(x.edge))
  IN  IF broken = <<>> THEN [kind |-> "verified"]
      ELSE IF Len(broken) = Len(all) THEN [kind |-> "broken", at |-> broken[1].depth]
      ELSE [kind |-> "partial", verified |-> Len(all) - Len(broken), broken |-> Len(broken)]

(***************************************************************************)
(* Rendering a page.  A line costs its name's length; the header and the   *)
(* section titles and the budget warning cost what the constants say.  The budget is 0.7 of what  *)
(* was advertised, a first-hop line may use 0.3 of it in all and the       *)
(* deeper ones 0.4375.                                                     *)
(***************************************************************************)
CONSTANTS HeaderCost, SectionCost, WarningCost

EffectiveBudget(advertised) == (advertised * 7) \div 10

Zones(total) == [header |-> (total * 25) \div 1000, hop1 |-> (total * 30) \div 100,
                 rest |-> (total * 4375) \div 10000, warnings |-> (total * 625) \div 10000]

LineCost(g, x, dir) ==
  Len(NodeOf(g, IF dir = "out" THEN x.edge.to ELSE x.edge.from).name)

(* One line, unless a line of its section was refused already.  s is       *)
(* [used, hop1, rest, shown, cut, open].                                   *)
EmitEdge(g, budget, zones, dir, s, x) ==
  LET cost == LineCost(g, x, dir)
      spent == IF x.depth = 1 THEN s.hop1 ELSE s.rest
      cap == IF x.depth = 1 THEN zones.hop1 ELSE zones.rest
  IN  IF ~s.open THEN s
      ELSE IF spent + cost > cap \/ s.used + cost > budget
      THEN [s EXCEPT !.cut = TRUE, !.open = FALSE]
      ELSE [s EXCEPT !.used = @ + cost, !.shown = Append(@, x),
                     !.hop1 = IF x.depth = 1 THEN @ + cost ELSE @,
                     !.rest = IF x.depth = 1 THEN @ ELSE @ + cost]

Section(g, budget, zones, dir, edges, s) ==
  IF edges = <<>> THEN s
  ELSE FoldLeft(LAMBDA a, x : EmitEdge(g, budget, zones, dir, a, x),
                [s EXCEPT !.used = @ + SectionCost, !.open = TRUE], edges)

Blank(used) == [used |-> used, hop1 |-> 0, rest |-> 0, shown |-> <<>>, cut |-> FALSE,
                open |-> TRUE]

(* What the text itself says of a cut.                                     *)
Announce(s, saying) == [shown |-> s.shown, announced |-> saying]

(* Human: a cut section does not stop the next; the warning has to fit the *)
(* budget and its zone, or it is left out.                                 *)
RenderHuman(g, in, out, budget, zones) ==
  LET first == Section(g, budget, zones, "out", out,
                       Blank(Min({HeaderCost, zones.header}) + HeaderCost))
      both == Section(g, budget, zones, "in", in, first)
  IN  Announce(both, both.cut /\ both.used + WarningCost <= budget + zones.warnings)

(* Llm: a cut in the outgoing edges drops the incoming section.            *)
RenderLlm(g, in, out, budget, zones) ==
  LET first == Section(g, budget, zones, "out", out, Blank(HeaderCost))
      both == IF first.cut THEN first ELSE Section(g, budget, zones, "in", in, first)
  IN  Announce(both, both.cut)

(* Json: one list, no zones.                                               *)
RenderJson(g, in, out, budget) ==
  LET Tagged == [k \in 1..Len(out) |-> <<out[k], "out">>]
                  \o [k \in 1..Len(in) |-> <<in[k], "in">>]
      One(s, t) == LET cost == LineCost(g, t[1], t[2])
                   IN  IF ~s.open THEN s
                       ELSE IF s.used + cost > budget
                       THEN [s EXCEPT !.cut = TRUE, !.open = FALSE]
                       ELSE [s EXCEPT !.used = @ + cost, !.shown = Append(@, t[1])]
      all == FoldLeft(One, Blank(HeaderCost), Tagged)
  IN  Announce(all, all.cut)

(* A page's share of the outgoing edges followed by the incoming ones.     *)
PageSlice(all, page, size) ==
  SubSeq(all, page * size + 1, Min({page * size + size, Len(all)}))

(* A variant: only whole pages are counted.                                *)
NextCursorWhole(total, page, size) ==
  IF size > 0 /\ page + 1 < total \div size THEN page + 1 ELSE -1

NextCursor(total, page, size) ==
  IF Min({page * size + size, total}) < total THEN page + 1 ELSE -1

TotalPages(total, size) ==
  IF size = 0 THEN 1 ELSE Max({1, (total + size - 1) \div size})

(* `token' is the cursor the text prints: the human footer says that there *)
(* are more pages, and to ask in json for the token.                       *)
RenderSymbol(g, in, out, format, page, size, advertised) ==
  LET budget == EffectiveBudget(advertised)
      zones == Zones(budget)
      all == out \o in
      slice == PageSlice(all, page, size)
      outs == Min({Len(slice), Max({0, Len(out) - page * size})})
      pageOut == SubSeq(slice, 1, outs)
      pageIn == SubSeq(slice, outs + 1, Len(slice))
      r == CASE format = "human" -> RenderHuman(g, pageIn, pageOut, budget, zones)
             [] format = "llm"   -> RenderLlm(g, pageIn, pageOut, budget, zones)
             [] format = "json"  -> RenderJson(g, pageIn, pageOut, budget)
      next == NextCursor(Len(all), page, size)
  IN  [shown |-> r.shown, announced |-> r.announced, slice |-> slice, total |-> Len(all),
       token |-> IF format = "human" THEN -1 ELSE next,
       more |-> IF format = "human" THEN page + 1 < TotalPages(Len(all), size) ELSE next # -1,
       trust |-> SummarizePathTrust(in, out)]

(***************************************************************************)
(* `query', in the daemon and without one.                                 *)
(*   p == [symbol, page, size, depth, budget, minConfidence, format, kind, *)
(*         langs, aggregate, direction, edgeKinds]                         *)
(***************************************************************************)
Candidates(g, p) ==
  LET exact == LookupByName(g, p.symbol, p.size * 4)
  IN  IF exact # <<>> THEN exact ELSE LookupByNameFuzzy(g, p.symbol, p.size * 4)

Matches(g, p) ==
  SelectSeq(Candidates(g, p), LAMBDA i : /\ p.kind \in {"any", NodeOf(g, i).kind}
                                         /\ MatchLangs(p.langs, NodeOf(g, i).file))

Wanted(p, both) ==
  LET Pass(x) == p.edgeKinds = {} \/ x.edge.kind \in p.edgeKinds
  IN  [in  |-> IF p.direction = "outgoing" THEN <<>> ELSE SelectSeq(both.in, Pass),
       out |-> IF p.direction = "incoming" THEN <<>> ELSE SelectSeq(both.out, Pass)]

Neighbourhood(g, p, matches, centre) ==
  LET depth == Max({p.depth, 1})
      same == SelectSeq(matches, LAMBDA i : NodeOf(g, i).name = NodeOf(g, centre).name)
  IN  Wanted(p, IF p.aggregate THEN BfsEdgesAggregated(g, same, depth, p.minConfidence)
                ELSE BfsEdgesFiltered(g, centre, depth, p.minConfidence))

PageOf(g, p, near) ==
  RenderSymbol(g, near.in, near.out, p.format, p.page, p.size, p.budget)

QueryAround(g, p, matches, centre) ==
  [ok |-> TRUE, centre |-> centre,
   page |-> PageOf(g, p, Neighbourhood(g, p, matches, centre)),
   note |-> IF p.aggregate \/ p.format = "json" THEN {} ELSE MultiDefNote(g, matches, centre)]

QueryMatches(g, p, matches) ==
  IF matches = <<>> THEN [ok |-> TRUE, centre |-> 0]
  ELSE QueryAround(g, p, matches, PickCenter(g, matches))

CachedQuery(g, p) ==
  IF p.symbol = <<>> \/ Candidates(g, p) = Panic THEN [ok |-> FALSE]
  ELSE QueryMatches(g, p, Matches(g, p))
=============================================================================
