------------------------------ MODULE Queries -------------------------------
(***************************************************************************)
(* The read-only requests of the daemon.  Each handler computes its answer *)
(* from the graph under its read lock and changes nothing; what outlives a *)
(* request is the client's page cursor.  The graph, the configuration and  *)
(* the requests range over families given by the constants; one request is *)
(* answered and replied to at a time.                                      *)
(***************************************************************************)
EXTENDS Impact, Reports, Answers, FrontEnds

CONSTANTS Graphs,        \* graphs a build can leave
          Configs,       \* `.coregraph/config.toml' and manifests
          Symbols,       \* names asked for; the empty one is a missing parameter
          Depths,
          LangSets,
          Batches,       \* lists of names for `impact_batch'
          FileSets,      \* files changed, marked as generated, or parsed
          ReportParams,  \* [category, langs, excludeTests, publicOnly]
          QueryParams,   \* see Answers
          ExportParams,  \* see FrontEnds
          Documented     \* what `@param' names a doc comment lists on disk

VARIABLES g, cfg, answer, session

vars == <<g, cfg, answer, session>>

NoAnswer == [method |-> "none"]

NoSession == [open |-> FALSE]

Init == /\ g \in Graphs
        /\ cfg \in Configs
        /\ answer = NoAnswer
        /\ session = NoSession

Answer(method, p, result) ==
  /\ answer = NoAnswer
  /\ session = NoSession
  /\ answer' = [method |-> method, p |-> p, result |-> result]
  /\ UNCHANGED <<g, cfg, session>>

Reply == /\ answer # NoAnswer
         /\ answer' = NoAnswer
         /\ UNCHANGED <<g, cfg, session>>

(* The inconsistencies and orphans the diff handlers attach.               *)
AllReports == FindInconsistencies(g, cfg)

AskImpact ==
  \E s \in Symbols, d \in Depths, l \in LangSets :
    LET p == [symbol |-> s, depth |-> d, langs |-> l]
    IN  Answer("impact", p, CachedImpact(g, cfg, p))

AskImpactBatch ==
  \E b \in Batches : Answer("impact_batch", b, CachedImpactBatch(g, b))

AskDiffSummary ==
  \E fs \in FileSets, d \in Depths, t \in BOOLEAN :
    Answer("diff_summary", [files |-> fs, depth |-> d, excludeTests |-> t],
           ComputeDiffSummary(g, cfg, fs, d, t))

AskDiffWithGit ==
  \E fs \in FileSets, ok \in BOOLEAN :
    Answer("diff", [files |-> fs, ok |-> ok],
           DispatchDiffWithGit(g, fs, ok, AllReports, FindOrphans(g)))

AskDiff == Answer("diff_cached", <<>>, CachedDiff(g, AllReports))

AskCrossLang == Answer("cross_lang", <<>>, CachedCrossLang(g))

AskOrphans ==
  \E p \in ReportParams :
    Answer("orphans", p,
           [daemon |-> CachedOrphans(g, cfg, p), cli |-> RunOrphans(g, cfg, p)])

AskInconsistencies ==
  \E p \in ReportParams :
    Answer("inconsistencies", p,
           [daemon |-> CachedInconsistencies(g, cfg, p), cli |-> RunInconsistencies(g, cfg, p)])

AskDocDrift ==
  \E texts \in Documented :
    Answer("doc_drift", texts, FindDocParamDrift(g, [i \in Ids(g) |-> texts]))

AskRecommend ==
  \E marked \in FileSets : Answer("recommend", marked, Recommend(g, cfg, marked))

AskStats ==
  \E parsed \in FileSets :
    Answer("stats", parsed,
           [daemon |-> CachedStats(g), cli |-> RunStats(g, parsed),
            degree |-> [i \in Ids(g) |-> ImpactInDegree(g, i)]])

AskDefinition == \E s \in Symbols : Answer("definition", s, Definition(g, s))

AskReferences == \E s \in Symbols : Answer("references", s, LspReferences(g, s))

AskWorkspaceSymbol == \E s \in Symbols : Answer("workspace_symbol", s, WorkspaceSymbol(g, s))

AskInspect ==
  \E i \in Ids(g) :
    LET n == NodeOf(g, i) IN Answer("inspect", i, Inspect(g, n.file, n.from))

AskApiQuery ==
  \E s \in Symbols, page \in 0..1, size \in 0..2 :
    Answer("api_query", [symbol |-> s, page |-> page, size |-> size], ApiQuery(g, s, page, size))

AskApiExpand == \E i \in 0..Len(g.nodes) : Answer("api_expand", i, ApiExpand(g, i))

AskApiImpact ==
  \E s \in Symbols, d \in Depths :
    Answer("api_impact", [symbol |-> s, depth |-> d], ApiImpact(g, s, d))

AskBatch == \E b \in Batches : Answer("batch", b, RunQueries(g, b))

AskExport ==
  \E p \in ExportParams :
    Answer("export", p, [daemon |-> CachedExportGraph(g, p), cli |-> RunExport(g, p)])

AskRunInspect ==
  \E i \in Ids(g), at \in {4, 20} :
    Answer("run_inspect", [file |-> NodeOf(g, i).file, at |-> at],
           RunInspect(g, NodeOf(g, i).file, at))

AskBreakdown == Answer("breakdown", <<>>, Breakdown(g, cfg))

(***************************************************************************)
(* `query' and the client that follows the cursor.  The cursor is a page   *)
(* number; the rest of the request is the client's to repeat.  A reader of *)
(* the human text asks for the same page in json to be given one.          *)
(***************************************************************************)
Opened(p, r) ==
  [open |-> TRUE, p |-> p, first |-> r,
   pages |-> IF r.ok /\ r.centre # 0 THEN <<r.page>> ELSE <<>>]

FirstPage ==
  /\ answer = NoAnswer
  /\ session = NoSession
  /\ \E p \in QueryParams : session' = Opened(p, CachedQuery(g, p))
  /\ UNCHANGED <<g, cfg, answer>>

InJson == CachedQuery(g, [session.p EXCEPT !.format = "json",
                                           !.page = @ + Len(session.pages) - 1])

Cursor == IF session.pages = <<>> THEN -1
          ELSE IF session.p.format = "human" THEN InJson.page.token
          ELSE Last(session.pages).token

NextPage ==
  /\ session.open
  /\ Cursor # -1
  /\ session' = [session EXCEPT
                   !.pages = Append(@, CachedQuery(g, [session.p EXCEPT !.page = Cursor]).page)]
  /\ UNCHANGED <<g, cfg, answer>>

Close ==
  /\ session.open
  /\ session' = NoSession
  /\ UNCHANGED <<g, cfg, answer>>

Next ==
  \/ AskImpact \/ AskImpactBatch \/ AskDiffSummary \/ AskDiffWithGit \/ AskDiff
  \/ AskCrossLang \/ AskOrphans \/ AskInconsistencies \/ AskDocDrift \/ AskRecommend
  \/ AskStats \/ AskDefinition \/ AskReferences \/ AskWorkspaceSymbol \/ AskInspect
  \/ AskApiQuery \/ AskApiExpand \/ AskApiImpact \/ AskBatch \/ AskExport
  \/ AskRunInspect \/ AskBreakdown
  \/ FirstPage \/ NextPage \/ Close \/ Reply

Spec == Init /\ [][Next]_vars

-----------------------------------------------------------------------------
(***************************************************************************)
(* Reference definitions: distances and best paths by rounds over all the  *)
(* edges at once, with no queue and no visited set.                        *)
(***************************************************************************)
Eligible == {e \in ToSet(g.edges) : /\ IsImpactBearing(e.kind)
                                    /\ IsImpactNode(NodeOf(g, e.from).kind)}

Far == 99

(* hops[i]: the fewest edges of Steps from i to the seed.                  *)
Hops(Steps, seed) ==
  LET round[k \in 0..Len(g.nodes)] ==
        IF k = 0 THEN [i \in Ids(g) |-> IF i = seed THEN 0 ELSE Far]
        ELSE [i \in Ids(g) |-> Min({round[k - 1][i]} \cup
                {round[k - 1][s[2]] + 1 : s \in {x \in Steps : x[1] = i}})]
  IN  [i \in Ids(g) |-> Min({round[Len(g.nodes)][i], Far})]

(* losses[k][i]: the least loss of a walk of at most k eligible edges.     *)
Losses(seed, depth) ==
  LET round[k \in 0..depth] ==
        IF k = 0 THEN [i \in Ids(g) |-> IF i = seed THEN 0 ELSE Far]
        ELSE [i \in Ids(g) |-> Min({round[k - 1][i]} \cup
                {round[k - 1][e.to] + CurrentLoss(e) : e \in {x \in Eligible : x.from = i}})]
  IN  round

Within(hops, depth) == {i \in Ids(g) : hops[i] <= depth}

EligibleHops(seed) == Hops({<<e.from, e.to>> : e \in Eligible}, seed)

Cone(seed, depth) == Within(EligibleHops(seed), depth) \ {seed}

(* The spanning tree of a cone: one edge per dependent, one hop nearer.    *)
SpansCone(r, seed, reached) ==
  LET hops == EligibleHops(seed)
  IN  /\ Len(r.edges) = Cardinality(reached)
      /\ {e.from : e \in ToSet(r.edges)} = reached
      /\ \A e \in ToSet(r.edges) : e \in Eligible /\ hops[e.from] = hops[e.to] + 1
      /\ r.depth = Max({0} \cup {hops[i] : i \in reached})

ImpactAnswerExact ==
  LET p == answer.p
      r == answer.result
      reached == Cone(r.seed, p.depth)
      losses == Losses(r.seed, p.depth)
      Degree(i) == ImpactInDegree(g, i)
  IN  r.ok /\ r.seed # 0 =>
        /\ \A i \in Ids(g) : /\ NodeOf(g, i).name = p.symbol
                             /\ IsImpactNode(NodeOf(g, i).kind)
                             => NodeOf(g, r.seed).name = p.symbol /\ Degree(i) <= Degree(r.seed)
        /\ IsInjective(r.reachable)
        /\ ToSet(r.reachable) = {i \in reached : /\ MatchLangs(p.langs, NodeOf(g, i).file)
                                                 /\ NodeOf(g, i).file \notin cfg.index}
        /\ SpansCone(r, r.seed, reached)
        /\ r.risk.callers = Cardinality(reached)
        /\ r.risk.weighted = MapThenSumSet(LAMBDA i : Weight(losses[p.depth][i]), reached)
        /\ \A t \in r.risk.tests :
             /\ t.loss = losses[p.depth][t.id]
             /\ t.hops = Min({k \in 0..p.depth : losses[k][t.id] = t.loss})

(* A batch, and the two diffs, against the cones of their seeds.           *)
BatchExact ==
  LET r == answer.result
      Seeds(s) == {i \in Ids(g) : NodeOf(g, i).name = s}
  IN  r.ok => \A s \in DOMAIN r.results :
        /\ r.results[s].seeds = Cardinality(Seeds(s))
        /\ r.results[s].truncated <=> Cardinality(Seeds(s)) > MaxSeedsPerName
        /\ ~r.results[s].truncated
             => /\ r.results[s].nodes = MapThenSumSet(LAMBDA i : Cardinality(Cone(i, 3)), Seeds(s))
                /\ r.results[s].edges = r.results[s].nodes

In(files) == {i \in Ids(g) : NodeOf(g, i).file \in files}

DiffSummaryExact ==
  LET r == answer.result
      T == r.touched
  IN  /\ T \subseteq In(answer.p.files)
      /\ r.reachable = Cardinality(UNION {Cone(i, answer.p.depth) : i \in T} \ T)

DiffExact ==
  LET r == answer.result
  IN  /\ ~answer.p.ok => r.files = <<>>
      /\ \A f \in DOMAIN r.files :
           /\ r.files[f].reached = UNION {Cone(i, 3) : i \in In({f})}
           /\ ToSet(r.files[f].top) \cap In({f}) = {}
           /\ ToSet(r.files[f].top) \subseteq r.files[f].reached
      /\ r.reachable = Cardinality(UNION {Cone(i, 3) : i \in In(DOMAIN r.files)})

(***************************************************************************)
(* What breaks when a symbol changes is exactly what can reach it: the     *)
(* cone is every node with an eligible walk to the seed of at most the     *)
(* asked depth, its edges are a tree of shortest such walks, the risk is   *)
(* summed over the most trusted walk of each, and the batch and diff       *)
(* answers add up the same cones (impact.rs compute_impact, compute_risk,  *)
(* dispatch.rs diff and impact_batch handlers).                            *)
(***************************************************************************)
ImpactExact ==
  /\ answer.method = "impact"       => ImpactAnswerExact
  /\ answer.method = "impact_batch" => BatchExact
  /\ answer.method = "diff_summary" => DiffSummaryExact
  /\ answer.method = "diff"         => DiffExact

-----------------------------------------------------------------------------
(* The edges within p.depth of the centre that pass the filters, by hops   *)
(* from it: Near(e) is the end the walk comes from.                        *)
Listing(p, centre, Near(_), FarEnd(_)) ==
  LET Passing == {e \in ToSet(g.edges) : StoredConfidence(e) >= p.minConfidence}
      hops == Hops({<<FarEnd(e), Near(e)>> : e \in Passing}, centre)
  IN  {[edge |-> e, depth |-> hops[Near(e)] + 1] :
         e \in {x \in Passing : /\ hops[Near(x)] < Max({p.depth, 1})
                                /\ p.edgeKinds # {} => x.kind \in p.edgeKinds}}

Outgoing(p, centre) ==
  IF p.direction = "incoming" THEN {}
  ELSE Listing(p, centre, LAMBDA e : e.from, LAMBDA e : e.to)

Incoming(p, centre) ==
  IF p.direction = "outgoing" THEN {}
  ELSE Listing(p, centre, LAMBDA e : e.to, LAMBDA e : e.from)

Sorted(xs) ==
  \A k \in 1..(Len(xs) - 1) :
    \/ xs[k].depth < xs[k + 1].depth
    \/ /\ xs[k].depth = xs[k + 1].depth
       /\ EdgeKindPriority(xs[k].edge.kind) <= EdgeKindPriority(xs[k + 1].edge.kind)

(* xs lists the set once each; aggregated, an edge's depth may be another  *)
(* definition's.                                                           *)
Lists(p, xs, expected) ==
  LET Of(s) == IF p.aggregate THEN {x.edge : x \in s} ELSE s
  IN  /\ Of(ToSet(xs)) = Of(expected)
      /\ Len(xs) = Cardinality(Of(expected))
      /\ Sorted(xs)

Answered == session.open /\ session.pages # <<>>

Delivered == FlattenSeq([k \in DOMAIN session.pages |-> session.pages[k].slice])

Centres == IF session.p.aggregate
           THEN {i \in Ids(g) : NodeOf(g, i).name = NodeOf(g, session.first.centre).name
                                  /\ session.p.kind \in {"any", NodeOf(g, i).kind}
                                  /\ MatchLangs(session.p.langs, NodeOf(g, i).file)}
           ELSE {session.first.centre}

(***************************************************************************)
(* Following the cursor over an unchanged graph delivers every edge of the *)
(* neighbourhood once: the pages, in order, are the outgoing edges then    *)
(* the incoming ones, each nearest first; no page is empty; a page says    *)
(* that there are more exactly when there are, says that it is cut only    *)
(* when it dropped a line (and, but for the human text, whenever it did),  *)
(* and stays within its token budget (render.rs bfs_edges_filtered,        *)
(* bfs_edges_aggregated, render_symbol, render_human, render_llm,          *)
(* render_json).                                                           *)
(***************************************************************************)
PagesExact ==
  Answered =>
    LET p == session.p
        pages == session.pages
        outs == UNION {Outgoing(p, c) : c \in Centres}
        ins == UNION {Incoming(p, c) : c \in Centres}
        split == Cardinality({x.edge : x \in outs})
    IN  /\ Cursor = -1 => /\ split <= Len(Delivered)
                          /\ Lists(p, SubSeq(Delivered, 1, split), outs)
                          /\ Lists(p, SubSeq(Delivered, split + 1, Len(Delivered)), ins)
        /\ Cursor # -1 => Len(Delivered) = Len(pages) * p.size
        /\ \A k \in DOMAIN pages :
             /\ pages[k].slice = <<>> => pages[k].total = 0
             /\ Len(pages[k].shown) <= Len(pages[k].slice)
             /\ ToSet(pages[k].shown) \subseteq ToSet(pages[k].slice)
             /\ pages[k].announced => Len(pages[k].shown) < Len(pages[k].slice)
             /\ p.format # "human" /\ Len(pages[k].shown) < Len(pages[k].slice) => pages[k].announced
             /\ pages[k].more <=> k < Len(pages) \/ Cursor # -1
             /\ FoldLeft(LAMBDA n, x : n + Min({LineCost(g, x, "in"), LineCost(g, x, "out")}),
                         0, pages[k].shown) <= EffectiveBudget(p.budget)

(***************************************************************************)
(* The documentation's promise of the cursor: "when a response is          *)
(* truncated it returns an opaque cursor; pass it back for the next page"  *)
(* (llm-usage.md), so a client that follows it to the end has been shown   *)
(* every edge (render.rs render_symbol, encode_cursor).                    *)
(***************************************************************************)
TruncatedIsResumable ==
  Answered /\ Cursor = -1 =>
    Len(FlattenSeq([k \in DOMAIN session.pages |-> session.pages[k].shown])) = Len(Delivered)

(***************************************************************************)
(* A page that leaves out lines warns of it in every format: the human     *)
(* warning is left out when it does not fit (render.rs render_human).      *)
(***************************************************************************)
CutAnnounced ==
  Answered => \A k \in DOMAIN session.pages :
    Len(session.pages[k].shown) < Len(session.pages[k].slice) => session.pages[k].announced

-----------------------------------------------------------------------------
(* What a name means: itself; else names it is part of, whatever the case; *)
(* else names whose start is a typo away.                                  *)
Typos(name) == IF Len(name) < 4 THEN 1 ELSE 2

Named(name) == {i \in Ids(g) : NodeOf(g, i).name = name}

Containing(name) == {i \in Ids(g) : Infix(Folded(name), Folded(NodeOf(g, i).name))}

Start(name, i) ==
  LET n == NodeOf(g, i).name IN SubSeq(n, 1, Min({Len(n), Len(name) + Typos(name)}))

TypoOf(name, i) == EditDistance(Folded(name), Folded(Start(name, i)))

Meant(name) ==
  IF Named(name) # {} THEN Named(name)
  ELSE IF Containing(name) # {} THEN Containing(name)
  ELSE {i \in Ids(g) : TypoOf(name, i) <= Typos(name)}

(* The names are cut at as many bytes as the query has and one or two      *)
(* more, which may be inside a letter.                                     *)
CutInside(name) ==
  /\ Containing(name) = {}
  /\ \E i \in Ids(g) : /\ Len(NodeOf(g, i).name) > Len(Start(name, i))
                       /\ NodeOf(g, i).name[Len(Start(name, i)) + 1] \in TailBytes

(* i is no worse a match than j.                                           *)
NoWorse(name, i, j) ==
  LET q == Folded(name)
      a == Folded(NodeOf(g, i).name)
      b == Folded(NodeOf(g, j).name)
  IN  IF Containing(name) = {} THEN TypoOf(name, i) <= TypoOf(name, j)
      ELSE \/ a = q
           \/ b # q /\ IsPrefix(q, a) /\ (IsPrefix(q, b) => Len(a) <= Len(b))
           \/ ~IsPrefix(q, b) /\ Len(a) <= Len(b)

Admitted(p) == {i \in Meant(p.symbol) : /\ p.kind \in {"any", NodeOf(g, i).kind}
                                        /\ MatchLangs(p.langs, NodeOf(g, i).file)}

CentreExact ==
  LET p == session.p
      c == session.first.centre
      Public == {i \in Admitted(p) : NodeOf(g, i).vis = "Public"}
  IN  session.first.ok /\ Cardinality(Meant(p.symbol)) <= p.size * 4 =>
        /\ c # 0 /\ Public = {} => \A i \in Admitted(p) : NoWorse(p.symbol, c, i)
        /\ c = 0 <=> Admitted(p) = {}
        /\ c # 0 => c \in Admitted(p) /\ (Public # {} => c \in Public)
        /\ c # 0 /\ ~p.aggregate /\ p.format # "json" =>
             {c} \cup session.first.note = {i \in Admitted(p) : NodeOf(g, i).name = NodeOf(g, c).name}

ReferencesExact ==
  LET At == {i \in Ids(g) : NodeOf(g, i).name = answer.p}
      Touching == {e \in ToSet(g.edges) : /\ {e.from, e.to} \cap At # {}
                                          /\ EdgeKindPriority(e.kind) < 15
                                             \/ e.kind \in {"Documents", "Mentions", "DescribedIn"}}
  IN  answer.result.ok =>
        /\ Len(answer.result.locations) = Cardinality(Touching)
        /\ ToSet(answer.result.locations) \subseteq
             UNION {ToSet(Definition(g, answer.p).locations)} \cup
             {e.from : e \in Touching} \cup {e.to : e \in Touching}
        /\ \A e \in Touching : {e.from, e.to} \cap ToSet(answer.result.locations) # {}

(***************************************************************************)
(* A name is looked up as itself, as part of a name in any case, as a      *)
(* typo, in this order, and the centre of the answer is one the filters    *)
(* admit: a public one when there is one, else the best match; the others  *)
(* of its name are listed beside it (symbol_graph.rs lookup_by_name,       *)
(* lookup_by_name_fuzzy; render.rs pick_center_index, multi_def_note).  A  *)
(* query that names something is left unanswered only by the panic of a    *)
(* name cut inside a letter.  Asking for references never hides a semantic *)
(* edge at the name (dispatch.rs references).                              *)
(***************************************************************************)
LookupExact ==
  /\ session.open => /\ CentreExact
                     /\ session.first.ok <=> session.p.symbol # <<>> /\ ~CutInside(session.p.symbol)
  /\ answer.method = "references" => ReferencesExact

(***************************************************************************)
(* A query that names something is answered, be it that nothing was found  *)
(* (query/src/lib.rs query_symbol, dispatch.rs cached_query).              *)
(***************************************************************************)
LookupAnswers == session.open /\ session.p.symbol # <<>> => session.first.ok

-----------------------------------------------------------------------------
OrphansExact ==
  LET d == answer.result.daemon
  IN  /\ \A i \in d.found :
           /\ IncomingImpactDegree(g, i) = 0
           /\ ComputeImpact(g, i, 3).reachable = <<>>
      /\ d.tests + d.api + d.dead = Cardinality(d.found) /\ d.dead >= 0
      /\ answer.p.excludeTests => d.tests = 0
      /\ answer.p.publicOnly \/ ~d.note
      /\ answer.p.langs = {} /\ (\A i \in Ids(g) : NodeOf(g, i).file \notin cfg.index)
           => answer.result.cli = d

Paths == {i \in Ids(g) : NodeOf(g, i).kind = "StringLiteral" /\ NodeOf(g, i).name[1] = "api_path::"}

CloseSpellings ==
  {{Tail(NodeOf(g, i).name), Tail(NodeOf(g, j).name)} :
     <<i, j>> \in {p \in Paths \X Paths :
       LET a == Tail(NodeOf(g, p[1]).name)
           b == Tail(NodeOf(g, p[2]).name)
       IN  /\ EditDistance(a, b) \in {1, 2}
           /\ 5 * Min({Len(a), Len(b)}) >= 4 * Max({Len(a), Len(b)})
           /\ ~DiffersOnlyByApiVersion(a, b)
           /\ \A x \in {a, b} : SegmentCount(x) >= cfg.floor
           /\ NodeOf(g, p[1]).file # NodeOf(g, p[2]).file}}

(* One report per pair of spellings; no key both missing and defined, none *)
(* both unused and referenced; a disabled category only when asked for.    *)
InconsistenciesExact ==
  LET found == answer.result.daemon
      Of(c) == {r \in found : r.category = c}
      Keys(what) == {r \in Of("config-key") : r.value = what}
      Spellings == {r.value : r \in Of("api-path")}
      Everything == answer.p.langs = {} /\ ~answer.p.excludeTests /\ cfg.index = {}
      Asked(c) == answer.p.category = c
  IN  /\ Cardinality(Spellings) = Cardinality(Of("api-path"))
      /\ Spellings \subseteq CloseSpellings
      /\ Everything /\ Asked("api-path") => Spellings = CloseSpellings
      /\ \A r \in Keys("missing-key"), i \in ToSet(ConfigKeys(g)) :
           IsDefinition(g, i) => CanonicalKey(g, i) # CanonicalKey(g, r.a)
      /\ \A r \in Keys("unused-key") :
           /\ \A i \in References(g) : CanonicalKey(g, i) # CanonicalKey(g, r.a)
           /\ \E i \in References(g), j \in ToSet(ConfigKeys(g)) :
                IsDefinition(g, j) /\ CanonicalKey(g, i) = CanonicalKey(g, j)
      /\ \A r \in found : r.category \notin cfg.disabled \/ Asked(r.category)
      /\ found \subseteq answer.result.cli
      /\ ~answer.p.excludeTests => found = answer.result.cli

DriftExact ==
  \A r \in answer.result :
    LET p == r.missing.param
    IN  /\ p \in answer.p.documented \ answer.p.params
        /\ <<"_">> \o p \notin answer.p.params
        /\ {c.name : c \in r.missing.candidates}
             = {a \in answer.p.params : EditDistance(a, p) <= 2}
        /\ \A c \in r.missing.candidates : c.distance = EditDistance(c.name, p)

(* The projection from bucket sizes is the matcher's own pair count, and a *)
(* recommended cap admits no more pairs than the current one.              *)
RecommendExact ==
  LET cap == answer.result.cap
      Pairs(c) == Cardinality(MatchingStringPairs(g, c))
  IN  /\ \A c \in {0, cfg.cap} \cup CapCandidates : ProjectedEdges(g, c) = Pairs(c)
      /\ cap # NoCap => /\ cap.cap > 0
                        /\ cfg.cap = 0 \/ cap.cap < cfg.cap
                        /\ Pairs(cap.cap) <= Pairs(cfg.cap)
                        /\ RecommendStringMatchCap(g, cap.cap) = NoCap
      /\ answer.result.noise \cap answer.result.generated = {}

(***************************************************************************)
(* A report says what the graph says: orphans have no dependents and their *)
(* buckets add up; the daemon and the command line agree on an index that  *)
(* holds no excluded file; close spellings are reported once each; no key  *)
(* is both missing and defined; typo candidates are true distances; the    *)
(* recommended cap is computed from the pairs the matcher would make       *)
(* (dispatch.rs, commands/*.rs, orphans.rs, inconsistencies.rs, drift.rs,  *)
(* recommend.rs).                                                          *)
(***************************************************************************)
ReportsExact ==
  /\ answer.method = "orphans"         => OrphansExact
  /\ answer.method = "inconsistencies" => InconsistenciesExact
  /\ answer.method = "doc_drift"       => DriftExact
  /\ answer.method = "recommend"       => RecommendExact

-----------------------------------------------------------------------------
ApiQueryExact ==
  LET p == answer.p
      r == answer.result
      Page(k) == ApiQuery(g, p.symbol, k - 1, p.size).matches
  IN  r.ok /\ p.size > 0 =>
        /\ FlattenSeq([k \in 1..r.pages |-> Page(k)]) = QuerySymbol(g, p.symbol)
        /\ p.page >= r.pages => r.matches = <<>>

(* The undirected distance to the nearest of some nodes.                   *)
Around(S) ==
  LET Both == {<<e.from, e.to>> : e \in ToSet(g.edges)} \cup {<<e.to, e.from>> : e \in ToSet(g.edges)}
      hops == [s \in S |-> Hops(Both, s)]
  IN  [i \in Ids(g) |-> Min({Far} \cup {hops[s][i] : s \in S})]

ExportExact ==
  LET p == answer.p
      r == answer.result
      near == Around({i \in Ids(g) : Infix(p.subgraph, NodeOf(g, i).name)})
      Confident == {e \in ToSet(g.edges) : StoredConfidence(e) >= p.minConfidence}
      Kept == {i \in Ids(g) : near[i] <= p.hops /\ MatchLangs(p.langs, NodeOf(g, i).file)}
  IN  /\ p.subgraph # <<>> => ToSet(r.cli.nodes) = Kept
      /\ ToSet(r.cli.edges) = {e \in Confident : {e.from, e.to} \subseteq ToSet(r.cli.nodes)}
      /\ ToSet(r.daemon.edges) = {e \in Confident : e.kind \notin p.excluded}
      /\ r.daemon.total = r.cli.total

BreakdownExact ==
  LET r == answer.result
      Sum(f) == MapThenSumSet(LAMBDA k : f[k], DOMAIN f)
  IN  /\ Sum(r.kinds) = Len(g.nodes) /\ Sum(r.packages) = Len(g.nodes)
      /\ Sum(r.edgeKinds) = Len(g.edges) /\ Sum(r.origins) = Len(g.edges)
      /\ Sum(r.files) + r.external = Len(g.nodes)
      /\ \A s \in Symbols \ {<<>>} : LET i == PickImpactSeed(g, s) IN
           \A k \in DOMAIN r.top :
             NodeOf(g, r.top[k]).name = s /\ IsImpactNode(NodeOf(g, r.top[k]).kind) =>
               \E j \in DOMAIN r.top :
                 /\ r.top[j] = i
                 /\ ImpactInDegree(g, i) >= ImpactInDegree(g, r.top[k])

(***************************************************************************)
(* The other front ends tell the same story: the HTTP pages add up to the  *)
(* lookup, its cone is the cone of its seed, an exported subgraph is the   *)
(* symbols within the hops asked for, in either direction, with every      *)
(* confident edge between them and none that dangles, and the breakdown's  *)
(* tables each add up to the graph and rank the seed `impact' would pick   *)
(* (handlers.rs, export.rs, stats.rs).                                     *)
(***************************************************************************)
FrontsAgree ==
  /\ answer.method = "api_query"  => ApiQueryExact
  /\ answer.method = "api_impact" /\ answer.result.ok =>
       LET reached == Cone(answer.result.seed, answer.p.depth)
       IN  ToSet(answer.result.reachable) = reached
             /\ SpansCone(answer.result, answer.result.seed, reached)
  /\ answer.method = "export"     => ExportExact
  /\ answer.method = "breakdown"  => BreakdownExact

(***************************************************************************)
(* `stats' counts the same files with a daemon and without one             *)
(* (dispatch.rs cached_stats).  A stub for an external package has no file *)
(* and is counted as one.                                                  *)
(***************************************************************************)
StatsAgree ==
  answer.method = "stats" /\ answer.p = FilesOf(g) =>
    answer.result.daemon = answer.result.cli
=============================================================================
