------------------------------ MODULE Reports -------------------------------
(***************************************************************************)
(* The reports over a whole graph: orphans, the three inconsistency        *)
(* detectors, documentation drift, the configuration recommendations and   *)
(* the counts of `stats', each as the daemon's handler answers it and as   *)
(* the command line computes it without a daemon.  A literal's marker      *)
(* ("api_path::", "config_ref::", "env_ref::") is its name's first letter. *)
(***************************************************************************)
EXTENDS QueryGraph, EditDistance

NodesOfKind(g, kind) == Picked(g, LAMBDA i : NodeOf(g, i).kind = kind)

(* The unordered pairs of a sequence's elements, the earlier one first.    *)
PairsOf(s) == {<<s[p[1]], s[p[2]]>> : p \in {q \in (DOMAIN s) \X (DOMAIN s) : q[1] < q[2]}}

(***************************************************************************)
(* Orphans: code without a semantic edge.                                  *)
(***************************************************************************)
FindOrphans(g) ==
  LET Semantic == {e \in ToSet(g.edges) :
                     e.kind \notin {"Contains", "BelongsTo", "Documents", "DescribedIn"}}
      Connected == {e.from : e \in Semantic} \cup {e.to : e \in Semantic}
  IN  {i \in Ids(g) : IsCodeKind(NodeOf(g, i).kind) /\ i \notin Connected}

OrphanBuckets(g, cfg, found, publicOnly) ==
  LET Test == {i \in found : IsTestSymbolIn(NodeOf(g, i))}
      Api  == {i \in found \ Test : /\ IsLibraryFile(cfg, NodeOf(g, i).file)
                                    /\ IsPublicSymbol(NodeOf(g, i))}
  IN  [found |-> found, tests |-> Cardinality(Test), api |-> Cardinality(Api),
       dead |-> Cardinality(found) - Cardinality(Api) - Cardinality(Test),
       note |-> publicOnly /\ ~HasLibrarySignal(cfg)]

CachedOrphans(g, cfg, p) ==
  OrphanBuckets(g, cfg,
    {i \in FindOrphans(g) :
       /\ p.excludeTests => ~IsTestSymbolIn(NodeOf(g, i))
       /\ p.publicOnly => IsPublicSymbol(NodeOf(g, i))
       /\ ~AnalysisExcluded(cfg, NodeOf(g, i).file)},
    p.publicOnly)

RunOrphans(g, cfg, p) ==
  OrphanBuckets(g, cfg,
    {i \in FindOrphans(g) :
       /\ p.excludeTests => ~IsTestSymbolIn(NodeOf(g, i))
       /\ p.publicOnly => IsPublicSymbol(NodeOf(g, i))
       /\ MatchLangs(p.langs, NodeOf(g, i).file)
       /\ ~IndexExcluded(cfg, NodeOf(g, i).file)
       /\ ~AnalysisExcluded(cfg, NodeOf(g, i).file)},
    p.publicOnly)

(***************************************************************************)
(* Enum mismatch: variants of one local name in different enums, however   *)
(* the languages spell them.                                               *)
(***************************************************************************)
LastDot(name) ==
  LET Dots == {k \in DOMAIN name : name[k] = "."} IN IF Dots = {} THEN 0 ELSE Max(Dots)

ParentName(name) == SubSeq(name, 1, LastDot(name) - 1)

LocalName(name) == SubSeq(name, LastDot(name) + 1, Len(name))

Plain(name, separators) ==
  Folded(SelectSeq(name, LAMBDA c : c \notin separators))

Sentinels == {<<"none">>, <<"default">>, <<"unknown">>}

FindEnumMismatches(g) ==
  LET Local(i) == Plain(LocalName(NodeOf(g, i).name), {"_", "-", "."})
      Variants == SelectSeq(NodesOfKind(g, "EnumVariant"),
                            LAMBDA i : Local(i) # <<>> /\ Local(i) \notin Sentinels)
  IN  {[category |-> "enum-mismatch", a |-> p[1], b |-> p[2], value |-> Local(p[1])] :
         p \in {q \in PairsOf(Variants) :
                  /\ Local(q[1]) = Local(q[2])
                  /\ ParentName(NodeOf(g, q[1]).name) # ParentName(NodeOf(g, q[2]).name)}}

(***************************************************************************)
(* API paths: near misses in different files, one report per pair of       *)
(* spellings (the first one found, shorter paths first).                   *)
(***************************************************************************)
Split(path) ==
  FoldLeft(LAMBDA segs, c : IF c = "/" THEN Append(segs, <<>>)
                            ELSE [segs EXCEPT ![Len(segs)] = Append(@, c)],
           <<<<>>>>, path)

SegmentCount(path) == Len(SelectSeq(Split(path), LAMBDA s : s # <<>>))

LengthDiffWithin(a, b, percent) ==
  LET longer  == Max({Len(a), Len(b)})
      shorter == Min({Len(a), Len(b)})
  IN  (longer - shorter) * 100 <= percent * longer

IsVersion(s) == Len(s) >= 2 /\ s[1] = "v" /\ \A k \in 2..Len(s) : s[k] \in {"1", "2"}

DiffersOnlyByApiVersion(a, b) ==
  LET sa == Split(a)
      sb == Split(b)
      Differs == {k \in DOMAIN sa : k \in DOMAIN sb /\ sa[k] # sb[k]}
  IN  /\ Len(sa) = Len(sb)
      /\ Cardinality(Differs) = 1
      /\ \A k \in Differs : IsVersion(sa[k]) /\ IsVersion(sb[k])

NearMiss(cfg, a, b) ==
  /\ a # b
  /\ SegmentCount(a) >= cfg.floor /\ SegmentCount(b) >= cfg.floor
  /\ LengthDiffWithin(a, b, 20)
  /\ Levenshtein(a, b) \in 1..2
  /\ ~DiffersOnlyByApiVersion(a, b)

FindApiPathMismatches(g, cfg) ==
  LET Path(i) == Tail(NodeOf(g, i).name)
      Literals == SelectSeq(NodesOfKind(g, "StringLiteral"),
                            LAMBDA i : NodeOf(g, i).name[1] = "api_path::")
      ByLength == FoldLeft(LAMBDA s, n : s \o SelectSeq(Literals, LAMBDA i : Len(Path(i)) = n),
                           <<>>, [n \in 1..12 |-> n])
      Key(p) == {Path(p[1]), Path(p[2])}
      Near == {p \in PairsOf(ByLength) :
                 /\ NodeOf(g, p[1]).file # NodeOf(g, p[2]).file
                 /\ NearMiss(cfg, Path(p[1]), Path(p[2]))}
      At(i) == CHOOSE k \in DOMAIN ByLength : ByLength[k] = i
      Before(p, q) == \/ At(p[1]) < At(q[1])
                      \/ At(p[1]) = At(q[1]) /\ At(p[2]) < At(q[2])
  IN  {[category |-> "api-path", a |-> p[1], b |-> p[2], value |-> Key(p)] :
         p \in {q \in Near : \A r \in Near : Key(r) = Key(q) => r = q \/ Before(q, r)}}

(***************************************************************************)
(* Config keys: references without a definition, and definitions without a *)
(* reference in a file the code reads from.  `definitions' is a map by     *)
(* canonical key: of two definitions of one key the later node stays.      *)
(***************************************************************************)
ConfigKeys(g) == NodesOfKind(g, "ConfigKey")

IsReference(g, i) == NodeOf(g, i).name[1] = "config_ref::"

IsEnvRef(g, i) == NodeOf(g, i).name[1] = "env_ref::"

IsDefinition(g, i) == ~IsReference(g, i) /\ ~IsEnvRef(g, i)

CanonicalKey(g, i) ==
  Plain(IF IsReference(g, i) THEN Tail(NodeOf(g, i).name) ELSE NodeOf(g, i).name,
        {".", "_", "-"})

Definitions(g) ==
  FoldLeft(LAMBDA d, i : (CanonicalKey(g, i) :> i) @@ d, <<>>,
           SelectSeq(ConfigKeys(g), LAMBDA i : IsDefinition(g, i)))

References(g) == {i \in ToSet(ConfigKeys(g)) : IsReference(g, i)}

Referenced(g) == {CanonicalKey(g, i) : i \in References(g)}

LiveFiles(g) ==
  {NodeOf(g, i).file : i \in {j \in ToSet(ConfigKeys(g)) :
                                IsDefinition(g, j) /\ CanonicalKey(g, j) \in Referenced(g)}}

FindConfigKeyMismatches(g) ==
  LET defs == Definitions(g)
      Report(i, what) == [category |-> "config-key", a |-> i, b |-> i, value |-> what]
  IN  {Report(i, "missing-key") :
         i \in {j \in References(g) : CanonicalKey(g, j) \notin DOMAIN defs}}
      \cup {Report(defs[k], "unused-key") :
              k \in {l \in DOMAIN defs : /\ l \notin Referenced(g)
                                         /\ NodeOf(g, defs[l]).file \in LiveFiles(g)}}

FindInconsistencies(g, cfg) ==
  UNION {IF c \in cfg.disabled THEN {}
         ELSE CASE c = "enum-mismatch" -> FindEnumMismatches(g)
                [] c = "api-path"      -> FindApiPathMismatches(g, cfg)
                [] c = "config-key"    -> FindConfigKeyMismatches(g)
           : c \in {"enum-mismatch", "api-path", "config-key"}}

(* An asked-for category runs although the configuration disables it.      *)
RunInconsistencies(g, cfg, p) ==
  {r \in FindInconsistencies(g, [cfg EXCEPT !.disabled = @ \ {p.category}]) :
     /\ p.category # "all" => r.category = p.category
     /\ MatchLangs(p.langs, NodeOf(g, r.a).file) \/ MatchLangs(p.langs, NodeOf(g, r.b).file)
     /\ ~IndexExcluded(cfg, NodeOf(g, r.a).file) /\ ~IndexExcluded(cfg, NodeOf(g, r.b).file)}

CachedInconsistencies(g, cfg, p) ==
  {r \in RunInconsistencies(g, cfg, p) :
     p.excludeTests => /\ ~IsTestPath(cfg.root, NodeOf(g, r.a).file)
                       /\ ~IsTestPath(cfg.root, NodeOf(g, r.b).file)}

(***************************************************************************)
(* Documentation drift: documented parameters the signature lacks, and the *)
(* signature's names within two edits of each, closest first.  texts gives *)
(* what the file on disk holds now at the doc's and the function's spans.  *)
(***************************************************************************)
Logical(p) == IF p # <<>> /\ p[1] = "_" THEN Tail(p) ELSE p

MissingDocumentedParams(documented, params) ==
  {[param |-> p,
    candidates |-> {[distance |-> Levenshtein(a, p), name |-> a] :
                      a \in {x \in params : Levenshtein(x, p) <= 2}}] :
     p \in {q \in documented \ params : \A a \in params : Logical(a) # Logical(q)}}

FindDocParamDrift(g, texts) ==
  UNION {LET func == NodeOf(g, e.to)
             text == texts[e.to]
         IN  IF \/ func.kind \notin {"Function", "Method"}
                \/ LanguageOf(func.file) \notin {"java", "typescript", "javascript", "python"}
                \/ text.params = {}
             THEN {}
             ELSE {[symbol |-> e.to, missing |-> m] :
                     m \in MissingDocumentedParams(text.documented, text.params)}
         : e \in {x \in ToSet(g.edges) : x.kind = "Documents"}}

(***************************************************************************)
(* Recommendations.                                                        *)
(***************************************************************************)
CONSTANTS NoiseMinSymbols,   \* NOISE_MIN_SYMBOLS
          ApiPathMinReports  \* API_PATH_MIN_REPORTS

DataKinds == {"ConfigKey", "StringLiteral", "DocSection"}

FilesOf(g) == {NodeOf(g, i).file : i \in Ids(g)} \ {NoFile}

NoiseCandidates(g) ==
  LET Of(f) == ToSet(NodesInFile(g, f))
      Data(f) == Cardinality({i \in Of(f) : NodeOf(g, i).kind \in DataKinds})
  IN  {f \in FilesOf(g) : /\ Data(f) >= NoiseMinSymbols
                          /\ (Data(f) * 100) \div Len(g.nodes) >= 5
                          /\ (Data(f) * 100) \div Cardinality(Of(f)) >= 90}

StringLiterals(g) == ToSet(NodesOfKind(g, "StringLiteral"))

StringBucket(g, v) == {i \in StringLiterals(g) : NodeOf(g, i).name = v}

(* The value matcher's pairs: equal literals of different files, unless    *)
(* the value occurs in more files than the cap (0 is no cap).              *)
MatchingStringPairs(g, cap) ==
  LET Files(v) == {NodeOf(g, i).file : i \in StringBucket(g, v)}
  IN  {p \in PairsOf(NodesOfKind(g, "StringLiteral")) :
         /\ NodeOf(g, p[1]).name = NodeOf(g, p[2]).name
         /\ NodeOf(g, p[1]).file # NodeOf(g, p[2]).file
         /\ cap = 0 \/ Cardinality(Files(NodeOf(g, p[1]).name)) <= cap}

(* A variant: pairs within one file are counted too.                       *)
ProjectedEdgesAnywhere(g, cap) ==
  LET Files(b) == {NodeOf(g, i).file : i \in b}
      Buckets == {StringBucket(g, NodeOf(g, i).name) : i \in StringLiterals(g)}
  IN  MapThenSumSet(LAMBDA b : (Cardinality(b) * (Cardinality(b) - 1)) \div 2,
                    {b \in Buckets : cap = 0 \/ Cardinality(Files(b)) <= cap})

(* What they would be under a cap, from the bucket sizes alone.            *)
ProjectedEdges(g, cap) ==
  LET Choose2(n) == (n * (n - 1)) \div 2
      Files(b) == {NodeOf(g, i).file : i \in b}
      Same(b) == MapThenSumSet(
                   LAMBDA f : Choose2(Cardinality({i \in b : NodeOf(g, i).file = f})), Files(b))
      Buckets == {StringBucket(g, NodeOf(g, i).name) : i \in StringLiterals(g)}
  IN  MapThenSumSet(LAMBDA b : Choose2(Cardinality(b)) - Same(b),
                    {b \in Buckets : cap = 0 \/ Cardinality(Files(b)) <= cap})

CapCandidates == {2, 3, 4, 6, 8}

NoCap == [current |-> -1, cap |-> -1]

RecommendStringMatchCap(g, current) ==
  LET total == Len(g.edges)
      Share(cap) == (ProjectedEdges(g, cap) * 100) \div total
      Fitting == {c \in CapCandidates : (c < current \/ current = 0) /\ Share(c) <= 10}
      cap == IF Fitting = {} THEN Min(CapCandidates) ELSE Max(Fitting)
  IN  IF total = 0 THEN NoCap
      ELSE IF Share(current) <= 15 \/ (current # 0 /\ cap >= current) THEN NoCap
      ELSE [current |-> current, cap |-> cap]

LanguageFamily(f) ==
  CASE f.ext \in {"ts", "tsx", "js", "jsx", "mjs", "cjs"} -> "js"
    [] f.ext \in {"java", "kt"} -> "jvm"
    [] OTHER -> f.ext

RecommendApiPathDisable(g, cfg) ==
  LET reports == FindApiPathMismatches(g, cfg)
  IN  /\ "api-path" \notin cfg.disabled
      /\ Cardinality(reports) >= ApiPathMinReports
      /\ \A r \in reports : LanguageFamily(NodeOf(g, r.a).file)
                              = LanguageFamily(NodeOf(g, r.b).file)

(* marked: the files whose head carries a generated-file marker.           *)
GeneratedFileCandidates(g, cfg, marked) ==
  {f \in FilesOf(g) \cap marked :
     /\ \E i \in ToSet(NodesInFile(g, f)) : NodeOf(g, i).kind \notin DataKinds
     /\ ~AnalysisExcluded(cfg, f)}

Recommend(g, cfg, marked) ==
  [noise |-> NoiseCandidates(g), cap |-> RecommendStringMatchCap(g, cfg.cap),
   disableApiPath |-> RecommendApiPathDisable(g, cfg),
   generated |-> GeneratedFileCandidates(g, cfg, marked)]

(***************************************************************************)
(* Counts.  The handler counts the distinct files of the nodes, the        *)
(* command line the sources it parsed.                                     *)
(***************************************************************************)
CachedStats(g) ==
  [files |-> Cardinality({NodeOf(g, i).file : i \in Ids(g)}),
   symbols |-> Len(g.nodes), edges |-> Len(g.edges)]

RunStats(g, parsed) ==
  [files |-> Cardinality(parsed), symbols |-> Len(g.nodes), edges |-> Len(g.edges)]
=============================================================================
