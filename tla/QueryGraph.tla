----------------------------- MODULE QueryGraph -----------------------------
(***************************************************************************)
(* The symbol graph as the read-only handlers see it.  A graph is          *)
(*   [nodes |-> <<node, ...>>, edges |-> <<edge, ...>>]                    *)
(* in slot order: a node's id is its position, `nodes()' and `edges()' go  *)
(* through the sequences from the left.                                    *)
(*   node == [name, kind, file, vis, test, from, to]                       *)
(*   edge == [from, to, kind, origin, stale]                               *)
(* A name is a tuple of letters (lookups compare prefixes and edit         *)
(* distances): a letter beyond ASCII is its bytes ("c3", "bc"), a marker   *)
(* such as "api_path::" counts as one.  A file is [dirs, stem, ext]; the   *)
(* project root is the empty directory list, unless a definition says      *)
(* otherwise.                                                              *)
(***************************************************************************)
EXTENDS Integers, Sequences, FiniteSets, SequencesExt, FiniteSetsExt, TLC

NoFile == [dirs |-> <<>>, stem |-> "", ext |-> ""]

Ids(g) == DOMAIN g.nodes

NodeOf(g, i) == g.nodes[i]

(* The ids the predicate holds of, in slot order. *)
Picked(g, Test(_)) == SelectSeq([i \in Ids(g) |-> i], Test)

(* A set listed in a strict total order. *)
InOrder(S, Before(_, _)) ==
  [k \in 1..Cardinality(S) |->
     CHOOSE x \in S : Cardinality({y \in S : Before(y, x)}) = k - 1]

NodesInFile(g, f) == Picked(g, LAMBDA i : NodeOf(g, i).file = f)

(***************************************************************************)
(* incident_edges: the outgoing edges, then the incoming ones, each list   *)
(* newest first (petgraph's adjacency order), paired with the other end.   *)
(***************************************************************************)
Incident(g, i) ==
  LET Out == SelectSeq(g.edges, LAMBDA e : e.from = i)
      In  == SelectSeq(g.edges, LAMBDA e : e.to = i)
  IN  [k \in DOMAIN Out |-> <<Reverse(Out)[k].to, Reverse(Out)[k]>>]
        \o [k \in DOMAIN In |-> <<Reverse(In)[k].from, Reverse(In)[k]>>]

(***************************************************************************)
(* Confidence.  The stored score is the kind's times the origin's, in      *)
(* hundredths of a percent.  The current score decays with the stale       *)
(* evidence: the origins' scores (0.99 down to 0.20) and the factor 0.7    *)
(* per stale evidence are abstracted to powers of one half, so that a loss *)
(* of n stands for a confidence of 2^-n and a path's loss is the sum of    *)
(* its edges'; it is added up in units of 2^-MaxLoss.                      *)
(***************************************************************************)
Origins == <<"CompilerDerived", "NameResolved", "SyntaxMatched",
             "PatternMatched", "ConventionInferred", "Dynamic">>

OriginScore == [CompilerDerived |-> 99, NameResolved |-> 95, SyntaxMatched |-> 85,
                PatternMatched |-> 60, ConventionInferred |-> 40, Dynamic |-> 20]

KindScore(kind) ==
  CASE kind \in {"Calls", "Implements", "Extends", "Inherits"}        -> 90
    [] kind \in {"Overrides", "Imports", "TypeOf"}                   -> 85
    [] kind \in {"References", "GenericParam"}                       -> 80
    [] kind \in {"EnumValueMatch", "ApiPathMatch"}                   -> 75
    [] kind \in {"StringMatch", "Configures"}                        -> 70
    [] kind = "DependsOn"                                            -> 60
    [] OTHER                                                         -> 100

Evaluate(kind, origin) == KindScore(kind) * OriginScore[origin]

StoredConfidence(e) == Evaluate(e.kind, e.origin)

OriginLoss(o) == CHOOSE n \in 0..5 : Origins[n + 1] = o

MaxLoss == 18

CurrentLoss(e) == OriginLoss(e.origin) + e.stale

Full == 2 ^ MaxLoss

Weight(loss) == 2 ^ (MaxLoss - loss)

CurrentConfidence(e) == Weight(CurrentLoss(e))

SumConfidence(es) == FoldLeft(LAMBDA s, e : s + CurrentConfidence(e), 0, es)

(***************************************************************************)
(* What the kinds mean to the handlers.                                    *)
(***************************************************************************)
IsImpactBearing(kind) ==
  kind \in {"Calls", "Implements", "Extends", "Inherits", "Overrides",
            "Resolves", "References", "DependsOn", "Imports"}

IsImpactNode(kind) == kind \notin {"File", "DocComment", "DocSection"}

IsCodeKind(kind) ==
  kind \in {"Function", "Method", "Class", "Struct", "Interface", "Trait",
            "Enum", "Constant", "Variable", "Field", "TypeAlias", "Namespace"}

(***************************************************************************)
(* Names, files, tests, visibility.                                        *)
(***************************************************************************)
Lower(c) == CASE c = "A" -> "a" [] c = "B" -> "b" [] c = "K" -> "k" [] OTHER -> c

(* to_ascii_lowercase: bytes beyond ASCII stay.                            *)
Folded(name) == [k \in DOMAIN name |-> Lower(name[k])]

Infix(s, t) ==
  \E k \in 0..(Len(t) - Len(s)) : SubSeq(t, k + 1, k + Len(s)) = s

Languages == [rs |-> "rust", ts |-> "typescript", tsx |-> "typescript",
              js |-> "javascript", java |-> "java", kt |-> "kotlin",
              py |-> "python", go |-> "go", yaml |-> "config", md |-> "markdown"]

LanguageOf(f) ==
  IF f.ext \in DOMAIN Languages THEN Languages[f.ext] ELSE "unknown"

(* `--lang': an empty list admits every file. *)
MatchLangs(langs, f) == langs = {} \/ LanguageOf(f) \in langs

(* A `tests' or `test' directory, or a file named as its language names    *)
(* tests; the directories of the root count when the path is absolute.     *)
IsTestPath(root, f) ==
  \/ \E d \in ToSet(root \o f.dirs) : d \in {"tests", "test"}
  \/ f.stem = "test_file"

IsTestSymbolIn(n) == n.test \/ IsTestPath(<<>>, n.file)

IsTestSymbol(root, n) == n.test \/ IsTestPath(root, n.file)

IsPublicName(name) == name # <<>> /\ name[1] # "_"

IsPublicSymbol(n) ==
  CASE n.vis = "Public"  -> TRUE
    [] n.vis = "Private" -> FALSE
    [] OTHER             -> IsPublicName(n.name)

(***************************************************************************)
(* The project's `.coregraph/config.toml' and manifests, as the handlers   *)
(* read them: index and analysis excludes (gitignore matching is external: *)
(* the set of matched files), disabled inconsistency categories and the    *)
(* segment floor, the string-match cap, and the packages, deepest first.   *)
(*   cfg == [root, index, analysis, disabled, floor, cap, packages, kind]  *)
(***************************************************************************)
IndexExcluded(cfg, f) == f \in cfg.index

AnalysisExcluded(cfg, f) == f \in cfg.analysis

(* LibraryClassifier: the override, else the deepest package that owns     *)
(* the file; undecided is never a library.                                 *)
IsLibraryFile(cfg, f) ==
  IF cfg.kind # "none"
  THEN cfg.kind = "library"
  ELSE LET Owners == SelectSeq(cfg.packages, LAMBDA p : IsPrefix(p.path, f.dirs))
       IN  Owners # <<>> /\ Owners[1].kind = "library"

HasLibrarySignal(cfg) == cfg.kind # "none" \/ cfg.packages # <<>>
=============================================================================
