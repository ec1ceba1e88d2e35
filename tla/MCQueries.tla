----------------------------- MODULE MCQueries ------------------------------
EXTENDS Queries

F(dirs, stem, ext) == [dirs |-> dirs, stem |-> stem, ext |-> ext]
N(name, kind, file, vis) ==
  [name |-> name, kind |-> kind, file |-> file, vis |-> vis, test |-> FALSE, from |-> 0, to |-> 4]
E(from, to, kind, origin, stale) ==
  [from |-> from, to |-> to, kind |-> kind, origin |-> origin, stale |-> stale]

Rs == F(<<"src">>, "x", "rs")
Ts == F(<<"crates", "y", "src">>, "y", "ts")
Tst == F(<<"tests">>, "z", "rs")
Yaml == F(<<>>, "app", "yaml")

(* Code: two symbols of one name, a longer name, a test, a file, a stub.   *)
CodeNodes ==
  <<N(<<"a">>, "Function", Rs, "Private"),
    N(<<"a", "b", "c", "d">>, "Method", Ts, "Public"),
    [N(<<"b">>, "Function", Tst, "None") EXCEPT !.test = TRUE],
    N(<<"a">>, "Class", Ts, "Public"),
    [N(<<"x">>, "File", Rs, "None") EXCEPT !.to = 9],
    N(<<"s">>, "ExternalPackage", NoFile, "None")>>

CodeEdges ==
  <<E(2, 1, "Calls", "NameResolved", 0), E(3, 1, "Calls", "PatternMatched", 1),
    E(3, 2, "References", "NameResolved", 0), E(4, 3, "Implements", "CompilerDerived", 0),
    E(1, 4, "TypeOf", "SyntaxMatched", 0), E(1, 2, "Calls", "Dynamic", 2),
    E(5, 1, "Contains", "CompilerDerived", 0), E(1, 6, "DependsOn", "SyntaxMatched", 0)>>

CodeGraphs ==
  LET Kept(s) == [k \in 1..Cardinality(s) |-> CodeEdges[InOrder(s, LAMBDA i, j : i < j)[k]]]
  IN  {[nodes |-> CodeNodes, edges |-> es] :
         es \in {Kept(s \cup {7}) : s \in SUBSET ((1..8) \ {7})} \cup {Reverse(Kept(s)) : s \in {{1, 2, 3, 4, 5, 6, 7}, {2, 3, 4, 6}}}}

(* Data: subsets of literals, keys and variants beside two called symbols. *)
Path(p, file) == N(<<"api_path::">> \o p, "StringLiteral", file, "None")
Lit(file) == N(<<"s">>, "StringLiteral", file, "None")
Key(name, file) == N(name, "ConfigKey", file, "None")
Variant(name, file) == N(name, "EnumVariant", file, "None")

DataMenus ==
  {<<Path(<<"/", "a", "b", "/", "c">>, Rs), Path(<<"/", "a", "b", "/", "d">>, Ts),
     Path(<<"/", "a", "b", "/", "d">>, Tst), Path(<<"/", "v", "1", "/", "c">>, Rs),
     Path(<<"/", "v", "2", "/", "c">>, Ts)>>,
   <<Lit(Rs), Lit(Ts), Lit(Ts), Lit(Tst), Lit(Yaml)>>,
   <<Key(<<"A", ".", "k">>, Yaml), Key(<<"config_ref::", "a", ".", "K">>, Rs),
     Key(<<"b", "_", "k">>, Yaml), Key(<<"a", "-", "k">>, Rs),
     Key(<<"config_ref::", "b">>, Ts), Key(<<"env_ref::", "b", "k">>, Ts)>>,
   <<Variant(<<"E", ".", "A">>, Rs), Variant(<<"F", ".", "a">>, Ts),
     Variant(<<"E", ".", "_", "A">>, Ts), Variant(<<"G", ".", "none">>, Ts),
     Variant(<<"F", ".", "none">>, Rs)>>}

DataGraphs ==
  {LET kept == InOrder(s, LAMBDA i, j : i < j)
       nodes == <<N(<<"f">>, "Function", Rs, "Private"), N(<<"g">>, "Function", Ts, "Public")>>
                  \o [k \in DOMAIN kept |-> m[kept[k]]]
       Bare == [nodes |-> nodes, edges |-> <<>>]
       pairs == InOrder(MatchingStringPairs(Bare, 0), LAMBDA p, q : 10 * p[1] + p[2] < 10 * q[1] + q[2])
   IN  [nodes |-> nodes,
        edges |-> <<E(1, 2, "Calls", "NameResolved", 0), E(1, 2, "Documents", "CompilerDerived", 0)>>
                    \o [k \in DOMAIN pairs |->
                          E(pairs[k][1], pairs[k][2], "StringMatch", "PatternMatched", 0)]]
     : <<m, s>> \in UNION {{mm} \X SUBSET (DOMAIN mm) : mm \in DataMenus}}

(* Names: in two cases, and with a letter of two bytes.                    *)
Names ==
  <<N(<<"a", "k", "B">>, "Function", Rs, "Private"), N(<<"K", "b", "c3", "bc">>, "Class", Ts, "Private"),
    N(<<"k", "b", "a">>, "Method", Ts, "None"), N(<<"k", "b">>, "Function", Rs, "Private")>>

NameGraphs ==
  {LET kept == InOrder(s, LAMBDA i, j : i < j)
   IN  [nodes |-> [k \in DOMAIN kept |-> Names[kept[k]]],
        edges |-> [k \in 1..(Len(kept) - 1) |-> E(k, k + 1, "Calls", "NameResolved", 0)]]
     : s \in SUBSET (DOMAIN Names) \ {{}}}

MCGraphs == CodeGraphs \cup DataGraphs \cup NameGraphs

MCConfigs ==
  {[root |-> <<>>, index |-> {}, analysis |-> {}, disabled |-> {}, floor |-> 1, cap |-> 0,
    packages |-> <<>>, kind |-> "none"],
   [root |-> <<"test">>, index |-> {Ts}, analysis |-> {Rs}, disabled |-> {"api-path"}, floor |-> 2,
    cap |-> 3, packages |-> <<[path |-> <<"crates", "y">>, kind |-> "library"]>>, kind |-> "none"]}

MCSymbols == {<<>>, <<"a">>, <<"b">>, <<"c", "b">>}

MCLangSets == {{}, {"rust"}}

MCBatches == {<<<<"a">>>>, <<<<"a">>, <<"b">>>>, <<<<"a">>, <<"b">>, <<"c">>>>}

MCFileSets == {{}, {Rs}, {Rs, Ts, Tst}, {Rs, Ts, Tst, Yaml}}

MCReportParams ==
  {[category |-> "all", langs |-> {}, excludeTests |-> TRUE, publicOnly |-> FALSE],
   [category |-> "all", langs |-> {"rust"}, excludeTests |-> FALSE, publicOnly |-> FALSE],
   [category |-> "api-path", langs |-> {}, excludeTests |-> FALSE, publicOnly |-> TRUE]}

Q == [symbol |-> <<"a">>, page |-> 0, size |-> 2, depth |-> 2, budget |-> 60, minConfidence |-> 0,
      format |-> "human", kind |-> "any", langs |-> {}, aggregate |-> FALSE, direction |-> "both",
      edgeKinds |-> {}]

MCQueryParams ==
  {Q, [Q EXCEPT !.format = "llm", !.depth = 3, !.size = 3], [Q EXCEPT !.format = "json", !.budget = 4],
   [Q EXCEPT !.aggregate = TRUE, !.size = 3], [Q EXCEPT !.symbol = <<>>],
   [Q EXCEPT !.symbol = <<"b">>, !.minConfidence = 7000, !.budget = 12],
   [Q EXCEPT !.symbol = <<"a", "c">>, !.direction = "incoming", !.size = 5, !.kind = "Method"],
   [Q EXCEPT !.symbol = <<"d">>], [Q EXCEPT !.symbol = <<"k", "B">>, !.size = 1],
   [Q EXCEPT !.symbol = <<"b", "b">>, !.format = "json"], [Q EXCEPT !.budget = 8],
   [Q EXCEPT !.direction = "outgoing", !.kind = "Function", !.size = 1],
   [Q EXCEPT !.format = "llm", !.budget = 8, !.langs = {"rust"}, !.depth = 1],
   [Q EXCEPT !.edgeKinds = {"Calls", "TypeOf"}, !.depth = 3], [Q EXCEPT !.size = 0]}

X == [subgraph |-> <<>>, hops |-> 1, langs |-> {}, minConfidence |-> 0, excluded |-> {}]

MCExportParams ==
  {X, [X EXCEPT !.subgraph = <<"b">>], [X EXCEPT !.subgraph = <<"d">>, !.hops = 2, !.minConfidence = 7000],
   [X EXCEPT !.subgraph = <<"a">>, !.langs = {"rust"}, !.excluded = {"Contains"}]}

MCDocumented ==
  {[documented |-> {<<"a", "b">>, <<"c">>, <<"a", "c", "c">>}, params |-> {<<"a", "b", "c">>, <<"_", "c">>}],
   [documented |-> {<<"a">>}, params |-> {}]}
=============================================================================
