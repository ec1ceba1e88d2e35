----------------------------- MODULE MCPipeline -----------------------------
EXTENDS Pipeline

D(kind, name) == [kind |-> kind, name |-> name, qual |-> FALSE, doc |-> {"none"}]
R(kind, name, at, from) == [kind |-> kind, name |-> name, at |-> at, doc |-> 0, from |-> from]
\* Right after the doc comment of the definition d.
After(d, r) == [r EXCEPT !.doc = d]
Absent == [exists |-> FALSE, defs |-> <<>>, refs |-> {}]
C(defs, refs) == [exists |-> TRUE, defs |-> defs, refs |-> refs]

MCFiles == <<"a", "b", "c">>
MCDir == [f \in {"a", "b", "c"} |-> IF f = "c" THEN "e" ELSE "d"]
MCScore == [f \in {"a", "b", "c"} |-> IF f = "b" THEN 5 ELSE 0]
MCDocName == [n \in {"x", "y", "T", "d", "/p"} |-> "doc::" \o n]
MCContents ==
    [a |-> {Absent, C(<<>>, {}),
            C(<<D("Function", "x"), D("Api", "/p")>>, {}),
            C(<<D("Type", "T"), D("Module", "d")>>, {R("Calls", "x", 1, "none")})},
     b |-> {Absent,
            C(<<D("Function", "x"), D("Type", "T"), D("Api", "/p")>>, {R("Imports", "x", 0, "a")}),
            C(<<>>, {R("ReexportAll", "", 0, "a"), R("Imports", "y", 0, "none")})},
     c |-> {C(<<D("Function", "y"), D("Field", "T"), D("Api", "/p")>>,
              {R("Calls", "x", 1, "none"), R("Imports", "x", 0, "a"), R("TypeOf", "T", 0, "none"), R("Extends", "T", 1, "none")}),
            C(<<[D("Function", "y") EXCEPT !.doc = {"x"}], [D("Function", "x") EXCEPT !.qual = TRUE]>>,
              {R("Implements", "T", 1, "none"), R("Calls", "d", 2, "none"),
               After(1, R("Calls", "x", 0, "none")), After(1, R("Calls", "y", 1, "none"))})}]
=============================================================================
