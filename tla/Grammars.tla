------------------------------ MODULE Grammars ------------------------------
(***************************************************************************)
(* What the tree-sitter extractors take from one file.  A file is its      *)
(* syntax tree in preorder: node n has its grammar kind, the node `up'     *)
(* above it (0 is the root), the newlines `nl' between it and its previous *)
(* sibling, the number of names it declares, what its initialiser is       *)
(* wrapped in (`body', outermost first) and the set `tags' of what its     *)
(* text says.  The node itself stands for its byte span, and a name for    *)
(* the node and the place where it stands.  Nodes no extractor looks at    *)
(* are left out: a method hangs under its impl, a member under its class.  *)
(***************************************************************************)
EXTENDS Integers, Sequences, FiniteSets

Kind(t, n) == IF n = 0 THEN "root" ELSE t[n].kind

UpKind(t, n) == Kind(t, t[n].up)

Siblings(t, n) == {m \in 1..Len(t) : m < n /\ t[m].up = t[n].up}

(* The sibling before n; 0 also for a keyword, a bracket or a comma, which *)
(* end every walk below the same way.                                      *)
Prev(t, n) ==
  IF Siblings(t, n) = {} THEN 0
  ELSE CHOOSE m \in Siblings(t, n) : \A k \in Siblings(t, n) : k <= m

Above(t, n) ==
  LET up[k \in 0..Len(t)] == IF k = 0 THEN {} ELSE {k} \cup up[t[k].up]
  IN  up[n]

(***************************************************************************)
(* Queries: a match is the pattern, the node captured as @def and the node *)
(* and place of the name.                                                  *)
(***************************************************************************)
Captured(t, p, defs) ==
  {[p |-> p, def |-> x[1], at |-> x[2], j |-> j] :
      <<x, j>> \in {<<x, j>> \in defs \X (1..2) : j <= t[x[2]].count}}

Own(t, p, kind) ==
  Captured(t, p, {<<n, n>> : n \in {n \in 1..Len(t) : t[n].kind = kind}})

Inside(t, p, kind, up) ==
  Captured(t, p, {<<n, n>> : n \in {n \in 1..Len(t) :
                                      t[n].kind = kind /\ UpKind(t, n) = up}})

(* The declaration around the name is the definition.                      *)
Whole(t, p, kind, up) ==
  Captured(t, p, {<<t[n].up, n>> : n \in {n \in 1..Len(t) :
                                      t[n].kind = kind /\ UpKind(t, n) = up}})

Patterns(lang) ==
  [Rust       |-> <<"struct_item", "enum_item", "trait_item", "function_item",
                    "impl function_item", "type_item">>,
   Java       |-> <<"class_declaration", "interface_declaration",
                    "method_declaration", "constructor_declaration",
                    "field_declaration", "enum_declaration", "enum_constant">>,
   TypeScript |-> <<"class_declaration", "interface_declaration",
                    "function_declaration", "method_definition",
                    "type_alias_declaration", "enum_declaration",
                    "property_identifier", "enum_assignment",
                    "variable_declarator", "public_field_definition">>,
   JavaScript |-> <<"function_declaration", "class_declaration",
                    "method_definition", "lexical_declaration">>,
   Python     |-> <<"class_definition", "function_definition",
                    "module assignment", "class assignment">>,
   Go         |-> <<"function_declaration", "method_declaration", "struct_type",
                    "interface_type", "const_spec", "var_spec", "type_spec",
                    "type_alias">>][lang]

GoTypes == {"struct_type", "interface_type", "slice_type"}

Matches(lang, t) ==
  UNION {LET kind == Patterns(lang)[i]
             p    == i - 1
         IN  CASE kind = "impl function_item" ->
                    Inside(t, p, "function_item", "impl_item")
               [] kind = "module assignment" -> Inside(t, p, "assignment", "root")
               [] kind = "class assignment" ->
                    Inside(t, p, "assignment", "class_definition")
               [] kind = "lexical_declaration" ->
                    Whole(t, p, "variable_declarator", "lexical_declaration")
               [] kind \in {"struct_type", "interface_type", "type_alias"} ->
                    Whole(t, p, kind, "type_declaration")
               [] kind = "type_spec" ->
                    UNION {Whole(t, p, k, "type_declaration") : k \in GoTypes}
               [] OTHER -> Own(t, p, kind) :
         i \in DOMAIN Patterns(lang)}

SymbolKinds(lang) ==
  [Rust       |-> <<"Struct", "Enum", "Trait", "Function", "Method", "TypeAlias">>,
   Java       |-> <<"Class", "Interface", "Method", "Method", "Field", "Enum",
                    "EnumVariant">>,
   TypeScript |-> <<"Class", "Interface", "Function", "Method", "TypeAlias",
                    "Enum", "EnumVariant", "EnumVariant", "Function", "Method">>,
   JavaScript |-> <<"Function", "Class", "Method", "Function">>,
   Python     |-> <<"Class", "Function", "Constant", "Constant">>,
   Go         |-> <<"Function", "Method", "Struct", "Interface", "Constant",
                    "Variable", "TypeAlias", "TypeAlias">>][lang]

Wrappers == {"parenthesized_expression", "as_expression",
             "satisfies_expression", "non_null_expression"}

(* `unwraps_to_fn': what the wrappers end in is a function.                *)
UnwrapsToFn(body) ==
  \E i \in DOMAIN body : /\ body[i] \in {"arrow_function", "function_expression"}
                         /\ \A k \in 1..(i - 1) : body[k] \in Wrappers

TopLevelDeclarator(t, n) ==
  /\ t[n].up # 0
  /\ UpKind(t, t[n].up) \in {"root", "export_statement"}

ValueBinding(t, n) == IF "const" \in t[t[n].up].tags THEN "Constant" ELSE "Variable"

(* The kind a match is given, "" when the extractor skips it.              *)
KindOf(lang, t, m) ==
  LET kind == SymbolKinds(lang)[m.p + 1]
      fn   == UnwrapsToFn(t[m.at].body)
  IN  CASE lang = "Go" /\ m.p = 6 ->
             IF t[m.at].kind \in {"struct_type", "interface_type"} THEN "" ELSE kind
        [] lang = "JavaScript" /\ m.p = 3 -> IF fn THEN kind ELSE ""
        [] lang = "TypeScript" /\ m.p = 8 /\ ~fn ->
             IF TopLevelDeclarator(t, m.at) THEN ValueBinding(t, m.at) ELSE ""
        [] lang = "TypeScript" /\ m.p = 9 /\ ~fn -> ""
        [] OTHER -> kind

(***************************************************************************)
(* Declared visibility and Rust and Java test marks.                       *)
(***************************************************************************)
Exported(t, n) == UpKind(t, n) = "export_statement"

Access(tags) == CASE "public" \in tags -> "Public"
                  [] tags \cap {"private", "protected"} # {} -> "Private"
                  [] OTHER -> "Unknown"

Visibility(lang, t, m) ==
  LET tags == t[m.def].tags
      decl == IF t[m.def].kind = "variable_declarator" THEN t[m.def].up ELSE m.def
  IN  CASE lang = "Rust" -> IF "pub" \in tags THEN "Public" ELSE "Private"
        [] lang = "Go" -> IF "upper" \in t[m.at].tags THEN "Public" ELSE "Private"
        [] lang = "Java" -> Access(tags)
        [] lang = "TypeScript" -> IF Access(tags) # "Unknown" THEN Access(tags)
                                  ELSE IF Exported(t, decl) THEN "Public"
                                  ELSE "Unknown"
        [] lang = "JavaScript" -> IF Exported(t, m.def) THEN "Public" ELSE "Unknown"
        [] OTHER -> "Unknown"

(* `cfg' predicates count when they name the bare token, negated or not.   *)
IsTestAttribute(tags) == tags \cap {"test", "cfg(test)", "cfg(not(test))"} # {}

HasTestAttribute(t, n) ==
  LET walk[k \in 1..Len(t)] ==
        LET s == Prev(t, k)
        IN  /\ s # 0
            /\ Kind(t, s) \in {"attribute_item", "line_comment", "block_comment"}
            /\ \/ Kind(t, s) = "attribute_item" /\ IsTestAttribute(t[s].tags)
               \/ walk[s]
  IN  walk[n]

IsTest(lang, t, m) ==
  CASE lang = "Rust" -> \E n \in Above(t, m.def) : HasTestAttribute(t, n)
    [] lang = "Java" -> "@Test" \in t[m.def].tags
    [] OTHER -> FALSE

(***************************************************************************)
(* `extract'.  Rust keeps one match per span, a method before a function.  *)
(***************************************************************************)
Symbol(lang, t, m) ==
  [p |-> m.p, def |-> m.def, at |-> m.at, j |-> m.j, kind |-> KindOf(lang, t, m),
   visibility |-> Visibility(lang, t, m), test |-> IsTest(lang, t, m)]

(* A bug: every match of the query becomes a symbol.                       *)
KeptEach(lang, t) == {m \in Matches(lang, t) : KindOf(lang, t, m) # ""}

Kept(lang, t) ==
  {m \in Matches(lang, t) :
     /\ KindOf(lang, t, m) # ""
     /\ lang = "Rust" =>
          \A k \in Matches(lang, t) :
            k.def = m.def /\ k # m => KindOf(lang, t, m) = "Method"}

Extract(lang, t) == {Symbol(lang, t, m) : m \in Kept(lang, t)}

(***************************************************************************)
(* Documentation.  `Comments' are the kinds a grammar gives comments,      *)
(* `Between' what may stand between a doc and its definition.              *)
(***************************************************************************)
Comments == {"comment", "line_comment", "block_comment"}

Between(lang) == [Rust |-> {"attribute_item"}, TypeScript |-> {"decorator"},
                  JavaScript |-> {"decorator"}, Java |-> {}, Go |-> {},
                  Python |-> {}][lang]

Outermost(lang, t, n) ==
  LET out[k \in 1..Len(t)] ==
        IF lang \in {"TypeScript", "JavaScript"} /\ Exported(t, k)
          THEN out[t[k].up] ELSE k
  IN  out[n]

(* Go has no marker: any comment is documentation.                         *)
IsDoc(lang, t, n) == lang = "Go" \/ "doc" \in t[n].tags

(* The newlines between a comment and the node below it; the Rust grammar  *)
(* ends a `///' comment after its own newline.                             *)
Gap(lang, t, c, below) ==
  t[below].nl - IF lang = "Rust" /\ "doc" \in t[c].tags /\ t[c].kind = "line_comment"
                  THEN 1 ELSE 0

(* A bug: blank lines do not detach a comment.                             *)
PrecedingDocAnyGap(lang, t, n) ==
  LET block[b \in 1..Len(t)] ==
        LET c == Prev(t, b)
        IN  IF c = 0 THEN {}
            ELSE IF Kind(t, c) \in Between(lang) THEN block[c]
            ELSE IF Kind(t, c) \in Comments /\ IsDoc(lang, t, c)
              THEN {c} \cup block[c]
            ELSE {}
  IN  block[Outermost(lang, t, n)]

PrecedingDoc(lang, t, n) ==
  LET block[b \in 1..Len(t)] ==
        LET c == Prev(t, b)
        IN  IF c = 0 THEN {}
            ELSE IF Kind(t, c) \in Between(lang) THEN block[c]
            ELSE IF /\ Kind(t, c) \in Comments
                    /\ IsDoc(lang, t, c)
                    /\ Gap(lang, t, c, b) <= 1
              THEN {c} \cup block[c]
            ELSE {}
  IN  block[Outermost(lang, t, n)]

(* A Python docstring is the first statement of the body.                  *)
Docstring(t, n) ==
  {c \in 1..Len(t) : t[c].up = n /\ Prev(t, c) = 0 /\ t[c].kind = "string"}

DocOf(lang, t, n) == IF lang = "Python" THEN Docstring(t, n)
                     ELSE PrecedingDoc(lang, t, n)

(* One doc per definition span, linked to the symbol found at that span:   *)
(* of those that share it, the one inserted last.                          *)
Documented(lang, t, symbols) ==
  LET defs    == {m.def : m \in Matches(lang, t)}
      at(d)   == {s \in symbols : s.def = d}
      last(d) == CHOOSE s \in at(d) :
                   \A k \in at(d) : k.at < s.at \/ (k.at = s.at /\ k.j <= s.j)
  IN  {[doc |-> DocOf(lang, t, d), at |-> last(d).at, j |-> last(d).j] :
         d \in {d \in defs : at(d) # {} /\ DocOf(lang, t, d) # {}}}

(***************************************************************************)
(* References.  A query lists the capture label of its patterns in order;  *)
(* the extractor turns a pattern's index into a kind of reference.         *)
(***************************************************************************)
Times(n, label) == [i \in 1..n |-> label]

TsLabels == Times(3, "call") \o Times(3, "import") \o <<"extends">>
            \o Times(4, "type") \o <<"import">> \o Times(2, "type")
            \o Times(5, "call") \o Times(6, "type") \o Times(2, "call")
            \o <<"reexport">> \o Times(2, "ref")

Labels(dialect) ==
  [Rust       |-> Times(3, "call") \o Times(5, "import") \o Times(2, "impl")
                  \o <<"type", "macro">>,
   Java       |-> Times(3, "call") \o Times(2, "import") \o <<"extends", "impl",
                  "type">> \o Times(2, "import"),
   TypeScript |-> TsLabels,
   TSX        |-> TsLabels \o Times(2, "call") \o <<"ref">>,
   JavaScript |-> Times(3, "call") \o Times(2, "import") \o <<"extends">>,
   Python     |-> Times(2, "call") \o Times(3, "import") \o <<"extends", "type">>,
   Go         |-> Times(2, "call") \o <<"import", "type">>][dialect]

(* The index ranges of `extract_references'.                               *)
Ranges(dialect) ==
  LET ts == {<<0, 2, "Call">>, <<3, 5, "Import">>, <<6, 6, "Extends">>,
             <<7, 10, "TypeUse">>, <<11, 11, "Import">>, <<12, 13, "TypeUse">>,
             <<14, 18, "Call">>, <<19, 24, "TypeUse">>, <<25, 26, "Call">>,
             <<27, 27, "ReexportAll">>, <<28, 29, "ValueRef">>,
             <<30, 31, "Call">>, <<32, 32, "ValueRef">>}
  IN  [Rust       |-> {<<0, 2, "Call">>, <<3, 7, "Import">>, <<8, 9, "Implements">>,
                       <<10, 10, "TypeUse">>, <<11, 11, "Macro">>},
       Java       |-> {<<0, 2, "Call">>, <<3, 4, "Import">>, <<5, 5, "Extends">>,
                       <<6, 6, "Implements">>, <<7, 7, "TypeUse">>,
                       <<8, 9, "Import">>},
       TypeScript |-> ts,
       TSX        |-> ts,
       JavaScript |-> {<<0, 2, "Call">>, <<3, 4, "Import">>, <<5, 5, "Extends">>},
       Python     |-> {<<0, 1, "Call">>, <<2, 4, "Import">>, <<5, 5, "Extends">>,
                       <<6, 6, "TypeUse">>},
       Go         |-> {<<0, 1, "Call">>, <<2, 2, "Import">>, <<3, 3, "TypeUse">>}
      ][dialect]

(* A bug: the ranges take the patterns to be numbered from one.            *)
RefKindFromOne(dialect, i) ==
  LET in == {r \in Ranges(dialect) : r[1] <= i + 1 /\ i + 1 <= r[2]}
  IN  IF in = {} THEN "" ELSE (CHOOSE r \in in : TRUE)[3]

RefKind(dialect, i) ==
  LET in == {r \in Ranges(dialect) : r[1] <= i /\ i <= r[2]}
  IN  IF in = {} THEN "" ELSE (CHOOSE r \in in : TRUE)[3]

(* Names never referred to: too short, or words of the language.           *)
Skipped(dialect, word) ==
  \/ word \in {"short", "super"}
  \/ dialect = "Rust" /\ word \in {"Some", "None", "primitive", "self"}
  \/ dialect = "Go" /\ word \in {"predeclared", "None", "this", "self"}
  \/ dialect = "Java" /\ word = "this"
  \/ dialect \notin {"Rust", "Go", "Java"} /\ word \in {"None", "this", "self"}

(* A macro's arguments are raw tokens: names before `(' are taken as calls,*)
(* control words apart.                                                    *)
MacroCalls(tokens) ==
  {tokens[i] : i \in {i \in 1..(Len(tokens) - 1) :
                        /\ tokens[i + 1] = "("
                        /\ tokens[i] \notin {"(", "if", "match", "fn"}}}

References(dialect, u) ==
  LET kind  == RefKind(dialect, u.pattern)
      names == IF kind = "Macro" THEN MacroCalls(u.tokens) ELSE {u.tokens[1]}
  IN  IF kind = "" THEN {}
      ELSE {[name |-> n, kind |-> IF kind = "Macro" THEN "Call" ELSE kind] :
              n \in {n \in names : ~Skipped(dialect, n)}}

EdgeKind(kind) ==
  [Call |-> "Calls", Import |-> "Imports", Extends |-> "Extends",
   Implements |-> "Implements", TypeUse |-> "References",
   ValueRef |-> "References", ReexportAll |-> "Imports"][kind]
=============================================================================
