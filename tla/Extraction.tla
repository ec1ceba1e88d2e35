----------------------------- MODULE Extraction -----------------------------
(***************************************************************************)
(* One file through the per-file stage of a build and the documentation    *)
(* pass.  An author writes the file piece by piece, and what is meant is   *)
(* kept beside what is written: fields `means', `docs' and `test' of a     *)
(* node, `told' for Kotlin.  The extractors read only the rest.  Grammars  *)
(* and their trees are the libraries'; the shapes written here are the     *)
(* declarations the queries are about.  A configuration file and the code  *)
(* beside it (`project') go through the mediators together.                *)
(***************************************************************************)
EXTENDS Grammars, Kotlin, Mediators

CONSTANTS Langs,       \* languages written
          MaxNodes,    \* nodes of a tree, for each language
          MaxPieces,   \* pieces of a Kotlin text
          LineEnds,    \* how Kotlin lines end
          Noise,       \* comments and literals put between Kotlin declarations
          Uses,        \* references written: [lang, dialect, pattern, tokens]
          Projects,    \* a configuration file and the extension of the code
          MaxData      \* keys and pieces of code in a project

ASSUME ExtractionAssumption == /\ MaxNodes \in [Langs -> Nat]
                               /\ MaxPieces \in Nat /\ MaxData \in Nat
                               /\ LineEnds \subseteq {<<"LF">>, <<"CR", "LF">>}

VARIABLES lang, tree, pending,      \* a tree, and comments waiting for an item
          text, eol, told,          \* a Kotlin text
          use,                      \* a reference, or none
          project,                  \* a configuration file and code that reads it
          phase, symbols, docs, refs

vars == <<lang, tree, pending, text, eol, told, use, project, phase, symbols, docs,
          refs>>

Waiting(level) == [level |-> level, docs |-> {}, test |-> FALSE]

Init == /\ lang \in Langs
        /\ eol \in IF lang = "Kotlin" THEN LineEnds ELSE {<<"LF">>}
        /\ tree = <<>> /\ pending = Waiting(0)
        /\ text = <<>>
        /\ told = [decls |-> <<>>, open |-> <<>>, pieces |-> 0, calls |-> {},
                   code |-> {}]
        /\ use = {}
        /\ \E p \in IF lang = "Project" THEN Projects ELSE {<<"", "">>} :
             project = [config |-> p[1], ext |-> p[2], keys |-> <<>>, code |-> <<>>]
        /\ phase = "writing"
        /\ symbols = {} /\ docs = {} /\ refs = {}

(***************************************************************************)
(* Trees.  A shape is a node that may stand under some kinds, and the kind *)
(* of symbol each of its names is meant to be.                             *)
(***************************************************************************)
Shape(kind, under, tags, count, body, means) ==
  [kind |-> kind, under |-> under, tags |-> tags, count |-> count,
   body |-> body, means |-> means]

Item(kind, under, tags, means) == Shape(kind, under, tags, 1, <<>>, means)
Part(kind, under, tags)        == Shape(kind, under, tags, 0, <<>>, "")

ScriptShapes ==
  LET top == {"root", "export_statement"}
      arrow == <<"parenthesized_expression", "arrow_function">>
  IN  {Part("export_statement", {"root"}, {}),
       Part("comment", {"root", "class_declaration"}, {"doc"}),
       Part("decorator", {"root"}, {}),
       Item("function_declaration", top, {}, "Function"),
       Item("class_declaration", top, {}, "Class"),
       Item("method_definition", {"class_declaration"}, {}, "Method"),
       Part("lexical_declaration", top \cup {"function_declaration"}, {"const"}),
       Shape("variable_declarator", {"lexical_declaration"}, {}, 1, arrow, "Function")}

TypeScriptShapes ==
  {Item("method_definition", {"class_declaration"}, {"private"}, "Method"),
   Item("enum_declaration", {"root"}, {}, "Enum"),
   Item("property_identifier", {"enum_declaration"}, {}, "EnumVariant"),
   Item("enum_assignment", {"enum_declaration"}, {}, "EnumVariant"),
   Item("interface_declaration", {"export_statement"}, {}, "Interface"),
   Item("type_alias_declaration", {"export_statement"}, {}, "TypeAlias"),
   Part("comment", {"lexical_declaration", "enum_declaration"}, {"doc"}),
   Shape("public_field_definition", {"class_declaration"}, {}, 1,
         <<"function_expression">>, "Method"),
   Shape("public_field_definition", {"class_declaration"}, {}, 1, <<"number">>, ""),
   Shape("variable_declarator", {"lexical_declaration"}, {}, 1,
         <<"as_expression", "object">>, "value")}

Shapes(l) ==
  [Rust |->
     {Item("struct_item", {"root", "mod_item"}, {"pub"}, "Struct"),
      Item("function_item", {"root", "mod_item"}, {}, "Function"),
      Item("function_item", {"impl_item"}, {"pub"}, "Method"),
      Item("enum_item", {"mod_item"}, {}, "Enum"),
      Item("trait_item", {"mod_item"}, {}, "Trait"),
      Item("type_item", {"mod_item"}, {}, "TypeAlias"),
      Part("impl_item", {"root", "mod_item"}, {}), Part("mod_item", {"root"}, {}),
      Part("attribute_item", {"root", "mod_item"}, {"cfg(test)"}),
      Part("attribute_item", {"root", "impl_item"}, {"derive"}),
      Part("line_comment", {"root", "impl_item"}, {"doc"}),
      Part("line_comment", {"root"}, {})},
   Java |->
     {Item("class_declaration", {"root"}, {"public"}, "Class"),
      Item("interface_declaration", {"root"}, {}, "Interface"),
      Item("method_declaration", {"class_declaration"}, {"private", "@Test"}, "Method"),
      Item("constructor_declaration", {"class_declaration"}, {}, "Method"),
      Shape("field_declaration", {"class_declaration"}, {"protected"}, 2, <<>>, "Field"),
      Item("enum_declaration", {"root"}, {}, "Enum"),
      Item("enum_constant", {"enum_declaration"}, {}, "EnumVariant"),
      Part("block_comment", {"root", "class_declaration", "enum_declaration"}, {"doc"}),
      Part("line_comment", {"root", "class_declaration"}, {})},
   JavaScript |->
     ScriptShapes \cup
     {Shape("variable_declarator", {"lexical_declaration"}, {}, 1, <<"number">>, "")},
   TypeScript |-> ScriptShapes \cup TypeScriptShapes,
   Python |->
     {Item("class_definition", {"root", "class_definition"}, {}, "Class"),
      Item("function_definition", {"root", "class_definition", "function_definition"},
           {}, "Function"),
      Item("assignment", {"root", "class_definition"}, {}, "Constant"),
      Shape("assignment", {"function_definition"}, {}, 1, <<>>, ""),
      Part("string", {"root", "class_definition", "function_definition"}, {})},
   Go |->
     {Item("function_declaration", {"root"}, {"upper"}, "Function"),
      Item("method_declaration", {"root"}, {}, "Method"),
      Part("type_declaration", {"root"}, {}),
      Item("struct_type", {"type_declaration"}, {"upper"}, "Struct"),
      Item("interface_type", {"type_declaration"}, {}, "Interface"),
      Item("slice_type", {"type_declaration"}, {}, "TypeAlias"),
      Item("type_alias", {"type_declaration"}, {}, "TypeAlias"),
      Part("const_declaration", {"root"}, {}), Part("var_declaration", {"root"}, {}),
      Shape("const_spec", {"const_declaration"}, {}, 2, <<>>, "Constant"),
      Item("var_spec", {"var_declaration"}, {"upper"}, "Variable"),
      Part("comment", {"root", "const_declaration", "var_declaration"}, {})},
   Kotlin |-> {}][l]

(* An export has one declaration, a type declaration of Go types of one    *)
(* kind: which of several comes last is the library's choice.              *)
Fits(s, up) ==
  /\ Kind(tree, up) \in s.under
  /\ \A m \in Siblings(Append(tree, [up |-> up]), Len(tree) + 1) :
       /\ Kind(tree, up) # "export_statement"
       /\ Kind(tree, up) = "type_declaration" => tree[m].kind = s.kind

(* What a node is waiting for, and what the one after it is waiting for.   *)
Commented(s) == s.kind \in Comments
Bridges(s)   == s.kind \in Between(lang)
Marker(s)    == lang = "Go" \/ "doc" \in s.tags
Detaches     == IF lang = "Rust" THEN 3 ELSE 2

Write(s, up, nl) ==
  LET n     == Len(tree) + 1
      p     == IF pending.level = up THEN pending ELSE Waiting(up)
      below == n > 1 /\ Kind(tree, n - 1) \in Comments /\ nl >= Detaches
      mine  == IF below THEN {} ELSE p.docs
      inner == up # 0 /\ tree[up].kind = "export_statement"
      test  == p.test \/ "@Test" \in s.tags \/ (up # 0 /\ tree[up].test)
      means == IF s.means # "value" THEN s.means
               ELSE IF UpKind(tree, up) = "function_declaration" THEN "" ELSE "Constant"
      node  == [kind |-> s.kind, up |-> up, nl |-> nl, count |-> s.count,
                body |-> s.body, tags |-> s.tags, means |-> means, test |-> test,
                docs |-> IF inner THEN tree[up].docs ELSE mine]
      first == lang = "Python" /\ s.kind = "string" /\ up # 0
                 /\ Siblings(Append(tree, node), n) = {}
  IN  /\ tree' = Append(IF first THEN [tree EXCEPT ![up].docs = {n}] ELSE tree, node)
      /\ pending' = [Waiting(up) EXCEPT
           !.docs = CASE Commented(s) -> IF Marker(s) THEN mine \cup {n} ELSE {}
                      [] Bridges(s)   -> mine
                      [] OTHER        -> {},
           !.test = IF Commented(s) THEN p.test
                    ELSE s.kind = "attribute_item" /\ (p.test \/ "cfg(test)" \in s.tags)]

WriteNode ==
  /\ phase = "writing" /\ use = {}
  /\ Len(tree) < MaxNodes[lang]
  /\ \E up \in {0} \cup (IF tree = <<>> THEN {} ELSE Above(tree, Len(tree))),
        s \in Shapes(lang), nl \in 1..3 :
       /\ Fits(s, up)
       /\ nl > 1 => /\ nl <= Detaches
                    /\ tree # <<>> /\ up = tree[Len(tree)].up
                    /\ Kind(tree, Len(tree)) \in Comments
       /\ Write(s, up, nl)
  /\ UNCHANGED <<lang, text, eol, told, use, project, phase, symbols, docs, refs>>

WriteUse ==
  /\ phase = "writing" /\ tree = <<>> /\ use = {}
  /\ \E u \in Uses : u.lang = lang /\ use' = {u}
  /\ UNCHANGED <<lang, tree, pending, text, eol, told, project, phase, symbols, docs, refs>>

(***************************************************************************)
(* Kotlin, a line at a time.  Declared names are new ones; `open' holds    *)
(* the declarations whose body is still open, innermost last.              *)
(***************************************************************************)
Fresh == <<"A", "B", "C", "D", "E">>[Len(told.decls) + 1]

LineStart == Len(text) - Cardinality({i \in 1..Len(text) :
                                        \A k \in i..Len(text) : text[k] # "LF"})

Piece(elements, code, more) ==
  /\ phase = "writing" /\ lang = "Kotlin" /\ use = {}
  /\ told.pieces < MaxPieces
  /\ text' = text \o elements
  /\ told' = [more EXCEPT !.pieces = @ + 1,
                          !.code = IF code THEN @ \cup (Len(text) + 1)..Len(text')
                                   ELSE @]
  /\ UNCHANGED <<lang, tree, pending, eol, use, project, phase, symbols, docs, refs>>

Decl(keyword, private, entries, to) ==
  [kind |-> IF keyword # "fun" THEN KindOfKeyword[keyword]
            ELSE IF told.open = <<>> THEN "Function" ELSE "Method",
   name |-> Fresh, visibility |-> IF private THEN "Private" ELSE "Public",
   from |-> LineStart, to |-> to, entries |-> entries]

Header(keyword, private) ==
  (IF private THEN <<"internal">> ELSE <<>>) \o <<keyword, Fresh>>
    \o (IF keyword = "fun" THEN <<"(", ")">> ELSE <<>>)

Open ==
  \E keyword \in DeclKeywords : LET private == keyword = "class" IN
    Piece(Header(keyword, private) \o <<"{">> \o eol, TRUE,
          [told EXCEPT !.open  = Append(@, Len(told.decls) + 1),
                       !.decls = Append(@, Decl(keyword, private, <<>>, 0))])

(* A declaration without a body; 0 stays its end.                          *)
Bodyless ==
  \E keyword \in {"interface", "fun"} :
    Piece(Header(keyword, FALSE) \o eol, TRUE,
          [told EXCEPT !.decls = Append(@, Decl(keyword, FALSE, <<>>, 0))])

Close ==
  /\ told.open # <<>>
  /\ Piece(<<"}">> \o eol, TRUE,
           [told EXCEPT !.open = Front(@),
                        !.decls[Last(told.open)].to = Len(text) + 1])

Entries == {<<<<"X", ",", "Y", "(", "f", ")", "{", "g", "}">>, <<"X", "Y">>>>,
            <<<<"X", ";", "Y">>, <<"X">>>>}

Enum ==
  \E e \in Entries :
    LET piece == <<"enum", "class", Fresh, "{">> \o e[1] \o <<"}">>
    IN  Piece(piece \o eol, TRUE,
              [told EXCEPT !.decls = Append(@, Decl("class", FALSE, e[2],
                                                    Len(text) + Len(piece)))])

(* An annotation and a call with a type beside it.                         *)
Call ==
  LET annotation == <<"@", "g", "(", ")">> \o eol
  IN  Piece(annotation \o <<"f", "(", ")", ":", "X">> \o eol, TRUE,
            [told EXCEPT !.calls = @ \cup {Len(text) + Len(annotation) + 1}])

WriteNoise ==
  \E w \in Noise : Piece(w.elements \o (IF w.ends THEN eol ELSE <<>>), FALSE, told)

(***************************************************************************)
(* A project: first keys of the configuration file, under a mapping that   *)
(* is still open, then code.                                               *)
(***************************************************************************)
DataShapes == {<<"root", "services", "mapping">>, <<"root", "Port", "scalar">>,
               <<"root", "port", "scalar">>,
               <<"services", "web", "mapping">>, <<"services", "db", "mapping">>,
               <<"services", "port", "scalar">>, <<"web", "depends_on", "list">>,
               <<"web", "port", "scalar">>}

WriteKey ==
  /\ phase = "writing" /\ lang = "Project" /\ project.code = <<>>
  /\ LET keys  == project.keys
         under == IF keys = <<>> THEN {0} ELSE Above(keys, Len(keys)) \cup {0}
     IN  \E up \in under, s \in DataShapes :
           /\ Len(keys) < MaxData
           /\ s[1] = IF up = 0 THEN "root" ELSE keys[up].seg
           /\ \A k \in 1..Len(keys) : keys[k].up = up => keys[k].seg # s[2]
           /\ project' = [project EXCEPT
                !.keys = Append(@, [up |-> up, seg |-> s[2], holds |-> s[3],
                                    means |-> IF up = 0 THEN <<s[2]>>
                                              ELSE Append(keys[up].means, s[2])])]
  /\ UNCHANGED <<lang, tree, pending, text, eol, told, use, phase, symbols, docs, refs>>

(* `@Value' may be written, or quoted, anywhere.                           *)
Literals(ext) ==
  LET Of(what, name) == [what |-> what, name |-> name]
  IN  {Of("@Value", <<"services", "port">>), Of("@Value", <<"port">>)} \cup
      CASE ext = "java" -> {Of("@Value", <<"services", "web">>)}
        [] ext = "ts"   -> {Of("route", <<"/", "users">>), Of("function", <<"UsersPage">>),
                            Of("node env", <<"port">>)}
        [] ext = "rs"   -> {Of("route", <<"/", "users">>), Of("rust env", <<"port">>)}
        [] ext = "go"   -> {Of("function", <<"NewStore">>), Of("function", <<"NewApi">>),
                            Of("wire", <<"Build">>)}

WriteCode ==
  /\ phase = "writing" /\ lang = "Project"
  /\ Len(project.keys) + Len(project.code) < MaxData
  /\ \E piece \in Literals(project.ext) : project' = [project EXCEPT !.code = Append(@, piece)]
  /\ UNCHANGED <<lang, tree, pending, text, eol, told, use, phase, symbols, docs, refs>>

(***************************************************************************)
(* The extractors.                                                         *)
(***************************************************************************)
KotlinReferences == {[name |-> k, kind |-> "Call"] : k \in CallSites(text)}
                      \cup {[name |-> k, kind |-> "TypeUse"] : k \in TypeRefs(text)}

ExtractFile ==
  /\ phase = "writing"
  /\ phase' = "extracted"
  /\ symbols' = CASE lang = "Kotlin"  -> KotlinSymbols(text)
                  [] lang = "Project" -> ConfigNodes(project.config, project.keys) \cup
                       CodeNodes(project.ext, project.code, Len(project.keys))
                  [] OTHER            -> Extract(lang, tree)
  /\ refs' = IF lang = "Kotlin" THEN KotlinReferences
             ELSE UNION {References(u.dialect, u) : u \in use}
  /\ UNCHANGED <<lang, tree, pending, text, eol, told, use, project, docs>>

DocumentsPass ==
  /\ phase = "extracted" /\ lang # "Project"
  /\ phase' = "documented"
  /\ docs' = IF lang = "Kotlin" THEN {} ELSE Documented(lang, tree, symbols)
  /\ UNCHANGED <<lang, tree, pending, text, eol, told, use, project, symbols, refs>>

Mediate ==
  /\ phase = "extracted" /\ lang = "Project"
  /\ phase' = "mediated"
  /\ refs' = Configures(symbols)
  /\ UNCHANGED <<lang, tree, pending, text, eol, told, use, project, symbols, docs>>

Next == \/ WriteNode \/ WriteUse \/ WriteKey \/ WriteCode
        \/ Open \/ Bodyless \/ Close \/ Enum \/ Call \/ WriteNoise
        \/ ExtractFile \/ DocumentsPass \/ Mediate

Spec == Init /\ [][Next]_vars

(* The names declared, by node and position.                               *)
Meant == {<<n, j>> \in (1..Len(tree)) \X (1..2) :
            j <= tree[n].count /\ tree[n].means # ""}

SaysPublic(n) == \/ tree[n].tags \cap {"pub", "upper", "public"} # {}
                 \/ \E k \in Above(tree, n) \ {n} :
                      /\ tree[k].kind = "export_statement"
                      /\ \/ k = tree[n].up
                         \/ /\ tree[n].kind = "variable_declarator"
                            /\ k = tree[tree[n].up].up

(***************************************************************************)
(* Every name a file declares becomes one symbol, of the kind, visibility  *)
(* and test mark its author gave it, and nothing else does: patterns that  *)
(* match the same declaration twice (Rust's functions and methods, Go's    *)
(* structs and type specs) leave one symbol, names of one declaration one  *)
(* each, local values none.                                                *)
(***************************************************************************)
SymbolsMeant ==
  lang \notin {"Kotlin", "Project"} /\ phase = "extracted" =>
    /\ {<<s.at, s.j>> : s \in symbols} = Meant
    /\ Cardinality(symbols) = Cardinality(Meant)
    /\ \A s \in symbols :
         /\ s.kind = tree[s.at].means
         /\ s.test = (lang \in {"Rust", "Java"} /\ tree[s.at].test)
         /\ lang # "Python" => (s.visibility = "Public") = SaysPublic(s.at)

(***************************************************************************)
(* A comment documents the declaration it stands directly above, through   *)
(* an export and over attributes, and no other: every doc is the whole     *)
(* block its author put above the definition, no comment is shared, and a  *)
(* block above a definition reaches one of the symbols that share it.  A   *)
(* declarator of a TypeScript list or a Go spec is a definition of its own *)
(* and takes only a comment inside its list.                               *)
(***************************************************************************)
DocsAttach ==
  phase = "documented" /\ lang # "Kotlin" =>
    /\ \A d \in docs : \E s \in symbols :
         s.at = d.at /\ s.j = d.j /\ tree[s.def].docs = d.doc
    /\ \A d, e \in docs : d # e => d.doc \cap e.doc = {}
    /\ \A s \in symbols : tree[s.def].docs # {} =>
         \E d \in docs : d.doc = tree[s.def].docs

(* Documentation written above `const f = ...' of TypeScript documents f.  *)
(* It does not hold: the definition is the declarator, whose sibling before*)
(* it is the keyword.                                                      *)
DocsReachDeclarators ==
  phase = "documented" /\ lang = "TypeScript" =>
    \A s \in symbols :
      LET list == tree[s.at].up
      IN  tree[s.at].kind = "variable_declarator" /\ tree[list].docs # {} =>
            \E d \in docs : d.doc = tree[list].docs

(* What each capture of the query files is named for.                      *)
LabelledEdge == [call |-> "Calls", macro |-> "Calls", import |-> "Imports",
                 reexport |-> "Imports", extends |-> "Extends", impl |-> "Implements",
                 type |-> "References", ref |-> "References"]

(***************************************************************************)
(* The index ranges an extractor turns into kinds of reference agree with  *)
(* the order of the patterns in its query file, the JSX patterns appended  *)
(* for `.tsx' included: a name becomes an edge of the kind its capture is  *)
(* labelled with, and words of the language never do.                      *)
(***************************************************************************)
RefsLabelled ==
  lang \notin {"Kotlin", "Project"} /\ phase = "extracted" =>
    \A u \in use :
      {[name |-> r.name, edge |-> EdgeKind(r.kind)] : r \in refs} =
        {[name |-> n, edge |-> LabelledEdge[Labels(u.dialect)[u.pattern + 1]]] :
           n \in Range(u.tokens) \cap {"Own", "Other"}}

(* Comments and literals become blanks, line ends stay.                    *)
Blanked ==
  Scrubbed(text) = [i \in 1..Len(text) |->
                      IF i \in told.code \/ text[i] = "LF" THEN text[i] ELSE Blank]

Simple(s) == [kind |-> s.kind, name |-> s.name, visibility |-> s.visibility]

SpansExact ==
  eol = <<"LF">> /\ told.open = <<>> =>
    \A s \in symbols, d \in Range(told.decls) :
      s.name = d.name => /\ s.from = d.from
                         /\ d.to # 0 => s.to = d.to
                         /\ s.entries = d.entries

CallsCovered ==
  LET called == {r.name : r \in {r \in refs : r.kind = "Call"}}
  IN  /\ told.calls \subseteq called
      /\ \A k \in called \cap told.code : text[k] \in {"f", "Y"}

(***************************************************************************)
(* Kotlin text is read as its author meant it: comments and literals are   *)
(* blanked, whatever they contain, and code is not; each declaration is    *)
(* one symbol of its kind and visibility; with LF line ends every body     *)
(* ends at its own brace and an enum has its entries.  Every call is a     *)
(* reference and no declared name or annotation is.                        *)
(***************************************************************************)
KotlinExact ==
  lang = "Kotlin" /\ phase = "extracted" =>
    /\ Blanked
    /\ {Simple(s) : s \in symbols} = {Simple(d) : d \in Range(told.decls)}
    /\ Cardinality(symbols) = Len(told.decls)
    /\ SpansExact
    /\ CallsCovered

(* A declaration without a body spans its own line.  It does not hold: the *)
(* next body in the file is taken for it.                                  *)
BodylessSpan ==
  lang = "Kotlin" /\ phase # "writing" /\ eol = <<"LF">> =>
    \A s \in symbols, d \in Range(told.decls) :
      s.name = d.name /\ d.to = 0 /\ told.open = <<>> =>
        \A i \in (s.from + 1)..s.to : text[i] # "LF"

Reads(piece, n) ==
  /\ project.ext = "java" /\ piece.what = "@Value"
  /\ project.config # "package.json" /\ project.keys[n].holds # "mapping"
  /\ Lowered(project.keys[n].means) = piece.name

(***************************************************************************)
(* What the scanners emit meets what the mediators look for: a reference   *)
(* in JVM code is linked to one of the keys of that name, whatever case,   *)
(* and never to a mapping, to a key of a build manifest or from a text     *)
(* that only quotes an annotation; the providers of a wired Go file are    *)
(* linked pairwise, once.                                                  *)
(***************************************************************************)
LinksMeant ==
  phase = "mediated" =>
    LET keys == 1..Len(project.keys)
        code == 1..Len(project.code)
        Is(i, what) == project.code[i].what = what
        Linked(by) == {<<e.from, e.to>> : e \in {e \in refs : e.by = by}}
        provides(i) == Is(i, "function") /\ project.code[i].name # <<"UsersPage">>
    IN  /\ \A i \in code :
             (\E n \in keys : Reads(project.code[i], n)) =>
                \E p \in Linked("spring-config") : p[1].at = i
        /\ \A p, q \in Linked("spring-config") : p[1] = q[1] => p = q
        /\ \A p \in Linked("spring-config") :
             p[1].file = project.ext /\ p[2].file = project.config
               /\ Reads(project.code[p[1].at], p[2].at)
        /\ {{p[1].at, p[2].at} : p \in Linked("go-di")} =
             {{i, j} : <<i, j>> \in {<<i, j>> \in code \X code :
                /\ project.ext = "go" /\ i # j /\ provides(i) /\ provides(j)
                /\ \E k \in code : Is(k, "wire")}}

(* A service that depends on another is linked to every other service of   *)
(* its compose file.  It does not hold: a service with keys is a mapping,  *)
(* which the config extractor never emits.                                 *)
ComposeFansOut ==
  phase = "mediated" /\ project.config = "docker-compose.yml" =>
    LET keys == project.keys
        service(n) == keys[n].up # 0 /\ keys[keys[n].up].seg = "services"
                                     /\ keys[n].holds = "mapping"
    IN  \A n, m \in 1..Len(keys) :
          /\ service(n) /\ service(m) /\ n # m
          /\ \E k \in 1..Len(keys) : keys[k].up = n /\ keys[k].seg = "depends_on"
          => \E e \in refs : e.by = "docker-compose" /\ e.from.at = n /\ e.to.at = m

(* A route is linked to the components near it.  It does not hold: the     *)
(* scanner puts a marker before the path and the mediator looks for `/'.   *)
RoutesLinked ==
  phase = "mediated" /\ project.ext = "ts" =>
    \A i \in 1..Len(project.code) :
      project.code[i].what = "route" =>
        \A j \in {i - 1, i + 1} \cap (1..Len(project.code)) :
          project.code[j].name = <<"UsersPage">> =>
            \E e \in refs : e.by = "react-router" /\ e.from.at = i /\ e.to.at = j
=============================================================================
