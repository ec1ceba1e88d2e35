---------------------------- MODULE MCExtraction ----------------------------
(* Trees of five nodes, four in Rust; Kotlin texts of four pieces; projects *)
(* of four keys and pieces of code.                                        *)
EXTENDS Extraction

MCLangs == {"Rust", "Java", "TypeScript", "JavaScript", "Python", "Go", "Kotlin",
            "Project"}

MCMaxNodes == [l \in MCLangs |-> CASE l = "Rust" -> 4
                                     [] l \in {"Kotlin", "Project"} -> 0
                                     [] OTHER -> 5]

Noisy(elements, ends) == [elements |-> elements, ends |-> ends]

MCNoise ==
  {Noisy(<<"//", "class", "X", "{", "/*", Quote>>, TRUE),
   Noisy(<<"/*", "/*", "}", "*/", "class", "Y", "*/", "'", "}", "'">>, FALSE),
   Noisy(<<Quote, "{", "\\", Quote, "//", Quote, Quote, Quote, Quote, "{", Quote,
           "LF", "fun", "f", "(", Quote, Quote, Quote>>, FALSE)}

MCWords(l) == {<<"Own">>, <<"super">>, <<"short">>}
                \cup (IF l = "Go" THEN {<<"predeclared">>} ELSE {})
                \cup (IF l = "Rust" THEN {<<"primitive">>, <<"Some">>} ELSE {})

MCMacros == {<<"Own", "(", "if", "(", "Other", "(">>, <<"Own", "(", "Some", "(">>}

MCDialects == {<<"Rust", "Rust">>, <<"Java", "Java">>, <<"Go", "Go">>,
               <<"TypeScript", "TypeScript">>, <<"TypeScript", "TSX">>,
               <<"JavaScript", "JavaScript">>, <<"Python", "Python">>}

MCUses ==
  UNION {LET l == d[2]
         IN  UNION {{[lang |-> d[1], dialect |-> l, pattern |-> i - 1, tokens |-> w] :
                       w \in IF Labels(l)[i] = "macro" THEN MCMacros ELSE MCWords(l)} :
                    i \in DOMAIN Labels(l)} :
         d \in MCDialects}

(* Keys of an application, of services and of a build; the code beside.     *)
MCProjects == {<<"application.yml", "java">>, <<"package.json", "java">>,
               <<"docker-compose.yml", "ts">>, <<"application.yml", "go">>,
               <<"application.yml", "rs">>}

MCLineEnds == {<<"LF">>, <<"CR", "LF">>}
=============================================================================
