------------------------------- MODULE Kotlin -------------------------------
(***************************************************************************)
(* The Kotlin extractor, which reads text line by line with regular        *)
(* expressions.  A text is a sequence of elements one byte wide: words,    *)
(* punctuation, LF, CR and the blanks comments and literals become.  Other *)
(* white space is implied between elements; type parameters and receivers  *)
(* of a `fun' are left out.                                                *)
(***************************************************************************)
EXTENDS Integers, Sequences, FiniteSets, SequencesExt

Blank == " "
Quote == "\""
DeclKeywords == {"class", "interface", "object", "fun"}
NonCallKeywords == {"if", "constructor"}
Modifiers == {"enum", "public", "private", "protected", "internal"}
Names == {"A", "B", "C", "D", "E", "X", "Y", "f", "g"}
Words == Names \cup DeclKeywords \cup NonCallKeywords \cup Modifiers
PascalCase == Names \ {"f", "g"}

KindOfKeyword == [class |-> "Class", interface |-> "Interface", object |-> "Module"]

Least(S) == CHOOSE i \in S : \A k \in S : i <= k

(***************************************************************************)
(* `blank_comments_and_strings': a scanner of six modes that keeps lengths *)
(* and line ends.  `skip' counts the elements a delimiter or an escape has *)
(* already taken.                                                          *)
(***************************************************************************)
Triple(text, i) == i + 2 <= Len(text) /\ \A k \in i..(i + 2) : text[k] = Quote

Opened(text, i) ==
  CASE text[i] = "//"  -> "line"
    [] text[i] = "/*"  -> "block"
    [] text[i] = "'"   -> "char"
    [] text[i] = Quote -> IF Triple(text, i) THEN "raw" ELSE "str"
    [] OTHER           -> "code"

Closes(text, i, mode) ==
  CASE mode = "line" -> text[i] = "LF"
    [] mode = "raw"  -> Triple(text, i)
    [] mode = "str"  -> text[i] = Quote
    [] mode = "char" -> text[i] = "'"
    [] OTHER         -> FALSE

(* A bug: the first `*/' closes every block comment.                       *)
BlockDepthFlat(text, i, depth) == IF text[i] = "*/" THEN 0 ELSE depth

BlockDepth(text, i, depth) ==
  CASE text[i] = "/*" -> depth + 1
    [] text[i] = "*/" -> depth - 1
    [] OTHER          -> depth

Scan(text, s, i) ==
  LET blank   == IF text[i] = "LF" THEN "LF" ELSE Blank
      emit(e) == [s EXCEPT !.out = Append(@, e)]
      opened  == Opened(text, i)
      depth   == BlockDepth(text, i, s.depth)
      escape  == s.mode \in {"str", "char"} /\ text[i] = "\\" /\ i < Len(text)
      code    == [emit(blank) EXCEPT !.mode = "code",
                                     !.skip = IF s.mode = "raw" THEN 2 ELSE 0]
  IN  CASE s.skip > 0 -> [emit(Blank) EXCEPT !.skip = @ - 1]
        [] s.skip = 0 /\ s.mode = "code" /\ opened = "code" -> emit(text[i])
        [] s.skip = 0 /\ s.mode = "code" /\ opened # "code" ->
             [emit(Blank) EXCEPT !.mode = opened, !.depth = 1,
                                 !.skip = IF opened = "raw" THEN 2 ELSE 0]
        [] s.skip = 0 /\ s.mode = "block" ->
             IF depth = 0 THEN code ELSE [emit(blank) EXCEPT !.depth = depth]
        [] s.skip = 0 /\ escape -> [emit(Blank) EXCEPT !.skip = 1]
        [] s.skip = 0 /\ s.mode \notin {"code", "block"} /\ ~escape ->
             IF Closes(text, i, s.mode) THEN code ELSE emit(blank)

Scrubbed(text) ==
  LET read[i \in 0..Len(text)] ==
        IF i = 0 THEN [mode |-> "code", depth |-> 0, skip |-> 0, out |-> <<>>]
        ELSE Scan(text, read[i - 1], i)
  IN  read[Len(text)].out

(***************************************************************************)
(* Lines and spans.  A line starts after an LF; `lines()' takes away the   *)
(* LF and a CR before it, and the offset kept beside it counts one byte    *)
(* for both.  Offsets start at 0 and a span ends before its last one.      *)
(***************************************************************************)
LineStarts(text) ==
  {i \in 1..Len(text) : i = 1 \/ text[i - 1] = "LF"}

EndOfLine(text, i) ==
  Least({j \in i..Len(text) : text[j] = "LF"} \cup {Len(text) + 1})

Line(text, i) ==
  LET e == EndOfLine(text, i)
  IN  i..(IF i < e /\ e <= Len(text) /\ text[e - 1] = "CR" THEN e - 2 ELSE e - 1)

LineOffset(text, i) ==
  i - 1 - Cardinality({j \in 2..(i - 1) : text[j - 1] = "CR" /\ text[j] = "LF"})

Depth(text, from, to) ==
  Cardinality({i \in from..to : text[i] = "{"})
    - Cardinality({i \in from..to : text[i] = "}"})

(* `body_end_offset': the brace that closes the first one opened at or     *)
(* after the offset, else the end of the line there.                       *)
BodyEnd(text, offset) ==
  LET closing == {j \in (offset + 1)..Len(text) :
                    /\ text[j] = "}"
                    /\ Depth(text, offset + 1, j) = 0
                    /\ \E k \in (offset + 1)..j : text[k] = "{"}
  IN  IF closing # {} THEN Least(closing) ELSE EndOfLine(text, offset + 1) - 1

(***************************************************************************)
(* Declarations: at most one a line, the first keyword of the four in this *)
(* order that a name follows.                                              *)
(***************************************************************************)
NamedAt(text, line, k) ==
  LET next == {j \in line : j > k /\ text[j] # Blank}
      par(p) == {j \in line : j > p /\ text[j] # Blank}
      p    == Least(next)
  IN  IF \/ next = {}
         \/ text[p] \notin Words
         \/ text[k] = "fun" /\ (par(p) = {} \/ text[Least(par(p))] # "(")
        THEN 0 ELSE p

Captures(text, line, keyword) ==
  {k \in line : text[k] = keyword /\ NamedAt(text, line, k) # 0}

KeywordOf(text, line) ==
  LET found == {k \in DeclKeywords : Captures(text, line, k) # {}}
  IN  CASE "class" \in found     -> "class"
        [] "interface" \in found /\ "class" \notin found -> "interface"
        [] "object" \in found /\ found \cap {"class", "interface"} = {} -> "object"
        [] found = {"fun"}       -> "fun"
        [] found = {}            -> ""

KotlinVisibility(prefix) ==
  LET said == SelectSeq(prefix, LAMBDA w : w \in Modifiers \ {"enum"})
  IN  IF said = <<>> \/ Head(said) = "public" THEN "Public" ELSE "Private"

(* `extract_enum_entries': names where an entry is expected, at the top    *)
(* level of the body, up to a `;' or the end of the body.                  *)
EntryStep(text, s, i) ==
  LET c     == text[i]
      top   == s.depth = 1
      here  == [s EXCEPT !.names = Append(@, c), !.expect = FALSE]
  IN  CASE s.done -> s
        [] ~s.done /\ c \in {"{", "(", "["} -> [s EXCEPT !.depth = @ + 1]
        [] ~s.done /\ c \in {"}", ")", "]"} -> [s EXCEPT !.depth = @ - 1, !.done = top]
        [] ~s.done /\ c = ";" /\ top -> [s EXCEPT !.done = TRUE]
        [] ~s.done /\ c = "," /\ top -> [s EXCEPT !.expect = TRUE]
        [] ~s.done /\ c \in Words /\ top /\ s.expect -> here
        [] ~s.done /\ c \in {Blank, "LF", "CR"} -> s
        [] OTHER -> IF top THEN [s EXCEPT !.expect = FALSE] ELSE s

EnumEntries(text, offset) ==
  LET open == {j \in (offset + 1)..Len(text) : text[j] = "{"}
      read[i \in 1..Len(text)] ==
        IF i = Least(open)
          THEN [depth |-> 1, expect |-> TRUE, done |-> FALSE, names |-> <<>>]
          ELSE EntryStep(text, read[i - 1], i)
  IN  IF open = {} THEN <<>> ELSE read[Len(text)].names

Declared(text, i) ==
  LET line    == Line(text, i)
      keyword == KeywordOf(text, line)
      k       == Least(Captures(text, line, keyword))
      name    == NamedAt(text, line, k)
      prefix  == SubSeq(text, i, name - 1)
      offset  == LineOffset(text, i)
      kind    == IF keyword # "fun" THEN KindOfKeyword[keyword]
                 ELSE IF Depth(text, 1, i - 1) > 0 THEN "Method" ELSE "Function"
      symbol  == [kind |-> kind, name |-> text[name], visibility |->
                  KotlinVisibility(prefix), from |-> offset,
                  to |-> BodyEnd(text, offset),
                  entries |-> IF keyword = "class" /\ Contains(prefix, "enum")
                                THEN EnumEntries(text, offset) ELSE <<>>]
  IN  IF keyword = "" THEN {} ELSE {symbol}

KotlinSymbols(text) ==
  LET source == Scrubbed(text)
  IN  UNION {Declared(source, i) : i \in LineStarts(source)}

(***************************************************************************)
(* References, read from the text as it stands, comments included.         *)
(***************************************************************************)
WordBefore(text, k) ==
  LET before == {j \in 1..(k - 1) : text[j] \notin {"LF", "CR"}}
  IN  IF before = {} THEN 0
      ELSE CHOOSE j \in before : \A m \in before : m <= j

IsDeclarationOrAnnotation(text, k) ==
  \/ k > 1 /\ text[k - 1] = "@"
  \/ WordBefore(text, k) # 0 /\ text[WordBefore(text, k)] \in DeclKeywords

CallSites(text) ==
  {k \in 1..Len(text) :
     /\ text[k] \in Words \ NonCallKeywords
     /\ \E p \in (k + 1)..Len(text) :
          text[p] = "(" /\ \A j \in (k + 1)..(p - 1) : text[j] \in {"LF", "CR"}
     /\ ~IsDeclarationOrAnnotation(text, k)}

TypeRefs(text) ==
  {k \in 2..Len(text) : text[k - 1] \in {":", "<"} /\ text[k] \in PascalCase}
=============================================================================
