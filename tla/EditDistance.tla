---------------------------- MODULE EditDistance ----------------------------
(***************************************************************************)
(* Edit distances over names (tuples of letters): the exact two-row one    *)
(* the reports use, the one with an early exit the name lookup uses, and   *)
(* the textbook definition both are measured against.                      *)
(***************************************************************************)
EXTENDS Integers, Sequences, SequencesExt, FiniteSetsExt

(* One row of the table from the row above; column j is at index j + 1.    *)
NextRow(a, b, prev, i) ==
  LET row[j \in 0..Len(b)] ==
        IF j = 0 THEN i
        ELSE Min({prev[j + 1] + 1, row[j - 1] + 1,
                  prev[j] + IF a[i] = b[j] THEN 0 ELSE 1})
  IN  [j \in 1..(Len(b) + 1) |-> row[j - 1]]

FirstRow(b) == [j \in 1..(Len(b) + 1) |-> j - 1]

Levenshtein(a, b) ==
  LET row[i \in 0..Len(a)] == IF i = 0 THEN FirstRow(b) ELSE NextRow(a, b, row[i - 1], i)
  IN  CASE a = <<>> -> Len(b)
        [] b = <<>> -> Len(a)
        [] OTHER    -> row[Len(a)][Len(b) + 1]

(* Gives up with cutoff + 1 when the lengths differ by more than the       *)
(* cutoff, or when a whole row is above it.                                *)
LevenshteinBounded(a, b, cutoff) ==
  LET apart == IF Len(a) > Len(b) THEN Len(a) - Len(b) ELSE Len(b) - Len(a)
      Bounded(n) == IF n > cutoff + 1 THEN cutoff + 1 ELSE n
      row[i \in 0..Len(a)] ==
        IF i = 0 THEN FirstRow(b)
        ELSE IF row[i - 1] = <<>> THEN <<>>
        ELSE LET r == NextRow(a, b, row[i - 1], i)
             IN  IF Min(ToSet(r)) > cutoff THEN <<>> ELSE r
  IN  CASE apart > cutoff         -> cutoff + 1
        [] apart <= cutoff /\ a = <<>> -> Bounded(Len(b))
        [] apart <= cutoff /\ a # <<>> /\ b = <<>> -> Bounded(Len(a))
        [] OTHER -> IF row[Len(a)] = <<>> THEN cutoff + 1 ELSE row[Len(a)][Len(b) + 1]

(* The reference: the fewest insertions, deletions and substitutions, the  *)
(* last letters first.                                                     *)
EditDistance(a, b) ==
  LET dist[p \in (0..Len(a)) \X (0..Len(b))] ==
        LET i == p[1] j == p[2]
        IN  IF i = 0 THEN j
            ELSE IF j = 0 THEN i
            ELSE IF a[i] = b[j] THEN dist[<<i - 1, j - 1>>]
            ELSE 1 + Min({dist[<<i - 1, j>>], dist[<<i, j - 1>>], dist[<<i - 1, j - 1>>]})
  IN  dist[<<Len(a), Len(b)>>]
=============================================================================
