--------------------------- MODULE PipelineProofs ---------------------------
(***************************************************************************)
(* Theorems about Pipeline, for every set of files, contents, directories, *)
(* scores and names.                                                       *)
(***************************************************************************)
EXTENDS Pipeline, FiniteSetTheorems, WellFoundedInduction, TLAPS

-----------------------------------------------------------------------------
(* Least and greatest numbers.                                             *)

\* Induction on the naturals: the predicate is a set.
LEMMA NatSet ==
  ASSUME NEW S, 0 \in S, \A n \in Nat : n \in S => n + 1 \in S
  PROVE  Nat \subseteq S
  <1> DEFINE R == {ss \in Nat \X Nat : ss[1] < ss[2]}
             T == {n \in Nat : n \notin S}
  <1>1. R = OpToRel(<, Nat)
    BY DEF OpToRel
  <1>2. IsWellFoundedOn(R, Nat)
    BY <1>1, NatLessThanWellFounded
  <1>3. ASSUME T # {} PROVE FALSE
    <2>1. T \subseteq Nat
      OBVIOUS
    <2> HIDE DEF T, R
    <2>2. \E x \in T : \A y \in T : ~(<<y, x>> \in R)
      BY <1>2, <1>3, <2>1, WFMin
    <2>3. PICK x \in T : \A y \in T : ~(<<y, x>> \in R)
      BY <2>2
    <2> USE DEF T, R
    <2>4. x \in Nat /\ x \notin S /\ x # 0
      OBVIOUS
    <2>5. x - 1 \in Nat /\ x - 1 + 1 = x
      BY <2>4
    <2>6. x - 1 \notin S
      BY <2>4, <2>5
    <2>7. <<x - 1, x>> \in R
      BY <2>4, <2>5
    <2>8. QED
      BY <2>3, <2>5, <2>6, <2>7
  <1>4. QED
    BY <1>3

LEMMA MinIs ==
  ASSUME NEW S, S \subseteq Nat, S # {}
  PROVE  Min(S) \in S /\ \A y \in S : Min(S) =< y
  <1>1. ASSUME ~ \E x \in S : \A y \in S : x =< y PROVE FALSE
    <2> DEFINE U == {n \in Nat : \A k \in 0..n : k \notin S}
    <2>1. 0 \in U
      BY <1>1
    <2>2. ASSUME NEW n \in Nat, n \in U PROVE n + 1 \in U
      BY <1>1, <2>2
    <2>3. Nat \subseteq U
      <3> HIDE DEF U
      <3>1. QED
        BY <2>1, <2>2, NatSet
    <2>4. PICK x \in S : x \in Nat
      OBVIOUS
    <2>5. x \in U /\ x \in 0..x
      BY <2>3, <2>4
    <2>6. QED
      BY <2>4, <2>5
  <1>2. QED
    BY <1>1 DEF Min

LEMMA MaxIs ==
  ASSUME NEW n \in Nat, NEW S, S \subseteq 1..n, S # {}
  PROVE  Max(S) \in S /\ \A y \in S : Max(S) >= y
  <1> DEFINE T == {k \in Nat : \A s \in (SUBSET (1..k)) \ {{}} : \E x \in s : \A y \in s : x >= y}
  <1>1. 0 \in T
    OBVIOUS
  <1>2. ASSUME NEW k \in Nat, k \in T PROVE k + 1 \in T
    <2>1. ASSUME NEW s \in (SUBSET (1..(k + 1))) \ {{}} PROVE \E x \in s : \A y \in s : x >= y
      <3>1. CASE k + 1 \in s
        <4>1. \A y \in s : k + 1 >= y
          OBVIOUS
        <4>2. QED
          BY <3>1, <4>1
      <3>2. CASE k + 1 \notin s
        <4>1. s \in (SUBSET (1..k)) \ {{}}
          BY <3>2
        <4>2. QED
          BY <1>2, <4>1
      <3>3. QED
        BY <3>1, <3>2
    <2>2. QED
      BY <2>1
  <1>3. Nat \subseteq T
    <2> HIDE DEF T
    <2>1. QED
      BY <1>1, <1>2, NatSet
  <1>4. \E x \in S : \A y \in S : x >= y
    BY <1>3
  <1>5. QED
    BY <1>4 DEF Max

-----------------------------------------------------------------------------
(* Sequences.                                                              *)

Rank(D, i) == Cardinality({j \in D : j <= i})

\* The members of a finite set of numbers have the ranks 1, 2, ..., in order.
LEMMA Ranks ==
  ASSUME NEW D, D \subseteq Nat, IsFiniteSet(D)
  PROVE  /\ Cardinality(D) \in Nat
         /\ \A i \in D : Rank(D, i) \in 1..Cardinality(D)
         /\ \A i, j \in D : i < j => Rank(D, i) < Rank(D, j)
         /\ \A k \in 1..Cardinality(D) : \E i \in D : Rank(D, i) = k
  <1> DEFINE Low(i) == {j \in D : j <= i}
             n == Cardinality(D)
  <1>1. n \in Nat
    BY FS_CardinalityType
  <1>2. \A i \in D : IsFiniteSet(Low(i)) /\ Cardinality(Low(i)) \in Nat /\ Cardinality(Low(i)) <= n
    BY FS_Subset, FS_CardinalityType
  <1>3. ASSUME NEW i \in D PROVE Rank(D, i) \in 1..n
    <2>1. i \in Low(i)
      OBVIOUS
    <2>2. Cardinality(Low(i)) # 0
      <3>1. IsFiniteSet(Low(i)) /\ Low(i) # {}
        BY <1>2, <2>1
      <3> HIDE DEF Low
      <3>2. QED
        BY <3>1, FS_EmptySet
    <2> HIDE DEF Low, n
    <2>3. Rank(D, i) = Cardinality(Low(i))
      BY DEF Rank, Low
    <2>4. QED
      BY <1>1, <1>2, <2>2, <2>3
  <1>4. ASSUME NEW i \in D, NEW j \in D, i < j PROVE Rank(D, i) < Rank(D, j)
    <2>1. Low(i) \in SUBSET Low(j) /\ Low(i) # Low(j)
      <3>1. i \in Nat /\ j \in Nat /\ \A x \in D : x \in Nat
        OBVIOUS
      <3>2. j \in Low(j) /\ j \notin Low(i)
        BY <1>4, <3>1
      <3>3. \A x \in Low(i) : x \in Low(j)
        BY <1>4, <3>1
      <3>4. QED
        BY <3>2, <3>3
    <2>2. Cardinality(Low(i)) <= Cardinality(Low(j)) /\ Cardinality(Low(i)) # Cardinality(Low(j))
      BY <1>2, <2>1, FS_Subset
    <2> HIDE DEF Low
    <2>3. Rank(D, i) = Cardinality(Low(i)) /\ Rank(D, j) = Cardinality(Low(j))
      BY DEF Rank, Low
    <2>4. QED
      BY <1>2, <2>2, <2>3
  <1> DEFINE r == [i \in D |-> Rank(D, i)]
  <1>5. r \in Injection(D, 1..n)
    <2>1. r \in [D -> 1..n]
      BY <1>3
    <2>2. ASSUME NEW i \in D, NEW j \in D, r[i] = r[j] PROVE i = j
      <3>1. i \in Nat /\ j \in Nat /\ Rank(D, i) = Rank(D, j)
        BY <2>2
      <3>2. Rank(D, i) \in Nat /\ Rank(D, j) \in Nat
        BY <1>1, <1>3
      <3>3. ~ i < j /\ ~ j < i
        BY <1>4, <3>1, <3>2
      <3>4. QED
        BY <3>1, <3>3
    <2>3. QED
      BY <2>1, <2>2 DEF Injection, IsInjective
  <1>6. IsFiniteSet(1..n) /\ Cardinality(1..n) = n
    BY <1>1, FS_Interval
  <1>7. r \in Surjection(D, 1..n)
    BY <1>5, <1>6, FS_Injection
  <1>8. \A k \in 1..n : \E i \in D : Rank(D, i) = k
    BY <1>7 DEF Surjection
  <1>9. QED
    BY <1>1, <1>3, <1>4, <1>8

\* A sequence that names its elements once.
Listing(s) == s \in Seq(ToSet(s)) /\ IsInjective(s)

\* Not after: m comes before n or is n.
Earlier(s, m, n) == \E i, j \in DOMAIN s : i <= j /\ s[i] = m /\ s[j] = n

LEMMA ListingIs ==
  ASSUME NEW n \in Nat, NEW s, s = [i \in 1..n |-> s[i]], IsInjective(s)
  PROVE  Listing(s) /\ Len(s) = n /\ ToSet(s) = {s[i] : i \in 1..n}
  <1>1. DOMAIN s = 1..n
    OBVIOUS
  <1>2. ToSet(s) = {s[i] : i \in 1..n}
    BY <1>1 DEF ToSet
  <1>3. s \in [1..n -> ToSet(s)]
    BY <1>2
  <1>4. s \in Seq(ToSet(s)) /\ Len(s) = n
    BY <1>3
  <1>5. QED
    BY <1>2, <1>4 DEF Listing

LEMMA WithinIs ==
  ASSUME NEW s, Listing(s), NEW S
  PROVE  /\ Listing(Within(s, S)) /\ ToSet(Within(s, S)) = ToSet(s) \cap S
         /\ \A m, n \in S : Earlier(s, m, n) => Earlier(Within(s, S), m, n)
  <1> DEFINE D == {i \in DOMAIN s : s[i] \in S}
             n == Cardinality(D)
             at(k) == CHOOSE i \in D : Rank(D, i) = k
             w == [k \in 1..n |-> s[at(k)]]
  <1>1. DOMAIN s = 1..Len(s) /\ Len(s) \in Nat
    BY DEF Listing
  <1>2. D \subseteq Nat /\ IsFiniteSet(D)
    <2>1. IsFiniteSet(1..Len(s)) /\ D \in SUBSET (1..Len(s))
      BY <1>1, FS_Interval
    <2>2. QED
      BY <2>1, FS_Subset
  <1>3. /\ n \in Nat
        /\ \A i \in D : Rank(D, i) \in 1..n
        /\ \A i, j \in D : i < j => Rank(D, i) < Rank(D, j)
        /\ \A k \in 1..n : \E i \in D : Rank(D, i) = k
    <2> HIDE DEF D
    <2>1. QED
      BY <1>2, Ranks
  <1>4. Within(s, S) = w
    BY DEF Within, Rank
  <1>5. \A k \in 1..n : at(k) \in D /\ Rank(D, at(k)) = k
    BY <1>3
  <1>6. \A i, j \in D : (Rank(D, i) = Rank(D, j) => i = j) /\ (i <= j => Rank(D, i) <= Rank(D, j))
    <2> HIDE DEF D, n
    <2>1. ASSUME NEW i \in D, NEW j \in D PROVE i \in Nat /\ j \in Nat /\ Rank(D, i) \in Nat /\ Rank(D, j) \in Nat
      BY <1>2, <1>3
    <2>2. ASSUME NEW i \in D, NEW j \in D PROVE (Rank(D, i) = Rank(D, j) => i = j) /\ (i <= j => Rank(D, i) <= Rank(D, j))
      <3>1. CASE i < j
        BY <1>3, <2>1, <3>1
      <3>2. CASE j < i
        BY <1>3, <2>1, <3>2
      <3>3. CASE i = j
        BY <2>1, <3>3
      <3>4. QED
        BY <2>1, <3>1, <3>2, <3>3
    <2>3. QED
      BY <2>2
  <1>7. \A i \in D : Rank(D, i) \in 1..n /\ at(Rank(D, i)) = i
    BY <1>3, <1>5, <1>6
  <1>8. \A i \in D : i \in DOMAIN s /\ s[i] \in S
    OBVIOUS
  <1>9. \A i \in DOMAIN s : s[i] \in S => i \in D
    OBVIOUS
  <1> HIDE DEF D, n, at
  <1>10. IsInjective(w)
    <2>1. ASSUME NEW k \in 1..n, NEW l \in 1..n, s[at(k)] = s[at(l)] PROVE k = l
      <3>1. at(k) = at(l)
        BY <1>5, <1>8, <2>1 DEF Listing, IsInjective
      <3>2. QED
        BY <1>5, <3>1
    <2>2. QED
      BY <2>1 DEF IsInjective
  <1>11. Listing(w) /\ ToSet(w) = {w[k] : k \in 1..n}
    <2>1. w = [k \in 1..n |-> w[k]]
      OBVIOUS
    <2> HIDE DEF w
    <2>2. QED
      BY <1>3, <1>10, <2>1, ListingIs
  <1>12. {w[k] : k \in 1..n} = ToSet(s) \cap S
    <2>1. \A k \in 1..n : w[k] \in ToSet(s) \cap S
      BY <1>5, <1>8 DEF ToSet
    <2>2. ASSUME NEW x \in ToSet(s) \cap S PROVE \E k \in 1..n : w[k] = x
      <3>1. PICK i \in DOMAIN s : s[i] = x
        BY DEF ToSet
      <3>2. i \in D
        BY <1>9, <3>1
      <3>3. QED
        BY <1>7, <3>1, <3>2
    <2>3. QED
      BY <2>1, <2>2
  <1>13. ASSUME NEW x \in S, NEW y \in S, Earlier(s, x, y) PROVE Earlier(w, x, y)
    <2>1. PICK i, j \in DOMAIN s : i <= j /\ s[i] = x /\ s[j] = y
      BY <1>13 DEF Earlier
    <2>2. i \in D /\ j \in D
      BY <1>9, <2>1
    <2>3. Rank(D, i) <= Rank(D, j) /\ w[Rank(D, i)] = x /\ w[Rank(D, j)] = y
      BY <1>6, <1>7, <2>1, <2>2
    <2>4. DOMAIN w = 1..n
      OBVIOUS
    <2>5. QED
      BY <1>7, <2>2, <2>3, <2>4 DEF Earlier
  <1>14. QED
    BY <1>4, <1>11, <1>12, <1>13

LEMMA ConcatIs ==
  ASSUME NEW s, Listing(s), NEW u, Listing(u), ToSet(s) \cap ToSet(u) = {}
  PROVE  /\ Listing(s \o u) /\ ToSet(s \o u) = ToSet(s) \cup ToSet(u)
         /\ \A m, n : Earlier(s, m, n) => Earlier(s \o u, m, n)
         /\ \A m \in ToSet(s), n \in ToSet(u) : Earlier(s \o u, m, n)
  <1>1. /\ Len(s) \in Nat /\ DOMAIN s = 1..Len(s) /\ Len(u) \in Nat /\ DOMAIN u = 1..Len(u)
        /\ s \in Seq(ToSet(s)) /\ u \in Seq(ToSet(u))
    BY DEF Listing
  <1>2. \A i \in DOMAIN s : s[i] \in ToSet(s)
    BY DEF ToSet
  <1>3. \A i \in DOMAIN u : u[i] \in ToSet(u)
    BY DEF ToSet
  <1> DEFINE c == s \o u
             X == ToSet(s) \cup ToSet(u)
  <1>4. /\ c \in Seq(X) /\ Len(c) = Len(s) + Len(u)
        /\ \A i \in 1..Len(s) : c[i] = s[i]
        /\ \A i \in 1..Len(u) : c[Len(s) + i] = u[i]
    <2>1. s \in Seq(X) /\ u \in Seq(X)
      BY <1>1, <1>2, <1>3
    <2> HIDE DEF X
    <2>2. QED
      BY <1>1, <2>1
  <1> HIDE DEF c
  <1>5. DOMAIN c = 1..(Len(s) + Len(u))
    BY <1>4
  <1>6. \A i \in DOMAIN c : \/ i \in DOMAIN s /\ c[i] = s[i]
                            \/ \E j \in DOMAIN u : i = Len(s) + j /\ c[i] = u[j]
    <2>1. ASSUME NEW i \in DOMAIN c, i \notin DOMAIN s PROVE \E j \in DOMAIN u : i = Len(s) + j
      <3>1. i - Len(s) \in DOMAIN u /\ i = Len(s) + (i - Len(s))
        BY <1>1, <1>5, <2>1
      <3>2. QED
        BY <3>1
    <2>2. QED
      BY <1>1, <1>4, <2>1
  <1>7. \A i \in DOMAIN s : i \in DOMAIN c /\ c[i] = s[i]
    BY <1>1, <1>4, <1>5
  <1>8. \A j \in DOMAIN u : Len(s) + j \in DOMAIN c /\ c[Len(s) + j] = u[j]
    BY <1>1, <1>4, <1>5
  <1>9. ToSet(c) = X
    <2>1. ToSet(c) \subseteq X
      BY <1>2, <1>3, <1>6 DEF ToSet
    <2>2. ToSet(s) \subseteq ToSet(c)
      BY <1>7 DEF ToSet
    <2>3. ToSet(u) \subseteq ToSet(c)
      BY <1>8 DEF ToSet
    <2>4. QED
      BY <2>1, <2>2, <2>3
  <1>10. IsInjective(c)
    <2>1. ASSUME NEW i \in DOMAIN c, NEW j \in DOMAIN c, c[i] = c[j] PROVE i = j
      <3>1. CASE i \in DOMAIN s /\ j \in DOMAIN s
        BY <1>7, <2>1, <3>1 DEF Listing, IsInjective
      <3>2. CASE i \notin DOMAIN s /\ j \notin DOMAIN s
        <4>1. PICK k \in DOMAIN u : i = Len(s) + k /\ c[i] = u[k]
          BY <1>6, <3>2
        <4>2. PICK l \in DOMAIN u : j = Len(s) + l /\ c[j] = u[l]
          BY <1>6, <3>2
        <4>3. k = l
          BY <2>1, <4>1, <4>2 DEF Listing, IsInjective
        <4>4. QED
          BY <4>1, <4>2, <4>3
      <3>3. CASE i \in DOMAIN s /\ j \notin DOMAIN s
        BY <1>2, <1>3, <1>6, <1>7, <2>1, <3>3
      <3>4. CASE i \notin DOMAIN s /\ j \in DOMAIN s
        BY <1>2, <1>3, <1>6, <1>7, <2>1, <3>4
      <3>5. QED
        BY <3>1, <3>2, <3>3, <3>4
    <2>2. QED
      BY <2>1 DEF IsInjective
  <1>11. ASSUME NEW m, NEW n, Earlier(s, m, n) PROVE Earlier(c, m, n)
    BY <1>7, <1>11 DEF Earlier
  <1>12. ASSUME NEW m \in ToSet(s), NEW n \in ToSet(u) PROVE Earlier(c, m, n)
    <2>1. PICK i \in DOMAIN s : s[i] = m
      BY DEF ToSet
    <2>2. PICK j \in DOMAIN u : u[j] = n
      BY DEF ToSet
    <2>3. i <= Len(s) + j
      BY <1>1, <2>1, <2>2
    <2>4. QED
      BY <1>7, <1>8, <2>1, <2>2, <2>3 DEF Earlier
  <1>13. Listing(c)
    BY <1>4, <1>9, <1>10 DEF Listing
  <1>14. QED
    BY <1>9, <1>11, <1>12, <1>13 DEF c

LEMMA NoneListed == Listing(<<>>) /\ ToSet(<<>>) = {}
  BY DEF Listing, ToSet, IsInjective

\* An enumeration of a finite set names all of it.
LEMMA Enumerated ==
  ASSUME NEW S, IsFiniteSet(S), NEW s \in [1..Cardinality(S) -> S], IsInjective(s)
  PROVE  Listing(s) /\ ToSet(s) = S
  <1> DEFINE n == Cardinality(S)
  <1>1. n \in Nat
    BY FS_CardinalityType
  <1>2. IsFiniteSet(1..n) /\ Cardinality(1..n) = n
    BY <1>1, FS_Interval
  <1>3. s \in Injection(1..n, S)
    BY DEF Injection, IsInjective
  <1>4. s \in Surjection(1..n, S)
    BY <1>2, <1>3, FS_Injection
  <1>5. S = {s[i] : i \in 1..n}
    BY <1>4 DEF Surjection
  <1> HIDE DEF n
  <1>6. s = [i \in 1..n |-> s[i]]
    BY DEF n
  <1>7. QED
    BY <1>1, <1>5, <1>6, ListingIs

LEMMA SetToSeqIs ==
  ASSUME NEW S, IsFiniteSet(S)
  PROVE  Listing(SetToSeq(S)) /\ ToSet(SetToSeq(S)) = S
  <1>1. ExistsBijection(1..Cardinality(S), S)
    BY FS_CardinalityType
  <1>2. PICK s : s \in [1..Cardinality(S) -> S] /\ IsInjective(s)
    BY <1>1 DEF ExistsBijection, Bijection, Injection, IsInjective
  <1>3. SetToSeq(S) \in [1..Cardinality(S) -> S] /\ IsInjective(SetToSeq(S))
    BY <1>2 DEF SetToSeq
  <1>4. QED
    BY <1>3, Enumerated

\* m is the first, or the last, of the elements that are in S.
IsFirst(s, S, m) == m \in ToSet(s) \cap S /\ \A n \in ToSet(s) \cap S : Earlier(s, m, n)
IsLast(s, S, m) == m \in ToSet(s) \cap S /\ \A n \in ToSet(s) \cap S : Earlier(s, n, m)

LEMMA EarlierOnce ==
  ASSUME NEW s, Listing(s), NEW m, NEW n, Earlier(s, m, n), Earlier(s, n, m)
  PROVE  m = n
  <1>1. DOMAIN s = 1..Len(s)
    BY DEF Listing
  <1>2. PICK i, j \in DOMAIN s : i <= j /\ s[i] = m /\ s[j] = n
    BY DEF Earlier
  <1>3. PICK k, l \in DOMAIN s : k <= l /\ s[k] = n /\ s[l] = m
    BY DEF Earlier
  <1>4. i = l /\ j = k
    BY <1>2, <1>3 DEF Listing, IsInjective
  <1>5. i = j
    BY <1>1, <1>2, <1>3, <1>4
  <1>6. QED
    BY <1>2, <1>5

\* There is one first and one last.
LEMMA FirstOnce ==
  ASSUME NEW s, Listing(s), NEW S, NEW m, NEW n
  PROVE  /\ IsFirst(s, S, m) /\ IsFirst(s, S, n) => m = n
         /\ IsLast(s, S, m) /\ IsLast(s, S, n) => m = n
  BY EarlierOnce DEF IsFirst, IsLast

LEMMA FirstIs ==
  ASSUME NEW g, Listing(g.nodes), NEW S, Nodes(g) \cap S # {}
  PROVE  IsFirst(g.nodes, S, First(g, S)) /\ IsLast(g.nodes, S, Latest(g, S))
  <1> DEFINE s == g.nodes
             D == {i \in DOMAIN s : s[i] \in S}
  <1>1. DOMAIN s = 1..Len(s) /\ Len(s) \in Nat
    BY DEF Listing
  <1>2. D \subseteq 1..Len(s) /\ D # {} /\ D \subseteq Nat
    BY <1>1 DEF Nodes, ToSet
  <1>3. First(g, S) = s[Min(D)] /\ Latest(g, S) = s[Max(D)]
    BY DEF First, Latest
  <1>4. \A i \in DOMAIN s : i \in D <=> s[i] \in S
    OBVIOUS
  <1> HIDE DEF D
  <1>5. Min(D) \in D /\ \A y \in D : Min(D) =< y
    BY <1>2, MinIs
  <1>6. Max(D) \in D /\ \A y \in D : Max(D) >= y
    BY <1>1, <1>2, MaxIs
  <1>7. \A n \in ToSet(s) \cap S : \E y \in D : s[y] = n
    BY <1>4 DEF ToSet
  <1>8. \A y \in D : y \in DOMAIN s /\ s[y] \in S /\ s[y] \in ToSet(s) /\ y \in Nat
    BY <1>1, <1>2, <1>4 DEF ToSet
  <1> HIDE DEF s
  <1>9. IsFirst(s, S, s[Min(D)])
    <2>1. ASSUME NEW n \in ToSet(s) \cap S PROVE Earlier(s, s[Min(D)], n)
      BY <1>5, <1>7, <1>8 DEF Earlier
    <2>2. QED
      BY <1>5, <1>8, <2>1 DEF IsFirst
  <1>10. IsLast(s, S, s[Max(D)])
    <2>1. ASSUME NEW n \in ToSet(s) \cap S PROVE Earlier(s, n, s[Max(D)])
      BY <1>6, <1>7, <1>8 DEF Earlier
    <2>2. QED
      BY <1>6, <1>8, <2>1 DEF IsLast
  <1>11. QED
    BY <1>3, <1>9, <1>10 DEF s

\* Sequences that share no element, one after another.
LEMMA FlattenIs ==
  ASSUME NEW n \in Nat, NEW q, q = [i \in 1..n |-> q[i]],
         \A i \in 1..n : Listing(q[i]),
         \A i, j \in 1..n : i # j => ToSet(q[i]) \cap ToSet(q[j]) = {}
  PROVE  Listing(FlattenSeq(q)) /\ ToSet(FlattenSeq(q)) = UNION {ToSet(q[i]) : i \in 1..n}
  <1>1. Len(q) = n /\ DOMAIN q = 1..n
    <2>1. q \in Seq({q[i] : i \in 1..n})
      <3>1. q \in [1..n -> {q[i] : i \in 1..n}]
        OBVIOUS
      <3>2. QED
        BY <3>1
    <2>2. QED
      BY <2>1
  <1>2. CASE n = 0
    <2>1. q = <<>>
      <3>1. q \in [{} -> {}]
        BY <1>2
      <3>2. QED
        BY <1>1, <1>2
    <2>2. FlattenSeq(q) = <<>>
      BY <2>1 DEF FlattenSeq
    <2>3. UNION {ToSet(q[i]) : i \in 1..n} = {}
      BY <1>2
    <2>4. QED
      BY <2>2, <2>3, NoneListed
  <1>3. CASE n # 0
    <2> DEFINE Step(f, i) == IF i = 1 THEN q[i] ELSE f[i - 1] \o q[i]
               Upto(k) == UNION {ToSet(q[i]) : i \in 1..k}
               Good(f, k) == \A i \in 1..k : /\ f[i] = Step(f, i)
                                             /\ Listing(f[i]) /\ ToSet(f[i]) = Upto(i)
               Made(k) == \E f : f = [i \in 1..k |-> f[i]] /\ Good(f, k)
               S == {k \in Nat : k <= n => Made(k)}
    <2>1. 0 \in S
      <3> DEFINE f0 == [i \in 1..0 |-> i]
      <3>1. f0 = [i \in 1..0 |-> f0[i]] /\ Good(f0, 0)
        OBVIOUS
      <3>2. Made(0)
        <4> HIDE DEF Good, f0
        <4>1. QED
          BY <3>1
      <3> HIDE DEF Made
      <3>3. QED
        BY <3>2
    <2>2. ASSUME NEW k \in Nat, k \in S PROVE k + 1 \in S
      <3> SUFFICES ASSUME k + 1 <= n PROVE Made(k + 1)
        <4> HIDE DEF Made
        <4>1. QED
          OBVIOUS
      <3>0. Made(k)
        <4> HIDE DEF Made
        <4>1. QED
          BY <2>2
      <3>1. PICK f : f = [i \in 1..k |-> f[i]] /\ Good(f, k)
        <4> HIDE DEF Good
        <4>1. QED
          BY <3>0
      <3>9. PICK x : x = Step(f, k + 1)
        OBVIOUS
      <3> DEFINE h == [i \in 1..(k + 1) |-> IF i <= k THEN f[i] ELSE x]
      <3>10. h = [i \in 1..(k + 1) |-> h[i]] /\ h[k + 1] = x /\ \A i \in 1..k : h[i] = f[i]
        OBVIOUS
      <3> HIDE DEF h
      <3>2. /\ h = [i \in 1..(k + 1) |-> h[i]] /\ h[k + 1] = Step(f, k + 1)
            /\ \A i \in 1..k : h[i] = f[i]
        BY <3>9, <3>10
      <3>3. \A i \in 1..(k + 1) : h[i] = Step(h, i)
        <4>1. ASSUME NEW i \in 1..(k + 1) PROVE h[i] = Step(h, i)
          <5>1. CASE i = 1 /\ i <= k
            <6>0. i \in 1..k
              BY <5>1
            <6>3. f[i] = Step(f, i)
              BY <3>1, <6>0
            <6>4. Step(f, i) = q[i]
              BY <5>1, Zenon
            <6>1. i \in 1..k /\ f[i] = q[i]
              BY <6>0, <6>3, <6>4
            <6>2. QED
              BY <3>2, <5>1, <6>1
          <5>2. CASE i # 1 /\ i <= k
            <6>1. i \in 1..k /\ i - 1 \in 1..k
              BY <5>2
            <6>2. f[i] = f[i - 1] \o q[i]
              BY <3>1, <5>2, <6>1
            <6>3. QED
              BY <3>2, <5>2, <6>1, <6>2
          <5>3. CASE i = k + 1
            <6>1. i = 1 \/ i - 1 \in 1..k
              BY <5>3
            <6>2. QED
              BY <3>2, <5>3, <6>1
          <5>4. QED
            BY <5>1, <5>2, <5>3
        <4>2. QED
          BY <4>1
      <3>4. Listing(h[k + 1]) /\ ToSet(h[k + 1]) = Upto(k + 1)
        <4>1. CASE k = 0
          <5>1. h[k + 1] = q[1] /\ 1 \in 1..n
            BY <3>2, <4>1, <1>3
          <5>2. Upto(k + 1) = ToSet(q[1])
            BY <4>1
          <5>3. QED
            BY <5>1, <5>2
        <4>2. CASE k # 0
          <5>1. k \in 1..k /\ k + 1 \in 1..n /\ k + 1 - 1 = k /\ k + 1 # 1
            BY <4>2
          <5>2. h[k + 1] = f[k] \o q[k + 1]
            <6>1. PICK j : j = k + 1
              OBVIOUS
            <6>2. j # 1 /\ j - 1 = k
              BY <5>1, <6>1
            <6>3. h[j] = Step(f, j)
              BY <3>2, <6>1, Zenon
            <6>4. Step(f, j) = f[j - 1] \o q[j]
              BY <6>2, Zenon
            <6>5. h[j] = f[k] \o q[j]
              BY <6>2, <6>3, <6>4, Zenon
            <6>6. QED
              BY <6>1, <6>5
          <5>3. Listing(f[k]) /\ ToSet(f[k]) = Upto(k)
            BY <3>1, <5>1
          <5>4. Upto(k) \cap ToSet(q[k + 1]) = {}
            <6>1. \A i \in 1..k : i \in 1..n /\ i # k + 1
              BY <5>1
            <6>2. \A i \in 1..k : ToSet(q[i]) \cap ToSet(q[k + 1]) = {}
              BY <5>1, <6>1
            <6>3. QED
              BY <6>2
          <5>5. Upto(k + 1) = Upto(k) \cup ToSet(q[k + 1])
            <6>1. 1..(k + 1) = (1..k) \cup {k + 1}
              OBVIOUS
            <6>2. QED
              BY <6>1
          <5> HIDE DEF Upto, Good
          <5>6. Listing(q[k + 1])
            BY <5>1
          <5>7. /\ Listing(f[k] \o q[k + 1])
                /\ ToSet(f[k] \o q[k + 1]) = ToSet(f[k]) \cup ToSet(q[k + 1])
            BY <5>3, <5>4, <5>6, ConcatIs
          <5>8. QED
            BY <5>2, <5>3, <5>5, <5>7
        <4>3. QED
          BY <4>1, <4>2
      <3>5. Good(h, k + 1)
        <4>1. ASSUME NEW i \in 1..(k + 1) PROVE Listing(h[i]) /\ ToSet(h[i]) = Upto(i)
          <5>1. CASE i \in 1..k
            <6>1. Listing(f[i]) /\ ToSet(f[i]) = Upto(i)
              BY <3>1, <5>1
            <6> HIDE DEF Upto
            <6>2. QED
              BY <3>2, <5>1, <6>1
          <5>2. CASE i = k + 1
            <6> HIDE DEF Upto
            <6>1. QED
              BY <3>4, <5>2
          <5>3. QED
            BY <5>1, <5>2
        <4> HIDE DEF Upto
        <4>2. QED
          BY <3>3, <4>1
      <3>6. h = [i \in 1..(k + 1) |-> h[i]]
        BY <3>2
      <3> HIDE DEF Good
      <3>7. QED
        BY <3>5, <3>6
    <2>3. Nat \subseteq S
      <3> HIDE DEF S
      <3>1. QED
        BY <2>1, <2>2, NatSet
    <2>3a. Made(n)
      <3> HIDE DEF Made
      <3>1. QED
        BY <2>3
    <2>4. PICK f : f = [i \in 1..n |-> f[i]] /\ Good(f, n)
      <3> HIDE DEF Good
      <3>1. QED
        BY <2>3a
    <2> DEFINE flat == CHOOSE f1 : f1 = [i \in 1..n |-> Step(f1, i)]
    <2>5. f = [i \in 1..n |-> Step(f, i)]
      <3>1. \A i \in 1..n : f[i] = Step(f, i)
        BY <2>4
      <3> HIDE DEF Step
      <3>2. QED
        BY <2>4, <3>1
    <2>6. flat = [i \in 1..n |-> Step(flat, i)]
      BY <2>5
    <2>7. \A i \in 1..n : flat[i] = f[i]
      <3> DEFINE T == {k \in Nat : k <= n => \A i \in 1..k : flat[i] = f[i]}
      <3> HIDE DEF flat
      <3>1. 0 \in T
        OBVIOUS
      <3>2. ASSUME NEW k \in Nat, k \in T PROVE k + 1 \in T
        <4> SUFFICES ASSUME k + 1 <= n PROVE \A i \in 1..(k + 1) : flat[i] = f[i]
          OBVIOUS
        <4>1. \A i \in 1..k : flat[i] = f[i]
          BY <3>2
        <4>2. k + 1 \in 1..n /\ (k + 1 = 1 \/ k + 1 - 1 \in 1..k)
          OBVIOUS
        <4>3. flat[k + 1] = Step(flat, k + 1) /\ f[k + 1] = Step(f, k + 1)
          BY <2>5, <2>6, <4>2
        <4>4. flat[k + 1] = f[k + 1]
          BY <4>1, <4>2, <4>3
        <4>5. QED
          BY <4>1, <4>4
      <3>3. Nat \subseteq T
        <4> HIDE DEF T
        <4>1. QED
          BY <3>1, <3>2, NatSet
      <3>4. QED
        BY <3>3
    <2>8. FlattenSeq(q) = flat[n]
      BY <1>1, <1>3 DEF FlattenSeq
    <2>9. n \in 1..n
      BY <1>3
    <2>10. FlattenSeq(q) = f[n]
      <3> HIDE DEF flat
      <3>1. QED
        BY <2>7, <2>8, <2>9
    <2>11. QED
      BY <2>4, <2>9, <2>10
  <1>4. QED
    BY <1>2, <1>3

-----------------------------------------------------------------------------
(* The files.                                                              *)

LEMMA FilesListed ==
  /\ Listing(FileOrder) /\ ToSet(FileOrder) = Files /\ IsFiniteSet(Files)
  /\ Len(FileOrder) \in Nat /\ DOMAIN FileOrder = 1..Len(FileOrder)
  /\ FileOrder = [i \in 1..Len(FileOrder) |-> FileOrder[i]]
  /\ \A i \in DOMAIN FileOrder : FileOrder[i] \in Files /\ Indexed(FileOrder[i]) = i
  <1>1. /\ Listing(FileOrder) /\ ToSet(FileOrder) = Files
        /\ Len(FileOrder) \in Nat /\ DOMAIN FileOrder = 1..Len(FileOrder)
        /\ FileOrder = [i \in 1..Len(FileOrder) |-> FileOrder[i]]
    BY FilesAssumption DEF Files, Listing
  <1>2. \A i \in DOMAIN FileOrder : FileOrder[i] \in Files /\ Indexed(FileOrder[i]) = i
    BY FilesAssumption DEF Files, ToSet, Indexed, IsInjective
  <1>3. IsFiniteSet(Files)
    <2>1. FileOrder \in Surjection(1..Len(FileOrder), Files)
      <3>1. FileOrder \in [1..Len(FileOrder) -> Files]
        BY <1>1, <1>2
      <3>2. \A f \in Files : \E i \in 1..Len(FileOrder) : FileOrder[i] = f
        BY <1>1 DEF ToSet
      <3>3. QED
        BY <3>1, <3>2 DEF Surjection
    <2>2. IsFiniteSet(1..Len(FileOrder))
      BY <1>1, FS_Interval
    <2>3. QED
      BY <2>1, <2>2, FS_Surjection
  <1>4. QED
    BY <1>1, <1>2, <1>3

\* The most representative of some files is one of them.
Beats(f, x) == Score[x] < Score[f] \/ (Score[x] = Score[f] /\ Indexed(f) <= Indexed(x))

LEMMA BestIs ==
  ASSUME NEW R, R \subseteq Files, R # {}
  PROVE  \E f \in R : \A x \in R : Beats(f, x)
  <1> DEFINE Lead(k) == {FileOrder[i] : i \in 1..k}
             Best(Q) == \E f \in Q : \A x \in Q : Beats(f, x)
             T == {k \in Nat : k <= Len(FileOrder) => \A Q \in (SUBSET Lead(k)) \ {{}} : Best(Q)}
  <1>1. 0 \in T
    <2>1. Lead(0) = {}
      OBVIOUS
    <2> HIDE DEF Best
    <2>2. QED
      BY <2>1
  <1>2. ASSUME NEW k \in Nat, k \in T PROVE k + 1 \in T
    <2> SUFFICES ASSUME k + 1 <= Len(FileOrder), NEW Q \in (SUBSET Lead(k + 1)) \ {{}} PROVE Best(Q)
      <3> HIDE DEF Best, Lead
      <3>1. QED
        OBVIOUS
    <2>1. \A P \in (SUBSET Lead(k)) \ {{}} : Best(P)
      <3> HIDE DEF Best, Lead
      <3>1. QED
        BY <1>2, FilesListed
    <2>2. PICK z : z = FileOrder[k + 1]
      OBVIOUS
    <2>3. z \in Files /\ Indexed(z) = k + 1 /\ Score[z] \in Int
      BY <2>2, FilesListed, FilesAssumption
    <2>4. \A x \in Lead(k) : x \in Files /\ Indexed(x) \in 1..k /\ Score[x] \in Int
      BY FilesListed, FilesAssumption
    <2>5. \A x \in Q : x = z \/ x \in Lead(k)
      <3>1. 1..(k + 1) = (1..k) \cup {k + 1}
        OBVIOUS
      <3>2. QED
        BY <2>2, <3>1
    <2>6. Beats(z, z)
      BY <2>3 DEF Beats
    <2> HIDE DEF Lead
    <2>7. CASE z \notin Q
      BY <2>1, <2>5, <2>7
    <2>8. CASE z \in Q /\ Q \ {z} = {}
      BY <2>6, <2>8
    <2>9. CASE z \in Q /\ Q \ {z} # {}
      <3>1. Best(Q \ {z})
        <4>1. Q \ {z} \in (SUBSET Lead(k)) \ {{}}
          BY <2>5, <2>9
        <4> HIDE DEF Best
        <4>2. QED
          BY <2>1, <4>1
      <3>2. PICK f \in Q \ {z} : \A x \in Q \ {z} : Beats(f, x)
        BY <3>1
      <3>3. f \in Lead(k) /\ \A x \in Q \ {z} : x \in Lead(k)
        BY <2>5
      <3>4. CASE Score[f] < Score[z]
        <4>1. ASSUME NEW x \in Q \ {z} PROVE Beats(z, x)
          <5>1. Score[x] \in Int /\ Score[f] \in Int /\ Score[z] \in Int
            BY <2>3, <2>4, <3>3
          <5>2. Score[x] < Score[f] \/ Score[x] = Score[f]
            BY <3>2 DEF Beats
          <5>3. Score[x] < Score[z]
            BY <3>4, <5>1, <5>2
          <5>4. QED
            BY <5>3 DEF Beats
        <4>2. QED
          BY <2>6, <2>9, <4>1
      <3>5. CASE ~ (Score[f] < Score[z])
        <4>1. Beats(f, z)
          BY <2>3, <2>4, <3>3, <3>5 DEF Beats
        <4>2. QED
          BY <3>2, <4>1
      <3>6. QED
        BY <3>4, <3>5
    <2>10. QED
      BY <2>7, <2>8, <2>9
  <1>3. Nat \subseteq T
    <2> HIDE DEF T
    <2>1. QED
      BY <1>1, <1>2, NatSet
  <1>4. R \in (SUBSET Lead(Len(FileOrder))) \ {{}}
    BY FilesListed DEF ToSet
  <1>5. Best(R)
    <2> HIDE DEF Best, Lead
    <2>1. QED
      BY <1>3, <1>4, FilesListed
  <1>6. QED
    BY <1>5

LEMMA RepresentativeIs ==
  ASSUME NEW g, NEW f \in Parents(g), OwnModules(g, f) = {}
  PROVE  LET m == Representative(g, Dir[f])
         IN  m \in Parents(g) /\ OwnModules(g, m) = {} /\ Dir[m] = Dir[f]
  <1> DEFINE R == {x \in Parents(g) : Dir[x] = Dir[f] /\ OwnModules(g, x) = {}}
  <1>1. R \subseteq Files /\ R # {}
    BY DEF Parents
  <1>2. \E x \in Files : x \in R /\ \A y \in R : Beats(x, y)
    <2> HIDE DEF R
    <2>1. QED
      BY <1>1, BestIs
  <1>3. Representative(g, Dir[f]) \in R
    BY <1>2 DEF Representative, Beats
  <1>4. QED
    BY <1>3

-----------------------------------------------------------------------------
(* Graphs.                                                                 *)

\* A symbol an extractor found, which SymbolsExact counts.
Own(n) == n.span = "own" /\ n.kind # "DocSection"

NodeOK(n) ==
  /\ Own(n) \/ n.kind \notin Synthetic => n.file \in Files
  /\ n.kind = "File" => n.span \in {"none", "whole"}

EdgeOK(e, N) ==
  /\ e = Edge(e.from, e.to, e.kind, e.ev)
  /\ e.from \in N /\ e.to \in N /\ e.ev \in Files \cup {Markdown}

IsGraph(g) ==
  /\ g = [nodes |-> g.nodes, edges |-> g.edges]
  /\ Listing(g.nodes)
  /\ \A n \in Nodes(g) : NodeOK(n)
  /\ \A e \in g.edges : EdgeOK(e, Nodes(g))

\* The module the children of f belong to.
Named(g, f) == {n \in Nodes(g) : n.kind = "Module" /\ n.name = Dir[f]}
IsHome(g, f, m) ==
  IF OwnModules(g, f) # {} THEN IsLast(g.nodes, OwnModules(g, f), m)
                           ELSE IsFirst(g.nodes, Named(g, f), m)

LEMMA HomeHeld ==
  ASSUME NEW g, NEW f, NEW m, IsHome(g, f, m)
  PROVE  m \in Nodes(g)
  BY DEF IsHome, IsFirst, IsLast, Nodes

\* No file has two File nodes, and the containment layer links only what
\* it should ...
Fits(g, e) ==
  /\ e.kind = "Contains" => /\ e.ev \in Files /\ e.to \in Children(g, e.ev)
                            /\ e.from \in InFile(g, e.ev) /\ e.from.kind = "File"
  /\ e.kind = "BelongsTo" => /\ e.ev \in Files /\ e.from \in Children(g, e.ev)
                             /\ IsHome(g, e.ev, e.to)
Sparse(g) ==
  /\ \A m, n \in Nodes(g) : m.kind = "File" /\ n.kind = "File" /\ m.file = n.file => m = n
  /\ \A e \in g.edges : Fits(g, e)

\* ... and all of it.
Placed(g, f, c) ==
  /\ \E n \in InFile(g, f) : n.kind = "File" /\ Edge(n, c, "Contains", f) \in g.edges
  /\ \E m \in Nodes(g) : IsHome(g, f, m) /\ Edge(c, m, "BelongsTo", f) \in g.edges
Complete(g) == \A f \in Files : \A c \in Children(g, f) : Placed(g, f, c)

\* The symbols of the tree, and the references, but for some files.
DefNodes(t, F) == UNION {{DefNode(f, d) : d \in ToSet(Defs(t, f))} : f \in F}
SymbolsBut(g, t, D) == {n \in Nodes(g) : Own(n) /\ n.file \notin D} = DefNodes(t, Files \ D)
Justified(t, e) ==
  e.kind \in References =>
    /\ e.ev \in Files
    /\ \E r \in Refs(t, e.ev) : \/ r.kind = e.kind /\ r.name = e.to.name
                                \/ r.kind = "ReexportAll" /\ e.to.file = r.from
GroundedBut(g, t, D) == \A e \in g.edges : e.ev \notin D => Justified(t, e)

\* What holds between two stages, and what holds of a graph that is built.
Sound(g, t, D) == IsGraph(g) /\ Sparse(g) /\ SymbolsBut(g, t, D) /\ GroundedBut(g, t, D)
Built(g, t, D) == Sound(g, t, D) /\ Complete(g)

\* A graph with further nodes and edges.
Grown(g, u, E) == [nodes |-> g.nodes \o u, edges |-> g.edges \cup E]
New(g, u) ==
  /\ Listing(u) /\ Nodes(g) \cap ToSet(u) = {}
  /\ \A n \in ToSet(u) : NodeOK(n)

\* A stage adds edges of certain kinds, and perhaps nodes.
Adds(g, h, K) ==
  /\ Nodes(g) \subseteq Nodes(h) /\ g.edges \subseteq h.edges
  /\ \A e \in h.edges : e \in g.edges \/ e.kind \in K

LEMMA EdgesOf ==
  ASSUME NEW g, IsGraph(g), NEW E
  PROVE  AddEdges(g, E).edges = g.edges \cup E /\ Nodes(AddEdges(g, E)) = Nodes(g)
  <1>1. PICK a, b : a = g.nodes /\ b = g.edges
    OBVIOUS
  <1>2. g = [nodes |-> a, edges |-> b]
    BY <1>1 DEF IsGraph
  <1>3. AddEdges(g, E) = [nodes |-> a, edges |-> b \cup E]
    BY <1>2 DEF AddEdges
  <1>4. QED
    BY <1>1, <1>3 DEF Nodes

LEMMA GrownIs ==
  ASSUME NEW g, IsGraph(g), NEW u, New(g, u), NEW E,
         \A e \in E : EdgeOK(e, Nodes(g) \cup ToSet(u))
  PROVE  /\ IsGraph(Grown(g, u, E))
         /\ Nodes(Grown(g, u, E)) = Nodes(g) \cup ToSet(u)
         /\ \A m, n : Earlier(g.nodes, m, n) => Earlier(Grown(g, u, E).nodes, m, n)
         /\ \A m \in Nodes(g), n \in ToSet(u) : Earlier(Grown(g, u, E).nodes, m, n)
  <1> DEFINE h == Grown(g, u, E)
  <1>1. h = [nodes |-> h.nodes, edges |-> h.edges] /\ h.nodes = g.nodes \o u /\ h.edges = g.edges \cup E
    BY DEF Grown
  <1>2. Listing(g.nodes) /\ Listing(u) /\ ToSet(g.nodes) \cap ToSet(u) = {}
    BY DEF IsGraph, New, Nodes
  <1>3. /\ Listing(h.nodes) /\ ToSet(h.nodes) = ToSet(g.nodes) \cup ToSet(u)
        /\ \A m, n : Earlier(g.nodes, m, n) => Earlier(h.nodes, m, n)
        /\ \A m \in ToSet(g.nodes), n \in ToSet(u) : Earlier(h.nodes, m, n)
    <2> HIDE DEF h
    <2>1. QED
      BY <1>1, <1>2, ConcatIs
  <1> HIDE DEF h
  <1>4. Nodes(h) = Nodes(g) \cup ToSet(u)
    BY <1>3 DEF Nodes
  <1>5. IsGraph(h)
    <2>1. \A n \in Nodes(h) : NodeOK(n)
      BY <1>4 DEF IsGraph, New
    <2>2. \A e \in h.edges : EdgeOK(e, Nodes(h))
      BY <1>1, <1>4 DEF IsGraph, EdgeOK
    <2>3. QED
      BY <1>1, <1>3, <2>1, <2>2 DEF IsGraph
  <1>6. QED
    BY <1>3, <1>4, <1>5 DEF h, Nodes

\* Nodes that are neither symbols nor modules leave the containment layer
\* as it is.
Minor(g, u) ==
  /\ New(g, u)
  /\ \A n \in ToSet(u) : ~Own(n) /\ n.kind \in Synthetic \ {"Module"}
  /\ \A m \in Nodes(g), n \in ToSet(u) : m.kind = "File" /\ n.kind = "File" => m.file # n.file
  /\ \A m, n \in ToSet(u) : m.kind = "File" /\ n.kind = "File" /\ m.file = n.file => m = n

LEMMA MinorKeeps ==
  ASSUME NEW g, NEW t, NEW D, Sound(g, t, D), NEW u, Minor(g, u), NEW E,
         \A e \in E : /\ EdgeOK(e, Nodes(g) \cup ToSet(u)) /\ Justified(t, e)
                      /\ e.kind \notin {"Contains", "BelongsTo"}
  PROVE  /\ Sound(Grown(g, u, E), t, D) /\ (Complete(g) => Complete(Grown(g, u, E)))
         /\ Nodes(Grown(g, u, E)) = Nodes(g) \cup ToSet(u)
         /\ \A f : /\ Children(Grown(g, u, E), f) = Children(g, f)
                   /\ OwnModules(Grown(g, u, E), f) = OwnModules(g, f)
                   /\ \A m : IsHome(g, f, m) => IsHome(Grown(g, u, E), f, m)
  <1>1. IsGraph(g) /\ New(g, u)
    BY DEF Sound, Minor
  <1>2. PICK h : h = Grown(g, u, E)
    OBVIOUS
  <1>3. /\ IsGraph(h) /\ Nodes(h) = Nodes(g) \cup ToSet(u)
        /\ \A m, n : Earlier(g.nodes, m, n) => Earlier(h.nodes, m, n)
        /\ \A m \in Nodes(g), n \in ToSet(u) : Earlier(h.nodes, m, n)
    BY <1>1, <1>2, GrownIs
  <1>4. h.edges = g.edges \cup E
    BY <1>2 DEF Grown
  <1>5. \A f : /\ Children(h, f) = Children(g, f) /\ OwnModules(h, f) = OwnModules(g, f)
               /\ InFile(g, f) \subseteq InFile(h, f)
    BY <1>3 DEF Minor, Children, OwnModules, InFile, Synthetic
  <1>6. \A f : Named(h, f) = Named(g, f)
    BY <1>3 DEF Minor, Named, Synthetic
  <1>7. \A f, m : IsHome(g, f, m) => IsHome(h, f, m)
    <2>1. \A f : OwnModules(g, f) \subseteq Nodes(g) /\ Named(g, f) \subseteq Nodes(g)
      BY DEF OwnModules, InFile, Named
    <2>2. \A S : S \subseteq Nodes(g) => ToSet(h.nodes) \cap S = ToSet(g.nodes) \cap S
      BY <1>3 DEF Nodes
    <2>3. ASSUME NEW S, S \subseteq Nodes(g), NEW m
          PROVE  (IsLast(g.nodes, S, m) => IsLast(h.nodes, S, m)) /\ (IsFirst(g.nodes, S, m) => IsFirst(h.nodes, S, m))
      <3>1. ToSet(h.nodes) \cap S = ToSet(g.nodes) \cap S
        BY <2>2, <2>3
      <3>2. QED
        BY <1>3, <3>1 DEF IsLast, IsFirst
    <2>4. QED
      BY <1>5, <1>6, <2>1, <2>3 DEF IsHome
  <1>8. Sparse(h)
    <2>1. ASSUME NEW m \in Nodes(h), NEW n \in Nodes(h), m.kind = "File", n.kind = "File", m.file = n.file
          PROVE  m = n
      <3>1. \A a, b \in Nodes(g) : a.kind = "File" /\ b.kind = "File" /\ a.file = b.file => a = b
        BY DEF Sound, Sparse
      <3>2. QED
        BY <1>3, <2>1, <3>1 DEF Minor
    <2>2. ASSUME NEW e \in h.edges PROVE Fits(h, e)
      <3>1. CASE e \in g.edges
        <4>1. Fits(g, e)
          BY <3>1 DEF Sound, Sparse
        <4>2. QED
          BY <1>5, <1>7, <4>1 DEF Fits
      <3>2. CASE e \in E
        BY <3>2 DEF Fits
      <3>3. QED
        BY <1>4, <3>1, <3>2
    <2>3. QED
      BY <2>1, <2>2 DEF Sparse
  <1>9. SymbolsBut(h, t, D)
    BY <1>3 DEF Sound, Minor, SymbolsBut
  <1>10. GroundedBut(h, t, D)
    BY <1>4 DEF Sound, GroundedBut
  <1>11. ASSUME Complete(g) PROVE Complete(h)
    <2>1. ASSUME NEW f \in Files, NEW c \in Children(h, f) PROVE Placed(h, f, c)
      <3>1. Placed(g, f, c)
        BY <1>5, <1>11 DEF Complete
      <3>2. QED
        BY <1>4, <1>5, <1>7, <3>1, HomeHeld DEF Placed
    <2>2. QED
      BY <2>1 DEF Complete
  <1>12. Sound(h, t, D)
    BY <1>3, <1>8, <1>9, <1>10 DEF Sound
  <1>13. QED
    BY <1>2, <1>3, <1>5, <1>7, <1>11, <1>12

-----------------------------------------------------------------------------
(* Extraction and invalidation.                                            *)

TreeOK(t) == t = [f \in Files |-> t[f]] /\ \A f \in Files : t[f] \in Contents[f]

LEMMA ContentIs ==
  ASSUME NEW t, TreeOK(t), NEW f \in Files
  PROVE  /\ Listing(Defs(t, f)) /\ Len(Defs(t, f)) \in Nat /\ DOMAIN Defs(t, f) = 1..Len(Defs(t, f))
         /\ \A i, j \in DOMAIN Defs(t, f) : Defs(t, f)[i].name = Defs(t, f)[j].name => i = j
         /\ \A d \in ToSet(Defs(t, f)) : d.kind \in Symbols
         /\ \A d1, d2 \in ToSet(Defs(t, f)) : DocName[d1.name] = DocName[d2.name] => d1 = d2
         /\ IsFiniteSet(Refs(t, f))
         /\ \A r \in Refs(t, f) : /\ r.kind \in References \cup {"ReexportAll"}
                                  /\ r.at \in 0..Len(Defs(t, f)) /\ r.from \in Files \cup {NoFile}
                                  /\ r.doc \in 0..Len(Defs(t, f))
                                  /\ r.doc # 0 => Defs(t, f)[r.doc].kind # "Module" /\ r.kind # "ReexportAll"
  <1>1. PICK c \in Contents[f] : c = t[f]
    BY DEF TreeOK
  <1>2. Defs(t, f) = c.defs /\ Refs(t, f) = c.refs
    BY <1>1 DEF Defs, Refs
  <1>3. /\ c.defs \in Seq(ToSet(c.defs))
        /\ \A i, j \in DOMAIN c.defs : c.defs[i].name = c.defs[j].name => i = j
        /\ \A d \in ToSet(c.defs) : d.kind \in Symbols
        /\ IsFiniteSet(c.refs)
        /\ \A r \in c.refs : /\ r.kind \in References \cup {"ReexportAll"}
                             /\ r.at \in 0..Len(c.defs) /\ r.from \in Files \cup {NoFile}
                             /\ r.doc \in 0..Len(c.defs)
                             /\ r.doc # 0 => c.defs[r.doc].kind # "Module" /\ r.kind # "ReexportAll"
    BY ContentsAssumption
  <1>4. \A d1, d2 \in ToSet(c.defs) : DocName[d1.name] = DocName[d2.name] => d1.name = d2.name
    BY DocNameAssumption
  <1>5. IsInjective(c.defs)
    BY <1>3 DEF IsInjective
  <1>6. Listing(c.defs) /\ Len(c.defs) \in Nat /\ DOMAIN c.defs = 1..Len(c.defs)
    BY <1>3, <1>5 DEF Listing
  <1>7. \A d1, d2 \in ToSet(c.defs) : DocName[d1.name] = DocName[d2.name] => d1 = d2
    BY <1>3, <1>4 DEF ToSet
  <1>8. ASSUME NEW r \in Refs(t, f)
        PROVE  /\ r.kind \in References \cup {"ReexportAll"}
               /\ r.at \in 0..Len(Defs(t, f)) /\ r.from \in Files \cup {NoFile}
               /\ r.doc \in 0..Len(Defs(t, f))
               /\ r.doc # 0 => Defs(t, f)[r.doc].kind # "Module" /\ r.kind # "ReexportAll"
    <2>1. r \in c.refs
      BY <1>2, <1>8
    <2>2. PICK D : D = c.defs /\ D = Defs(t, f)
      BY <1>2
    <2>3. /\ r.kind \in References \cup {"ReexportAll"}
          /\ r.at \in 0..Len(c.defs) /\ r.from \in Files \cup {NoFile}
          /\ r.doc \in 0..Len(c.defs)
          /\ r.doc # 0 => c.defs[r.doc].kind # "Module" /\ r.kind # "ReexportAll"
      <3> PICK R : R = c.refs
        OBVIOUS
      <3>1. \A q \in R : /\ q.kind \in References \cup {"ReexportAll"}
                         /\ q.at \in 0..Len(c.defs) /\ q.from \in Files \cup {NoFile}
                         /\ q.doc \in 0..Len(c.defs)
                         /\ q.doc # 0 => c.defs[q.doc].kind # "Module" /\ q.kind # "ReexportAll"
        BY <1>3
      <3>2. QED
        BY <2>1, <3>1
    <2>4. QED
      BY <2>2, <2>3
  <1>9. /\ Listing(Defs(t, f)) /\ Len(Defs(t, f)) \in Nat /\ DOMAIN Defs(t, f) = 1..Len(Defs(t, f))
        /\ \A i, j \in DOMAIN Defs(t, f) : Defs(t, f)[i].name = Defs(t, f)[j].name => i = j
        /\ \A d \in ToSet(Defs(t, f)) : d.kind \in Symbols
        /\ \A d1, d2 \in ToSet(Defs(t, f)) : DocName[d1.name] = DocName[d2.name] => d1 = d2
        /\ IsFiniteSet(Refs(t, f))
    BY <1>2, <1>3, <1>6, <1>7
  <1>10. QED
    BY <1>8, <1>9

\* What Extract appends.
LEMMA ExtractIs ==
  ASSUME NEW t, TreeOK(t), NEW files, Listing(files), ToSet(files) \subseteq Files, NEW g
  PROVE  \E u : /\ Extract(g, files, t) = AddNodes(g, u)
                /\ Listing(u) /\ ToSet(u) = DefNodes(t, ToSet(files))
  <1> DEFINE part(f) == [j \in DOMAIN Defs(t, f) |-> DefNode(f, Defs(t, f)[j])]
             q == [i \in DOMAIN files |-> part(files[i])]
             n == Len(files)
  <1>1. n \in Nat /\ DOMAIN files = 1..n
    BY DEF Listing
  <1>2. \A i \in 1..n : files[i] \in Files /\ files[i] \in ToSet(files)
    BY <1>1 DEF ToSet
  <1>3. ASSUME NEW f \in Files
        PROVE  Listing(part(f)) /\ ToSet(part(f)) = {DefNode(f, d) : d \in ToSet(Defs(t, f))}
    <2> DEFINE p == part(f)
               s == Defs(t, f)
    <2>1. /\ Len(s) \in Nat /\ DOMAIN s = 1..Len(s)
          /\ \A i, j \in DOMAIN s : s[i].name = s[j].name => i = j
      BY ContentIs
    <2>2. p = [i \in 1..Len(s) |-> p[i]] /\ \A i \in 1..Len(s) : p[i] = DefNode(f, s[i])
      BY <2>1
    <2> HIDE DEF p, s
    <2>3. IsInjective(p)
      <3>1. DOMAIN p = 1..Len(s)
        BY <2>2
      <3>2. \A i \in 1..Len(s) : p[i].name = s[i].name
        BY <2>2 DEF DefNode
      <3>3. QED
        BY <2>1, <3>1, <3>2 DEF IsInjective
    <2>4. Listing(p) /\ ToSet(p) = {p[i] : i \in 1..Len(s)}
      BY <2>1, <2>2, <2>3, ListingIs
    <2>5. ToSet(s) = {s[i] : i \in 1..Len(s)}
      BY <2>1 DEF ToSet
    <2>6. ToSet(p) = {DefNode(f, d) : d \in ToSet(s)}
      BY <2>2, <2>4, <2>5
    <2>7. QED
      BY <2>4, <2>6 DEF p, s
  <1>4. /\ q = [i \in 1..n |-> q[i]]
        /\ \A i \in 1..n : q[i] = part(files[i])
    BY <1>1
  <1>5. /\ \A i \in 1..n : Listing(q[i]) /\ ToSet(q[i]) = {DefNode(files[i], d) : d \in ToSet(Defs(t, files[i]))}
    <2> HIDE DEF q, part
    <2>1. QED
      BY <1>2, <1>3, <1>4
  <1>6. \A i, j \in 1..n : i # j => ToSet(q[i]) \cap ToSet(q[j]) = {}
    <2>1. ASSUME NEW i \in 1..n, NEW j \in 1..n, i # j PROVE ToSet(q[i]) \cap ToSet(q[j]) = {}
      <3>1. files[i] # files[j]
        BY <1>1, <2>1 DEF Listing, IsInjective
      <3> HIDE DEF q, part, n
      <3>2. \A x \in ToSet(q[i]) : x.file = files[i]
        BY <1>5 DEF DefNode
      <3>3. \A x \in ToSet(q[j]) : x.file = files[j]
        BY <1>5 DEF DefNode
      <3>4. QED
        BY <3>1, <3>2, <3>3
    <2>2. QED
      BY <2>1
  <1> DEFINE u == FlattenSeq(q)
  <1>7. Extract(g, files, t) = AddNodes(g, u)
    BY DEF Extract
  <1>8. Listing(u) /\ ToSet(u) = UNION {ToSet(q[i]) : i \in 1..n}
    <2> HIDE DEF q, n
    <2>1. QED
      BY <1>1, <1>4, <1>5, <1>6, FlattenIs
  <1>9. UNION {ToSet(q[i]) : i \in 1..n} = DefNodes(t, ToSet(files))
    <2>1. ToSet(files) = {files[i] : i \in 1..n}
      BY <1>1 DEF ToSet
    <2> HIDE DEF q, n
    <2>2. QED
      BY <1>5, <2>1 DEF DefNodes
  <1> HIDE DEF u
  <1>10. QED
    BY <1>7, <1>8, <1>9

\* Nothing of the files is in the graph.
Cleared(g, D) == (\A n \in Nodes(g) : n.file \notin D) /\ (\A e \in g.edges : e.ev \notin D)

LEMMA ExtractSound ==
  ASSUME NEW t, TreeOK(t), NEW files, Listing(files), ToSet(files) \subseteq Files,
         NEW g, Sound(g, t, ToSet(files)), Cleared(g, ToSet(files))
  PROVE  LET h == Extract(g, files, t)
         IN  /\ Sound(h, t, {}) /\ h.edges = g.edges
             /\ \A n \in Nodes(h) : n \in Nodes(g) \/ (Own(n) /\ n.kind \in Symbols)
  <1> DEFINE D == ToSet(files)
  <1>1. PICK u : Extract(g, files, t) = AddNodes(g, u) /\ Listing(u) /\ ToSet(u) = DefNodes(t, D)
    BY ExtractIs
  <1> HIDE DEF D
  <1>2. D \subseteq Files /\ Sound(g, t, D) /\ Cleared(g, D)
    BY DEF D
  <1>3. PICK h : h = Grown(g, u, {})
    OBVIOUS
  <1>4. Extract(g, files, t) = h
    BY <1>1, <1>2, <1>3 DEF AddNodes, Grown, Sound, IsGraph
  <1>5. \A n \in ToSet(u) : n.file \in D /\ Own(n) /\ n.kind \in Symbols
    <2>1. ASSUME NEW f \in D, NEW d \in ToSet(Defs(t, f))
          PROVE  DefNode(f, d).file \in D /\ Own(DefNode(f, d)) /\ DefNode(f, d).kind \in Symbols
      <3>1. d.kind \in Symbols
        BY <1>2, ContentIs
      <3>2. QED
        BY <3>1 DEF DefNode, Own, Symbols
    <2>2. QED
      BY <1>1, <2>1 DEF DefNodes
  <1>6. New(g, u)
    <2>1. \A n \in ToSet(u) : NodeOK(n)
      BY <1>2, <1>5 DEF NodeOK, Symbols
    <2>2. Nodes(g) \cap ToSet(u) = {}
      BY <1>2, <1>5 DEF Cleared
    <2>3. QED
      BY <1>1, <2>1, <2>2 DEF New
  <1>7. /\ IsGraph(h) /\ Nodes(h) = Nodes(g) \cup ToSet(u)
        /\ \A m, n : Earlier(g.nodes, m, n) => Earlier(h.nodes, m, n)
        /\ \A m \in Nodes(g), n \in ToSet(u) : Earlier(h.nodes, m, n)
    BY <1>2, <1>3, <1>6, GrownIs DEF Sound
  <1>8. h.edges = g.edges
    BY <1>3 DEF Grown
  <1>9. \A f : f \notin D => /\ Children(h, f) = Children(g, f) /\ OwnModules(h, f) = OwnModules(g, f)
                             /\ InFile(h, f) = InFile(g, f)
    BY <1>5, <1>7 DEF Children, OwnModules, InFile
  <1>10. \A f, m : f \notin D /\ IsHome(g, f, m) => IsHome(h, f, m)
    <2>1. ASSUME NEW f, f \notin D, NEW m, IsHome(g, f, m) PROVE IsHome(h, f, m)
      <3>1. ToSet(g.nodes) = Nodes(g) /\ ToSet(h.nodes) = Nodes(g) \cup ToSet(u)
        BY <1>7 DEF Nodes
      <3>2. CASE OwnModules(g, f) # {}
        <4>1. OwnModules(h, f) = OwnModules(g, f) /\ OwnModules(g, f) \subseteq Nodes(g)
          BY <1>9, <2>1 DEF OwnModules, InFile
        <4>2. IsLast(g.nodes, OwnModules(g, f), m)
          BY <2>1, <3>2 DEF IsHome
        <4>3. IsLast(h.nodes, OwnModules(g, f), m)
          BY <1>7, <3>1, <4>1, <4>2 DEF IsLast
        <4>4. QED
          BY <3>2, <4>1, <4>3 DEF IsHome
      <3>3. CASE OwnModules(g, f) = {}
        <4>1. OwnModules(h, f) = {}
          BY <1>9, <2>1, <3>3
        <4>2. IsFirst(g.nodes, Named(g, f), m)
          BY <2>1, <3>3 DEF IsHome
        <4>3. m \in Nodes(g) /\ m \in Named(h, f) /\ m \in Named(g, f)
          BY <1>7, <3>1, <4>2 DEF IsFirst, Named
        <4>4. ASSUME NEW n \in Named(h, f) PROVE Earlier(h.nodes, m, n)
          <5>1. n \in Nodes(g) \/ n \in ToSet(u)
            BY <1>7 DEF Named
          <5>2. CASE n \in Nodes(g)
            <6>1. n \in Named(g, f)
              BY <5>2 DEF Named
            <6>2. QED
              BY <1>7, <3>1, <4>2, <5>2, <6>1 DEF IsFirst
          <5>3. CASE n \in ToSet(u)
            BY <1>7, <4>3, <5>3
          <5>4. QED
            BY <5>1, <5>2, <5>3
        <4>5. IsFirst(h.nodes, Named(h, f), m)
          BY <1>7, <3>1, <4>3, <4>4 DEF IsFirst
        <4>6. QED
          BY <4>1, <4>5 DEF IsHome
      <3>4. QED
        BY <3>2, <3>3
    <2>2. QED
      BY <2>1
  <1>11. Sparse(h)
    <2>1. ASSUME NEW e \in h.edges PROVE Fits(h, e)
      <3>1. e \in g.edges /\ e.ev \notin D /\ Fits(g, e)
        BY <1>2, <1>8 DEF Cleared, Sound, Sparse
      <3>2. QED
        BY <1>9, <1>10, <3>1 DEF Fits
    <2>2. \A m, n \in Nodes(h) : m.kind = "File" /\ n.kind = "File" /\ m.file = n.file => m = n
      <3>1. \A n \in ToSet(u) : n.kind # "File"
        BY <1>5 DEF Symbols
      <3>2. QED
        BY <1>2, <1>7, <3>1 DEF Sound, Sparse
    <2>3. QED
      BY <2>1, <2>2 DEF Sparse
  <1>12. SymbolsBut(h, t, {})
    <2>1. {n \in Nodes(h) : Own(n) /\ n.file \notin {}} = {n \in Nodes(g) : Own(n) /\ n.file \notin D} \cup ToSet(u)
      BY <1>2, <1>5, <1>7 DEF Cleared
    <2>2. DefNodes(t, Files \ {}) = DefNodes(t, Files \ D) \cup DefNodes(t, D)
      BY <1>2 DEF DefNodes
    <2>3. QED
      BY <1>1, <1>2, <2>1, <2>2 DEF Sound, SymbolsBut
  <1>13. GroundedBut(h, t, {})
    BY <1>2, <1>8 DEF Cleared, Sound, GroundedBut
  <1>14. \A n \in Nodes(h) : n \in Nodes(g) \/ (Own(n) /\ n.kind \in Symbols)
    BY <1>5, <1>7
  <1>15. QED
    BY <1>4, <1>7, <1>8, <1>11, <1>12, <1>13, <1>14 DEF Sound

\* Invalidation takes what the files gave, and the edges at it.
LEMMA InvalidateSound ==
  ASSUME NEW g, NEW t, NEW D0, Sound(g, t, D0), NEW D, D0 \subseteq D
  PROVE  LET h == Invalidate(g, D)
         IN  /\ Sound(h, t, D) /\ Cleared(h, D)
             /\ Nodes(h) \subseteq Nodes(g) /\ h.edges \subseteq g.edges
  <1> DEFINE K == {n \in Nodes(g) : n.file \notin D}
  <1>1. PICK h : h = Invalidate(g, D)
    OBVIOUS
  <1>2. h = [nodes |-> Within(g.nodes, K), edges |-> {e \in g.edges : e.ev \notin D /\ {e.from, e.to} \subseteq K}]
    BY <1>1 DEF Invalidate
  <1>3. Listing(g.nodes)
    BY DEF Sound, IsGraph
  <1>4. K \subseteq Nodes(g) /\ \A n \in Nodes(g) : n \in K <=> n.file \notin D
    OBVIOUS
  <1> HIDE DEF K
  <1>5. /\ Listing(h.nodes) /\ ToSet(h.nodes) = ToSet(g.nodes) \cap K
        /\ \A m, n \in K : Earlier(g.nodes, m, n) => Earlier(h.nodes, m, n)
    <2>1. h.nodes = Within(g.nodes, K)
      BY <1>2
    <2>2. QED
      BY <1>3, <2>1, WithinIs
  <1>6. Nodes(h) = K
    BY <1>4, <1>5 DEF Nodes
  <1>7. \A e : e \in h.edges <=> e \in g.edges /\ e.ev \notin D /\ e.from \in K /\ e.to \in K
    BY <1>2
  <1>8. IsGraph(h)
    <2>1. h = [nodes |-> h.nodes, edges |-> h.edges]
      BY <1>2
    <2>2. \A e \in h.edges : EdgeOK(e, Nodes(h))
      BY <1>6, <1>7 DEF Sound, IsGraph, EdgeOK
    <2>3. QED
      BY <1>4, <1>5, <1>6, <2>1, <2>2 DEF Sound, IsGraph
  <1>9. \A f : f \notin D => /\ Children(h, f) = Children(g, f) /\ OwnModules(h, f) = OwnModules(g, f)
                             /\ InFile(h, f) = InFile(g, f)
    BY <1>4, <1>6 DEF Children, OwnModules, InFile
  <1>10. \A f, m : f \notin D /\ m \in K /\ IsHome(g, f, m) => IsHome(h, f, m)
    <2>1. ASSUME NEW f, f \notin D, NEW m \in K, IsHome(g, f, m) PROVE IsHome(h, f, m)
      <3>1. ToSet(g.nodes) = Nodes(g) /\ ToSet(h.nodes) = K
        BY <1>4, <1>5 DEF Nodes
      <3>2. CASE OwnModules(g, f) # {}
        <4>1. OwnModules(h, f) = OwnModules(g, f) /\ OwnModules(h, f) \subseteq K
          BY <1>6, <1>9, <2>1 DEF OwnModules, InFile
        <4>2. IsLast(g.nodes, OwnModules(g, f), m)
          BY <2>1, <3>2 DEF IsHome
        <4>3. IsLast(h.nodes, OwnModules(g, f), m)
          BY <1>4, <1>5, <3>1, <4>1, <4>2 DEF IsLast
        <4>4. QED
          BY <3>2, <4>1, <4>3 DEF IsHome
      <3>3. CASE OwnModules(g, f) = {}
        <4>1. OwnModules(h, f) = {}
          BY <1>9, <2>1, <3>3
        <4>2. IsFirst(g.nodes, Named(g, f), m)
          BY <2>1, <3>3 DEF IsHome
        <4>3. Named(h, f) = Named(g, f) \cap K
          BY <1>4, <1>6 DEF Named
        <4>4. IsFirst(h.nodes, Named(h, f), m)
          BY <1>4, <1>5, <2>1, <3>1, <4>2, <4>3 DEF IsFirst
        <4>5. QED
          BY <4>1, <4>4 DEF IsHome
      <3>4. QED
        BY <3>2, <3>3
    <2>2. QED
      BY <2>1
  <1>11. Sparse(h)
    <2>1. ASSUME NEW e \in h.edges PROVE Fits(h, e)
      <3>1. e \in g.edges /\ e.ev \notin D /\ e.to \in K /\ Fits(g, e)
        BY <1>7 DEF Sound, Sparse
      <3>2. QED
        BY <1>9, <1>10, <3>1 DEF Fits
    <2>2. QED
      BY <1>4, <1>6, <2>1 DEF Sound, Sparse
  <1>12. SymbolsBut(h, t, D)
    <2>1. {n \in Nodes(h) : Own(n) /\ n.file \notin D} = {n \in Nodes(g) : Own(n) /\ n.file \notin D0} \ {n \in Nodes(g) : n.file \in D}
      BY <1>4, <1>6
    <2>2. \A n \in DefNodes(t, Files \ D0) : n.file \notin D <=> n \in DefNodes(t, Files \ D)
      <3>1. \A f, d : DefNode(f, d).file = f
        BY DEF DefNode
      <3>2. QED
        BY <3>1 DEF DefNodes
    <2>3. DefNodes(t, Files \ D) \subseteq DefNodes(t, Files \ D0)
      BY DEF DefNodes
    <2>4. QED
      BY <2>1, <2>2, <2>3 DEF Sound, SymbolsBut
  <1>13. GroundedBut(h, t, D)
    BY <1>7 DEF Sound, GroundedBut
  <1>14. Cleared(h, D)
    BY <1>4, <1>6, <1>7 DEF Cleared
  <1>15. Nodes(h) \subseteq Nodes(g) /\ h.edges \subseteq g.edges
    BY <1>4, <1>6, <1>7
  <1>16. QED
    BY <1>1, <1>8, <1>11, <1>12, <1>13, <1>14, <1>15 DEF Sound

-----------------------------------------------------------------------------
(* The stages that only add edges.                                         *)

LEMMA EdgesKeep ==
  ASSUME NEW g, NEW t, NEW D, Sound(g, t, D), NEW E,
         \A e \in E : /\ EdgeOK(e, Nodes(g)) /\ Justified(t, e)
                      /\ e.kind \notin {"Contains", "BelongsTo"}
  PROVE  /\ Sound(AddEdges(g, E), t, D) /\ (Complete(g) => Complete(AddEdges(g, E)))
         /\ Nodes(AddEdges(g, E)) = Nodes(g)
  <1> DEFINE u == <<>>
  <1>1. Listing(u) /\ ToSet(u) = {}
    BY NoneListed
  <1> HIDE DEF u
  <1>2. Minor(g, u)
    BY <1>1 DEF Minor, New
  <1>3. Sound(Grown(g, u, E), t, D) /\ (Complete(g) => Complete(Grown(g, u, E)))
    BY <1>1, <1>2, MinorKeeps
  <1>4. g = [nodes |-> g.nodes, edges |-> g.edges] /\ g.nodes \in Seq(ToSet(g.nodes))
    BY DEF Sound, IsGraph, Listing
  <1>5. g.nodes \o u = g.nodes
    BY <1>4 DEF u
  <1>6. AddEdges(g, E) = [nodes |-> g.nodes, edges |-> g.edges \cup E]
    <2>1. PICK a, b : a = g.nodes /\ b = g.edges
      OBVIOUS
    <2>2. g = [nodes |-> a, edges |-> b]
      BY <1>4, <2>1
    <2>3. AddEdges(g, E) = [nodes |-> a, edges |-> b \cup E]
      BY <2>2 DEF AddEdges
    <2>4. QED
      BY <2>1, <2>3
  <1>7. AddEdges(g, E) = Grown(g, u, E)
    BY <1>5, <1>6 DEF Grown
  <1>8. Nodes(AddEdges(g, E)) = Nodes(g)
    BY <1>6 DEF Nodes
  <1>9. QED
    BY <1>3, <1>7, <1>8

\* An edge as a stage makes it.
LEMMA EdgeIs ==
  ASSUME NEW from, NEW to, NEW kind, NEW ev
  PROVE  /\ Edge(from, to, kind, ev).from = from /\ Edge(from, to, kind, ev).to = to
         /\ Edge(from, to, kind, ev).kind = kind /\ Edge(from, to, kind, ev).ev = ev
         /\ \A N : from \in N /\ to \in N /\ ev \in Files \cup {Markdown} => EdgeOK(Edge(from, to, kind, ev), N)
  BY DEF Edge, EdgeOK

LEMMA MatchStringsSound ==
  ASSUME NEW g, NEW t, NEW D, Sound(g, t, D)
  PROVE  Sound(MatchStrings(g), t, D) /\ Nodes(MatchStrings(g)) = Nodes(g)
  <1> DEFINE Places(v) == {i \in DOMAIN g.nodes : g.nodes[i].kind = "Api" /\ g.nodes[i].name = v}
             values == {n.name : n \in {x \in Nodes(g) : x.kind = "Api"}}
             matched == {v \in values : \/ MaxFiles = 0
                                        \/ Cardinality({g.nodes[i].file : i \in Places(v)}) <= MaxFiles}
             paired(v) == {<<g.nodes[p[1]], g.nodes[p[2]]>> : p \in
                           {q \in Places(v) \X Places(v) :
                              q[1] < q[2] /\ g.nodes[q[1]].file # g.nodes[q[2]].file}}
             pairs == UNION {paired(v) : v \in matched}
             E == {Edge(p[1], p[2], "StringMatch", p[1].file) : p \in pairs}
  <1>1. MatchStrings(g) = AddEdges(g, E)
    BY DEF MatchStrings
  <1>2. ASSUME NEW v \in matched, NEW p \in paired(v)
        PROVE  p[1] \in Nodes(g) /\ p[2] \in Nodes(g) /\ p[1].file \in Files
    <2>1. PICK q \in Places(v) \X Places(v) : p = <<g.nodes[q[1]], g.nodes[q[2]]>>
      BY <1>2
    <2>2. q[1] \in DOMAIN g.nodes /\ q[2] \in DOMAIN g.nodes /\ g.nodes[q[1]].kind = "Api"
      BY <2>1
    <2>3. p[1] = g.nodes[q[1]] /\ p[2] = g.nodes[q[2]]
      BY <2>1
    <2>4. p[1] \in Nodes(g) /\ p[2] \in Nodes(g) /\ p[1].kind = "Api"
      BY <2>2, <2>3 DEF Nodes, ToSet
    <2>5. NodeOK(p[1])
      BY <2>4 DEF Sound, IsGraph
    <2>6. p[1].file \in Files
      BY <2>4, <2>5 DEF NodeOK, Synthetic
    <2>7. QED
      BY <2>4, <2>6
  <1>3. \A p \in pairs : p[1] \in Nodes(g) /\ p[2] \in Nodes(g) /\ p[1].file \in Files
    <2> HIDE DEF paired, matched
    <2>1. QED
      BY <1>2
  <1> HIDE DEF pairs
  <1>4. \A e \in E : /\ EdgeOK(e, Nodes(g)) /\ Justified(t, e)
                     /\ e.kind \notin {"Contains", "BelongsTo"}
    BY <1>3, EdgeIs DEF Justified, References
  <1> HIDE DEF E
  <1>5. QED
    BY <1>1, <1>4, EdgesKeep

LEMMA MediateSound ==
  ASSUME NEW g, NEW t, NEW D, Sound(g, t, D)
  PROVE  Sound(Mediate(g), t, D) /\ Nodes(Mediate(g)) = Nodes(g)
  <1> DEFINE pairs == {p \in {n \in Nodes(g) : n.kind = "Field"} \X {n \in Nodes(g) : n.kind = "Type"} :
                         p[1].name = p[2].name /\ p[1].file # p[2].file}
             E == {Edge(p[1], p[2], "Configures", p[1].file) : p \in pairs}
  <1>1. Mediate(g) = AddEdges(g, E)
    BY DEF Mediate
  <1>2. \A p \in pairs : p[1] \in Nodes(g) /\ p[2] \in Nodes(g) /\ p[1].file \in Files
    BY DEF Sound, IsGraph, NodeOK, Synthetic
  <1> HIDE DEF pairs
  <1>3. \A e \in E : /\ EdgeOK(e, Nodes(g)) /\ Justified(t, e)
                     /\ e.kind \notin {"Contains", "BelongsTo"}
    BY <1>2, EdgeIs DEF Justified, References
  <1> HIDE DEF E
  <1>4. QED
    BY <1>1, <1>3, EdgesKeep

LEMMA MentionsSound ==
  ASSUME NEW g, NEW t, NEW D, Built(g, t, D),
         \A f \in Files : \A d \in Documented(t, f) : DocNode(f, d) \in Nodes(g)
  PROVE  /\ Built(MentionsPass(g, t), t, D) /\ Nodes(MentionsPass(g, t)) = Nodes(g)
         /\ Adds(g, MentionsPass(g, t), {"Mentions"})
  <1> DEFINE ends(f, d) == UNION {Unique(g, m) : m \in d.doc} \ {DefNode(f, d)}
             E == UNION {UNION {{Edge(DocNode(f, d), n, "Mentions", f) : n \in ends(f, d)} :
                                   d \in Documented(t, f)} : f \in Files}
  <1>1. MentionsPass(g, t) = AddEdges(g, E)
    BY DEF MentionsPass
  <1>2. \A m : Unique(g, m) \subseteq Nodes(g)
    BY DEF Unique
  <1>3. \A f, d : ends(f, d) \subseteq Nodes(g)
    BY <1>2
  <1> HIDE DEF ends
  <1>4. \A e \in E : /\ EdgeOK(e, Nodes(g)) /\ Justified(t, e) /\ e.kind = "Mentions"
                     /\ e.kind \notin {"Contains", "BelongsTo"}
    BY <1>3, EdgeIs DEF Justified, References
  <1> HIDE DEF E
  <1>5. Adds(g, MentionsPass(g, t), {"Mentions"})
    BY <1>1, <1>4, EdgesOf DEF Built, Sound, Adds
  <1>6. QED
    BY <1>1, <1>4, <1>5, EdgesKeep DEF Built

LEMMA DeriveInheritsSound ==
  ASSUME NEW g, NEW t, NEW D, Built(g, t, D)
  PROVE  Built(DeriveInherits(g), t, D) /\ Nodes(DeriveInherits(g)) = Nodes(g)
  <1> DEFINE E == {[e EXCEPT !.kind = "Inherits"] : e \in {x \in g.edges : x.kind = "Extends"}}
  <1>1. DeriveInherits(g) = AddEdges(g, E)
    BY DEF DeriveInherits
  <1>2. ASSUME NEW e \in g.edges
        PROVE  /\ [e EXCEPT !.kind = "Inherits"] = Edge(e.from, e.to, "Inherits", e.ev)
               /\ e.from \in Nodes(g) /\ e.to \in Nodes(g) /\ e.ev \in Files \cup {Markdown}
    <2>1. EdgeOK(e, Nodes(g))
      BY DEF Built, Sound, IsGraph
    <2>2. QED
      BY <2>1 DEF EdgeOK, Edge
  <1>3. \A e \in E : /\ EdgeOK(e, Nodes(g)) /\ Justified(t, e)
                     /\ e.kind \notin {"Contains", "BelongsTo"}
    BY <1>2, EdgeIs DEF Justified, References
  <1> HIDE DEF E
  <1>4. QED
    BY <1>1, <1>3, EdgesKeep DEF Built

LEMMA ReclassifySound ==
  ASSUME NEW g, NEW t, NEW D, Built(g, t, D)
  PROVE  Built(ReclassifyStringMatch(g), t, D) /\ Nodes(ReclassifyStringMatch(g)) = Nodes(g)
  <1> DEFINE re(e) == IF e.kind = "StringMatch" THEN [e EXCEPT !.kind = "ApiPathMatch"] ELSE e
  <1>1. PICK h : h = ReclassifyStringMatch(g)
    OBVIOUS
  <1>2. /\ h = [nodes |-> h.nodes, edges |-> h.edges]
        /\ h.nodes = g.nodes /\ h.edges = {re(e) : e \in g.edges}
    BY <1>1 DEF ReclassifyStringMatch, Built, Sound, IsGraph
  <1>3. Nodes(h) = Nodes(g)
    BY <1>2 DEF Nodes
  <1>4. ASSUME NEW e \in g.edges
        PROVE  /\ EdgeOK(re(e), Nodes(g))
               /\ re(e) = e \/ re(e).kind = "ApiPathMatch"
               /\ e.kind # "StringMatch" => re(e) = e
    <2>1. EdgeOK(e, Nodes(g))
      BY DEF Built, Sound, IsGraph
    <2>2. QED
      BY <2>1 DEF EdgeOK, Edge
  <1> HIDE DEF re
  <1>5. \A f : Children(h, f) = Children(g, f) /\ OwnModules(h, f) = OwnModules(g, f)
               /\ InFile(h, f) = InFile(g, f) /\ Named(h, f) = Named(g, f)
    BY <1>3 DEF Children, OwnModules, InFile, Named
  <1>6. \A f, m : IsHome(h, f, m) <=> IsHome(g, f, m)
    BY <1>2, <1>5 DEF IsHome
  <1>7. \A e \in h.edges : EdgeOK(e, Nodes(h)) /\ (e \in g.edges \/ e.kind = "ApiPathMatch")
    BY <1>2, <1>3, <1>4
  <1>8. IsGraph(h)
    BY <1>2, <1>3, <1>7 DEF Built, Sound, IsGraph
  <1>9. Sparse(h)
    <2>1. ASSUME NEW e \in h.edges PROVE Fits(h, e)
      <3>1. CASE e \in g.edges
        <4>1. Fits(g, e)
          BY <3>1 DEF Built, Sound, Sparse
        <4>2. QED
          BY <1>5, <1>6, <4>1 DEF Fits
      <3>2. CASE e.kind = "ApiPathMatch"
        BY <3>2 DEF Fits
      <3>3. QED
        BY <1>7, <3>1, <3>2
    <2>2. QED
      BY <1>3, <2>1 DEF Built, Sound, Sparse
  <1>10. SymbolsBut(h, t, D)
    BY <1>3 DEF Built, Sound, SymbolsBut
  <1>11. GroundedBut(h, t, D)
    BY <1>7 DEF Built, Sound, GroundedBut, Justified, References
  <1>12. Complete(h)
    <2>1. \A e \in g.edges : e.kind \in {"Contains", "BelongsTo"} => e \in h.edges
      BY <1>2, <1>4
    <2>2. ASSUME NEW f \in Files, NEW c \in Children(h, f) PROVE Placed(h, f, c)
      <3>1. Placed(g, f, c)
        BY <1>5 DEF Built, Complete
      <3>2. QED
        BY <1>5, <1>6, <2>1, <3>1, EdgeIs, HomeHeld DEF Placed
    <2>3. QED
      BY <2>2 DEF Complete
  <1>13. QED
    BY <1>1, <1>3, <1>8, <1>9, <1>10, <1>11, <1>12 DEF Built, Sound

-----------------------------------------------------------------------------
(* The structural pass.                                                    *)

LEMMA ImageFinite ==
  ASSUME NEW S, IsFiniteSet(S), NEW F, F = [x \in S |-> F[x]]
  PROVE  IsFiniteSet({F[x] : x \in S})
  <1>1. F \in Surjection(S, {F[x] : x \in S})
    BY DEF Surjection
  <1>2. QED
    BY <1>1, FS_Surjection

LEMMA AppendIsGrown ==
  ASSUME NEW g, IsGraph(g), NEW u
  PROVE  AddNodes(g, u) = Grown(g, u, {})
  <1>1. PICK a, b, c : a = g.nodes /\ b = g.edges /\ c = g.nodes \o u
    OBVIOUS
  <1>2. g = [nodes |-> a, edges |-> b]
    BY <1>1 DEF IsGraph
  <1>3. AddNodes(g, u) = [g EXCEPT !.nodes = c]
    BY <1>1 DEF AddNodes
  <1>4. AddNodes(g, u) = [nodes |-> c, edges |-> b]
    BY <1>2, <1>3
  <1>5. g.edges \cup {} = b
    BY <1>1
  <1>6. Grown(g, u, {}) = [nodes |-> c, edges |-> b]
    BY <1>1, <1>5 DEF Grown
  <1>7. QED
    BY <1>4, <1>6

LEMMA AddFileNodesSound ==
  ASSUME NEW g, NEW t, Sound(g, t, {})
  PROVE  LET h == AddFileNodes(g)
         IN  /\ Sound(h, t, {})
             /\ Nodes(g) \subseteq Nodes(h) /\ h.edges = g.edges
             /\ \A n \in Nodes(h) : n \in Nodes(g) \/ \E f \in Parents(g) : n = FileNode(f)
             /\ \A f \in Parents(g) : \E n \in InFile(h, f) : n.kind = "File"
             /\ \A f : /\ Children(h, f) = Children(g, f) /\ OwnModules(h, f) = OwnModules(g, f)
                       /\ \A m : IsHome(g, f, m) => IsHome(h, f, m)
  <1> DEFINE Bare == {f \in Parents(g) : \A n \in InFile(g, f) : n.kind # "File"}
             new == Within(FileOrder, Bare)
             u == [i \in DOMAIN new |-> FileNode(new[i])]
             h == AddFileNodes(g)
  <1>1. h = AddNodes(g, u)
    BY DEF AddFileNodes
  <1>2. Bare \subseteq Files
    BY DEF Parents
  <1>3. Listing(new) /\ ToSet(new) = Bare
    <2> HIDE DEF Bare
    <2>1. Listing(new) /\ ToSet(new) = Files \cap Bare
      BY FilesListed, WithinIs
    <2>2. QED
      BY <1>2, <2>1
  <1>4. Listing(u) /\ ToSet(u) = {FileNode(f) : f \in Bare}
    <2>1. Len(new) \in Nat /\ DOMAIN new = 1..Len(new)
      BY <1>3 DEF Listing
    <2>2. u = [i \in 1..Len(new) |-> u[i]] /\ \A i \in 1..Len(new) : u[i] = FileNode(new[i])
      BY <2>1
    <2> HIDE DEF u, new, Bare
    <2>3. IsInjective(u)
      <3>1. \A i \in 1..Len(new) : u[i].file = new[i]
        BY <2>2 DEF FileNode
      <3>2. DOMAIN u = 1..Len(new)
        BY <2>2
      <3>3. QED
        BY <1>3, <2>1, <3>1, <3>2 DEF IsInjective, Listing
    <2>4. Listing(u) /\ ToSet(u) = {u[i] : i \in 1..Len(new)}
      BY <2>1, <2>2, <2>3, ListingIs
    <2>5. ToSet(u) = {FileNode(f) : f \in Bare}
      BY <1>3, <2>1, <2>2, <2>4 DEF ToSet
    <2>6. QED
      BY <2>4, <2>5
  <1>5. \A f \in Bare : f \in Files /\ f \in Parents(g) /\ \A n \in Nodes(g) : n.kind = "File" => n.file # f
    BY <1>2 DEF InFile
  <1>6. \A f \in Parents(g) : f \in Bare \/ \E n \in InFile(g, f) : n.kind = "File"
    OBVIOUS
  <1> HIDE DEF u, new, Bare, h
  <1>7. ASSUME NEW n \in ToSet(u) PROVE n.file \in Bare /\ n = FileNode(n.file) /\ n.kind = "File" /\ n.span = "none"
    BY <1>4 DEF FileNode
  <1>8. Minor(g, u)
    <2>1. \A n \in ToSet(u) : NodeOK(n) /\ ~Own(n)
      BY <1>5, <1>7 DEF NodeOK, Own
    <2>2. Nodes(g) \cap ToSet(u) = {}
      BY <1>5, <1>7
    <2>3. \A n \in ToSet(u) : n.kind \in Synthetic \ {"Module"}
      BY <1>7 DEF Synthetic
    <2>4. \A m, n \in ToSet(u) : m.file = n.file => m = n
      <3>1. ASSUME NEW m \in ToSet(u), NEW n \in ToSet(u), m.file = n.file PROVE m = n
        <4>1. m = FileNode(m.file) /\ n = FileNode(n.file)
          BY <1>7
        <4>2. QED
          BY <3>1, <4>1
      <3>2. QED
        BY <3>1
    <2>5. QED
      BY <1>4, <1>5, <1>7, <2>1, <2>2, <2>3, <2>4 DEF Minor, New
  <1>9. h = Grown(g, u, {})
    BY <1>1, AppendIsGrown DEF Sound
  <1>10. /\ Sound(h, t, {}) /\ Nodes(h) = Nodes(g) \cup ToSet(u)
         /\ \A f : /\ Children(h, f) = Children(g, f) /\ OwnModules(h, f) = OwnModules(g, f)
                   /\ \A m : IsHome(g, f, m) => IsHome(h, f, m)
    <2> DEFINE k == Grown(g, u, {})
    <2>0. /\ Sound(g, t, {}) /\ Minor(g, u)
          /\ \A e \in {} : /\ EdgeOK(e, Nodes(g) \cup ToSet(u)) /\ Justified(t, e)
                           /\ e.kind \notin {"Contains", "BelongsTo"}
      BY <1>8
    <2>a. /\ Sound(k, t, {}) /\ Nodes(k) = Nodes(g) \cup ToSet(u)
          /\ \A f : /\ Children(k, f) = Children(g, f)
                    /\ OwnModules(k, f) = OwnModules(g, f)
                    /\ \A m : IsHome(g, f, m) => IsHome(k, f, m)
      BY <2>0, MinorKeeps, Zenon
    <2> HIDE DEF k
    <2>1. /\ Sound(k, t, {}) /\ Nodes(k) = Nodes(g) \cup ToSet(u)
          /\ \A f : /\ Children(k, f) = Children(g, f) /\ OwnModules(k, f) = OwnModules(g, f)
                    /\ \A m : IsHome(g, f, m) => IsHome(k, f, m)
      BY <2>a
    <2> HIDE DEF k
    <2>2. h = k
      BY <1>9 DEF k
    <2>3. QED
      BY <2>1, <2>2
  <1>11. /\ \A n \in Nodes(h) : n \in Nodes(g) \/ \E f \in Parents(g) : n = FileNode(f)
         /\ Nodes(g) \subseteq Nodes(h) /\ h.edges = g.edges
    BY <1>5, <1>7, <1>9, <1>10 DEF Grown
  <1>12. ASSUME NEW f \in Parents(g) PROVE \E n \in InFile(h, f) : n.kind = "File"
    <2>1. CASE f \in Bare
      <3>1. FileNode(f) \in ToSet(u)
        BY <1>4, <2>1
      <3>2. FileNode(f).file = f /\ FileNode(f).kind = "File"
        BY DEF FileNode
      <3>3. QED
        BY <1>10, <3>1, <3>2 DEF InFile
    <2>2. CASE \E n \in InFile(g, f) : n.kind = "File"
      BY <1>10, <2>2 DEF InFile
    <2>3. QED
      BY <1>6, <2>1, <2>2
  <1>13. QED
    BY <1>10, <1>11, <1>12 DEF h

\* The modules AddModules makes: one for each directory of a file with
\* symbols and no module of its own, when none has its name.
LEMMA AddModulesIs ==
  ASSUME NEW g, IsGraph(g)
  PROVE  \E u : /\ AddModules(g) = Grown(g, u, {}) /\ New(g, u)
                /\ \A n \in ToSet(u) :
                     /\ n.kind = "Module" /\ n.span = "none"
                     /\ n.file \in Parents(g) /\ OwnModules(g, n.file) = {} /\ n.name = Dir[n.file]
                     /\ \A m \in Nodes(g) : m.kind = "Module" => m.name # n.name
                     /\ \A m \in ToSet(u) : m.name = n.name => m = n
                /\ \A f \in Parents(g) : OwnModules(g, f) = {} =>
                     \E n \in Nodes(g) \cup ToSet(u) : n.kind = "Module" /\ n.name = Dir[f]
  <1> DEFINE homeless == {f \in Parents(g) : OwnModules(g, f) = {}}
             taken == {n.name : n \in {x \in Nodes(g) : x.kind = "Module"}}
             new == {Dir[f] : f \in homeless} \ taken
             made == {ModuleNode(d, Representative(g, d)) : d \in new}
             u == SetToSeq(made)
  <1>1. AddModules(g) = AddNodes(g, u)
    BY DEF AddModules
  <1>2. \A d \in new : Representative(g, d) \in homeless /\ Dir[Representative(g, d)] = d
    <2>1. ASSUME NEW f \in homeless
          PROVE  Representative(g, Dir[f]) \in homeless /\ Dir[Representative(g, Dir[f])] = Dir[f]
      BY RepresentativeIs
    <2>2. QED
      BY <2>1
  <1>3. \A n \in Nodes(g) : n.kind = "Module" => n.name \in taken
    OBVIOUS
  <1>4. \A f \in homeless : Dir[f] \in new \/ \E n \in Nodes(g) : n.kind = "Module" /\ n.name = Dir[f]
    OBVIOUS
  <1>5. IsFiniteSet(made)
    <2>1. homeless \in SUBSET Files
      BY DEF Parents
    <2>2. IsFiniteSet(homeless)
      BY <2>1, FilesListed, FS_Subset
    <2> DEFINE dirs == [f \in homeless |-> Dir[f]]
    <2>3. IsFiniteSet({dirs[f] : f \in homeless})
      <3>1. dirs = [f \in homeless |-> dirs[f]]
        OBVIOUS
      <3> HIDE DEF dirs, homeless
      <3>2. QED
        BY <2>2, <3>1, ImageFinite
    <2>4. new \in SUBSET {dirs[f] : f \in homeless}
      OBVIOUS
    <2>5. IsFiniteSet(new)
      BY <2>3, <2>4, FS_Subset
    <2> DEFINE mods == [d \in new |-> ModuleNode(d, Representative(g, d))]
    <2>6. IsFiniteSet({mods[d] : d \in new})
      <3>1. mods = [d \in new |-> mods[d]]
        OBVIOUS
      <3> HIDE DEF mods, new
      <3>2. QED
        BY <2>5, <3>1, ImageFinite
    <2>7. made = {mods[d] : d \in new}
      OBVIOUS
    <2>8. QED
      BY <2>6, <2>7
  <1>6. \A n \in made : \E d \in new : n = ModuleNode(d, Representative(g, d))
    OBVIOUS
  <1>7. \A d \in new : ModuleNode(d, Representative(g, d)) \in made /\ d \notin taken
    OBVIOUS
  <1>8. homeless \subseteq Files /\ \A f : f \in homeless <=> f \in Parents(g) /\ OwnModules(g, f) = {}
    BY DEF Parents
  <1> HIDE DEF made, new, taken, homeless
  <1>9. Listing(u) /\ ToSet(u) = made
    BY <1>5, SetToSeqIs
  <1> HIDE DEF u
  <1>10. AddModules(g) = Grown(g, u, {})
    BY <1>1, AppendIsGrown
  <1>11. ASSUME NEW n \in ToSet(u)
         PROVE  /\ n.kind = "Module" /\ n.span = "none" /\ n.file \in homeless /\ n.name = Dir[n.file]
                /\ n.name \notin taken /\ n.name \in new
                /\ n = ModuleNode(n.name, Representative(g, n.name))
    <2>1. PICK d \in new : n = ModuleNode(d, Representative(g, d))
      BY <1>6, <1>9
    <2>2. n.kind = "Module" /\ n.span = "none" /\ n.name = d /\ n.file = Representative(g, d)
      BY <2>1 DEF ModuleNode
    <2>3. QED
      BY <1>2, <1>7, <2>1, <2>2
  <1>12. New(g, u)
    <2>1. \A n \in ToSet(u) : NodeOK(n)
      BY <1>8, <1>11 DEF NodeOK, Own, Synthetic
    <2>2. Nodes(g) \cap ToSet(u) = {}
      BY <1>3, <1>11
    <2>3. QED
      BY <1>9, <2>1, <2>2 DEF New
  <1>13. ASSUME NEW f \in Parents(g), OwnModules(g, f) = {}
         PROVE  \E n \in Nodes(g) \cup ToSet(u) : n.kind = "Module" /\ n.name = Dir[f]
    <2>1. CASE Dir[f] \in new
      <3>1. ModuleNode(Dir[f], Representative(g, Dir[f])) \in ToSet(u)
        BY <1>7, <1>9, <2>1
      <3>2. QED
        BY <3>1 DEF ModuleNode
    <2>2. QED
      BY <1>4, <1>8, <1>13, <2>1
  <1>14. \A m, n \in ToSet(u) : m.name = n.name => m = n
    <2>1. ASSUME NEW m \in ToSet(u), NEW n \in ToSet(u), m.name = n.name PROVE m = n
      <3>1. m = ModuleNode(m.name, Representative(g, m.name)) /\ n = ModuleNode(n.name, Representative(g, n.name))
        BY <1>11
      <3>2. QED
        BY <2>1, <3>1
    <2>2. QED
      BY <2>1
  <1>15. \A n \in ToSet(u) :
           /\ n.kind = "Module" /\ n.span = "none"
           /\ n.file \in Parents(g) /\ OwnModules(g, n.file) = {} /\ n.name = Dir[n.file]
           /\ \A m \in Nodes(g) : m.kind = "Module" => m.name # n.name
           /\ \A m \in ToSet(u) : m.name = n.name => m = n
    BY <1>3, <1>8, <1>11, <1>14
  <1>16. QED
    BY <1>10, <1>12, <1>13, <1>15

LEMMA AddModulesSound ==
  ASSUME NEW g, NEW t, Sound(g, t, {})
  PROVE  LET h == AddModules(g)
         IN  /\ Sound(h, t, {})
             /\ Nodes(g) \subseteq Nodes(h) /\ h.edges = g.edges
             /\ \A n \in Nodes(h) :
                  \/ n \in Nodes(g)
                  \/ n.kind = "Module" /\ n.span = "none" /\ n.file \in Parents(g) /\ n.name = Dir[n.file]
             /\ \A f : Children(h, f) = Children(g, f)
             /\ \A f, m : IsHome(g, f, m) => IsHome(h, f, m)
             /\ \A f \in Parents(g) : OwnModules(g, f) = {} =>
                  Named(h, f) # {} /\ \A m : IsFirst(h.nodes, Named(h, f), m) => IsHome(h, f, m)
  <1>1. PICK u : /\ AddModules(g) = Grown(g, u, {}) /\ New(g, u)
                 /\ \A n \in ToSet(u) :
                      /\ n.kind = "Module" /\ n.span = "none"
                      /\ n.file \in Parents(g) /\ OwnModules(g, n.file) = {} /\ n.name = Dir[n.file]
                      /\ \A m \in Nodes(g) : m.kind = "Module" => m.name # n.name
                      /\ \A m \in ToSet(u) : m.name = n.name => m = n
                 /\ \A f \in Parents(g) : OwnModules(g, f) = {} =>
                      \E n \in Nodes(g) \cup ToSet(u) : n.kind = "Module" /\ n.name = Dir[f]
    BY AddModulesIs DEF Sound
  <1>2. PICK h : h = Grown(g, u, {})
    OBVIOUS
  <1>3. IsGraph(g)
    BY DEF Sound
  <1>4. /\ IsGraph(h) /\ Nodes(h) = Nodes(g) \cup ToSet(u)
        /\ \A m, n : Earlier(g.nodes, m, n) => Earlier(h.nodes, m, n)
        /\ \A m \in Nodes(g), n \in ToSet(u) : Earlier(h.nodes, m, n)
    <2>1. \A e \in {} : EdgeOK(e, Nodes(g) \cup ToSet(u))
      OBVIOUS
    <2>2. New(g, u)
      BY <1>1
    <2>3. QED
      BY <1>2, <1>3, <2>1, <2>2, GrownIs
  <1>5. h.edges = g.edges
    BY <1>2 DEF Grown
  <1>6. ToSet(g.nodes) = Nodes(g) /\ ToSet(h.nodes) = Nodes(h)
    BY DEF Nodes
  <1>7. \A f : Children(h, f) = Children(g, f)
    BY <1>1, <1>4 DEF Children, InFile, Synthetic
  <1>8. \A f : OwnModules(h, f) = OwnModules(g, f) \cup {n \in ToSet(u) : n.file = f}
    BY <1>1, <1>4 DEF OwnModules, InFile
  <1>9. \A f : Named(h, f) = Named(g, f) \cup {n \in ToSet(u) : n.name = Dir[f]}
    BY <1>1, <1>4 DEF Named
  <1>10. \A f : OwnModules(g, f) # {} => OwnModules(h, f) = OwnModules(g, f)
    <2>1. \A f : OwnModules(g, f) # {} => {n \in ToSet(u) : n.file = f} = {}
      BY <1>1
    <2>2. QED
      BY <1>8, <2>1
  <1>11. \A f : Named(g, f) # {} => Named(h, f) = Named(g, f)
    BY <1>1, <1>9 DEF Named
  <1>12. \A f : Named(g, f) # {} /\ OwnModules(g, f) = {} => OwnModules(h, f) = {}
    BY <1>1, <1>8 DEF Named
  <1>13. ASSUME NEW f, NEW m, IsHome(g, f, m) PROVE IsHome(h, f, m)
    <2>1. CASE OwnModules(g, f) # {}
      <3>1. IsLast(g.nodes, OwnModules(g, f), m)
        BY <1>13, <2>1 DEF IsHome
      <3>2. OwnModules(g, f) \subseteq Nodes(g)
        BY DEF OwnModules, InFile
      <3>3. IsLast(h.nodes, OwnModules(g, f), m)
        BY <1>4, <1>6, <3>1, <3>2 DEF IsLast
      <3>4. QED
        BY <1>10, <2>1, <3>3 DEF IsHome
    <2>2. CASE OwnModules(g, f) = {}
      <3>1. IsFirst(g.nodes, Named(g, f), m)
        BY <1>13, <2>2 DEF IsHome
      <3>2. Named(g, f) # {} /\ Named(g, f) \subseteq Nodes(g)
        BY <3>1 DEF IsFirst, Named
      <3>3. IsFirst(h.nodes, Named(g, f), m)
        BY <1>4, <1>6, <3>1, <3>2 DEF IsFirst
      <3>4. QED
        BY <1>11, <1>12, <2>2, <3>2, <3>3 DEF IsHome
    <2>3. QED
      BY <2>1, <2>2
  <1>14. ASSUME NEW f \in Parents(g), OwnModules(g, f) = {}
         PROVE  Named(h, f) # {} /\ \A m : IsFirst(h.nodes, Named(h, f), m) => IsHome(h, f, m)
    <2>1. Named(h, f) # {}
      BY <1>1, <1>4, <1>14 DEF Named
    <2>2. ASSUME NEW m, IsFirst(h.nodes, Named(h, f), m) PROVE IsHome(h, f, m)
      <3>1. CASE OwnModules(h, f) = {}
        BY <2>2, <3>1 DEF IsHome
      <3>2. CASE OwnModules(h, f) # {}
        <4>1. PICK x \in ToSet(u) : x.file = f
          BY <1>8, <1>14, <3>2
        <4>2. x.name = Dir[f] /\ x.kind = "Module"
          BY <1>1, <4>1
        <4>3. Named(g, f) = {}
          BY <1>1, <4>1, <4>2 DEF Named
        <4>4. Named(h, f) = {x} /\ OwnModules(h, f) = {x}
          <5>1. \A y \in ToSet(u) : y.name = Dir[f] => y = x
            BY <1>1, <4>1, <4>2
          <5>2. \A y \in ToSet(u) : y.file = f => y.name = Dir[f]
            BY <1>1
          <5>3. QED
            BY <1>8, <1>9, <1>14, <4>1, <4>2, <4>3, <5>1, <5>2
        <4>5. IsLast(h.nodes, OwnModules(h, f), m)
          BY <2>2, <4>4 DEF IsFirst, IsLast
        <4>6. QED
          BY <3>2, <4>5 DEF IsHome
      <3>3. QED
        BY <3>1, <3>2
    <2>3. QED
      BY <2>1, <2>2
  <1>15. Sparse(h)
    <2>1. ASSUME NEW e \in h.edges PROVE Fits(h, e)
      <3>1. Fits(g, e)
        BY <1>5 DEF Sound, Sparse
      <3>2. \A f : InFile(g, f) \subseteq InFile(h, f)
        BY <1>4 DEF InFile
      <3>3. QED
        BY <1>7, <1>13, <3>1, <3>2 DEF Fits
    <2>2. \A n \in Nodes(h) : n.kind = "File" => n \in Nodes(g)
      BY <1>1, <1>4
    <2>3. QED
      BY <2>1, <2>2 DEF Sound, Sparse
  <1>16. SymbolsBut(h, t, {})
    <2>1. \A n \in ToSet(u) : ~Own(n)
      BY <1>1 DEF Own
    <2>2. QED
      BY <1>4, <2>1 DEF Sound, SymbolsBut
  <1>17. Sound(h, t, {})
    BY <1>4, <1>5, <1>15, <1>16 DEF Sound, GroundedBut
  <1>18. /\ Nodes(g) \subseteq Nodes(h)
         /\ \A n \in Nodes(h) :
              \/ n \in Nodes(g)
              \/ n.kind = "Module" /\ n.span = "none" /\ n.file \in Parents(g) /\ n.name = Dir[n.file]
    BY <1>1, <1>4
  <1>19. AddModules(g) = h
    BY <1>1, <1>2
  <1>20. QED
    BY <1>5, <1>7, <1>13, <1>14, <1>17, <1>18, <1>19

\* A node the structural pass makes.
Scope(F, n) ==
  /\ n.kind \in {"File", "Module"} /\ n.span = "none"
  /\ n.file \in F /\ n.name \in {n.file, Dir[n.file]}

LEMMA StructuralSound ==
  ASSUME NEW g0, NEW t, Sound(g0, t, {})
  PROVE  /\ Built(StructuralPass(g0), t, {})
         /\ \A n \in Nodes(StructuralPass(g0)) : n \in Nodes(g0) \/ Scope(Parents(g0), n)
         /\ Adds(g0, StructuralPass(g0), {"Contains", "BelongsTo"})
  <1>1. PICK k : k = AddFileNodes(g0)
    OBVIOUS
  <1>2. /\ Sound(k, t, {})
        /\ Nodes(g0) \subseteq Nodes(k) /\ k.edges = g0.edges
        /\ \A n \in Nodes(k) : n \in Nodes(g0) \/ \E f \in Parents(g0) : n = FileNode(f)
        /\ \A f \in Parents(g0) : \E n \in InFile(k, f) : n.kind = "File"
        /\ \A f : /\ Children(k, f) = Children(g0, f) /\ OwnModules(k, f) = OwnModules(g0, f)
                  /\ \A m : IsHome(g0, f, m) => IsHome(k, f, m)
    BY <1>1, AddFileNodesSound
  <1>3. PICK g : g = AddModules(k)
    OBVIOUS
  <1>4. /\ Sound(g, t, {})
        /\ Nodes(k) \subseteq Nodes(g) /\ g.edges = k.edges
        /\ \A n \in Nodes(g) :
             \/ n \in Nodes(k)
             \/ n.kind = "Module" /\ n.span = "none" /\ n.file \in Parents(k) /\ n.name = Dir[n.file]
        /\ \A f : Children(g, f) = Children(k, f)
        /\ \A f, m : IsHome(k, f, m) => IsHome(g, f, m)
        /\ \A f \in Parents(k) : OwnModules(k, f) = {} =>
             Named(g, f) # {} /\ \A m : IsFirst(g.nodes, Named(g, f), m) => IsHome(g, f, m)
    BY <1>2, <1>3, AddModulesSound
  <1> DEFINE FileOf(f) == CHOOSE n \in InFile(g, f) : n.kind = "File"
             home(f) == ModuleOf(g, g0, f)
             E == UNION {UNION {{Edge(FileOf(f), c, "Contains", f), Edge(c, home(f), "BelongsTo", f)} :
                                   c \in Children(g0, f)} : f \in Parents(g0)}
             h == AddEdges(g, E)
  <1>5. StructuralPass(g0) = h
    BY <1>1, <1>3 DEF StructuralPass
  <1>6. ASSUME NEW f \in Parents(g0)
        PROVE  /\ f \in Files /\ FileOf(f) \in InFile(g, f) /\ FileOf(f).kind = "File"
               /\ IsHome(g, f, home(f)) /\ home(f) \in Nodes(g)
    <2>1. f \in Files
      BY DEF Parents
    <2>2. FileOf(f) \in InFile(g, f) /\ FileOf(f).kind = "File"
      <3>1. \E n \in InFile(g, f) : n.kind = "File"
        BY <1>2, <1>4 DEF InFile
      <3>2. QED
        BY <3>1
    <2>3. IsHome(g, f, home(f))
      <3>1. CASE OwnModules(g0, f) # {}
        <4>1. home(f) = Latest(g0, OwnModules(g0, f))
          BY <3>1 DEF ModuleOf
        <4>2. Listing(g0.nodes) /\ Nodes(g0) \cap OwnModules(g0, f) # {}
          BY <3>1 DEF Sound, IsGraph, OwnModules, InFile
        <4>3. IsLast(g0.nodes, OwnModules(g0, f), home(f))
          BY <4>1, <4>2, FirstIs
        <4>4. IsHome(g0, f, home(f))
          BY <3>1, <4>3 DEF IsHome
        <4>5. QED
          BY <1>2, <1>4, <4>4
      <3>2. CASE OwnModules(g0, f) = {}
        <4>1. home(f) = First(g, Named(g, f))
          BY <3>2 DEF ModuleOf, Named
        <4>2. f \in Parents(k) /\ OwnModules(k, f) = {}
          BY <1>2, <3>2 DEF Parents
        <4>3. Listing(g.nodes) /\ Nodes(g) \cap Named(g, f) # {}
          BY <1>4, <4>2 DEF Sound, IsGraph, Named
        <4>4. IsFirst(g.nodes, Named(g, f), home(f))
          BY <4>1, <4>3, FirstIs
        <4>5. QED
          BY <1>4, <4>2, <4>4
      <3>3. QED
        BY <3>1, <3>2
    <2>4. home(f) \in Nodes(g)
      <3> HIDE DEF home
      <3>1. QED
        BY <2>3 DEF IsHome, IsLast, IsFirst, Nodes
    <2>5. QED
      BY <2>1, <2>2, <2>3, <2>4
  <1>7. \A f : Children(g, f) = Children(g0, f)
    BY <1>2, <1>4
  <1>8. \A f \in Files : Children(g, f) # {} => f \in Parents(g0)
    BY <1>7 DEF Parents
  <1> HIDE DEF FileOf, home
  <1>9. \A e \in E : \E f \in Parents(g0) : \E c \in Children(g, f) :
          e = Edge(FileOf(f), c, "Contains", f) \/ e = Edge(c, home(f), "BelongsTo", f)
    BY <1>7
  <1>10. \A f \in Parents(g0) : \A c \in Children(g, f) :
           Edge(FileOf(f), c, "Contains", f) \in E /\ Edge(c, home(f), "BelongsTo", f) \in E
    BY <1>7
  <1> HIDE DEF E
  <1>11. h = [nodes |-> h.nodes, edges |-> h.edges] /\ h.nodes = g.nodes /\ h.edges = g.edges \cup E
    <2>1. g = [nodes |-> g.nodes, edges |-> g.edges]
      BY <1>4 DEF Sound, IsGraph
    <2>2. PICK a, b : a = g.nodes /\ b = g.edges
      OBVIOUS
    <2>3. g = [nodes |-> a, edges |-> b]
      BY <2>1, <2>2
    <2>4. h = [nodes |-> a, edges |-> b \cup E]
      BY <2>3 DEF AddEdges
    <2>5. QED
      BY <2>2, <2>4
  <1> HIDE DEF h
  <1>12. Nodes(h) = Nodes(g)
    BY <1>11 DEF Nodes
  <1>13. \A f : Children(h, f) = Children(g, f) /\ OwnModules(h, f) = OwnModules(g, f)
                /\ InFile(h, f) = InFile(g, f) /\ Named(h, f) = Named(g, f)
    BY <1>12 DEF Children, OwnModules, InFile, Named
  <1>14. \A f, m : IsHome(h, f, m) <=> IsHome(g, f, m)
    BY <1>11, <1>13 DEF IsHome
  <1>15. ASSUME NEW e \in E
         PROVE  EdgeOK(e, Nodes(g)) /\ Fits(h, e) /\ Justified(t, e)
    <2>1. PICK f \in Parents(g0) : \E c \in Children(g, f) :
            e = Edge(FileOf(f), c, "Contains", f) \/ e = Edge(c, home(f), "BelongsTo", f)
      BY <1>9
    <2>1a. PICK c \in Children(g, f) :
            e = Edge(FileOf(f), c, "Contains", f) \/ e = Edge(c, home(f), "BelongsTo", f)
      BY <2>1
    <2>2. c \in Nodes(g) /\ FileOf(f) \in Nodes(g) /\ home(f) \in Nodes(g) /\ f \in Files
      BY <1>6 DEF Children, InFile
    <2>3. CASE e = Edge(FileOf(f), c, "Contains", f)
      <3>1. /\ e.from = FileOf(f) /\ e.to = c /\ e.kind = "Contains" /\ e.ev = f
            /\ EdgeOK(e, Nodes(g))
        BY <2>2, <2>3, EdgeIs
      <3>2. QED
        BY <1>6, <1>13, <2>2, <3>1 DEF Fits, Justified, References
    <2>4. CASE e = Edge(c, home(f), "BelongsTo", f)
      <3>1. /\ e.from = c /\ e.to = home(f) /\ e.kind = "BelongsTo" /\ e.ev = f
            /\ EdgeOK(e, Nodes(g))
        BY <2>2, <2>4, EdgeIs
      <3>2. QED
        BY <1>6, <1>13, <1>14, <2>2, <3>1 DEF Fits, Justified, References
    <2>5. QED
      BY <2>1a, <2>3, <2>4
  <1>16. IsGraph(h)
    BY <1>4, <1>11, <1>12, <1>15 DEF Sound, IsGraph
  <1>17. Sparse(h)
    <2>1. ASSUME NEW e \in h.edges PROVE Fits(h, e)
      <3>1. CASE e \in g.edges
        <4>1. Fits(g, e)
          BY <1>4, <3>1 DEF Sound, Sparse
        <4>2. QED
          BY <1>13, <1>14, <4>1 DEF Fits
      <3>2. QED
        BY <1>11, <1>15, <3>1
    <2>2. QED
      BY <1>4, <1>12, <2>1 DEF Sound, Sparse
  <1>18. SymbolsBut(h, t, {}) /\ GroundedBut(h, t, {})
    BY <1>4, <1>11, <1>12, <1>15 DEF Sound, SymbolsBut, GroundedBut
  <1>19. Complete(h)
    <2>1. ASSUME NEW f \in Files, NEW c \in Children(h, f) PROVE Placed(h, f, c)
      <3>1. f \in Parents(g0) /\ c \in Children(g, f)
        BY <1>8, <1>13
      <3>2. QED
        BY <1>6, <1>10, <1>11, <1>13, <1>14, <3>1, HomeHeld DEF Placed
    <2>2. QED
      BY <2>1 DEF Complete
  <1>20. ASSUME NEW n \in Nodes(h) PROVE n \in Nodes(g0) \/ Scope(Parents(g0), n)
    <2>1. CASE \E f \in Parents(g0) : n = FileNode(f)
      BY <2>1 DEF FileNode, Scope
    <2>2. CASE n.kind = "Module" /\ n.span = "none" /\ n.file \in Parents(k) /\ n.name = Dir[n.file]
      <3>1. Parents(k) = Parents(g0)
        BY <1>2 DEF Parents
      <3>2. QED
        BY <2>2, <3>1 DEF Scope
    <2>3. QED
      BY <1>2, <1>4, <1>12, <2>1, <2>2
  <1>21. \A e \in E : e.kind \in {"Contains", "BelongsTo"}
    BY <1>9, EdgeIs
  <1>22. Adds(g0, h, {"Contains", "BelongsTo"})
    BY <1>2, <1>4, <1>11, <1>12, <1>21 DEF Adds
  <1>23. QED
    BY <1>5, <1>16, <1>17, <1>18, <1>19, <1>20, <1>22 DEF Built, Sound

-----------------------------------------------------------------------------
(* The documentation layer.                                                *)

LEMMA BothAreGrown ==
  ASSUME NEW g, IsGraph(g), NEW u, NEW E
  PROVE  AddEdges(AddNodes(g, u), E) = Grown(g, u, E)
  <1>1. AddNodes(g, u) = [nodes |-> g.nodes \o u, edges |-> g.edges]
    BY AppendIsGrown DEF Grown
  <1>2. PICK a, b : a = g.nodes \o u /\ b = g.edges
    OBVIOUS
  <1>3. AddNodes(g, u) = [nodes |-> a, edges |-> b]
    BY <1>1, <1>2
  <1>4. AddEdges(AddNodes(g, u), E) = [nodes |-> a, edges |-> b \cup E]
    BY <1>3 DEF AddEdges
  <1>5. QED
    BY <1>2, <1>4 DEF Grown

LEMMA DefsHeld ==
  ASSUME NEW g, NEW t, Sound(g, t, {}), NEW f \in Files, NEW d \in ToSet(Defs(t, f))
  PROVE  DefNode(f, d) \in Nodes(g)
  <1>1. DefNode(f, d) \in DefNodes(t, Files \ {})
    BY DEF DefNodes
  <1>2. QED
    BY <1>1 DEF Sound, SymbolsBut

LEMMA DocumentsSound ==
  ASSUME NEW g, NEW t, TreeOK(t), Built(g, t, {}), \A n \in Nodes(g) : n.kind # "DocComment"
  PROVE  /\ Built(DocumentsPass(g, t), t, {})
         /\ \A n \in Nodes(DocumentsPass(g, t)) :
              n \in Nodes(g) \/ (n.kind = "DocComment" /\ n.span = "doc" /\ n.name \in SyntheticNames)
         /\ Adds(g, DocumentsPass(g, t), {"Documents"})
         /\ \A f \in Files : \A d \in Documented(t, f) : DocNode(f, d) \in Nodes(DocumentsPass(g, t))
  <1> DEFINE defs(f) == Within(Defs(t, f), Documented(t, f))
             part(f) == [j \in DOMAIN defs(f) |-> DocNode(f, defs(f)[j])]
             q == [i \in DOMAIN FileOrder |-> part(FileOrder[i])]
             n == Len(FileOrder)
             u == FlattenSeq(q)
             E == UNION {{Edge(DocNode(f, d), DefNode(f, d), "Documents", f) :
                            d \in Documented(t, f)} : f \in Files}
  <1>1. DocumentsPass(g, t) = AddEdges(AddNodes(g, u), E)
    BY DEF DocumentsPass
  <1>2. Sound(g, t, {}) /\ IsGraph(g) /\ Complete(g)
    BY DEF Built, Sound
  <1>3. \A f : Documented(t, f) \subseteq ToSet(Defs(t, f))
    BY DEF Documented
  <1>4. ASSUME NEW f \in Files
        PROVE  Listing(part(f)) /\ ToSet(part(f)) = {DocNode(f, d) : d \in Documented(t, f)}
    <2> DEFINE p == part(f)
               s == defs(f)
    <2>1. Listing(s) /\ ToSet(s) = Documented(t, f)
      <3>1. Listing(Defs(t, f))
        BY ContentIs
      <3>2. Listing(s) /\ ToSet(s) = ToSet(Defs(t, f)) \cap Documented(t, f)
        BY <3>1, WithinIs
      <3> HIDE DEF s
      <3>3. QED
        BY <1>3, <3>2
    <2>2. p = [i \in DOMAIN s |-> p[i]] /\ \A i \in DOMAIN s : p[i] = DocNode(f, s[i])
      OBVIOUS
    <2> HIDE DEF p, s
    <2>3. Len(s) \in Nat /\ DOMAIN s = 1..Len(s)
      BY <2>1 DEF Listing
    <2>4. \A i, j \in DOMAIN s : DocName[s[i].name] = DocName[s[j].name] => i = j
      <3>1. ASSUME NEW i \in DOMAIN s, NEW j \in DOMAIN s, DocName[s[i].name] = DocName[s[j].name] PROVE i = j
        <4>1. s[i] \in ToSet(Defs(t, f)) /\ s[j] \in ToSet(Defs(t, f))
          BY <1>3, <2>1 DEF ToSet
        <4>2. s[i] = s[j]
          BY <3>1, <4>1, ContentIs
        <4>3. QED
          BY <2>1, <4>2 DEF Listing, IsInjective
      <3>2. QED
        BY <3>1
    <2>5. IsInjective(p)
      <3>1. \A i \in DOMAIN s : p[i].name = DocName[s[i].name]
        BY <2>2 DEF DocNode
      <3>2. DOMAIN p = DOMAIN s
        BY <2>2
      <3>3. QED
        BY <2>4, <3>1, <3>2 DEF IsInjective
    <2>6. p = [i \in 1..Len(s) |-> p[i]]
      BY <2>2, <2>3
    <2>7. Listing(p) /\ ToSet(p) = {p[i] : i \in 1..Len(s)}
      BY <2>3, <2>5, <2>6, ListingIs
    <2>8. ToSet(p) = {DocNode(f, d) : d \in ToSet(s)}
      BY <2>2, <2>3, <2>7 DEF ToSet
    <2>9. QED
      BY <2>1, <2>7, <2>8 DEF p
  <1>5. q = [i \in 1..n |-> q[i]] /\ \A i \in 1..n : q[i] = part(FileOrder[i])
    BY FilesListed
  <1> HIDE DEF part, q, n
  <1>6. n \in Nat /\ \A i \in 1..n : FileOrder[i] \in Files
    BY FilesListed DEF n
  <1>7. \A i \in 1..n : /\ Listing(q[i])
                        /\ ToSet(q[i]) = {DocNode(FileOrder[i], d) : d \in Documented(t, FileOrder[i])}
    BY <1>4, <1>5, <1>6
  <1>8. \A i, j \in 1..n : i # j => ToSet(q[i]) \cap ToSet(q[j]) = {}
    <2>1. ASSUME NEW i \in 1..n, NEW j \in 1..n, i # j PROVE ToSet(q[i]) \cap ToSet(q[j]) = {}
      <3>1. FileOrder[i] # FileOrder[j]
        BY <2>1, FilesListed DEF n
      <3>2. \A x \in ToSet(q[i]) : x.file = FileOrder[i]
        BY <1>7 DEF DocNode
      <3>3. \A x \in ToSet(q[j]) : x.file = FileOrder[j]
        BY <1>7 DEF DocNode
      <3>4. QED
        BY <3>1, <3>2, <3>3
    <2>2. QED
      BY <2>1
  <1>9. Listing(u) /\ ToSet(u) = UNION {ToSet(q[i]) : i \in 1..n}
    BY <1>5, <1>6, <1>7, <1>8, FlattenIs
  <1> HIDE DEF u
  <1>10. \A f \in Files : \E i \in 1..n : FileOrder[i] = f
    BY FilesListed DEF n, ToSet
  <1>11. ASSUME NEW f \in Files, NEW d \in Documented(t, f) PROVE DocNode(f, d) \in ToSet(u)
    BY <1>7, <1>9, <1>10
  <1>12. ASSUME NEW x \in ToSet(u) PROVE x.kind = "DocComment" /\ x.span = "doc" /\ x.name \in SyntheticNames
    <2>1. PICK i \in 1..n : x \in ToSet(q[i])
      BY <1>9
    <2>2. PICK d \in Documented(t, FileOrder[i]) : x = DocNode(FileOrder[i], d)
      BY <1>7, <2>1
    <2>3. d.name \in DOMAIN DocName
      <3>1. t[FileOrder[i]] \in Contents[FileOrder[i]] /\ d \in ToSet(t[FileOrder[i]].defs)
        BY <1>3, <1>6 DEF TreeOK, Defs
      <3>2. QED
        BY <1>6, <3>1, DocNameAssumption
    <2>4. QED
      BY <2>2, <2>3 DEF DocNode, SyntheticNames
  <1>13. Minor(g, u)
    BY <1>9, <1>12 DEF Minor, New, NodeOK, Own, Synthetic
  <1>14. ASSUME NEW e \in E
         PROVE  /\ EdgeOK(e, Nodes(g) \cup ToSet(u)) /\ Justified(t, e)
                /\ e.kind \notin {"Contains", "BelongsTo"}
    <2>1. PICK f \in Files : \E d \in Documented(t, f) : e = Edge(DocNode(f, d), DefNode(f, d), "Documents", f)
      OBVIOUS
    <2>2. PICK d \in Documented(t, f) : e = Edge(DocNode(f, d), DefNode(f, d), "Documents", f)
      BY <2>1
    <2>3. DefNode(f, d) \in Nodes(g)
      BY <1>2, <1>3, DefsHeld
    <2>4. DocNode(f, d) \in ToSet(u)
      BY <1>11
    <2>5. QED
      BY <2>2, <2>3, <2>4, EdgeIs DEF Justified, References
  <1> HIDE DEF E
  <1> DEFINE h == Grown(g, u, E)
  <1>15. Sound(h, t, {}) /\ Complete(h) /\ Nodes(h) = Nodes(g) \cup ToSet(u)
    BY <1>2, <1>13, <1>14, MinorKeeps
  <1> HIDE DEF h
  <1>16. DocumentsPass(g, t) = h /\ h.edges = g.edges \cup E
    BY <1>1, <1>2, BothAreGrown DEF h, Grown
  <1>17. \A e \in E : e.kind = "Documents"
    BY EdgeIs DEF E
  <1>18. Adds(g, h, {"Documents"})
    BY <1>15, <1>16, <1>17 DEF Adds
  <1>19. QED
    BY <1>11, <1>12, <1>15, <1>16, <1>18 DEF Built

LEMMA MarkdownSound ==
  ASSUME NEW g, NEW t, Built(g, t, {}), \A n \in Nodes(g) : n.kind # "DocSection"
  PROVE  /\ Built(MarkdownPass(g), t, {})
         /\ \A n \in Nodes(MarkdownPass(g)) : n \in Nodes(g) \/ n = SectionNode
         /\ Adds(g, MarkdownPass(g), {"DescribedIn"})
  <1> DEFINE described == UNION {Unique(g, m) : m \in Section}
             u == <<SectionNode>>
             E == {Edge(n, SectionNode, "DescribedIn", Markdown) : n \in described}
  <1>1. MarkdownPass(g) = IF described = {} THEN g ELSE AddEdges(AddNodes(g, u), E)
    BY DEF MarkdownPass
  <1>2. described \subseteq Nodes(g)
    BY DEF Unique
  <1>3. Sound(g, t, {}) /\ IsGraph(g) /\ Complete(g)
    BY DEF Built, Sound
  <1>4. Listing(u) /\ ToSet(u) = {SectionNode}
    BY DEF Listing, ToSet, IsInjective
  <1> HIDE DEF described, u
  <1>5. SectionNode.kind = "DocSection" /\ SectionNode.span = "own"
    BY DEF SectionNode
  <1>6. Minor(g, u)
    BY <1>4, <1>5 DEF Minor, New, NodeOK, Own, Synthetic
  <1>7. \A e \in E : /\ EdgeOK(e, Nodes(g) \cup ToSet(u)) /\ Justified(t, e) /\ e.kind = "DescribedIn"
                     /\ e.kind \notin {"Contains", "BelongsTo"}
    BY <1>2, <1>4, EdgeIs DEF Justified, References
  <1> HIDE DEF E
  <1> DEFINE h == Grown(g, u, E)
  <1>8. Sound(h, t, {}) /\ Complete(h) /\ Nodes(h) = Nodes(g) \cup ToSet(u)
    BY <1>3, <1>6, <1>7, MinorKeeps
  <1>9. AddEdges(AddNodes(g, u), E) = h /\ h.edges = g.edges \cup E
    BY <1>3, BothAreGrown DEF Grown
  <1> HIDE DEF h
  <1>10. Adds(g, h, {"DescribedIn"}) /\ Adds(g, g, {"DescribedIn"})
    BY <1>7, <1>8, <1>9 DEF Adds
  <1>11. QED
    BY <1>1, <1>4, <1>8, <1>9, <1>10 DEF Built

-----------------------------------------------------------------------------
(* References.                                                             *)

\* What a reference is under is in the graph; where it is under nothing, its
\* file has no File node yet.
LEMMA EnclosingIs ==
  ASSUME NEW g, NEW t, TreeOK(t), Sound(g, t, {}), NEW f \in Files, NEW r \in Refs(t, f)
  PROVE  /\ Enclosing(g, t, f, r) \subseteq Nodes(g)
         /\ Enclosing(g, t, f, r) = {} => \A n \in InFile(g, f) : n.kind # "File"
  <1> DEFINE whole == {n \in InFile(g, f) : n.span = "whole"}
             flat == {n \in InFile(g, f) : n.span = "none"}
             docs == NearestDoc(g, t, f, r)
  <1>1. Enclosing(g, t, f, r) = IF whole # {} THEN whole
                                ELSE IF docs # {} THEN docs
                                ELSE IF r.at # 0 THEN {DefNode(f, Defs(t, f)[r.at])}
                                ELSE IF flat # {} THEN {Latest(g, flat)} ELSE {}
    BY DEF Enclosing, Defs
  <1>2. whole \subseteq Nodes(g) /\ flat \subseteq Nodes(g) /\ docs \subseteq Nodes(g)
    BY DEF InFile, NearestDoc
  <1>3. ASSUME r.at # 0 PROVE DefNode(f, Defs(t, f)[r.at]) \in Nodes(g)
    <2>1. r.at \in DOMAIN Defs(t, f)
      BY <1>3, ContentIs
    <2>2. Defs(t, f)[r.at] \in ToSet(Defs(t, f))
      BY <2>1 DEF ToSet
    <2>3. QED
      BY <2>2, DefsHeld
  <1>4. \A n \in InFile(g, f) : n.kind = "File" => n \in whole \/ n \in flat
    BY DEF Sound, IsGraph, NodeOK, InFile
  <1> HIDE DEF whole, flat, docs
  <1>5. ASSUME flat # {} PROVE Latest(g, flat) \in Nodes(g)
    <2>1. Listing(g.nodes) /\ Nodes(g) \cap flat # {}
      BY <1>2, <1>5 DEF Sound, IsGraph
    <2>2. IsLast(g.nodes, flat, Latest(g, flat))
      BY <2>1, FirstIs
    <2>3. QED
      BY <2>2 DEF IsLast, Nodes
  <1>6. Enclosing(g, t, f, r) \subseteq Nodes(g)
    BY <1>1, <1>2, <1>3, <1>5
  <1>7. Enclosing(g, t, f, r) = {} => whole = {} /\ flat = {}
    BY <1>1
  <1>8. QED
    BY <1>4, <1>6, <1>7

\* An edge of a reference carries its kind and name, or leads to a symbol
\* of the file it re-exports; at its ends may be a new barrel or stub.
LEMMA ReferenceEdgeIs ==
  ASSUME NEW g, NEW t, TreeOK(t), Sound(g, t, {}), NEW f \in Files, NEW r \in Refs(t, f),
         NEW e \in ReferenceEdges(g, t, f, r)
  PROVE  /\ e = Edge(e.from, e.to, e.kind, e.ev) /\ e.ev = f
         /\ Justified(t, e) /\ e.kind \in References
         /\ \/ e.from \in Nodes(g)
            \/ e.from = BarrelNode(f) /\ \A n \in InFile(g, f) : n.kind # "File"
         /\ e.to \in Nodes(g) \/ e.to = Stub(r.name)
  <1> DEFINE enc == Enclosing(g, t, f, r)
  <1>1. enc \subseteq Nodes(g) /\ (enc = {} => \A n \in InFile(g, f) : n.kind # "File")
    BY EnclosingIs
  <1>2. r.kind \in References \cup {"ReexportAll"}
    BY ContentIs
  <1> HIDE DEF enc
  <1>3. CASE r.kind = "ReexportAll"
    <2>1. e \in Reexports(g, t, f, r)
      BY <1>3 DEF ReferenceEdges
    <2> DEFINE public == UNION {Children(g, x) : x \in Target(t, r.from)}
               src == IF enc # {} THEN enc ELSE {BarrelNode(f)}
    <2>2. PICK s \in src : \E n \in public : e = Edge(s, n, "Imports", f)
      BY <2>1 DEF Reexports, enc
    <2>3. PICK n \in public : e = Edge(s, n, "Imports", f)
      BY <2>2
    <2>4. n \in Nodes(g) /\ n.file = r.from
      BY DEF Target, Children, InFile
    <2>5. s \in Nodes(g) \/ (s = BarrelNode(f) /\ \A x \in InFile(g, f) : x.kind # "File")
      BY <1>1
    <2>6. e.from = s /\ e.to = n /\ e.kind = "Imports" /\ e.ev = f /\ e = Edge(e.from, e.to, e.kind, e.ev)
      BY <2>3, EdgeIs
    <2>7. QED
      BY <1>3, <2>4, <2>5, <2>6 DEF Justified, References
  <1>4. CASE r.kind # "ReexportAll"
    <2>1. e \in Resolved(g, t, f, r) \/ (r.kind = "Imports" /\ e \in NamedImports(g, t, f, r))
      <3>1. CASE r.kind = "Imports"
        BY <3>1 DEF ReferenceEdges
      <3>2. CASE r.kind = "TypeOf"
        BY <3>2 DEF ReferenceEdges
      <3>3. CASE r.kind \notin {"Imports", "TypeOf"}
        BY <1>4, <3>3 DEF ReferenceEdges
      <3>4. QED
        BY <3>1, <3>2, <3>3
    <2>2. \E src \in enc, n \in Nodes(g) \cup {Stub(r.name)} : e = Edge(src, n, r.kind, f) /\ n.name = r.name
      <3>1. CASE e \in Resolved(g, t, f, r)
        <4>1. PICK src \in enc :
                e \in {Edge(src, n, r.kind, f) : n \in IF External(g, r) THEN {Stub(r.name)}
                                                       ELSE PickResolveTargets(g, t, f, src, r.name)}
          BY <3>1 DEF Resolved, enc
        <4>2. PICK n : /\ n \in {Stub(r.name)} \cup PickResolveTargets(g, t, f, src, r.name)
                       /\ e = Edge(src, n, r.kind, f)
          BY <4>1
        <4>3. PickResolveTargets(g, t, f, src, r.name) \subseteq Candidates(g, r.name)
          BY DEF PickResolveTargets
        <4>4. \A x \in Candidates(g, r.name) : x \in Nodes(g) /\ x.name = r.name
          BY DEF Candidates
        <4>5. Stub(r.name).name = r.name
          BY DEF Stub
        <4>6. QED
          BY <4>2, <4>3, <4>4, <4>5
      <3>2. CASE r.kind = "Imports" /\ e \in NamedImports(g, t, f, r)
        BY <3>2 DEF NamedImports, Candidates, enc
      <3>3. QED
        BY <2>1, <3>1, <3>2
    <2>3. PICK s \in enc : \E n \in Nodes(g) \cup {Stub(r.name)} : e = Edge(s, n, r.kind, f) /\ n.name = r.name
      BY <2>2
    <2>4. PICK n \in Nodes(g) \cup {Stub(r.name)} : e = Edge(s, n, r.kind, f) /\ n.name = r.name
      BY <2>3
    <2>5. e.from = s /\ e.to = n /\ e.kind = r.kind /\ e.ev = f /\ e = Edge(e.from, e.to, e.kind, e.ev)
      BY <2>4, EdgeIs
    <2>6. QED
      BY <1>1, <1>2, <1>4, <2>4, <2>5 DEF Justified
  <1>5. QED
    BY <1>3, <1>4

\* All edges that the references of the tree give.
AllReferenceEdges(g, t) == UNION {UNION {ReferenceEdges(g, t, f, r) : r \in Refs(t, f)} : f \in Files}

LEMMA ResolveSound ==
  ASSUME NEW g, NEW t, TreeOK(t), Built(g, t, {})
  PROVE  LET h == ResolveReferences(g, t)
         IN  /\ Built(h, t, {})
             /\ h.edges = g.edges \cup AllReferenceEdges(g, t) /\ Nodes(g) \subseteq Nodes(h)
             /\ \A n \in Nodes(h) :
                  \/ n \in Nodes(g)
                  \/ n.kind = "ExternalPackage" /\ n.file = NoFile
                  \/ \E f \in Files : n = BarrelNode(f) /\ \A m \in InFile(g, f) : m.kind # "File"
  <1> DEFINE E == AllReferenceEdges(g, t)
             new == {n \in {e.from : e \in E} \cup {e.to : e \in E} : n \notin Nodes(g)}
             u == SetToSeq(new)
             stubs(f) == {Stub(r.name) : r \in Refs(t, f)}
             Bare == {f \in Files : \A n \in InFile(g, f) : n.kind # "File"}
  <1>1. ResolveReferences(g, t) = AddEdges(AddNodes(g, u), E)
    BY DEF ResolveReferences, AllReferenceEdges
  <1>2. Sound(g, t, {}) /\ IsGraph(g) /\ Complete(g)
    BY DEF Built, Sound
  <1>3. ASSUME NEW e \in E
        PROVE  /\ e = Edge(e.from, e.to, e.kind, e.ev) /\ e.ev \in Files
               /\ Justified(t, e) /\ e.kind \in References
               /\ e.from \in Nodes(g) \/ \E f \in Bare : e.from = BarrelNode(f)
               /\ e.to \in Nodes(g) \/ \E f \in Files : e.to \in stubs(f)
    <2>1. PICK f \in Files : \E r \in Refs(t, f) : e \in ReferenceEdges(g, t, f, r)
      BY DEF AllReferenceEdges
    <2>2. PICK r \in Refs(t, f) : e \in ReferenceEdges(g, t, f, r)
      BY <2>1
    <2>3. /\ e = Edge(e.from, e.to, e.kind, e.ev) /\ e.ev = f
          /\ Justified(t, e) /\ e.kind \in References
          /\ \/ e.from \in Nodes(g)
             \/ e.from = BarrelNode(f) /\ \A n \in InFile(g, f) : n.kind # "File"
          /\ e.to \in Nodes(g) \/ e.to = Stub(r.name)
      BY <1>2, <2>2, ReferenceEdgeIs
    <2>4. QED
      BY <2>3
  <1>4. IsFiniteSet(UNION {stubs(f) : f \in Files})
    <2>1. ASSUME NEW f \in Files PROVE IsFiniteSet(stubs(f))
      <3> DEFINE F == [r \in Refs(t, f) |-> Stub(r.name)]
      <3>1. IsFiniteSet({F[r] : r \in Refs(t, f)})
        <4>1. F = [r \in Refs(t, f) |-> F[r]] /\ IsFiniteSet(Refs(t, f))
          BY ContentIs
        <4> HIDE DEF F
        <4>2. QED
          BY <4>1, ImageFinite
      <3>2. stubs(f) = {F[r] : r \in Refs(t, f)}
        OBVIOUS
      <3>3. QED
        BY <3>1, <3>2
    <2> DEFINE G == [f \in Files |-> stubs(f)]
    <2>2. IsFiniteSet({G[f] : f \in Files}) /\ {G[f] : f \in Files} = {stubs(f) : f \in Files}
      <3>1. G = [f \in Files |-> G[f]]
        OBVIOUS
      <3>2. {G[f] : f \in Files} = {stubs(f) : f \in Files}
        OBVIOUS
      <3> HIDE DEF G, stubs
      <3>3. IsFiniteSet({G[f] : f \in Files})
        BY <3>1, FilesListed, ImageFinite
      <3>4. QED
        BY <3>2, <3>3
    <2> HIDE DEF G, stubs
    <2>3. \A T \in {stubs(f) : f \in Files} : IsFiniteSet(T)
      BY <2>1
    <2>4. QED
      BY <2>2, <2>3, FS_UNION
  <1>5. IsFiniteSet({BarrelNode(f) : f \in Files})
    <2> DEFINE F == [f \in Files |-> BarrelNode(f)]
    <2>1. F = [f \in Files |-> F[f]] /\ {F[f] : f \in Files} = {BarrelNode(f) : f \in Files}
      OBVIOUS
    <2> HIDE DEF F
    <2>2. QED
      BY <2>1, FilesListed, ImageFinite
  <1>6. \A n \in new : n \notin Nodes(g) /\ \E e \in E : n = e.from \/ n = e.to
    OBVIOUS
  <1>7. \A e \in E : \A n \in {e.from, e.to} : n \notin Nodes(g) => n \in new
    OBVIOUS
  <1>8. \A f, n : n \in stubs(f) => n.kind = "ExternalPackage" /\ n.span = "none" /\ n.file = NoFile
    BY DEF Stub
  <1>9. \A f : BarrelNode(f).kind = "File" /\ BarrelNode(f).span = "whole" /\ BarrelNode(f).file = f
    BY DEF BarrelNode, FileNode
  <1>10. \A f \in Bare : /\ f \in Files /\ \A n \in Nodes(g) : n.kind = "File" => n.file # f
                         /\ \A n \in InFile(g, f) : n.kind # "File"
    BY DEF InFile
  <1> HIDE DEF E, new, stubs, Bare
  <1>11. \A n \in new : (\E f \in Bare : n = BarrelNode(f)) \/ (\E f \in Files : n \in stubs(f))
    BY <1>3, <1>6
  <1>12. IsFiniteSet(new)
    <2> DEFINE A == UNION {stubs(f) : f \in Files}
               B == {BarrelNode(f) : f \in Files}
    <2>1. new \subseteq A \cup B
      BY <1>10, <1>11
    <2> HIDE DEF A, B
    <2>2. IsFiniteSet(A \cup B)
      BY <1>4, <1>5, FS_Union DEF A, B
    <2>3. new \in SUBSET (A \cup B)
      BY <2>1
    <2>4. QED
      BY <2>2, <2>3, FS_Subset
  <1>13. Listing(u) /\ ToSet(u) = new
    BY <1>12, SetToSeqIs
  <1> HIDE DEF u
  <1>14. ASSUME NEW n \in new
         PROVE  \/ n.kind = "File" /\ n.span = "whole" /\ n.file \in Bare /\ n = BarrelNode(n.file)
                \/ n.kind = "ExternalPackage" /\ n.span = "none" /\ n.file = NoFile
    BY <1>8, <1>9, <1>11
  <1>15. Minor(g, u)
    <2>1. \A n \in new : NodeOK(n) /\ ~Own(n) /\ n.kind \in Synthetic \ {"Module"}
      BY <1>14 DEF NodeOK, Own, Synthetic
    <2>2. New(g, u)
      BY <1>6, <1>13, <2>1 DEF New
    <2>3. \A m \in Nodes(g), n \in new : m.kind = "File" /\ n.kind = "File" => m.file # n.file
      BY <1>10, <1>14
    <2>4. \A m, n \in new : m.kind = "File" /\ n.kind = "File" /\ m.file = n.file => m = n
      <3>1. ASSUME NEW m \in new, NEW n \in new, m.kind = "File", n.kind = "File", m.file = n.file PROVE m = n
        <4>1. m = BarrelNode(m.file) /\ n = BarrelNode(n.file)
          BY <1>14, <3>1
        <4>2. QED
          BY <3>1, <4>1
      <3>2. QED
        BY <3>1
    <2>5. QED
      BY <1>13, <2>1, <2>2, <2>3, <2>4 DEF Minor
  <1>16. \A e \in E : /\ EdgeOK(e, Nodes(g) \cup ToSet(u)) /\ Justified(t, e)
                      /\ e.kind \notin {"Contains", "BelongsTo"}
    BY <1>3, <1>7, <1>13 DEF EdgeOK, References
  <1> DEFINE h == Grown(g, u, E)
  <1>17. Sound(h, t, {}) /\ Complete(h) /\ Nodes(h) = Nodes(g) \cup new
    BY <1>2, <1>13, <1>15, <1>16, MinorKeeps
  <1>18. ResolveReferences(g, t) = h /\ h.edges = g.edges \cup E
    BY <1>1, <1>2, BothAreGrown DEF Grown
  <1> HIDE DEF h
  <1>19. ASSUME NEW n \in Nodes(h)
         PROVE  \/ n \in Nodes(g)
                \/ n.kind = "ExternalPackage" /\ n.file = NoFile
                \/ \E f \in Files : n = BarrelNode(f) /\ \A m \in InFile(g, f) : m.kind # "File"
    BY <1>10, <1>14, <1>17
  <1>20. QED
    BY <1>17, <1>18, <1>19 DEF Built, E

LEMMA TypesSound ==
  ASSUME NEW g, NEW t, Built(g, t, {})
  PROVE  /\ Built(ExtractTypeRelationships(g, t), t, {})
         /\ Nodes(ExtractTypeRelationships(g, t)) = Nodes(g)
         /\ Adds(g, ExtractTypeRelationships(g, t), {"TypeOf"})
  <1> DEFINE Used(f) == {r.name : r \in {x \in Refs(t, f) : x.kind = "TypeOf"}}
             types == {n.name : n \in {x \in Nodes(g) : x.kind = "Type"}}
             of(name) == {x \in Nodes(g) : x.kind = "Type" /\ x.name = name}
             E == UNION {{Edge(n, First(g, of(name)), "TypeOf", f) :
                            n \in {x \in InFile(g, f) : x.kind = "File"}, name \in Used(f) \cap types} : f \in Files}
  <1>1. ExtractTypeRelationships(g, t) = AddEdges(g, E)
    BY DEF ExtractTypeRelationships
  <1>2. Sound(g, t, {}) /\ Complete(g) /\ Listing(g.nodes)
    BY DEF Built, Sound, IsGraph
  <1>3. ASSUME NEW name \in types PROVE First(g, of(name)) \in Nodes(g) /\ First(g, of(name)).name = name
    <2>1. Nodes(g) \cap of(name) # {}
      BY <1>3
    <2>2. \A x \in of(name) : x \in Nodes(g) /\ x.name = name
      OBVIOUS
    <2> HIDE DEF of, types
    <2>3. IsFirst(g.nodes, of(name), First(g, of(name)))
      BY <1>2, <2>1, FirstIs
    <2>4. QED
      BY <2>2, <2>3 DEF IsFirst
  <1> HIDE DEF of
  <1>4. ASSUME NEW e \in E
        PROVE  /\ EdgeOK(e, Nodes(g)) /\ Justified(t, e) /\ e.kind = "TypeOf"
               /\ e.kind \notin {"Contains", "BelongsTo"}
    <2>1. PICK f \in Files : e \in {Edge(n, First(g, of(name)), "TypeOf", f) :
                            n \in {x \in InFile(g, f) : x.kind = "File"}, name \in Used(f) \cap types}
      OBVIOUS
    <2>2. PICK n \in Nodes(g), name \in Used(f) \cap types : e = Edge(n, First(g, of(name)), "TypeOf", f)
      BY <2>1 DEF InFile
    <2>3. PICK r \in Refs(t, f) : r.kind = "TypeOf" /\ r.name = name
      OBVIOUS
    <2>4. First(g, of(name)) \in Nodes(g) /\ First(g, of(name)).name = name
      BY <1>3
    <2>5. /\ e.from = n /\ e.to = First(g, of(name)) /\ e.kind = "TypeOf" /\ e.ev = f
          /\ EdgeOK(e, Nodes(g))
      BY <2>2, <2>4, EdgeIs
    <2>6. QED
      BY <2>3, <2>4, <2>5 DEF Justified
  <1> HIDE DEF E
  <1>5. Adds(g, ExtractTypeRelationships(g, t), {"TypeOf"})
    BY <1>1, <1>2, <1>4, EdgesOf DEF Sound, Adds
  <1>6. QED
    BY <1>1, <1>2, <1>4, <1>5, EdgesKeep DEF Built

-----------------------------------------------------------------------------
(* What the tree alone determines of a graph.                              *)

\* The file has a symbol that is no module.
HasSymbols(t, f) == \E d \in ToSet(Defs(t, f)) : d.kind # "Module"

\* A node is a symbol, or one of those the passes make: File nodes and modules
\* at files with symbols, barrels at files without, and what has other names.
Known(t, D, n) ==
  \/ Own(n) /\ n.kind \in Symbols
  \/ n.kind = "ExternalPackage" /\ n.file \notin Files
  \/ /\ n.name \in SyntheticNames
     /\ \/ n.kind = "DocComment" /\ n.span = "doc"
        \/ n.kind = "DocSection" /\ n.file \notin Files
        \/ n.kind \in {"File", "Module"} /\ n.span = "none" /\ (n.file \in Files \ D => HasSymbols(t, n.file))
        \/ n.kind = "File" /\ n.span = "whole" /\ (n.file \in Files \ D => ~HasSymbols(t, n.file))
Tidy(g, t, D) == \A n \in Nodes(g) : Known(t, D, n)

\* The symbols of the tree, those of a file, those of a name.
Symbol(t) == DefNodes(t, Files)

LEMMA SymbolIs ==
  ASSUME NEW t, TreeOK(t)
  PROVE  /\ \A n \in Symbol(t) : n.kind \in Symbols /\ n.span = "own" /\ n.file \in Files
         /\ \A f \in Files : HasSymbols(t, f) <=> \E n \in Symbol(t) : n.file = f /\ n.kind # "Module"
         /\ \A f \in Files : \A d \in ToSet(Defs(t, f)) : DefNode(f, d) \in Symbol(t)
  <1>1. ASSUME NEW f \in Files, NEW d \in ToSet(Defs(t, f))
        PROVE  /\ DefNode(f, d).kind = d.kind /\ d.kind \in Symbols
               /\ DefNode(f, d).span = "own" /\ DefNode(f, d).file = f
    BY ContentIs DEF DefNode
  <1>2. \A n : n \in Symbol(t) <=> \E f \in Files : \E d \in ToSet(Defs(t, f)) : n = DefNode(f, d)
    BY DEF Symbol, DefNodes
  <1>3. \A f \in Files : HasSymbols(t, f) <=> \E n \in Symbol(t) : n.file = f /\ n.kind # "Module"
    <2>1. ASSUME NEW f \in Files, HasSymbols(t, f) PROVE \E n \in Symbol(t) : n.file = f /\ n.kind # "Module"
      BY <1>1, <1>2, <2>1 DEF HasSymbols
    <2>2. ASSUME NEW f \in Files, NEW n \in Symbol(t), n.file = f, n.kind # "Module" PROVE HasSymbols(t, f)
      <3>1. PICK x \in Files : \E d \in ToSet(Defs(t, x)) : n = DefNode(x, d)
        BY <1>2
      <3>2. PICK d \in ToSet(Defs(t, x)) : n = DefNode(x, d)
        BY <3>1
      <3>3. x = f /\ d.kind # "Module"
        BY <1>1, <2>2, <3>2
      <3>4. QED
        BY <3>2, <3>3 DEF HasSymbols
    <2>3. QED
      BY <2>1, <2>2
  <1>4. QED
    BY <1>1, <1>2, <1>3

LEMMA TidyIs ==
  ASSUME NEW g, NEW t, TreeOK(t), Sound(g, t, {}), Tidy(g, t, {})
  PROVE  /\ \A n : n \in Nodes(g) /\ Own(n) <=> n \in Symbol(t)
         /\ \A f \in Files : Children(g, f) = {n \in Symbol(t) : n.file = f /\ n.kind # "Module"}
         /\ \A f \in Files : Children(g, f) # {} <=> HasSymbols(t, f)
         /\ \A name : name \notin SyntheticNames => Candidates(g, name) = {n \in Symbol(t) : n.name = name}
         /\ \A f \in Files : \A n \in InFile(g, f) :
              /\ n.span = "whole" => n.kind = "File" /\ ~HasSymbols(t, f)
              /\ n.span = "none" => n.kind \in {"File", "Module"} /\ HasSymbols(t, f)
  <1>1. \A n : n \in Nodes(g) /\ Own(n) <=> n \in Symbol(t)
    <2>1. {n \in Nodes(g) : Own(n) /\ n.file \notin {}} = DefNodes(t, Files \ {})
      BY DEF Sound, SymbolsBut
    <2>2. Files \ {} = Files
      OBVIOUS
    <2>3. QED
      BY <2>1, <2>2 DEF Symbol
  <1>2. \A n \in Nodes(g) : Known(t, {}, n)
    BY DEF Tidy
  <1>3. ASSUME NEW f \in Files PROVE Children(g, f) = {n \in Symbol(t) : n.file = f /\ n.kind # "Module"}
    <2>1. ASSUME NEW n \in Children(g, f) PROVE n \in Symbol(t) /\ n.file = f /\ n.kind # "Module"
      <3>1. n \in Nodes(g) /\ n.file = f /\ n.kind \notin Synthetic
        BY DEF Children, InFile
      <3>2. Own(n)
        BY <1>2, <3>1 DEF Known, Synthetic
      <3>3. QED
        BY <1>1, <3>1, <3>2 DEF Synthetic
    <2>2. ASSUME NEW n \in Symbol(t), n.file = f, n.kind # "Module" PROVE n \in Children(g, f)
      BY <1>1, <2>2, SymbolIs DEF Children, InFile, Synthetic, Symbols
    <2>3. QED
      BY <2>1, <2>2
  <1>4. \A f \in Files : Children(g, f) # {} <=> HasSymbols(t, f)
    BY <1>3, SymbolIs
  <1>5. ASSUME NEW name, name \notin SyntheticNames
        PROVE  Candidates(g, name) = {n \in Symbol(t) : n.name = name}
    <2>1. ASSUME NEW n \in Candidates(g, name) PROVE n \in Symbol(t) /\ n.name = name
      BY <1>1, <1>2, <1>5 DEF Candidates, Known
    <2>2. ASSUME NEW n \in Symbol(t), n.name = name PROVE n \in Candidates(g, name)
      BY <1>1, <2>2, SymbolIs DEF Candidates, Symbols
    <2>3. QED
      BY <2>1, <2>2
  <1>6. ASSUME NEW f \in Files, NEW n \in InFile(g, f)
        PROVE  /\ n.span = "whole" => n.kind = "File" /\ ~HasSymbols(t, f)
               /\ n.span = "none" => n.kind \in {"File", "Module"} /\ HasSymbols(t, f)
    <2>1. n \in Nodes(g) /\ n.file = f
      BY DEF InFile
    <2>2. QED
      BY <1>2, <2>1 DEF Known, Own
  <1>7. QED
    BY <1>1, <1>3, <1>4, <1>5, <1>6

\* A graph references are resolved in.
Ready(g, t) == TreeOK(t) /\ Built(g, t, {}) /\ Tidy(g, t, {})

\* Below a definition, or in a file with symbols, a reference is under what
\* the tree says; the barrel of a file without symbols is its own scope.
Barrel(g, f) == {n \in InFile(g, f) : n.span = "whole"}

\* A scope is no symbol, and where it is placed does not matter.
IsScope(n) == n.kind \in {"File", "Module"} /\ ~Own(n)

LEMMA EnclosingAre ==
  ASSUME NEW g, NEW t, Ready(g, t), NEW f \in Files, NEW r \in Refs(t, f)
  PROVE  LET d == DefNode(f, Defs(t, f)[r.at])
             docs == NearestDoc(g, t, f, r)
         IN  /\ Barrel(g, f) # {} => ~HasSymbols(t, f) /\ Enclosing(g, t, f, r) # {} /\ \A n \in Enclosing(g, t, f, r) : IsScope(n)
             /\ r.doc = 0 => docs = {}
             /\ \A n \in docs : n.kind = "DocComment"
             /\ r.doc # 0 => HasSymbols(t, f)
             /\ Barrel(g, f) = {} /\ docs # {} => Enclosing(g, t, f, r) = docs
             /\ Barrel(g, f) = {} /\ docs = {} /\ r.at # 0 => Enclosing(g, t, f, r) = {d}
             /\ r.at # 0 => d \in Symbol(t) /\ (HasSymbols(t, f) \/ d.kind = "Module")
             /\ docs = {} /\ r.at = 0 /\ HasSymbols(t, f) => \E n : IsScope(n) /\ Enclosing(g, t, f, r) = {n}
             /\ Barrel(g, f) = {} /\ r.at = 0 /\ ~HasSymbols(t, f) => Enclosing(g, t, f, r) = {}
  <1> DEFINE d == DefNode(f, Defs(t, f)[r.at])
             docs == NearestDoc(g, t, f, r)
             flat == {n \in InFile(g, f) : n.span = "none"}
  <1>1. Enclosing(g, t, f, r) = IF Barrel(g, f) # {} THEN Barrel(g, f)
                                ELSE IF docs # {} THEN docs
                                ELSE IF r.at # 0 THEN {d}
                                ELSE IF flat # {} THEN {Latest(g, flat)} ELSE {}
    BY DEF Enclosing, Defs, Barrel
  <1>2. TreeOK(t) /\ Sound(g, t, {}) /\ Tidy(g, t, {}) /\ Complete(g) /\ Listing(g.nodes)
    BY DEF Ready, Built, Sound, IsGraph
  <1>3. \A n \in Barrel(g, f) : IsScope(n) /\ ~HasSymbols(t, f)
    <2>1. \A n \in Barrel(g, f) : n \in InFile(g, f) /\ n.span = "whole"
      BY DEF Barrel
    <2>2. QED
      BY <1>2, <2>1, TidyIs DEF IsScope, Own
  <1>4. \A n \in flat : n \in Nodes(g) /\ IsScope(n) /\ HasSymbols(t, f)
    <2>1. \A n \in flat : n \in InFile(g, f) /\ n.span = "none" /\ n \in Nodes(g)
      BY DEF InFile
    <2>2. QED
      BY <1>2, <2>1, TidyIs DEF IsScope, Own
  <1>5. ASSUME r.at # 0 PROVE d \in Symbol(t) /\ (HasSymbols(t, f) \/ d.kind = "Module")
    <2>1. Defs(t, f)[r.at] \in ToSet(Defs(t, f))
      <3>1. r.at \in DOMAIN Defs(t, f)
        BY <1>2, <1>5, ContentIs
      <3>2. QED
        BY <3>1 DEF ToSet
    <2>2. d \in Symbol(t) /\ d.file = f
      BY <1>2, <2>1, SymbolIs DEF DefNode
    <2>3. d.kind # "Module" => HasSymbols(t, f)
      BY <1>2, <2>2, SymbolIs
    <2>4. QED
      BY <2>2, <2>3
  <1>6. HasSymbols(t, f) => flat # {}
    <2>1. ASSUME HasSymbols(t, f) PROVE flat # {}
      <3>1. PICK c \in Children(g, f) : Placed(g, f, c)
        BY <1>2, <2>1, TidyIs DEF Complete
      <3>2. PICK n \in InFile(g, f) : n.kind = "File"
        BY <3>1 DEF Placed
      <3>3. n.span \in {"none", "whole"}
        BY <1>2, <3>2 DEF Sound, IsGraph, NodeOK, InFile
      <3>4. n \notin Barrel(g, f)
        BY <1>3, <2>1
      <3>5. QED
        BY <3>3, <3>4 DEF Barrel
    <2>2. QED
      BY <2>1
  <1>9. /\ r.doc = 0 => docs = {}
        /\ \A n \in docs : n.kind = "DocComment"
    BY DEF NearestDoc, DocNode
  <1>10. ASSUME r.doc # 0 PROVE HasSymbols(t, f)
    <2>1. r.doc \in DOMAIN Defs(t, f) /\ Defs(t, f)[r.doc].kind # "Module"
      BY <1>2, <1>10, ContentIs
    <2>2. Defs(t, f)[r.doc] \in ToSet(Defs(t, f))
      BY <2>1 DEF ToSet
    <2>3. QED
      BY <2>1, <2>2 DEF HasSymbols
  <1> HIDE DEF flat, d, docs
  <1>7. flat # {} => IsScope(Latest(g, flat))
    <2>1. flat # {} => Nodes(g) \cap flat # {}
      BY <1>4
    <2>2. flat # {} => IsLast(g.nodes, flat, Latest(g, flat))
      BY <1>2, <2>1, FirstIs
    <2>3. QED
      BY <1>4, <2>2 DEF IsLast
  <1>8. flat # {} => HasSymbols(t, f)
    BY <1>4
  <1>11. QED
    BY <1>1, <1>3, <1>5, <1>6, <1>7, <1>8, <1>9, <1>10 DEF d, docs

-----------------------------------------------------------------------------
(* Matches, references and inheritance, as two graphs of a tree have them. *)

\* What a name resolves to depends on its candidates only.
LEMMA PickAlike ==
  ASSUME NEW g, NEW h, NEW t, NEW f, NEW src, NEW s, NEW name,
         Candidates(g, name) \ {src} = Candidates(h, name) \ {s}
  PROVE  PickResolveTargets(g, t, f, src, name) = PickResolveTargets(h, t, f, s, name)
  <1>1. PICK others : others = Candidates(g, name) \ {src} /\ others = Candidates(h, name) \ {s}
    OBVIOUS
  <1> DEFINE same == {n \in others : n.file = f}
             near == {n \in others : n.file \in Files /\ Dir[n.file] = Dir[f]}
             qualified == {n \in others : n.qual}
             imported == {n \in others : n.file \in ImportTargets(t, f, name)}
             pick == IF same # {} THEN same
                     ELSE IF Cardinality(near) = 1 THEN near
                     ELSE IF Cardinality(qualified) = 1 THEN qualified
                     ELSE IF imported # {} THEN imported
                     ELSE IF Cardinality(others) = 1 THEN others ELSE {}
  <1>2. PickResolveTargets(g, t, f, src, name) = pick
    BY <1>1, Zenon DEF PickResolveTargets
  <1>3. PickResolveTargets(h, t, f, s, name) = pick
    BY <1>1, Zenon DEF PickResolveTargets
  <1>4. QED
    BY <1>2, <1>3

\* Two graphs of one tree resolve a reference alike, unless a barrel encloses
\* it in the first, or it is volatile: the candidates are symbols, which the
\* tree determines, and what it is under has the same role.
LEMMA ResolvedAlike ==
  ASSUME NEW g, NEW h, NEW t, Ready(g, t), Ready(h, t),
         NEW f \in Files, NEW r \in Refs(t, f), Barrel(g, f) = {},
         NEW e \in ReferenceEdges(g, t, f, r), ~Volatile(t, e)
  PROVE  \E x \in ReferenceEdges(h, t, f, r) : x.kind = e.kind /\ Likeness(t, x) = Likeness(t, e)
  <1> DEFINE d == DefNode(f, Defs(t, f)[r.at])
             A == Enclosing(g, t, f, r)
             B == Enclosing(h, t, f, r)
             \* What a reference right after a doc comment may be under, in one graph or
             \* the other: none of it is a candidate for its name.
             Near(n) == /\ n.kind # "ExternalPackage"
                        /\ n \in Symbol(t) => r.at # 0 /\ n = d
  <1>1. TreeOK(t) /\ Sound(g, t, {}) /\ Tidy(g, t, {}) /\ Sound(h, t, {}) /\ Tidy(h, t, {})
    BY DEF Ready, Built
  <1>2. /\ e = Edge(e.from, e.to, e.kind, e.ev) /\ e.ev = f /\ e.kind \in References
        /\ r.kind \in References \cup {"ReexportAll"}
    BY <1>1, ReferenceEdgeIs, ContentIs
  <1>3. /\ e.to.name \notin SyntheticNames /\ ~(e.from.kind = "Module" /\ e.from.name = e.to.name)
        /\ r.doc # 0 /\ r.kind = e.kind /\ r.name = e.to.name =>
             AfterDoc(t, e) # {} /\ (r.at # 0 => Defs(t, f)[r.at].name # r.name)
    <2>1. ReferenceKind(e) = e.kind
      BY <1>2 DEF ReferenceKind, References
    <2>2. AfterDoc(t, e) = {q \in Refs(t, f) : q.doc # 0 /\ q.kind = e.kind /\ q.name = e.to.name}
      BY <1>2, <2>1 DEF AfterDoc
    <2>3. QED
      BY <1>2, <2>2 DEF Volatile
  <1>4. /\ Barrel(h, f) # {} => ~HasSymbols(t, f) /\ B # {} /\ \A n \in B : IsScope(n)
        /\ r.at # 0 => d \in Symbol(t) /\ (HasSymbols(t, f) \/ d.kind = "Module")
        /\ r.doc = 0 => /\ r.at # 0 => A = {d}
                        /\ Barrel(h, f) = {} /\ r.at # 0 => B = {d}
                        /\ r.at = 0 /\ HasSymbols(t, f) => (\E n : IsScope(n) /\ A = {n}) /\ (\E n : IsScope(n) /\ B = {n})
                        /\ r.at = 0 /\ ~HasSymbols(t, f) => A = {}
                        /\ Barrel(h, f) = {} /\ r.at = 0 /\ ~HasSymbols(t, f) => B = {}
    BY EnclosingAre
  \* After a doc comment it is under the comment, or the definition, or the file.
  <1>d. ASSUME NEW q, Ready(q, t), r.doc # 0, Barrel(q, f) = {}
        PROVE  /\ Enclosing(q, t, f, r) # {}
               /\ \A n \in Enclosing(q, t, f, r) : n.kind = "DocComment" \/ (r.at # 0 /\ n = d) \/ IsScope(n)
    <2>1. CASE NearestDoc(q, t, f, r) # {}
      BY <1>d, <2>1, EnclosingAre
    <2>2. CASE NearestDoc(q, t, f, r) = {} /\ r.at # 0
      BY <1>d, <2>2, EnclosingAre
    <2>3. CASE NearestDoc(q, t, f, r) = {} /\ r.at = 0
      BY <1>d, <2>3, EnclosingAre
    <2>4. QED
      BY <2>1, <2>2, <2>3
  <1>e. r.doc # 0 => Barrel(h, f) = {}
    BY EnclosingAre
  <1>f. \A n \in Symbol(t) : n.kind \in Symbols /\ Own(n)
    <2>1. \A n \in Symbol(t) : Own(n) /\ n.kind \in Symbols
      BY <1>1, TidyIs, SymbolIs
    <2>2. QED
      BY <2>1
  <1> DEFINE Alike(src, s) == \/ s = src \/ (IsScope(s) /\ src.kind \in {"File", "Module"})
                              \/ r.doc # 0 /\ Near(src) /\ Near(s)
  <1>g. r.doc # 0 => A # {} /\ B # {} /\ \A n \in A \cup B : Near(n)
    <2>1. ASSUME r.doc # 0, NEW n, n.kind = "DocComment" \/ (r.at # 0 /\ n = d) \/ IsScope(n)
          PROVE  Near(n)
      <3>1. CASE n.kind = "DocComment" \/ IsScope(n)
        BY <1>f, <3>1 DEF IsScope, Symbols
      <3>2. CASE r.at # 0 /\ n = d
        <4>1. d \in Symbol(t)
          BY <1>4, <3>2
        <4>2. QED
          BY <1>f, <3>2, <4>1 DEF Symbols
      <3>3. QED
        BY <2>1, <3>1, <3>2
    <2>2. QED
      BY <1>d, <1>e, <2>1
  <1> HIDE DEF A, B, d, Near
  <1>5. \A src \in A : \E s \in B : Alike(src, s)
    <2>1. CASE r.doc = 0
      BY <1>4, <2>1 DEF IsScope
    <2>2. CASE r.doc # 0
      BY <1>g, <2>2
    <2>3. QED
      BY <2>1, <2>2
  <1>6. A = {} => \E s \in IF B # {} THEN B ELSE {BarrelNode(f)} : IsScope(s)
    <2>1. IsScope(BarrelNode(f))
      BY DEF BarrelNode, FileNode, IsScope, Own
    <2>2. A = {} => B = {} \/ \A n \in B : IsScope(n)
      <3>1. CASE r.doc = 0
        BY <1>4, <3>1
      <3>2. CASE r.doc # 0
        BY <1>g, <3>2
      <3>3. QED
        BY <3>1, <3>2
    <2>3. QED
      BY <2>1, <2>2
  <1>7. /\ \A n : n \in Symbol(t) => Own(n) /\ n.kind \in Symbols
        /\ \A n : n \in Symbol(t) => n.kind # "File"
    <2>1. \A n \in Symbol(t) : n \in Nodes(g) /\ Own(n) /\ n.kind \in Symbols
      BY <1>1, TidyIs, SymbolIs
    <2>2. QED
      BY <2>1 DEF Symbols
  \* The edge from s is like the one from src.
  <1>8. ASSUME NEW src, NEW s, NEW n, NEW k, Alike(src, s), e = Edge(src, n, k, f), src # n,
               n \in Symbol(t) \/ n.kind = "ExternalPackage",
               r.doc # 0 => k = r.kind /\ n.name = r.name
        PROVE  LET x == Edge(s, n, k, f)
               IN  x.from # x.to /\ x.kind = e.kind /\ Likeness(t, x) = Likeness(t, e)
    <2>1. /\ Edge(s, n, k, f).from = s /\ Edge(s, n, k, f).to = n
          /\ Edge(s, n, k, f).kind = k /\ Edge(s, n, k, f).ev = f
          /\ e.from = src /\ e.to = n /\ e.kind = k /\ e.ev = f
      BY <1>8, EdgeIs
    <2>2. PICK x : x = Edge(s, n, k, f)
      OBVIOUS
    <2>3. AfterDoc(t, x) = AfterDoc(t, e)
      BY <2>1, <2>2 DEF AfterDoc, ReferenceKind
    <2>4. s # n
      <3>1. CASE s = src
        BY <1>8, <3>1
      <3>2. CASE IsScope(s)
        BY <1>7, <1>8, <3>2 DEF IsScope
      <3>3. CASE r.doc # 0 /\ Near(s)
        <4>1. r.at # 0 => d.name # n.name
          BY <1>3, <1>8, <2>1, <3>3 DEF d, DefNode
        <4>2. QED
          BY <1>8, <3>3, <4>1 DEF Near
      <3>4. QED
        BY <1>8, <3>1, <3>2, <3>3
    <2>5. Ends(t, x) = Ends(t, e)
      <3>1. CASE r.doc # 0
        <4>1. AfterDoc(t, e) # {}
          BY <1>3, <1>8, <2>1, <3>1
        <4>2. QED
          BY <2>1, <2>2, <2>3, <4>1 DEF Ends
      <3>2. CASE r.doc = 0
        <4>1. Role(s) = Role(src)
          BY <1>8, <3>2 DEF Role, IsScope
        <4>2. QED
          BY <2>1, <2>2, <2>3, <4>1 DEF Ends
      <3>3. QED
        BY <3>1, <3>2
    <2>6. QED
      BY <2>1, <2>2, <2>4, <2>5 DEF Likeness
  <1> HIDE DEF Alike
  <1>9. e.from # e.to
    BY DEF ReferenceEdges
  <1>10. CASE r.kind = "ReexportAll"
    <2> DEFINE public(q) == UNION {Children(q, x) : x \in Target(t, r.from)}
               srcs(X) == IF X # {} THEN X ELSE {BarrelNode(f)}
    <2>1. public(h) = public(g) /\ public(g) \subseteq Symbol(t)
      <3>1. \A x \in Target(t, r.from) : Children(h, x) = Children(g, x) /\ Children(g, x) \subseteq Symbol(t)
        <4>1. \A x \in Target(t, r.from) : x \in Files
          BY DEF Target, Present
        <4>2. \A x \in Files : /\ Children(g, x) = {n \in Symbol(t) : n.file = x /\ n.kind # "Module"}
                               /\ Children(h, x) = {n \in Symbol(t) : n.file = x /\ n.kind # "Module"}
          BY <1>1, TidyIs
        <4>3. QED
          BY <4>1, <4>2
      <3>2. QED
        BY <3>1
    <2>2. e \in Reexports(g, t, f, r)
      BY <1>10 DEF ReferenceEdges
    <2>3. PICK src \in srcs(A) : \E n \in public(g) : e = Edge(src, n, "Imports", f)
      BY <2>2 DEF Reexports, A
    <2> HIDE DEF public
    <2>4. PICK n \in public(g) : e = Edge(src, n, "Imports", f)
      BY <2>3
    <2>5. \E s \in srcs(B) : Alike(src, s)
      <3>1. CASE A # {}
        BY <1>5, <3>1
      <3>2. CASE A = {}
        <4>1. src.kind = "File"
          BY <3>2 DEF BarrelNode, FileNode
        <4>2. QED
          BY <1>6, <3>2, <4>1 DEF Alike
      <3>3. QED
        BY <3>1, <3>2
    <2>6. PICK s \in srcs(B) : Alike(src, s)
      BY <2>5
    <2>7. src # n
      BY <1>9, <2>4, EdgeIs
    <2>a. r.doc = 0
      BY <1>1, <1>10, ContentIs
    <2>8. PICK x : x = Edge(s, n, "Imports", f) /\ x.from # x.to /\ x.kind = e.kind /\ Likeness(t, x) = Likeness(t, e)
      BY <1>8, <2>1, <2>4, <2>6, <2>7, <2>a
    <2>9. x \in Reexports(h, t, f, r)
      <3>1. n \in public(h)
        BY <2>1
      <3>2. QED
        BY <2>6, <2>8, <3>1 DEF Reexports, public, B
    <2>10. x \in ReferenceEdges(h, t, f, r)
      BY <1>10, <2>8, <2>9 DEF ReferenceEdges
    <2>11. QED
      BY <2>8, <2>10
  <1>11. CASE r.kind # "ReexportAll"
    <2> DEFINE to(q, src) == IF External(q, r) THEN {Stub(r.name)} ELSE PickResolveTargets(q, t, f, src, r.name)
               named(q) == {x \in Candidates(q, r.name) : x.file \in Target(t, r.from)}
    <2>1. /\ e \in Resolved(g, t, f, r) \/ (r.kind = "Imports" /\ e \in NamedImports(g, t, f, r))
          /\ \A x : x \in Resolved(h, t, f, r) /\ x.from # x.to => x \in ReferenceEdges(h, t, f, r)
          /\ \A x : r.kind = "Imports" /\ x \in NamedImports(h, t, f, r) /\ x.from # x.to => x \in ReferenceEdges(h, t, f, r)
      <3>1. CASE r.kind = "Imports"
        BY <3>1 DEF ReferenceEdges
      <3>2. CASE r.kind = "TypeOf"
        BY <3>2 DEF ReferenceEdges
      <3>3. CASE r.kind \notin {"Imports", "TypeOf"}
        BY <1>11, <3>3 DEF ReferenceEdges
      <3>4. QED
        BY <3>1, <3>2, <3>3
    <2>2. \A src : PickResolveTargets(g, t, f, src, r.name) \subseteq Candidates(g, r.name)
      BY DEF PickResolveTargets
    <2>3. /\ \A x \in Candidates(g, r.name) : x.name = r.name
          /\ Stub(r.name).name = r.name /\ Stub(r.name).kind = "ExternalPackage"
      BY DEF Candidates, Stub
    <2>4. PICK src \in A : \E n : /\ e = Edge(src, n, r.kind, f)
                                  /\ \/ e \in Resolved(g, t, f, r) /\ n \in to(g, src)
                                     \/ r.kind = "Imports" /\ n \in named(g)
      <3>1. CASE e \in Resolved(g, t, f, r)
        BY <3>1 DEF Resolved, A
      <3>2. CASE r.kind = "Imports" /\ e \in NamedImports(g, t, f, r)
        BY <3>2 DEF NamedImports, A
      <3>3. QED
        BY <2>1, <3>1, <3>2
    <2>5. PICK n : /\ e = Edge(src, n, r.kind, f)
                   /\ n \in to(g, src) \/ (r.kind = "Imports" /\ n \in named(g))
      BY <2>4
    <2>6. e.from = src /\ e.to = n
      BY <2>5, EdgeIs
    <2>7. n.name = r.name /\ (n = Stub(r.name) \/ n \in Candidates(g, r.name))
      BY <2>2, <2>3, <2>5
    <2>b. r.name \notin SyntheticNames
      BY <1>3, <2>6, <2>7
    <2>c. Candidates(g, r.name) = {x \in Symbol(t) : x.name = r.name}
      BY <1>1, <2>b, TidyIs
    <2>d. Candidates(h, r.name) = {x \in Symbol(t) : x.name = r.name}
      BY <1>1, <2>b, TidyIs
    <2>8. PICK C : /\ C = Candidates(g, r.name) /\ C = Candidates(h, r.name)
                   /\ C = {x \in Symbol(t) : x.name = r.name}
      BY <2>c, <2>d
    <2>9. PICK s \in B : Alike(src, s)
      BY <1>5
    <2>10. C \ {src} = C \ {s}
      <3>1. CASE s = src
        BY <3>1
      <3>2. CASE IsScope(s) /\ src.kind \in {"File", "Module"}
        <4>1. s \notin C
          BY <1>7, <2>8, <3>2 DEF IsScope
        <4>2. src \notin C
          BY <1>3, <1>7, <2>6, <2>7, <2>8, <3>2
        <4>3. QED
          BY <4>1, <4>2
      <3>3. CASE r.doc # 0 /\ Near(src) /\ Near(s)
        <4>1. r.at # 0 => d \notin C
          <5>1. r.kind = e.kind /\ r.name = e.to.name
            BY <2>5, <2>6, <2>7, EdgeIs
          <5>2. r.at # 0 => d.name # r.name
            BY <1>3, <3>3, <5>1 DEF d, DefNode
          <5>3. QED
            BY <2>8, <5>2
        <4>2. src \notin C /\ s \notin C
          BY <2>8, <3>3, <4>1 DEF Near
        <4>3. QED
          BY <4>2
      <3>4. QED
        BY <2>9, <3>1, <3>2, <3>3 DEF Alike
    <2>11. External(h, r) <=> External(g, r)
      BY <2>8 DEF External
    <2>12. PickResolveTargets(g, t, f, src, r.name) = PickResolveTargets(h, t, f, s, r.name)
      <3>1. Candidates(g, r.name) \ {src} = Candidates(h, r.name) \ {s}
        BY <2>8, <2>10
      <3>2. QED
        BY <3>1, PickAlike
    <2>13. to(h, s) = to(g, src) /\ named(h) = named(g)
      BY <2>8, <2>11, <2>12
    <2>14. n \in Symbol(t) \/ n.kind = "ExternalPackage"
      BY <2>3, <2>7, <2>8
    <2>15. PICK x : x = Edge(s, n, r.kind, f) /\ x.from # x.to /\ x.kind = e.kind /\ Likeness(t, x) = Likeness(t, e)
      BY <1>8, <1>9, <2>5, <2>6, <2>7, <2>9, <2>14
    <2>16. n \in to(h, s) \/ (r.kind = "Imports" /\ n \in named(h))
      BY <2>5, <2>13, Zenon
    <2>17. x \in Resolved(h, t, f, r) \/ (r.kind = "Imports" /\ x \in NamedImports(h, t, f, r))
      <3>1. CASE n \in to(h, s)
        BY <2>9, <2>15, <3>1 DEF Resolved, B
      <3>2. CASE r.kind = "Imports" /\ n \in named(h)
        BY <2>9, <2>15, <3>2 DEF NamedImports, B
      <3>3. QED
        BY <2>16, <3>1, <3>2
    <2>18. x \in ReferenceEdges(h, t, f, r)
      BY <2>1, <2>15, <2>17
    <2>19. QED
      BY <2>15, <2>18
  <1>12. QED
    BY <1>10, <1>11

\* API symbols that match, a field and the type that configures it.
Twins(t, m, n) ==
  /\ m \in Symbol(t) /\ n \in Symbol(t) /\ m.kind = "Api" /\ n.kind = "Api"
  /\ m.name = n.name /\ m.file # n.file
  /\ \/ MaxFiles = 0
     \/ Cardinality({x.file : x \in {y \in Symbol(t) : y.kind = "Api" /\ y.name = m.name}}) <= MaxFiles
Configured(t, m, n) ==
  /\ m \in Symbol(t) /\ n \in Symbol(t) /\ m.kind = "Field" /\ n.kind = "Type"
  /\ m.name = n.name /\ m.file # n.file

\* Symbols of one kind are the tree's.
LEMMA KindIs ==
  ASSUME NEW g, NEW t, TreeOK(t), Sound(g, t, {}), Tidy(g, t, {}), NEW k \in Symbols \ {"Module"}
  PROVE  \A n : n \in Nodes(g) /\ n.kind = k <=> n \in Symbol(t) /\ n.kind = k
  <1>1. \A n \in Nodes(g) : n.kind = k => Own(n)
    BY DEF Tidy, Known, Symbols
  <1>2. QED
    BY <1>1, TidyIs

LEMMA MatchStringsIs ==
  ASSUME NEW g, NEW t, TreeOK(t), Sound(g, t, {}), Tidy(g, t, {})
  PROVE  LET h == MatchStrings(g)
         IN  /\ g.edges \subseteq h.edges
             /\ \A e \in h.edges : e \in g.edges \/ (e.kind = "StringMatch" /\ Twins(t, e.from, e.to))
             /\ \A m, n : Twins(t, m, n) => \E e \in h.edges : e.kind = "StringMatch" /\ {e.from, e.to} = {m, n}
  <1> DEFINE Places(v) == {i \in DOMAIN g.nodes : g.nodes[i].kind = "Api" /\ g.nodes[i].name = v}
             values == {n.name : n \in {x \in Nodes(g) : x.kind = "Api"}}
             matched == {v \in values : \/ MaxFiles = 0
                                        \/ Cardinality({g.nodes[i].file : i \in Places(v)}) <= MaxFiles}
             paired(v) == {<<g.nodes[p[1]], g.nodes[p[2]]>> : p \in
                           {q \in Places(v) \X Places(v) :
                              q[1] < q[2] /\ g.nodes[q[1]].file # g.nodes[q[2]].file}}
             pairs == UNION {paired(v) : v \in matched}
             E == {Edge(p[1], p[2], "StringMatch", p[1].file) : p \in pairs}
             few(v) == MaxFiles = 0 \/ Cardinality({x.file : x \in {y \in Symbol(t) : y.kind = "Api" /\ y.name = v}}) <= MaxFiles
  <1>1. MatchStrings(g) = AddEdges(g, E)
    BY DEF MatchStrings
  <1>2. \A n : n \in Nodes(g) /\ n.kind = "Api" <=> n \in Symbol(t) /\ n.kind = "Api"
    BY KindIs DEF Symbols
  <1>3. /\ \A n \in Nodes(g) : \E i \in DOMAIN g.nodes : g.nodes[i] = n
        /\ \A i \in DOMAIN g.nodes : g.nodes[i] \in Nodes(g)
        /\ DOMAIN g.nodes \subseteq Nat
    BY DEF Nodes, ToSet, Sound, IsGraph, Listing
  <1>4. ASSUME NEW v
        PROVE  {g.nodes[i].file : i \in Places(v)} = {x.file : x \in {y \in Symbol(t) : y.kind = "Api" /\ y.name = v}}
    <2>1. \A i \in Places(v) : g.nodes[i] \in Symbol(t) /\ g.nodes[i].kind = "Api" /\ g.nodes[i].name = v
      BY <1>2, <1>3
    <2>2. \A y \in Symbol(t) : y.kind = "Api" /\ y.name = v => \E i \in Places(v) : g.nodes[i] = y
      BY <1>2, <1>3
    <2> HIDE DEF Places
    <2>3. QED
      BY <2>1, <2>2
  <1>5. \A v : v \in matched <=> few(v) /\ \E n \in Symbol(t) : n.kind = "Api" /\ n.name = v
    <2>1. \A v : v \in values <=> \E n \in Symbol(t) : n.kind = "Api" /\ n.name = v
      BY <1>2
    <2> HIDE DEF values, Places
    <2>2. QED
      BY <1>4, <2>1
  <1>6. ASSUME NEW v \in matched, NEW p \in paired(v) PROVE Twins(t, p[1], p[2])
    <2>1. PICK q \in Places(v) \X Places(v) :
            p = <<g.nodes[q[1]], g.nodes[q[2]]>> /\ g.nodes[q[1]].file # g.nodes[q[2]].file
      BY <1>6
    <2>2. /\ g.nodes[q[1]] \in Symbol(t) /\ g.nodes[q[1]].kind = "Api" /\ g.nodes[q[1]].name = v
          /\ g.nodes[q[2]] \in Symbol(t) /\ g.nodes[q[2]].kind = "Api" /\ g.nodes[q[2]].name = v
      BY <1>2, <1>3, <2>1
    <2>3. few(v)
      <3> HIDE DEF few, matched
      <3>1. QED
        BY <1>5
    <2>4. p[1] = g.nodes[q[1]] /\ p[2] = g.nodes[q[2]]
      BY <2>1
    <2>5. QED
      BY <2>1, <2>2, <2>3, <2>4 DEF Twins
  <1>7. ASSUME NEW m, NEW n, Twins(t, m, n)
        PROVE  \E v \in matched : <<m, n>> \in paired(v) \/ <<n, m>> \in paired(v)
    <2>1. m \in Nodes(g) /\ n \in Nodes(g) /\ m.kind = "Api" /\ n.kind = "Api" /\ m.name = n.name /\ m.file # n.file
      BY <1>2, <1>7 DEF Twins
    <2>2. m.name \in matched
      <3>1. few(m.name) /\ m \in Symbol(t) /\ m.kind = "Api"
        BY <1>7 DEF Twins
      <3> HIDE DEF few, matched
      <3>2. QED
        BY <1>5, <3>1
    <2>3. PICK i \in DOMAIN g.nodes, j \in DOMAIN g.nodes : g.nodes[i] = m /\ g.nodes[j] = n
      BY <1>3, <2>1
    <2>4. i \in Places(m.name) /\ j \in Places(m.name)
      BY <2>1, <2>3
    <2>5. i < j \/ j < i
      BY <1>3, <2>1, <2>3
    <2>6. CASE i < j
      <3>1. <<i, j>> \in {q \in Places(m.name) \X Places(m.name) : q[1] < q[2] /\ g.nodes[q[1]].file # g.nodes[q[2]].file}
        BY <2>1, <2>3, <2>4, <2>6
      <3>2. <<m, n>> \in paired(m.name)
        BY <2>3, <3>1
      <3>3. QED
        BY <2>2, <3>2
    <2>7. CASE j < i
      <3>1. <<j, i>> \in {q \in Places(m.name) \X Places(m.name) : q[1] < q[2] /\ g.nodes[q[1]].file # g.nodes[q[2]].file}
        BY <2>1, <2>3, <2>4, <2>7
      <3>2. <<n, m>> \in paired(m.name)
        BY <2>3, <3>1
      <3>3. QED
        BY <2>2, <3>2
    <2>8. QED
      BY <2>5, <2>6, <2>7
  <1> HIDE DEF paired, matched
  <1>8. \A e \in E : e.kind = "StringMatch" /\ Twins(t, e.from, e.to)
    BY <1>6, EdgeIs
  <1>9. ASSUME NEW m, NEW n, Twins(t, m, n)
        PROVE  \E e \in E : e.kind = "StringMatch" /\ {e.from, e.to} = {m, n}
    <2>1. PICK p \in pairs : p = <<m, n>> \/ p = <<n, m>>
      BY <1>7, <1>9
    <2>2. PICK e \in E : e = Edge(p[1], p[2], "StringMatch", p[1].file)
      OBVIOUS
    <2>3. e.kind = "StringMatch" /\ {e.from, e.to} = {p[1], p[2]}
      BY <2>2, EdgeIs
    <2>4. {p[1], p[2]} = {m, n}
      BY <2>1
    <2>5. QED
      BY <2>3, <2>4
  <1> HIDE DEF E
  <1>10. MatchStrings(g).edges = g.edges \cup E
    BY <1>1, EdgesOf DEF Sound
  <1>11. QED
    BY <1>8, <1>9, <1>10

LEMMA MediateIs ==
  ASSUME NEW g, NEW t, TreeOK(t), Sound(g, t, {}), Tidy(g, t, {})
  PROVE  LET h == Mediate(g)
         IN  /\ g.edges \subseteq h.edges
             /\ \A e \in h.edges :
                  \/ e \in g.edges
                  \/ Configured(t, e.from, e.to) /\ e = Edge(e.from, e.to, "Configures", e.from.file)
             /\ \A m, n : Configured(t, m, n) => Edge(m, n, "Configures", m.file) \in h.edges
  <1> DEFINE pairs == {p \in {n \in Nodes(g) : n.kind = "Field"} \X {n \in Nodes(g) : n.kind = "Type"} :
                         p[1].name = p[2].name /\ p[1].file # p[2].file}
             E == {Edge(p[1], p[2], "Configures", p[1].file) : p \in pairs}
  <1>1. Mediate(g) = AddEdges(g, E)
    BY DEF Mediate
  <1>2. /\ \A n : n \in Nodes(g) /\ n.kind = "Field" <=> n \in Symbol(t) /\ n.kind = "Field"
        /\ \A n : n \in Nodes(g) /\ n.kind = "Type" <=> n \in Symbol(t) /\ n.kind = "Type"
    BY KindIs DEF Symbols
  <1>3. \A p \in pairs : Configured(t, p[1], p[2])
    BY <1>2 DEF Configured
  <1>4. \A m, n : Configured(t, m, n) => <<m, n>> \in pairs
    BY <1>2 DEF Configured
  <1> HIDE DEF pairs
  <1>5. \A e \in E : Configured(t, e.from, e.to) /\ e = Edge(e.from, e.to, "Configures", e.from.file)
    BY <1>3, EdgeIs
  <1>6. ASSUME NEW m, NEW n, Configured(t, m, n) PROVE Edge(m, n, "Configures", m.file) \in E
    <2>1. PICK p \in pairs : p = <<m, n>>
      BY <1>4, <1>6
    <2>2. p[1] = m /\ p[2] = n
      BY <2>1
    <2>3. QED
      BY <2>2
  <1> HIDE DEF E
  <1>7. Mediate(g).edges = g.edges \cup E
    BY <1>1, EdgesOf DEF Sound
  <1>8. QED
    BY <1>5, <1>6, <1>7

LEMMA InheritsIs ==
  ASSUME NEW g, IsGraph(g)
  PROVE  LET h == DeriveInherits(g)
         IN  /\ g.edges \subseteq h.edges
             /\ \A e \in h.edges :
                  e \in g.edges \/ \E x \in g.edges : x.kind = "Extends" /\ e = Edge(x.from, x.to, "Inherits", x.ev)
             /\ \A x \in g.edges : x.kind = "Extends" => Edge(x.from, x.to, "Inherits", x.ev) \in h.edges
  <1> DEFINE E == {[e EXCEPT !.kind = "Inherits"] : e \in {x \in g.edges : x.kind = "Extends"}}
  <1>1. DeriveInherits(g) = AddEdges(g, E)
    BY DEF DeriveInherits
  <1>2. ASSUME NEW e \in g.edges PROVE [e EXCEPT !.kind = "Inherits"] = Edge(e.from, e.to, "Inherits", e.ev)
    <2>1. EdgeOK(e, Nodes(g))
      BY DEF IsGraph
    <2>2. QED
      BY <2>1 DEF EdgeOK, Edge
  <1>3. \A e : e \in E <=> \E x \in g.edges : x.kind = "Extends" /\ e = Edge(x.from, x.to, "Inherits", x.ev)
    BY <1>2
  <1> HIDE DEF E
  <1>4. DeriveInherits(g).edges = g.edges \cup E
    BY <1>1, EdgesOf
  <1>5. QED
    BY <1>3, <1>4

LEMMA ReclassifyIs ==
  ASSUME NEW g, IsGraph(g)
  PROVE  LET h == ReclassifyStringMatch(g)
         IN  /\ \A e \in h.edges :
                  \/ e \in g.edges /\ e.kind # "StringMatch"
                  \/ /\ e.kind = "ApiPathMatch"
                     /\ \E x \in g.edges : x.kind = "StringMatch" /\ x.from = e.from /\ x.to = e.to
             /\ \A x \in g.edges : x.kind # "StringMatch" => x \in h.edges
             /\ \A x \in g.edges : x.kind = "StringMatch" =>
                  \E e \in h.edges : e.kind = "ApiPathMatch" /\ x.from = e.from /\ x.to = e.to
  <1> DEFINE re(e) == IF e.kind = "StringMatch" THEN [e EXCEPT !.kind = "ApiPathMatch"] ELSE e
             h == ReclassifyStringMatch(g)
  <1>1. h.edges = {re(e) : e \in g.edges}
    BY DEF ReclassifyStringMatch, IsGraph
  <1>2. ASSUME NEW e \in g.edges
        PROVE  /\ e.kind # "StringMatch" => re(e) = e
               /\ e.kind = "StringMatch" => /\ re(e).kind = "ApiPathMatch"
                                            /\ re(e).from = e.from /\ re(e).to = e.to
    <2>1. EdgeOK(e, Nodes(g))
      BY DEF IsGraph
    <2>2. QED
      BY <2>1 DEF EdgeOK, Edge
  <1> HIDE DEF re, h
  <1>3. ASSUME NEW e \in h.edges
        PROVE  \/ e \in g.edges /\ e.kind # "StringMatch"
               \/ /\ e.kind = "ApiPathMatch"
                  /\ \E x \in g.edges : x.kind = "StringMatch" /\ x.from = e.from /\ x.to = e.to
    <2>1. PICK x \in g.edges : e = re(x)
      BY <1>1
    <2>2. QED
      BY <1>2, <2>1
  <1>4. \A x \in g.edges : re(x) \in h.edges
    BY <1>1
  <1>5. QED
    BY <1>2, <1>3, <1>4 DEF h

\* The stages after the passes over the symbols.
Finish(g, t) ==
  ExtractTypeRelationships(ReclassifyStringMatch(DeriveInherits(ResolveReferences(g, t))), t)

\* Every match of symbols is an edge.
Paired(g, t) ==
  /\ \A m, n \in Symbol(t) : Twins(t, m, n) => \E e \in g.edges : e.kind = "StringMatch" /\ {e.from, e.to} = {m, n}
  /\ \A m, n \in Symbol(t) : Configured(t, m, n) => Edge(m, n, "Configures", m.file) \in g.edges

Reclassified(g) == \A e \in g.edges : e.kind # "StringMatch"

\* The graph has the edges of the tree's matches, of its references, as some
\* graph of the tree resolves them, and of inheritance.
Covers(g, t) ==
  /\ \A m, n \in Symbol(t) : Twins(t, m, n) => \E e \in g.edges : e.kind = "ApiPathMatch" /\ {e.from, e.to} = {m, n}
  /\ \A m, n \in Symbol(t) : Configured(t, m, n) => Edge(m, n, "Configures", m.file) \in g.edges
  /\ \E h : Ready(h, t) /\ AllReferenceEdges(h, t) \subseteq g.edges
  /\ \A x \in g.edges : x.kind = "Extends" => Edge(x.from, x.to, "Inherits", x.ev) \in g.edges

\* Where an edge of a finished graph is from.
FromStage(g, t, e) ==
  \/ e \in g.edges
  \/ e \in AllReferenceEdges(g, t)
  \/ e.kind = "ApiPathMatch" /\ \E x \in g.edges : x.kind = "StringMatch" /\ x.from = e.from /\ x.to = e.to
  \/ \E x \in g.edges \cup AllReferenceEdges(g, t) :
       x.kind = "Extends" /\ e = Edge(x.from, x.to, "Inherits", x.ev)
  \/ e.kind = "TypeOf"

LEMMA FinishIs ==
  ASSUME NEW g, NEW t, Ready(g, t), Paired(g, t)
  PROVE  LET h == Finish(g, t)
         IN  /\ Built(h, t, {}) /\ Tidy(h, t, {}) /\ Reclassified(h) /\ Covers(h, t)
             /\ \A e \in h.edges : FromStage(g, t, e)
  <1> DEFINE R == AllReferenceEdges(g, t)
  <1>1. PICK k1 : k1 = ResolveReferences(g, t)
    OBVIOUS
  <1>2. PICK k2 : k2 = DeriveInherits(k1)
    OBVIOUS
  <1>3. PICK k3 : k3 = ReclassifyStringMatch(k2)
    OBVIOUS
  <1>4. PICK h : h = ExtractTypeRelationships(k3, t)
    OBVIOUS
  <1>5. h = Finish(g, t)
    BY <1>1, <1>2, <1>3, <1>4 DEF Finish
  <1>6. TreeOK(t) /\ Built(g, t, {}) /\ Tidy(g, t, {}) /\ Sound(g, t, {}) /\ Complete(g)
    BY DEF Ready, Built
  <1>7. /\ Built(k1, t, {})
        /\ k1.edges = g.edges \cup R /\ Nodes(g) \subseteq Nodes(k1)
        /\ \A n \in Nodes(k1) :
             \/ n \in Nodes(g)
             \/ n.kind = "ExternalPackage" /\ n.file = NoFile
             \/ \E f \in Files : n = BarrelNode(f) /\ \A m \in InFile(g, f) : m.kind # "File"
    BY <1>1, <1>6, ResolveSound
  <1>8. Built(k2, t, {}) /\ Nodes(k2) = Nodes(k1)
    BY <1>2, <1>7, DeriveInheritsSound
  <1>9. Built(k3, t, {}) /\ Nodes(k3) = Nodes(k2)
    BY <1>3, <1>8, ReclassifySound
  <1>10. Built(h, t, {}) /\ Nodes(h) = Nodes(k3) /\ Adds(k3, h, {"TypeOf"})
    BY <1>4, <1>9, TypesSound
  <1>11. Tidy(h, t, {})
    <2>1. ASSUME NEW f \in Files, \A m \in InFile(g, f) : m.kind # "File" PROVE Known(t, {}, BarrelNode(f))
      <3>1. Children(g, f) = {}
        BY <1>6, <2>1 DEF Complete, Placed
      <3>2. ~HasSymbols(t, f)
        BY <1>6, <3>1, TidyIs
      <3>3. /\ BarrelNode(f).name = f /\ BarrelNode(f).file = f
            /\ BarrelNode(f).kind = "File" /\ BarrelNode(f).span = "whole"
        BY DEF BarrelNode, FileNode
      <3>4. f \in SyntheticNames
        BY DEF SyntheticNames
      <3>5. QED
        BY <3>2, <3>3, <3>4 DEF Known
    <2>2. \A n : n.kind = "ExternalPackage" /\ n.file = NoFile => Known(t, {}, n)
      BY FilesAssumption DEF Known
    <2>3. \A n \in Nodes(h) : n \in Nodes(k1)
      BY <1>8, <1>9, <1>10
    <2>4. QED
      BY <1>6, <1>7, <2>1, <2>2, <2>3 DEF Tidy
  <1>12. \A e \in R : e.kind \in References
    <2>1. ASSUME NEW f \in Files, NEW r \in Refs(t, f), NEW e \in ReferenceEdges(g, t, f, r)
          PROVE  e.kind \in References
      BY <1>6, ReferenceEdgeIs
    <2>2. QED
      BY <2>1 DEF AllReferenceEdges
  <1>13. /\ k1.edges \subseteq k2.edges
         /\ \A e \in k2.edges :
              e \in k1.edges \/ \E x \in k1.edges : x.kind = "Extends" /\ e = Edge(x.from, x.to, "Inherits", x.ev)
         /\ \A x \in k1.edges : x.kind = "Extends" => Edge(x.from, x.to, "Inherits", x.ev) \in k2.edges
    BY <1>2, <1>7, InheritsIs DEF Built, Sound
  <1>14. /\ \A e \in k3.edges :
              \/ e \in k2.edges /\ e.kind # "StringMatch"
              \/ /\ e.kind = "ApiPathMatch"
                 /\ \E x \in k2.edges : x.kind = "StringMatch" /\ x.from = e.from /\ x.to = e.to
         /\ \A x \in k2.edges : x.kind # "StringMatch" => x \in k3.edges
         /\ \A x \in k2.edges : x.kind = "StringMatch" =>
              \E e \in k3.edges : e.kind = "ApiPathMatch" /\ x.from = e.from /\ x.to = e.to
    BY <1>3, <1>8, ReclassifyIs DEF Built, Sound
  <1>15. k3.edges \subseteq h.edges /\ \A e \in h.edges : e \in k3.edges \/ e.kind = "TypeOf"
    BY <1>10 DEF Adds
  <1> HIDE DEF R
  <1>16. \A x, y, ev : Edge(x, y, "Inherits", ev).kind = "Inherits"
    BY EdgeIs
  <1>17. \A e \in k2.edges : e.kind = "StringMatch" => e \in g.edges
    BY <1>7, <1>12, <1>13, <1>16 DEF References
  <1>18. \A e \in h.edges : FromStage(g, t, e)
    <2>1. ASSUME NEW e \in h.edges PROVE FromStage(g, t, e)
      <3>1. CASE e.kind = "TypeOf"
        BY <3>1 DEF FromStage
      <3>2. CASE e \in k2.edges
        BY <1>7, <1>13, <3>2 DEF FromStage, R
      <3>3. CASE e.kind = "ApiPathMatch" /\ \E x \in k2.edges : x.kind = "StringMatch" /\ x.from = e.from /\ x.to = e.to
        BY <1>17, <3>3 DEF FromStage
      <3>4. QED
        BY <1>14, <1>15, <3>1, <3>2, <3>3
    <2>2. QED
      BY <2>1
  <1>19. Reclassified(h)
    BY <1>14, <1>15 DEF Reclassified
  <1>20. \A e \in k1.edges : e.kind # "StringMatch" => e \in h.edges
    BY <1>13, <1>14, <1>15
  <1>21. Covers(h, t)
    <2>1. ASSUME NEW m, NEW n, Twins(t, m, n)
          PROVE  \E e \in h.edges : e.kind = "ApiPathMatch" /\ {e.from, e.to} = {m, n}
      <3>1. PICK x \in g.edges : x.kind = "StringMatch" /\ {x.from, x.to} = {m, n}
        BY <2>1 DEF Paired, Twins
      <3>2. PICK e \in k3.edges : e.kind = "ApiPathMatch" /\ x.from = e.from /\ x.to = e.to
        BY <1>7, <1>13, <1>14, <3>1
      <3>3. QED
        BY <1>15, <3>1, <3>2
    <2>2. ASSUME NEW m, NEW n, Configured(t, m, n) PROVE Edge(m, n, "Configures", m.file) \in h.edges
      <3>1. Edge(m, n, "Configures", m.file) \in g.edges /\ Edge(m, n, "Configures", m.file).kind = "Configures"
        BY <2>2, EdgeIs DEF Paired, Configured
      <3>2. QED
        BY <1>7, <1>20, <3>1
    <2>3. Ready(g, t) /\ AllReferenceEdges(g, t) \subseteq h.edges
      BY <1>7, <1>12, <1>20 DEF R, References
    <2>4. ASSUME NEW x \in h.edges, x.kind = "Extends" PROVE Edge(x.from, x.to, "Inherits", x.ev) \in h.edges
      <3>1. x \in k2.edges
        BY <1>14, <1>15, <2>4
      <3>2. x \in k1.edges
        BY <1>13, <1>16, <2>4, <3>1
      <3>3. Edge(x.from, x.to, "Inherits", x.ev) \in k2.edges
        BY <1>13, <2>4, <3>2
      <3>4. QED
        BY <1>14, <1>15, <1>16, <3>3
    <2>5. QED
      BY <2>1, <2>2, <2>3, <2>4 DEF Covers
  <1>22. QED
    BY <1>5, <1>10, <1>11, <1>18, <1>19, <1>21

-----------------------------------------------------------------------------
(* The two builds.                                                         *)

\* Where an edge is from that the passes before the references hold.
FromPass(E, t, e) ==
  \/ e \in E
  \/ e.kind = "StringMatch" /\ Twins(t, e.from, e.to)
  \/ Configured(t, e.from, e.to) /\ e = Edge(e.from, e.to, "Configures", e.from.file)
  \/ e.kind \in {"Contains", "BelongsTo", "Documents", "Mentions", "DescribedIn"}

\* The graph is ready, with every match of symbols, and edges from the passes.
Passed(g, t, E) == Ready(g, t) /\ Paired(g, t) /\ \A e \in g.edges : FromPass(E, t, e)

\* The passes both builds make.
LEMMA PassesAre ==
  ASSUME NEW t, TreeOK(t), NEW g1, Sound(g1, t, {}), Tidy(g1, t, {})
  PROVE  LET h == StructuralPass(Mediate(MatchStrings(g1)))
         IN  /\ Passed(h, t, g1.edges)
             /\ \A n \in Nodes(h) : n \in Nodes(g1) \/ (n.kind \in {"File", "Module"} /\ n.span = "none")
  <1>1. PICK g2 : g2 = MatchStrings(g1)
    OBVIOUS
  <1>2. PICK g3 : g3 = Mediate(g2)
    OBVIOUS
  <1>3. PICK h : h = StructuralPass(g3)
    OBVIOUS
  <1>4. Sound(g2, t, {}) /\ Nodes(g2) = Nodes(g1)
    BY <1>1, MatchStringsSound
  <1>5. /\ g1.edges \subseteq g2.edges
        /\ \A e \in g2.edges : e \in g1.edges \/ (e.kind = "StringMatch" /\ Twins(t, e.from, e.to))
        /\ \A m, n : Twins(t, m, n) => \E e \in g2.edges : e.kind = "StringMatch" /\ {e.from, e.to} = {m, n}
    BY <1>1, MatchStringsIs
  <1>6. Tidy(g2, t, {})
    BY <1>4 DEF Tidy
  <1>7. Sound(g3, t, {}) /\ Nodes(g3) = Nodes(g1)
    BY <1>2, <1>4, MediateSound
  <1>8. /\ g2.edges \subseteq g3.edges
        /\ \A e \in g3.edges :
             \/ e \in g2.edges
             \/ Configured(t, e.from, e.to) /\ e = Edge(e.from, e.to, "Configures", e.from.file)
        /\ \A m, n : Configured(t, m, n) => Edge(m, n, "Configures", m.file) \in g3.edges
    BY <1>2, <1>4, <1>6, MediateIs
  <1>9. Tidy(g3, t, {})
    BY <1>7 DEF Tidy
  <1>10. /\ Built(h, t, {})
         /\ \A n \in Nodes(h) : n \in Nodes(g3) \/ Scope(Parents(g3), n)
         /\ Adds(g3, h, {"Contains", "BelongsTo"})
    BY <1>3, <1>7, StructuralSound
  <1>11. ASSUME NEW n, Scope(Parents(g3), n) PROVE Known(t, {}, n)
    <2>1. n.file \in Files /\ HasSymbols(t, n.file)
      <3>1. n.file \in Files /\ Children(g3, n.file) # {}
        BY <1>11 DEF Scope, Parents
      <3>2. QED
        BY <1>7, <1>9, <3>1, TidyIs
    <2>2. n.name \in SyntheticNames
      BY <1>11, <2>1 DEF Scope, SyntheticNames, DirNames
    <2>3. QED
      BY <1>11, <2>1, <2>2 DEF Known, Scope
  <1>12. Tidy(h, t, {})
    BY <1>9, <1>10, <1>11 DEF Tidy
  <1>13. Paired(h, t)
    BY <1>5, <1>8, <1>10 DEF Paired, Adds
  <1>14. \A e \in h.edges : FromPass(g1.edges, t, e)
    BY <1>5, <1>8, <1>10 DEF FromPass, Adds
  <1>15. \A n \in Nodes(h) : n \in Nodes(g1) \/ (n.kind \in {"File", "Module"} /\ n.span = "none")
    BY <1>7, <1>10 DEF Scope
  <1>16. QED
    BY <1>1, <1>2, <1>3, <1>10, <1>12, <1>13, <1>14, <1>15 DEF Passed, Ready

\* A pass that adds nodes of its own, and edges to them.
LEMMA PassKeeps ==
  ASSUME NEW g, NEW h, NEW t, NEW E, Passed(g, t, E), Built(h, t, {}),
         Adds(g, h, {"Documents", "Mentions", "DescribedIn"}),
         \A n \in Nodes(h) : n \in Nodes(g) \/ Known(t, {}, n)
  PROVE  Passed(h, t, E)
  <1>1. Ready(h, t)
    BY DEF Passed, Ready, Tidy
  <1>2. Paired(h, t)
    BY DEF Passed, Paired, Adds
  <1>3. \A e \in h.edges : FromPass(E, t, e)
    BY DEF Passed, FromPass, Adds
  <1>4. QED
    BY <1>1, <1>2, <1>3 DEF Passed

\* A build from nothing takes every file in; nothing of one is there before,
\* so no barrel encloses its references.
LEMMA BuildGraphIs ==
  ASSUME NEW t, TreeOK(t)
  PROVE  \E g : /\ BuildGraph(t) = Finish(g, t) /\ Passed(g, t, {})
                /\ \A n \in Nodes(g) : n.span # "whole"
  <1>1. Sound(NoGraph, t, Files) /\ Cleared(NoGraph, Files) /\ Nodes(NoGraph) = {} /\ NoGraph.edges = {}
    <2>1. NoGraph.nodes = <<>> /\ NoGraph.edges = {} /\ NoGraph = [nodes |-> NoGraph.nodes, edges |-> NoGraph.edges]
      BY DEF NoGraph
    <2>2. Nodes(NoGraph) = {} /\ Listing(NoGraph.nodes)
      BY <2>1, NoneListed DEF Nodes
    <2>3. SymbolsBut(NoGraph, t, Files)
      BY <2>2 DEF SymbolsBut, DefNodes
    <2>4. QED
      BY <2>1, <2>2, <2>3 DEF Sound, IsGraph, Sparse, GroundedBut, Cleared
  <1>2. PICK g1 : g1 = Extract(NoGraph, FileOrder, t)
    OBVIOUS
  <1>3. Sound(g1, t, {}) /\ g1.edges = {} /\ \A n \in Nodes(g1) : Own(n) /\ n.kind \in Symbols
    BY <1>1, <1>2, FilesListed, ExtractSound
  <1>4. Tidy(g1, t, {})
    BY <1>3 DEF Tidy, Known
  <1>5. PICK g2 : g2 = MatchStrings(g1)
    OBVIOUS
  <1>6. PICK g3 : g3 = Mediate(g2)
    OBVIOUS
  <1>7. PICK g4 : g4 = StructuralPass(g3)
    OBVIOUS
  <1>8. /\ Passed(g4, t, {})
        /\ \A n \in Nodes(g4) : n \in Nodes(g1) \/ (n.kind \in {"File", "Module"} /\ n.span = "none")
    BY <1>3, <1>4, <1>5, <1>6, <1>7, PassesAre
  <1>9. Built(g4, t, {}) /\ \A n \in Nodes(g4) : n.kind \notin {"DocComment", "DocSection"} /\ n.span # "whole"
    BY <1>3, <1>8 DEF Passed, Ready, Own, Symbols
  <1>10. PICK g5 : g5 = DocumentsPass(g4, t)
    OBVIOUS
  <1>11. /\ Built(g5, t, {}) /\ Adds(g4, g5, {"Documents"})
         /\ \A n \in Nodes(g5) :
              n \in Nodes(g4) \/ (n.kind = "DocComment" /\ n.span = "doc" /\ n.name \in SyntheticNames)
         /\ \A f \in Files : \A d \in Documented(t, f) : DocNode(f, d) \in Nodes(g5)
    BY <1>9, <1>10, DocumentsSound
  <1>12. Passed(g5, t, {})
    BY <1>8, <1>11, PassKeeps DEF Known, Adds
  <1>13. PICK g6 : g6 = MentionsPass(g5, t)
    OBVIOUS
  <1>14. Built(g6, t, {}) /\ Nodes(g6) = Nodes(g5) /\ Adds(g5, g6, {"Mentions"})
    BY <1>11, <1>13, MentionsSound
  <1>15. Passed(g6, t, {})
    BY <1>12, <1>14, PassKeeps DEF Adds
  <1>16. PICK g : g = MarkdownPass(g6)
    OBVIOUS
  <1>17. \A n \in Nodes(g6) : n.kind # "DocSection" /\ n.span # "whole"
    BY <1>9, <1>11, <1>14
  <1>18. /\ Built(g, t, {}) /\ Adds(g6, g, {"DescribedIn"})
         /\ \A n \in Nodes(g) : n \in Nodes(g6) \/ n = SectionNode
    BY <1>14, <1>16, <1>17, MarkdownSound
  <1>19. /\ SectionNode.kind = "DocSection" /\ SectionNode.span = "own" /\ SectionNode.file \notin Files
         /\ SectionNode.name \in SyntheticNames
    BY FilesAssumption DEF SectionNode, SyntheticNames
  <1>20. Passed(g, t, {})
    <2>1. Known(t, {}, SectionNode)
      BY <1>19 DEF Known
    <2>2. QED
      BY <1>15, <1>18, <2>1, PassKeeps DEF Adds
  <1>21. \A n \in Nodes(g) : n.span # "whole"
    BY <1>17, <1>18, <1>19
  <1>22. BuildGraph(t) = Finish(g, t)
    BY <1>2, <1>5, <1>6, <1>7, <1>10, <1>13, <1>16 DEF BuildGraph, Finish
  <1>23. QED
    BY <1>20, <1>21, <1>22

\* An incremental build keeps what the unchanged files gave: the graph it makes
\* is ready when the one it starts from was but for the files changed.
LEMMA IncrementalIs ==
  ASSUME NEW t, TreeOK(t), NEW g0, NEW D, Built(g0, t, D), Tidy(g0, t, D),
         NEW changed, Listing(changed), D \subseteq ToSet(changed), ToSet(changed) \subseteq Files
  PROVE  \E g : BuildGraphIncremental(g0, t, changed) = Finish(g, t) /\ Passed(g, t, g0.edges)
  <1>1. PICK k : k = Invalidate(g0, ToSet(changed))
    OBVIOUS
  <1>2. /\ Sound(k, t, ToSet(changed)) /\ Cleared(k, ToSet(changed))
        /\ Nodes(k) \subseteq Nodes(g0) /\ k.edges \subseteq g0.edges
    BY <1>1, InvalidateSound DEF Built
  <1>3. PICK g1 : g1 = Extract(k, changed, t)
    OBVIOUS
  <1>4. /\ Sound(g1, t, {}) /\ g1.edges = k.edges
        /\ \A n \in Nodes(g1) : n \in Nodes(k) \/ (Own(n) /\ n.kind \in Symbols)
    BY <1>2, <1>3, ExtractSound
  <1>5. Tidy(g1, t, {})
    <2>1. ASSUME NEW n \in Nodes(k) PROVE Known(t, {}, n)
      <3>1. Known(t, D, n) /\ n.file \notin D
        BY <1>2 DEF Tidy, Cleared
      <3>2. QED
        BY <3>1 DEF Known
    <2>2. QED
      BY <1>4, <2>1 DEF Tidy, Known
  <1>6. PICK g2 : g2 = MatchStrings(g1)
    OBVIOUS
  <1>7. PICK g3 : g3 = Mediate(g2)
    OBVIOUS
  <1>8. PICK g : g = StructuralPass(g3)
    OBVIOUS
  <1>9. Passed(g, t, g1.edges)
    BY <1>4, <1>5, <1>6, <1>7, <1>8, PassesAre
  <1>10. Passed(g, t, g0.edges)
    BY <1>2, <1>4, <1>9 DEF Passed, FromPass
  <1>11. BuildGraphIncremental(g0, t, changed) = Finish(g, t)
    BY <1>1, <1>3, <1>6, <1>7, <1>8 DEF BuildGraphIncremental, Finish
  <1>12. QED
    BY <1>10, <1>11

-----------------------------------------------------------------------------
(* What one graph of a tree has, another has.                              *)

\* Containment: of the same symbols, in one File node and one module.
LEMMA ContainmentAlike ==
  ASSUME NEW t, TreeOK(t),
         NEW g, Built(g, t, {}), Tidy(g, t, {}), NEW h, Built(h, t, {}), Tidy(h, t, {}),
         NEW e \in h.edges, e.kind \in {"Contains", "BelongsTo"}
  PROVE  \E x \in g.edges : Likeness(t, x) = Likeness(t, e)
  <1>1. Fits(h, e) /\ Sound(g, t, {}) /\ Sound(h, t, {}) /\ Complete(g)
    BY DEF Built, Sound, Sparse
  <1>2. PICK f : f = e.ev /\ f \in Files
    BY <1>1 DEF Fits
  <1>3. PICK c \in Children(g, f) : /\ e.kind = "Contains" => e.to = c /\ e.from.kind = "File"
                                    /\ e.kind = "BelongsTo" => e.from = c /\ IsHome(h, f, e.to)
    <2>1. Children(g, f) = Children(h, f)
      <3>1. /\ Children(g, f) = {n \in Symbol(t) : n.file = f /\ n.kind # "Module"}
            /\ Children(h, f) = {n \in Symbol(t) : n.file = f /\ n.kind # "Module"}
        BY <1>1, <1>2, TidyIs
      <3>2. QED
        BY <3>1
    <2>2. QED
      BY <1>1, <1>2, <2>1 DEF Fits
  <1>4. \A q, m : IsHome(q, f, m) => m.kind = "Module"
    BY DEF IsHome, IsLast, IsFirst, OwnModules, Named
  <1>5. PICK n \in InFile(g, f) : n.kind = "File" /\ Edge(n, c, "Contains", f) \in g.edges
    BY <1>1, <1>2 DEF Complete, Placed
  <1>6. PICK m \in Nodes(g) : IsHome(g, f, m) /\ Edge(c, m, "BelongsTo", f) \in g.edges
    BY <1>1, <1>2 DEF Complete, Placed
  <1>7. CASE e.kind = "Contains"
    <2>1. PICK x \in g.edges : x.from = n /\ x.to = c /\ x.kind = "Contains" /\ x.ev = f
      BY <1>5, EdgeIs
    <2>2. Role(x.from) = Role(e.from) /\ x.to = e.to /\ x.ev = e.ev /\ x.kind = e.kind
      BY <1>2, <1>3, <1>5, <1>7, <2>1 DEF Role
    <2>3. QED
      BY <2>2 DEF Likeness, Ends, AfterDoc, ReferenceKind, References
  <1>8. CASE e.kind = "BelongsTo"
    <2>1. PICK x \in g.edges : x.from = c /\ x.to = m /\ x.kind = "BelongsTo" /\ x.ev = f
      BY <1>6, EdgeIs
    <2>2. Role(x.to) = Role(e.to) /\ x.from = e.from /\ x.ev = e.ev /\ x.kind = e.kind
      BY <1>2, <1>3, <1>4, <1>6, <1>8, <2>1 DEF Role
    <2>3. QED
      BY <2>2 DEF Likeness, Ends, AfterDoc, ReferenceKind, References
  <1>9. QED
    BY <1>7, <1>8

\* A barrel encloses all references of its file.
LEMMA BarrelEncloses ==
  ASSUME NEW g, NEW t, NEW f, NEW r, NEW e \in ReferenceEdges(g, t, f, r), Barrel(g, f) # {}
  PROVE  e.from.span = "whole"
  <1>1. Enclosing(g, t, f, r) = Barrel(g, f)
    BY DEF Enclosing, Barrel
  <1>2. e \in Reexports(g, t, f, r) \/ e \in Resolved(g, t, f, r) \/ e \in NamedImports(g, t, f, r)
    <2>1. CASE r.kind = "ReexportAll"
      BY <2>1 DEF ReferenceEdges
    <2>2. CASE r.kind = "Imports"
      BY <2>2 DEF ReferenceEdges
    <2>3. CASE r.kind = "TypeOf"
      BY <2>3 DEF ReferenceEdges
    <2>4. CASE r.kind \notin {"ReexportAll", "Imports", "TypeOf"}
      BY <2>4 DEF ReferenceEdges
    <2>5. QED
      BY <2>1, <2>2, <2>3, <2>4
  <1>3. \E src \in Enclosing(g, t, f, r) : \E n, k : e = Edge(src, n, k, f)
    <2>1. CASE e \in Reexports(g, t, f, r)
      BY <1>1, <2>1 DEF Reexports
    <2>2. CASE e \in Resolved(g, t, f, r)
      BY <2>2 DEF Resolved
    <2>3. CASE e \in NamedImports(g, t, f, r)
      BY <2>3 DEF NamedImports
    <2>4. QED
      BY <1>2, <2>1, <2>2, <2>3
  <1>4. e.from \in Barrel(g, f)
    BY <1>1, <1>3, EdgeIs
  <1>5. QED
    BY <1>4 DEF Barrel

\* A graph that covers the tree has what any graph of the tree is given, or
\* had itself: derived edges that are not volatile, from no barrel.
LEMMA StageCovered ==
  ASSUME NEW t, NEW g, Built(g, t, {}), Tidy(g, t, {}), Reclassified(g), Covers(g, t),
         NEW h, NEW E, E \subseteq g.edges, Passed(h, t, E),
         NEW e \in Finish(h, t).edges, e.kind \in Derived, ~Volatile(t, e),
         e.from.span # "whole" \/ \A n \in Nodes(h) : n.span # "whole"
  PROVE  \E x \in g.edges : Likeness(t, x) = Likeness(t, e)
  <1>1. TreeOK(t) /\ Ready(h, t) /\ Paired(h, t) /\ \A x \in h.edges : FromPass(E, t, x)
    BY DEF Passed, Ready
  <1>2. PICK q : q = Finish(h, t)
    OBVIOUS
  <1>3. Built(q, t, {}) /\ Tidy(q, t, {}) /\ FromStage(h, t, e)
    BY <1>1, <1>2, FinishIs
  <1>4. PICK k : Ready(k, t) /\ AllReferenceEdges(k, t) \subseteq g.edges
    BY DEF Covers
  \* A reference edge from what e is from.
  <1>5. ASSUME NEW x \in AllReferenceEdges(h, t), x.from = e.from, ~Volatile(t, x)
        PROVE  \E y \in g.edges : y.kind = x.kind /\ Likeness(t, y) = Likeness(t, x)
    <2>1. PICK f \in Files : \E r \in Refs(t, f) : x \in ReferenceEdges(h, t, f, r)
      BY DEF AllReferenceEdges
    <2>2. PICK r \in Refs(t, f) : x \in ReferenceEdges(h, t, f, r)
      BY <2>1
    <2>3. Barrel(h, f) = {}
      <3>1. CASE e.from.span # "whole"
        BY <1>5, <2>2, <3>1, BarrelEncloses
      <3>2. CASE \A n \in Nodes(h) : n.span # "whole"
        BY <3>2 DEF Barrel, InFile
      <3>3. QED
        BY <3>1, <3>2
    <2>4. PICK y \in ReferenceEdges(k, t, f, r) : y.kind = x.kind /\ Likeness(t, y) = Likeness(t, x)
      BY <1>1, <1>4, <1>5, <2>2, <2>3, ResolvedAlike
    <2>5. y \in AllReferenceEdges(k, t)
      BY DEF AllReferenceEdges
    <2>6. QED
      BY <1>4, <2>4, <2>5
  <1>6. CASE e.kind \in {"Contains", "BelongsTo"}
    BY <1>1, <1>2, <1>3, <1>6, ContainmentAlike
  <1>7. CASE e \in h.edges /\ e.kind \notin {"Contains", "BelongsTo"}
    <2>1. e \in E \/ (Configured(t, e.from, e.to) /\ e = Edge(e.from, e.to, "Configures", e.from.file))
      BY <1>1, <1>7 DEF FromPass, Derived
    <2>2. e \in g.edges
      BY <2>1 DEF Covers, Configured
    <2>3. QED
      BY <2>2
  <1>8. CASE e \in AllReferenceEdges(h, t)
    BY <1>5, <1>8
  <1>9. CASE e.kind = "ApiPathMatch" /\ \E x \in h.edges : x.kind = "StringMatch" /\ x.from = e.from /\ x.to = e.to
    <2>1. PICK x \in h.edges : x.kind = "StringMatch" /\ x.from = e.from /\ x.to = e.to
      BY <1>9
    <2>2. Twins(t, e.from, e.to)
      <3>1. x \notin E
        BY <2>1 DEF Reclassified
      <3>2. ~(x = Edge(x.from, x.to, "Configures", x.from.file))
        BY <2>1, EdgeIs
      <3>3. QED
        BY <1>1, <2>1, <3>1, <3>2 DEF FromPass
    <2>3. PICK y \in g.edges : y.kind = "ApiPathMatch" /\ {y.from, y.to} = {e.from, e.to}
      BY <2>2 DEF Covers, Twins
    <2>4. {Role(y.from), Role(y.to)} = {Role(e.from), Role(e.to)}
      BY <2>3
    <2>5. QED
      BY <1>9, <2>3, <2>4 DEF Likeness, Ends, AfterDoc, ReferenceKind, References
  <1>10. CASE \E x \in h.edges \cup AllReferenceEdges(h, t) :
                x.kind = "Extends" /\ e = Edge(x.from, x.to, "Inherits", x.ev)
    <2>1. PICK x \in h.edges \cup AllReferenceEdges(h, t) :
            x.kind = "Extends" /\ e = Edge(x.from, x.to, "Inherits", x.ev)
      BY <1>10
    <2>2. e.from = x.from /\ e.to = x.to /\ e.kind = "Inherits" /\ e.ev = x.ev
      BY <2>1, EdgeIs
    <2>3. CASE x \in h.edges
      <3>1. ~(x = Edge(x.from, x.to, "Configures", x.from.file))
        BY <2>1, EdgeIs
      <3>2. x \in E
        BY <1>1, <2>1, <2>3, <3>1 DEF FromPass
      <3>3. e \in g.edges
        BY <2>1, <3>2 DEF Covers
      <3>4. QED
        BY <3>3
    <2>4. CASE x \in AllReferenceEdges(h, t)
      <3>1. ~Volatile(t, x)
        <4>1. AfterDoc(t, e) = AfterDoc(t, x)
          BY <2>1, <2>2 DEF AfterDoc, ReferenceKind
        <4>2. QED
          BY <2>1, <2>2, <4>1 DEF Volatile, References
      <3>2. PICK y \in g.edges : y.kind = x.kind /\ Likeness(t, y) = Likeness(t, x)
        BY <1>5, <2>2, <2>4, <3>1
      <3>3. PICK z \in g.edges : z = Edge(y.from, y.to, "Inherits", y.ev)
        BY <2>1, <3>2 DEF Covers
      <3>4. z.from = y.from /\ z.to = y.to /\ z.kind = "Inherits" /\ z.ev = y.ev
        BY <3>3, EdgeIs
      <3>5. Ends(t, y) = Ends(t, x) /\ y.ev = x.ev
        BY <2>1, <3>2 DEF Likeness
      <3>6. AfterDoc(t, z) = AfterDoc(t, y) /\ AfterDoc(t, e) = AfterDoc(t, x)
        BY <2>1, <2>2, <3>2, <3>4 DEF AfterDoc, ReferenceKind
      <3>8. Ends(t, z) = Ends(t, y) /\ Ends(t, e) = Ends(t, x)
        BY <2>2, <3>4, <3>6 DEF Ends
      <3>9. Likeness(t, z) = Likeness(t, e)
        BY <2>2, <3>4, <3>5, <3>8 DEF Likeness
      <3>10. QED
        BY <3>3, <3>9
    <2>5. QED
      BY <2>1, <2>3, <2>4
  <1>11. e.kind # "TypeOf"
    BY DEF Derived
  <1>12. QED
    BY <1>3, <1>6, <1>7, <1>8, <1>9, <1>10, <1>11 DEF FromStage

-----------------------------------------------------------------------------
(* The pipeline.                                                           *)

\* The inductive invariant: the graph is built but for the files edited
\* since, and covers the tree when none was.
PipelineInv ==
  /\ TreeOK(tree) /\ dirty \subseteq Files /\ edits \in 0..MaxEdits
  /\ Built(graph, tree, dirty) /\ Tidy(graph, tree, dirty)
  /\ Settled => Reclassified(graph) /\ Covers(graph, tree)

Finished(g, t) == Built(g, t, {}) /\ Tidy(g, t, {}) /\ Reclassified(g) /\ Covers(g, t)

LEMMA BuildGraphFinished ==
  ASSUME NEW t, TreeOK(t)
  PROVE  Finished(BuildGraph(t), t)
  <1>1. PICK h : BuildGraph(t) = Finish(h, t) /\ Passed(h, t, {})
    BY BuildGraphIs
  <1>2. Ready(h, t) /\ Paired(h, t)
    BY <1>1 DEF Passed
  <1>3. Finished(Finish(h, t), t)
    BY <1>2, FinishIs DEF Finished
  <1>4. QED
    BY <1>1, <1>3

\* What a batch makes of a graph: a finished one, from the old edges and the
\* passes over the tree.
LEMMA BatchFinished ==
  ASSUME NEW t, TreeOK(t), NEW g, NEW D, D \subseteq Files, Built(g, t, D), Tidy(g, t, D),
         NEW touched \in SUBSET Files, NEW changed \in SetToSeqs(D \cup touched)
  PROVE  \E h : /\ BuildGraphIncremental(g, t, changed) = Finish(h, t) /\ Passed(h, t, g.edges)
                /\ Finished(Finish(h, t), t)
  <1>1. IsFiniteSet(D \cup touched) /\ D \cup touched \subseteq Files
    <2>1. D \cup touched \in SUBSET Files
      OBVIOUS
    <2>2. QED
      BY <2>1, FilesListed, FS_Subset
  <1>2. changed \in [1..Cardinality(D \cup touched) -> D \cup touched] /\ IsInjective(changed)
    BY DEF SetToSeqs, IsInjective
  <1>3. Listing(changed) /\ ToSet(changed) = D \cup touched
    BY <1>1, <1>2, Enumerated
  <1>4. PICK h : BuildGraphIncremental(g, t, changed) = Finish(h, t) /\ Passed(h, t, g.edges)
    BY <1>1, <1>3, IncrementalIs
  <1>5. Ready(h, t) /\ Paired(h, t)
    BY <1>4 DEF Passed
  <1>6. Finished(Finish(h, t), t)
    BY <1>5, FinishIs DEF Finished
  <1>7. QED
    BY <1>4, <1>6

LEMMA PipelineInit == Init => PipelineInv
  <1> SUFFICES ASSUME Init PROVE PipelineInv
    OBVIOUS
  <1>1. TreeOK(tree)
    BY DEF Init, TreeOK
  <1>2. PICK t : t = tree /\ TreeOK(t)
    BY <1>1
  <1>3. Finished(BuildGraph(t), t)
    BY <1>2, BuildGraphFinished
  <1>4. Built(graph, tree, dirty) /\ Tidy(graph, tree, dirty) /\ Reclassified(graph) /\ Covers(graph, tree)
    BY <1>2, <1>3 DEF Init, Finished
  <1>5. dirty = {} /\ edits \in 0..MaxEdits
    BY BoundsAssumption DEF Init
  <1>6. QED
    BY <1>1, <1>4, <1>5 DEF PipelineInv

LEMMA PipelineNext == PipelineInv /\ [Next]_vars => PipelineInv'
  <1> SUFFICES ASSUME PipelineInv, [Next]_vars PROVE PipelineInv'
    OBVIOUS
  <1>1. PICK t, g, D : t = tree /\ g = graph /\ D = dirty
    OBVIOUS
  <1>2. TreeOK(t) /\ D \subseteq Files /\ Built(g, t, D) /\ Tidy(g, t, D)
    BY <1>1 DEF PipelineInv
  <1>3. ASSUME NEW f \in Files, NEW c \in Contents[f], Edit(f, c) PROVE PipelineInv'
    <2>1. PICK t1 : t1 = [t EXCEPT ![f] = c]
      OBVIOUS
    <2>2. tree' = t1 /\ dirty' = D \cup {f} /\ graph' = g /\ edits' = edits + 1 /\ edits < MaxEdits
      BY <1>1, <1>3, <2>1 DEF Edit
    <2>3. TreeOK(t1) /\ \A x \in Files : x # f => t1[x] = t[x]
      BY <1>2, <2>1 DEF TreeOK
    <2>4. SymbolsBut(g, t1, D \cup {f})
      <3>1. DefNodes(t1, Files \ (D \cup {f})) = DefNodes(t, Files \ (D \cup {f}))
        BY <2>3 DEF DefNodes, Defs
      <3>2. \A n \in DefNodes(t, Files \ D) : n.file # f <=> n \in DefNodes(t, Files \ (D \cup {f}))
        <4>1. \A x, d : DefNode(x, d).file = x
          BY DEF DefNode
        <4>2. QED
          BY <4>1 DEF DefNodes
      <3>3. DefNodes(t, Files \ (D \cup {f})) \subseteq DefNodes(t, Files \ D)
        BY DEF DefNodes
      <3>4. {n \in Nodes(g) : Own(n) /\ n.file \notin D} = DefNodes(t, Files \ D)
        BY <1>2 DEF Built, Sound, SymbolsBut
      <3>5. {n \in Nodes(g) : Own(n) /\ n.file \notin D \cup {f}} = DefNodes(t, Files \ (D \cup {f}))
        BY <3>2, <3>3, <3>4
      <3>6. QED
        BY <3>1, <3>5 DEF SymbolsBut
    <2>5. GroundedBut(g, t1, D \cup {f})
      BY <1>2, <2>3 DEF Built, Sound, GroundedBut, Justified, Refs
    <2>6. Built(g, t1, D \cup {f})
      BY <1>2, <2>4, <2>5 DEF Built, Sound
    <2>7. Tidy(g, t1, D \cup {f})
      <3>1. \A x \in Files \ (D \cup {f}) : HasSymbols(t1, x) <=> HasSymbols(t, x)
        BY <2>3 DEF HasSymbols, Defs
      <3>2. ASSUME NEW n, Known(t, D, n) PROVE Known(t1, D \cup {f}, n)
        BY <3>1, <3>2 DEF Known
      <3>3. QED
        BY <1>2, <3>2 DEF Tidy
    <2>8. edits' \in 0..MaxEdits
      BY <2>2, BoundsAssumption DEF PipelineInv
    <2>9. ~Settled'
      BY <2>2 DEF Settled
    <2>10. QED
      BY <1>2, <2>2, <2>3, <2>6, <2>7, <2>8, <2>9 DEF PipelineInv
  <1>4. ASSUME NEW touched \in SUBSET Files, IncrementalRebuild(touched) PROVE PipelineInv'
    <2>1. PICK changed \in SetToSeqs(D \cup touched) :
            graph' = BuildGraphIncremental(g, t, changed) /\ dirty' = {} /\ tree' = t /\ edits' = edits
      BY <1>1, <1>4 DEF IncrementalRebuild
    <2>2. Finished(BuildGraphIncremental(g, t, changed), t)
      BY <1>2, BatchFinished
    <2>3. QED
      BY <1>2, <2>1, <2>2 DEF PipelineInv, Finished
  <1>5. ASSUME FullBuild PROVE PipelineInv'
    <2>1. graph' = BuildGraph(t) /\ dirty' = {} /\ tree' = t /\ edits' = edits
      BY <1>1, <1>5 DEF FullBuild
    <2>2. Finished(BuildGraph(t), t)
      BY <1>2, BuildGraphFinished
    <2>3. QED
      BY <1>2, <2>1, <2>2 DEF PipelineInv, Finished
  <1>6. ASSUME UNCHANGED vars PROVE PipelineInv'
    <2>1. tree' = tree /\ graph' = graph /\ dirty' = dirty /\ edits' = edits
      BY <1>6 DEF vars
    <2>2. QED
      BY <2>1 DEF PipelineInv, Settled
  <1>7. QED
    BY <1>3, <1>4, <1>5, <1>6 DEF Next

LEMMA PipelineInvariant == Spec => []PipelineInv
  BY PipelineInit, PipelineNext, PTL DEF Spec

\* The graph names every node once and an edge's ends are among its nodes,
\* through every build and edit.
THEOREM PipelineTypeCorrect == Spec => []TypeOK
  <1>1. PipelineInv => TypeOK
    <2> SUFFICES ASSUME PipelineInv PROVE TypeOK
      OBVIOUS
    <2>1. PICK g : g = graph /\ Built(g, tree, dirty)
      BY DEF PipelineInv
    <2>2. IsInjective(g.nodes)
      BY <2>1 DEF Built, Sound, IsGraph, Listing
    <2>3. \A e \in g.edges : {e.from, e.to} \subseteq Nodes(g) /\ e.ev \in Files \cup {Markdown}
      BY <2>1 DEF Built, Sound, IsGraph, EdgeOK
    <2>4. QED
      BY <2>1, <2>2, <2>3 DEF TypeOK, PipelineInv
  <1>2. QED
    BY <1>1, PipelineInvariant, PTL

\* After any history of edits, batches and builds the graph has the symbols
\* of the tree, each once, and the containment layer of each: one File node
\* for its file, one module.
THEOREM LayersExactHolds == Spec => []LayersExact
  <1>1. PipelineInv => SymbolsExact
    <2> SUFFICES ASSUME PipelineInv, Settled
                 PROVE  {n \in Nodes(graph) : n.span = "own" /\ n.kind # "DocSection"}
                          = UNION {{DefNode(f, d) : d \in ToSet(Defs(tree, f))} : f \in Files}
      BY DEF SymbolsExact
    <2>1. dirty = {} /\ SymbolsBut(graph, tree, dirty)
      BY DEF PipelineInv, Built, Sound, Settled
    <2>2. {n \in Nodes(graph) : Own(n)} = DefNodes(tree, Files)
      BY <2>1 DEF SymbolsBut
    <2>3. QED
      BY <2>2 DEF Own, DefNodes
  <1>2. PipelineInv => ContainmentExact
    <2> SUFFICES ASSUME PipelineInv, Settled
                 PROVE  /\ \A n \in UNION {Children(graph, f) : f \in Files} :
                             /\ {e.from : e \in {x \in graph.edges : x.kind = "Contains" /\ x.to = n}}
                                  = {m \in InFile(graph, n.file) : m.kind = "File"}
                             /\ Cardinality({e \in graph.edges : e.kind = "BelongsTo" /\ e.from = n}) = 1
                        /\ \A f \in Files : Cardinality({m \in InFile(graph, f) : m.kind = "File"}) <= 1
      BY DEF ContainmentExact
    <2>1. PICK g : g = graph /\ IsGraph(g) /\ Sparse(g) /\ Complete(g)
      BY DEF PipelineInv, Built, Sound
    <2>2. \A f : \A m, n \in InFile(g, f) : m.kind = "File" /\ n.kind = "File" => m = n
      BY <2>1 DEF Sparse, InFile
    <2>3. ASSUME NEW f \in Files, NEW n \in Children(g, f)
          PROVE  /\ {e.from : e \in {x \in g.edges : x.kind = "Contains" /\ x.to = n}}
                      = {m \in InFile(g, n.file) : m.kind = "File"}
                 /\ Cardinality({e \in g.edges : e.kind = "BelongsTo" /\ e.from = n}) = 1
      <3>1. n.file = f
        BY DEF Children, InFile
      <3>2. PICK m \in InFile(g, f) : m.kind = "File" /\ Edge(m, n, "Contains", f) \in g.edges
        BY <2>1, <2>3 DEF Complete, Placed
      <3>3. {m1 \in InFile(g, n.file) : m1.kind = "File"} = {m}
        BY <2>2, <3>1, <3>2
      <3>4. \A e \in g.edges : e.kind = "Contains" /\ e.to = n => e.from = m
        <4>1. ASSUME NEW e \in g.edges, e.kind = "Contains", e.to = n PROVE e.from = m
          <5>1. Fits(g, e)
            BY <2>1 DEF Sparse
          <5>2. e.to \in Children(g, e.ev) /\ e.from \in InFile(g, e.ev) /\ e.from.kind = "File"
            BY <4>1, <5>1 DEF Fits
          <5>3. e.ev = f
            BY <3>1, <4>1, <5>2 DEF Children, InFile
          <5>4. QED
            BY <2>2, <3>2, <5>2, <5>3
        <4>2. QED
          BY <4>1
      <3>5. \E e \in g.edges : e.kind = "Contains" /\ e.to = n /\ e.from = m
        BY <3>2, EdgeIs
      <3>6. {e.from : e \in {x \in g.edges : x.kind = "Contains" /\ x.to = n}} = {m}
        BY <3>4, <3>5
      <3>7. PICK h : IsHome(g, f, h) /\ Edge(n, h, "BelongsTo", f) \in g.edges
        BY <2>1, <2>3 DEF Complete, Placed
      <3>8. \A e \in g.edges : e.kind = "BelongsTo" /\ e.from = n => e = Edge(n, h, "BelongsTo", f)
        <4>1. ASSUME NEW e \in g.edges, e.kind = "BelongsTo", e.from = n PROVE e = Edge(n, h, "BelongsTo", f)
          <5>1. Fits(g, e) /\ e = Edge(e.from, e.to, e.kind, e.ev)
            BY <2>1 DEF Sparse, IsGraph, EdgeOK
          <5>2. e.from \in Children(g, e.ev) /\ IsHome(g, e.ev, e.to)
            BY <4>1, <5>1 DEF Fits
          <5>3. e.ev = f
            BY <3>1, <4>1, <5>2 DEF Children, InFile
          <5>4. e.to = h
            BY <2>1, <3>7, <5>2, <5>3, FirstOnce DEF IsHome, IsGraph
          <5>5. QED
            BY <4>1, <5>1, <5>3, <5>4
        <4>2. QED
          BY <4>1
      <3>9. {e \in g.edges : e.kind = "BelongsTo" /\ e.from = n} = {Edge(n, h, "BelongsTo", f)}
        BY <3>7, <3>8, EdgeIs
      <3>10. QED
        BY <3>3, <3>6, <3>9, FS_Singleton
    <2>4. ASSUME NEW f \in Files PROVE Cardinality({m \in InFile(g, f) : m.kind = "File"}) <= 1
      <3> DEFINE S == {m \in InFile(g, f) : m.kind = "File"}
      <3>1. S = {} \/ \E m : S = {m}
        BY <2>2
      <3> HIDE DEF S
      <3>2. Cardinality(S) = 0 \/ Cardinality(S) = 1
        BY <3>1, FS_EmptySet, FS_Singleton
      <3>3. QED
        BY <3>2 DEF S
    <2>5. \A f \in Files : \A n \in Children(graph, f) :
             /\ {e.from : e \in {x \in graph.edges : x.kind = "Contains" /\ x.to = n}}
                  = {m \in InFile(graph, n.file) : m.kind = "File"}
             /\ Cardinality({e \in graph.edges : e.kind = "BelongsTo" /\ e.from = n}) = 1
      <3>1. g = graph
        BY <2>1
      <3>2. QED
        BY <2>3, <3>1, Zenon
    <2>6. \A f \in Files : Cardinality({m \in InFile(graph, f) : m.kind = "File"}) <= 1
      <3>1. g = graph
        BY <2>1
      <3>2. QED
        BY <2>4, <3>1, Zenon
    <2>7. ASSUME NEW n \in UNION {Children(graph, f) : f \in Files}
          PROVE  /\ {e.from : e \in {x \in graph.edges : x.kind = "Contains" /\ x.to = n}}
                      = {m \in InFile(graph, n.file) : m.kind = "File"}
                 /\ Cardinality({e \in graph.edges : e.kind = "BelongsTo" /\ e.from = n}) = 1
      <3>1. PICK f \in Files : n \in Children(graph, f)
        OBVIOUS
      <3>2. QED
        BY <2>5, <3>1, Zenon
    <2>8. QED
      BY <2>6, <2>7, Zenon
  <1>3. PipelineInv => LayersExact
    BY <1>1, <1>2 DEF LayersExact
  <1>4. QED
    BY <1>3, PipelineInvariant, PTL

\* No reference edge outlives its text: an incremental build removes those of
\* the files it takes in and adds only what some file still says.
THEOREM GroundedHolds == Spec => []Grounded
  <1>1. PipelineInv => Grounded
    BY DEF PipelineInv, Built, Sound, GroundedBut, Justified, Grounded, Settled
  <1>2. QED
    BY <1>1, PipelineInvariant, PTL

\* What a clean build would link the graph links too, whichever files changed
\* in whatever batches: an incremental build resolves all references again, and
\* in any graph of a tree a reference that is not volatile has like edges.
THEOREM IncrementalCoversHolds == Spec => []IncrementalCovers
  <1>1. PipelineInv => IncrementalCovers
    <2> SUFFICES ASSUME PipelineInv, Settled
                 PROVE  Linked(Rebuilt, tree) \subseteq {Likeness(tree, e) : e \in graph.edges}
      BY DEF IncrementalCovers
    <2>1. PICK t, g : t = tree /\ g = graph /\ TreeOK(t) /\ Finished(g, t)
      BY DEF PipelineInv, Finished, Settled
    <2>2. PICK h : /\ BuildGraph(t) = Finish(h, t) /\ Passed(h, t, {})
                   /\ \A n \in Nodes(h) : n.span # "whole"
      BY <2>1, BuildGraphIs
    <2>3. ASSUME NEW e \in Finish(h, t).edges, e.kind \in Derived, ~Volatile(t, e)
          PROVE  \E x \in g.edges : Likeness(t, x) = Likeness(t, e)
      <3>1. {} \subseteq g.edges
        OBVIOUS
      <3>2. QED
        BY <2>1, <2>2, <2>3, <3>1, StageCovered DEF Finished
    <2>4. Linked(Finish(h, t), t) \subseteq {Likeness(t, e) : e \in g.edges}
      BY <2>3 DEF Linked
    <2>5. QED
      BY <2>1, <2>2, <2>4 DEF Rebuilt
  <1>2. QED
    BY <1>1, PipelineInvariant, PTL

\* A build of a tree that is already taken in, full or incremental, with
\* whatever files in its batch, adds no derived edge that is not volatile or
\* from a barrel: an edge of the new graph was there, or is from a pass over
\* the same tree.
THEOREM RebuildIdempotentHolds == Spec => RebuildIdempotent
  <1> DEFINE Firm(q) == [q EXCEPT !.edges = {x \in @ : x.from.span # "whole"}]
  <1>1. ASSUME PipelineInv, [Next]_vars, Settled, tree' = tree
        PROVE  Linked(Firm(graph'), tree) \subseteq {Likeness(tree, e) : e \in graph.edges}
    <2>1. PICK t, g : t = tree /\ g = graph /\ TreeOK(t) /\ Finished(g, t)
      BY <1>1 DEF PipelineInv, Finished, Settled
    <2>2. ASSUME NEW q, q = g \/ \E h, E : q = Finish(h, t) /\ Passed(h, t, E) /\ E \subseteq g.edges
          PROVE  Linked(Firm(q), t) \subseteq {Likeness(t, e) : e \in g.edges}
      <3>1. IsGraph(q)
        <4>1. CASE q = g
          BY <2>1, <4>1 DEF Finished, Built, Sound
        <4>2. ASSUME NEW h, NEW E, q = Finish(h, t), Passed(h, t, E) PROVE IsGraph(q)
          BY <4>2, FinishIs DEF Passed, Built, Sound
        <4>3. QED
          BY <2>2, <4>1, <4>2
      <3>2. Firm(q).edges = {x \in q.edges : x.from.span # "whole"}
        BY <3>1 DEF IsGraph
      <3> HIDE DEF Firm
      <3>3. ASSUME NEW e \in q.edges, e.from.span # "whole", e.kind \in Derived, ~Volatile(t, e)
            PROVE  \E x \in g.edges : Likeness(t, x) = Likeness(t, e)
        <4>1. CASE q = g
          BY <4>1
        <4>2. ASSUME NEW h, NEW E, q = Finish(h, t), Passed(h, t, E), E \subseteq g.edges
              PROVE  \E x \in g.edges : Likeness(t, x) = Likeness(t, e)
          BY <2>1, <3>3, <4>2, StageCovered DEF Finished
        <4>3. QED
          BY <2>2, <4>1, <4>2
      <3>4. QED
        BY <3>2, <3>3 DEF Linked
    <2>3. graph' = g \/ \E h, E : graph' = Finish(h, t) /\ Passed(h, t, E) /\ E \subseteq g.edges
      <3>1. ASSUME NEW f \in Files, NEW c \in Contents[f], Edit(f, c) PROVE FALSE
        <4>1. t = [t EXCEPT ![f] = c] /\ c # t[f]
          BY <1>1, <2>1, <3>1 DEF Edit
        <4>2. QED
          BY <2>1, <4>1 DEF TreeOK
      <3>2. ASSUME NEW touched \in SUBSET Files, IncrementalRebuild(touched)
            PROVE  \E h, E : graph' = Finish(h, t) /\ Passed(h, t, E) /\ E \subseteq g.edges
        <4>1. PICK D : D = dirty /\ D \subseteq Files /\ Built(g, t, D) /\ Tidy(g, t, D)
          BY <1>1, <2>1 DEF PipelineInv
        <4>2. PICK changed \in SetToSeqs(D \cup touched) : graph' = BuildGraphIncremental(g, t, changed)
          BY <2>1, <3>2, <4>1 DEF IncrementalRebuild
        <4>3. PICK h : BuildGraphIncremental(g, t, changed) = Finish(h, t) /\ Passed(h, t, g.edges)
          BY <2>1, <4>1, BatchFinished
        <4>4. QED
          BY <4>2, <4>3
      <3>3. ASSUME FullBuild
            PROVE  \E h, E : graph' = Finish(h, t) /\ Passed(h, t, E) /\ E \subseteq g.edges
        <4>1. PICK h : BuildGraph(t) = Finish(h, t) /\ Passed(h, t, {})
          BY <2>1, BuildGraphIs
        <4>2. graph' = Finish(h, t) /\ {} \subseteq g.edges
          BY <2>1, <3>3, <4>1 DEF FullBuild
        <4>3. QED
          BY <4>1, <4>2
      <3>4. CASE UNCHANGED vars
        BY <2>1, <3>4 DEF vars
      <3>5. QED
        BY <1>1, <3>1, <3>2, <3>3, <3>4 DEF Next
    <2>4. PICK q : q = graph'
      OBVIOUS
    <2>5. Linked(Firm(q), t) \subseteq {Likeness(t, e) : e \in g.edges}
      BY <2>2, <2>3, <2>4
    <2>6. QED
      BY <2>1, <2>4, <2>5
  <1>2. PipelineInv /\ [Next]_vars =>
          [Settled /\ tree' = tree =>
             Linked([graph' EXCEPT !.edges = {x \in @ : x.from.span # "whole"}], tree)
               \subseteq {Likeness(tree, e) : e \in graph.edges}]_vars
    BY <1>1
  <1>3. QED
    BY <1>2, PipelineInvariant, PTL DEF Spec, RebuildIdempotent
=============================================================================
