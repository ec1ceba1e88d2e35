-------------------------- MODULE SymbolGraphProofs --------------------------
(***************************************************************************)
(* Theorems about SymbolGraph, for any files, declarations and bounds.     *)
(***************************************************************************)
EXTENDS SymbolGraph, FiniteSetTheorems, WellFoundedInduction, TLAPS

\* The type of a graph.
Maps(K, T) == UNION {[S -> T] : S \in SUBSET K}
Names == {d.name : d \in Decls} \cup {d.qual : d \in Decls}
Places == {"name", "qual", "value"} \X Names
Node == [file : Files, decl : Decls, status : Statuses]
Edges == [from : Nat, to : Nat, kind : EdgeKinds, ev : Files, stale : 0..MaxStale]
AllKeys == Nat \X Nat \X EdgeKinds
Evidence == [nodes : SUBSET Nat, edges : SUBSET AllKeys]
Ages == {"young", "ripe"}
Graph == [nodes : Maps(Nat, Node), edges : SUBSET Edges, nextId : Nat,
          index : Maps(Places, Seq(Nat)), seen : SUBSET AllKeys,
          evidence : Maps(Files, Evidence), gone : Maps(Nat, Ages),
          blooms : Maps(Files, SUBSET Names)]

\* An id is handed out once.
IdsSound(h) == \A id \in DOMAIN h.nodes : id < h.nextId

\* EvidenceExact, of any graph.
EvidenceSound(h) ==
  /\ \A k \in h.seen : k[1] \in DOMAIN h.nodes /\ k[2] \in DOMAIN h.nodes
  /\ \A k \in h.seen : \E f \in DOMAIN h.evidence : k \in h.evidence[f].edges
  /\ \A f \in DOMAIN h.evidence : h.evidence[f].edges \subseteq h.seen
  /\ \A f1, f2 \in DOMAIN h.evidence : \A k \in h.evidence[f1].edges :
       k \in h.evidence[f2].edges => f1 = f2
  /\ \A e \in h.edges : e.ev \in DOMAIN h.evidence /\ EdgeKey(e) \in h.evidence[e.ev].edges
  /\ \A e1, e2 \in h.edges : EdgeKey(e1) = EdgeKey(e2) => e1 = e2
  /\ \A f \in Files : At(h.evidence, f, NoEvidence).nodes = InFile(h, f)
  /\ \A f \in DOMAIN h.evidence : h.evidence[f] # NoEvidence

\* LookupsExact, of any graph.
IndexSound(h) ==
  /\ \A b : b \in DOMAIN h.index <=> \E id \in DOMAIN h.nodes : b \in Buckets(h.nodes[id].decl)
  /\ \A b \in DOMAIN h.index :
       /\ IsInjective(h.index[b])
       /\ ToSet(h.index[b]) = {id \in DOMAIN h.nodes : b \in Buckets(h.nodes[id].decl)}
GoneSound(h) == \A id \in DOMAIN h.gone : id \in DOMAIN h.nodes /\ h.nodes[id].status = "Gone"
BloomsSound(h) ==
  /\ \A f : f \in DOMAIN h.blooms <=> \E id \in DOMAIN h.nodes : h.nodes[id].file = f
  /\ \A id \in DOMAIN h.nodes : h.nodes[id].decl.name \in h.blooms[h.nodes[id].file]

Sound(h) ==
  /\ h \in Graph /\ IsFiniteSet(DOMAIN h.nodes) /\ IsFiniteSet(h.edges) /\ IdsSound(h)
  /\ EvidenceSound(h) /\ IndexSound(h) /\ GoneSound(h) /\ BloomsSound(h)

-----------------------------------------------------------------------------
(* Induction over data without predicate parameters: what holds of a least *)
(* counterexample.  The folds of the community modules are functions       *)
(* defined by recursion over the subsets of a finite set; Folding gives    *)
(* such a function with the sets its values lie in; SubsetInduction shows  *)
(* that the fold is that function.                                         *)

\* Induction on the naturals: the predicate is a set.
LEMMA NatSet ==
  ASSUME NEW S, 0 \in S, \A n \in Nat : n \in S => n + 1 \in S
  PROVE  Nat \subseteq S
  <1> DEFINE R == {ss \in Nat \X Nat : ss[1] < ss[2]}
             T == {n \in Nat : n \notin S}
  <1>1. R = OpToRel(<, Nat)
    BY DEF OpToRel
  <1>2. IsWellFoundedOn(R, Nat)
    BY <1>1, NatLessThanWellFounded
  <1>3. ASSUME T # {} PROVE FALSE
    <2>1. T \subseteq Nat
      OBVIOUS
    <2> HIDE DEF T, R
    <2>2. \E x \in T : \A y \in T : ~(<<y, x>> \in R)
      BY <1>2, <1>3, <2>1, WFMin
    <2>3. PICK x \in T : \A y \in T : ~(<<y, x>> \in R)
      BY <2>2
    <2> USE DEF T, R
    <2>4. x \in Nat /\ x \notin S /\ x # 0
      OBVIOUS
    <2>5. x - 1 \in Nat /\ x - 1 + 1 = x
      BY <2>4
    <2>6. x - 1 \notin S
      BY <2>4, <2>5
    <2>7. <<x - 1, x>> \in R
      BY <2>4, <2>5
    <2>8. QED
      BY <2>3, <2>5, <2>6, <2>7
  <1>4. QED
    BY <1>3

LEMMA MinIs ==
  ASSUME NEW S, S \subseteq Nat, S # {}
  PROVE  Min(S) \in S
  <1>1. ASSUME ~ \E x \in S : \A y \in S : x =< y PROVE FALSE
    <2> DEFINE U == {n \in Nat : \A k \in 0..n : k \notin S}
    <2>1. 0 \in U
      BY <1>1
    <2>2. ASSUME NEW n \in Nat, n \in U PROVE n + 1 \in U
      BY <1>1, <2>2
    <2>3. Nat \subseteq U
      <3> HIDE DEF U
      <3>1. QED
        BY <2>1, <2>2, NatSet
    <2>4. PICK x \in S : x \in Nat
      OBVIOUS
    <2>5. x \in U /\ x \in 0..x
      BY <2>3, <2>4
    <2>6. QED
      BY <2>4, <2>5
  <1>2. QED
    BY <1>1 DEF Min

LEMMA SeqIs ==
  ASSUME NEW n \in Nat, NEW T, NEW f \in [1..n -> T]
  PROVE  f \in Seq(T) /\ Len(f) = n
  <1>1. f \in Seq(T)
    OBVIOUS
  <1>2. QED
    BY <1>1

\* C chooses an element of every subset of D that has one.
Chooses(C, D) == \A s \in (SUBSET D) \ {{}} : C[s] \in s

\* A finite set loses one element to the choice.
LEMMA OneLess ==
  ASSUME NEW D, IsFiniteSet(D), NEW C, Chooses(C, D), NEW s \in (SUBSET D) \ {{}}
  PROVE  /\ s \ {C[s]} \in SUBSET D /\ C[s] \in D
         /\ Cardinality(s) \in Nat /\ Cardinality(s \ {C[s]}) = Cardinality(s) - 1
  <1>1. C[s] \in s
    BY DEF Chooses
  <1>2. IsFiniteSet(s)
    BY FS_Subset
  <1>3. Cardinality(s) \in Nat
    BY <1>2, FS_CardinalityType
  <1>4. Cardinality(s \ {C[s]}) = Cardinality(s) - 1
    BY <1>1, <1>2, FS_RemoveElement
  <1>5. QED
    BY <1>1, <1>3, <1>4

\* Induction on the subsets of a finite set, one chosen element at a time.
LEMMA SubsetInduction ==
  ASSUME NEW D, IsFiniteSet(D), NEW C, Chooses(C, D),
         NEW T, {} \in T,
         \A s \in (SUBSET D) \ {{}} : s \ {C[s]} \in T => s \in T
  PROVE  SUBSET D \subseteq T
  <1> DEFINE S == {n \in Nat : \A s \in SUBSET D : Cardinality(s) = n => s \in T}
  <1>1. \A s \in SUBSET D : Cardinality(s) \in Nat /\ (Cardinality(s) = 0 <=> s = {})
    BY FS_Subset, FS_CardinalityType, FS_EmptySet
  <1>2. 0 \in S
    BY <1>1
  <1>3. ASSUME NEW n \in Nat, n \in S PROVE n + 1 \in S
    <2>1. ASSUME NEW s \in SUBSET D, Cardinality(s) = n + 1 PROVE s \in T
      <3>1. s # {}
        BY <1>1, <2>1
      <3>2. s \ {C[s]} \in SUBSET D /\ Cardinality(s \ {C[s]}) = n
        BY <2>1, <3>1, OneLess
      <3>3. s \ {C[s]} \in T
        BY <1>3, <3>2
      <3>4. QED
        BY <3>1, <3>3
    <2>2. QED
      BY <2>1
  <1>4. Nat \subseteq S
    <2> HIDE DEF S
    <2>1. QED
      BY <1>2, <1>3, NatSet
  <1>5. QED
    BY <1>1, <1>4

\* What a function of the subsets of D gives for D, by that induction.
LEMMA Folded ==
  ASSUME NEW D, IsFiniteSet(D), NEW C, Chooses(C, D),
         NEW V, NEW it, it[{}] \in V[{}],
         \A s \in (SUBSET D) \ {{}} : it[s \ {C[s]}] \in V[s \ {C[s]}] => it[s] \in V[s]
  PROVE  it[D] \in V[D]
  <1> DEFINE T == {s \in SUBSET D : it[s] \in V[s]}
  <1>1. {} \in T
    OBVIOUS
  <1>2. \A s \in (SUBSET D) \ {{}} : s \ {C[s]} \in T => s \in T
    OBVIOUS
  <1>3. SUBSET D \subseteq T
    <2> HIDE DEF T
    <2>1. QED
      BY <1>1, <1>2, SubsetInduction
  <1>4. QED
    BY <1>3

\* A function of the subsets of D that gives base for none and, for others,
\* what G makes of the chosen element and of the value for the rest.
IsFold(it, D, C, base, G) ==
  \A s \in SUBSET D : it[s] = IF s = {} THEN base ELSE G[<<C[s], it[s \ {C[s]}]>>]

\* There is one, with its value for s in V[s], when G leads from V to V.
LEMMA Folding ==
  ASSUME NEW D, IsFiniteSet(D), NEW C, Chooses(C, D),
         NEW V, NEW base, NEW G, base \in V[{}],
         \A s \in (SUBSET D) \ {{}} : \A v \in V[s \ {C[s]}] : G[<<C[s], v>>] \in V[s]
  PROVE  \E it : /\ it = [s \in SUBSET D |-> it[s]] /\ IsFold(it, D, C, base, G)
                 /\ \A s \in SUBSET D : it[s] \in V[s]
  <1> DEFINE Part(it, n) ==
        \A s \in SUBSET D : Cardinality(s) <= n =>
          it[s] \in V[s] /\ it[s] = IF s = {} THEN base ELSE G[<<C[s], it[s \ {C[s]}]>>]
             S == {n \in Nat : \E it : Part(it, n)}
  <1>1. \A s \in SUBSET D : Cardinality(s) \in Nat /\ (Cardinality(s) = 0 <=> s = {})
    BY FS_Subset, FS_CardinalityType, FS_EmptySet
  <1>2. 0 \in S
    <2> DEFINE it == [s \in SUBSET D |-> base]
    <2>1. ASSUME NEW s \in SUBSET D, Cardinality(s) <= 0 PROVE s = {}
      BY <1>1, <2>1
    <2>2. Part(it, 0)
      BY <2>1
    <2> HIDE DEF Part, it
    <2>3. QED
      BY <2>2
  <1>3. ASSUME NEW n \in Nat, n \in S PROVE n + 1 \in S
    <2>1. PICK it : Part(it, n)
      BY <1>3
    <2> DEFINE jt == [s \in SUBSET D |-> IF s = {} THEN base ELSE G[<<C[s], it[s \ {C[s]}]>>]]
    <2>2. ASSUME NEW s \in SUBSET D, Cardinality(s) <= n PROVE jt[s] = it[s]
      BY <2>1, <2>2
    <2>3. ASSUME NEW s \in SUBSET D, Cardinality(s) <= n + 1
          PROVE  jt[s] \in V[s] /\ jt[s] = IF s = {} THEN base ELSE G[<<C[s], jt[s \ {C[s]}]>>]
      <3>1. CASE s = {}
        BY <3>1
      <3>2. CASE s # {}
        <4>1. s \ {C[s]} \in SUBSET D /\ Cardinality(s \ {C[s]}) <= n
          BY <2>3, <3>2, OneLess
        <4>2. jt[s \ {C[s]}] = it[s \ {C[s]}] /\ it[s \ {C[s]}] \in V[s \ {C[s]}]
          <5> HIDE DEF jt
          <5>1. QED
            BY <2>1, <2>2, <4>1
        <4>3. QED
          BY <3>2, <4>2
      <3>3. QED
        BY <3>1, <3>2
    <2>4. Part(jt, n + 1)
      <3> HIDE DEF jt
      <3>1. QED
        BY <2>3
    <2> HIDE DEF Part, jt
    <2>5. QED
      BY <2>4
  <1>4. Nat \subseteq S
    <2> HIDE DEF S
    <2>1. QED
      BY <1>2, <1>3, NatSet
  <1>5. Cardinality(D) \in Nat /\ \A s \in SUBSET D : Cardinality(s) <= Cardinality(D)
    BY FS_Subset, FS_CardinalityType
  <1>6. PICK it : Part(it, Cardinality(D))
    BY <1>4, <1>5
  <1> DEFINE jt == [s \in SUBSET D |-> it[s]]
  <1>7. \A s \in SUBSET D : jt[s] = it[s] /\ jt[s] \in V[s]
    BY <1>5, <1>6
  <1>8. ASSUME NEW s \in SUBSET D PROVE jt[s] = IF s = {} THEN base ELSE G[<<C[s], jt[s \ {C[s]}]>>]
    <2>1. s # {} => s \ {C[s]} \in SUBSET D
      OBVIOUS
    <2>2. it[s] = IF s = {} THEN base ELSE G[<<C[s], it[s \ {C[s]}]>>]
      BY <1>5, <1>6
    <2> HIDE DEF jt
    <2>3. QED
      BY <1>7, <2>1, <2>2
  <1>9. jt = [s \in SUBSET D |-> jt[s]]
    OBVIOUS
  <1> HIDE DEF jt
  <1>10. QED
    BY <1>7, <1>8, <1>9 DEF IsFold

-----------------------------------------------------------------------------
(* The choices the folds of the community modules make.                    *)
SeqChoice(n) == [s \in SUBSET (1..n) |-> Max(s)]
SetChoice(D) == [s \in SUBSET D |-> CHOOSE x \in s : TRUE]

LEMMA SeqChooses ==
  ASSUME NEW n \in Nat
  PROVE  IsFiniteSet(1..n) /\ Chooses(SeqChoice(n), 1..n)
  <1> DEFINE S == {k \in Nat : \A s \in (SUBSET (1..k)) \ {{}} : \E x \in s : \A y \in s : x >= y}
  <1>1. 0 \in S
    OBVIOUS
  <1>2. ASSUME NEW k \in Nat, k \in S PROVE k + 1 \in S
    <2>1. ASSUME NEW s \in (SUBSET (1..(k + 1))) \ {{}} PROVE \E x \in s : \A y \in s : x >= y
      <3>1. CASE k + 1 \in s
        <4>1. \A y \in s : k + 1 >= y
          OBVIOUS
        <4>2. QED
          BY <3>1, <4>1
      <3>2. CASE k + 1 \notin s
        <4>1. s \in (SUBSET (1..k)) \ {{}}
          BY <3>2
        <4>2. QED
          BY <1>2, <4>1
      <3>3. QED
        BY <3>1, <3>2
    <2>2. QED
      BY <2>1
  <1>3. Nat \subseteq S
    <2> HIDE DEF S
    <2>1. QED
      BY <1>1, <1>2, NatSet
  <1>4. \A s \in (SUBSET (1..n)) \ {{}} : \E x \in s : \A y \in s : x >= y
    BY <1>3
  <1>5. \A s \in (SUBSET (1..n)) \ {{}} : Max(s) \in s
    BY <1>4 DEF Max
  <1>6. IsFiniteSet(1..n)
    BY FS_Interval
  <1>7. QED
    BY <1>5, <1>6 DEF Chooses, SeqChoice

LEMMA SetChooses == \A D : Chooses(SetChoice(D), D)
  BY DEF Chooses, SetChoice
-----------------------------------------------------------------------------
(* Sequences without repetition.                                           *)

LEMMA AppendIs ==
  ASSUME NEW X, NEW s \in Seq(X), NEW x \in X
  PROVE  /\ Append(s, x) \in Seq(X)
         /\ ToSet(Append(s, x)) = ToSet(s) \cup {x}
         /\ IsInjective(s) /\ x \notin ToSet(s) => IsInjective(Append(s, x))
  <1>1. /\ Append(s, x) \in Seq(X) /\ DOMAIN Append(s, x) = 1..(Len(s) + 1)
        /\ DOMAIN s = 1..Len(s) /\ Len(s) \in Nat
        /\ \A j \in 1..Len(s) : Append(s, x)[j] = s[j]
        /\ Append(s, x)[Len(s) + 1] = x
    OBVIOUS
  <1>2. ToSet(Append(s, x)) = ToSet(s) \cup {x}
    BY <1>1 DEF ToSet
  <1>3. ASSUME IsInjective(s), x \notin ToSet(s) PROVE IsInjective(Append(s, x))
    BY <1>1, <1>3 DEF IsInjective, ToSet
  <1>4. QED
    BY <1>1, <1>2, <1>3

\* The elements of a sequence that are not in S, in order: Vec::retain.
Retained(s, S) == FoldLeft(LAMBDA left, x : IF x \in S THEN left ELSE Append(left, x), <<>>, s)

\* Retained leaves what is not in the set, once.
LEMMA RetainedIs ==
  ASSUME NEW X, NEW s \in Seq(X), IsInjective(s), NEW S
  PROVE  /\ Retained(s, S) \in Seq(X) /\ IsInjective(Retained(s, S))
         /\ ToSet(Retained(s, S)) = ToSet(s) \ S
  <1> DEFINE D == 1..Len(s)
             C == SeqChoice(Len(s))
             V == [r \in SUBSET D |-> {a \in Seq(X) : /\ IsInjective(a)
                                                      /\ ToSet(a) = {s[i] : i \in r} \ S}]
             U == Seq(X)
             G == [p \in D \X U |-> IF s[p[1]] \in S THEN p[2] ELSE Append(p[2], s[p[1]])]
  <1>1. Len(s) \in Nat /\ DOMAIN s = D /\ s \in [D -> X]
    OBVIOUS
  <1>2. IsFiniteSet(D) /\ Chooses(C, D)
    BY <1>1, SeqChooses
  <1>0. /\ \A r \in SUBSET D : \A a : a \in V[r] <=> /\ a \in Seq(X) /\ IsInjective(a)
                                                     /\ ToSet(a) = {s[i] : i \in r} \ S
        /\ \A i \in D, v \in U : G[<<i, v>>] = IF s[i] \in S THEN v ELSE Append(v, s[i])
    OBVIOUS
  <1>3. <<>> \in V[{}]
    BY DEF IsInjective, ToSet
  <1>4. ASSUME NEW r \in (SUBSET D) \ {{}}, NEW v \in V[r \ {C[r]}]
        PROVE  G[<<C[r], v>>] \in V[r]
    <2>1. PICK i \in D : i = C[r] /\ i \in r
      BY <1>2 DEF Chooses
    <2>2. v \in Seq(X) /\ IsInjective(v) /\ ToSet(v) = {s[j] : j \in r \ {i}} \ S
      BY <2>1
    <2>3. CASE s[i] \in S
      <3>1. G[<<C[r], v>>] = v
        BY <2>1, <2>2, <2>3
      <3>2. QED
        BY <2>1, <2>2, <2>3, <3>1
    <2>4. CASE s[i] \notin S
      <3>1. G[<<C[r], v>>] = Append(v, s[i])
        BY <2>1, <2>2, <2>4
      <3>2. s[i] \notin ToSet(v)
        BY <1>1, <2>1, <2>2 DEF IsInjective
      <3>3. /\ Append(v, s[i]) \in Seq(X) /\ IsInjective(Append(v, s[i]))
            /\ ToSet(Append(v, s[i])) = ToSet(v) \cup {s[i]}
        BY <1>1, <2>2, <3>2, AppendIs
      <3>4. {s[j] : j \in r} \ S = ({s[j] : j \in r \ {i}} \ S) \cup {s[i]}
        BY <2>1, <2>4
      <3>5. QED
        BY <1>0, <2>2, <3>1, <3>3, <3>4
    <2>5. QED
      BY <2>3, <2>4
  <1>5. PICK jt : /\ jt = [r \in SUBSET D |-> jt[r]] /\ IsFold(jt, D, C, <<>>, G)
                  /\ \A r \in SUBSET D : jt[r] \in V[r]
    <2> HIDE DEF D, C, V, G
    <2>1. QED
      BY <1>2, <1>3, <1>4, Folding
  <1> DEFINE Step(f, r) == IF r = {} THEN <<>>
                           ELSE IF s[Max(r)] \in S THEN f[r \ {Max(r)}] ELSE Append(f[r \ {Max(r)}], s[Max(r)])
  <1>6. jt = [r \in SUBSET D |-> Step(jt, r)]
    <2>1. ASSUME NEW r \in (SUBSET D) \ {{}} PROVE jt[r] = Step(jt, r)
      <3>1. r \ {C[r]} \in SUBSET D /\ C[r] \in D /\ C[r] = Max(r)
        BY <1>2 DEF Chooses, SeqChoice
      <3>2. jt[r \ {C[r]}] \in U
        BY <1>5, <3>1
      <3>3. jt[r] = G[<<C[r], jt[r \ {C[r]}]>>]
        BY <1>5 DEF IsFold
      <3>4. QED
        BY <3>1, <3>2, <3>3
    <2>2. jt[{}] = <<>>
      BY <1>5 DEF IsFold
    <2>3. QED
      BY <1>5, <2>1, <2>2
  <1> DEFINE it == CHOOSE f : f = [r \in SUBSET D |-> Step(f, r)]
  <1>7. it = [r \in SUBSET D |-> Step(it, r)]
    BY <1>6
  <1>8. it[D] = jt[D]
    <2> DEFINE T == {r \in SUBSET D : it[r] = jt[r]}
    <2>1. {} \in T
      <3> HIDE DEF it
      <3>1. QED
        BY <1>6, <1>7
    <2>2. ASSUME NEW r \in (SUBSET D) \ {{}}, r \ {C[r]} \in T PROVE r \in T
      <3>1. it[r] = Step(it, r) /\ jt[r] = Step(jt, r) /\ C[r] = Max(r)
        <4> HIDE DEF it
        <4>1. QED
          BY <1>6, <1>7 DEF SeqChoice
      <3>2. QED
        BY <2>2, <3>1
    <2>3. SUBSET D \subseteq T
      <3> HIDE DEF it, D, C, T
      <3>1. QED
        BY <1>2, <2>1, <2>2, SubsetInduction
    <2>4. QED
      BY <2>3
  <1>9. Retained(s, S) = it[D]
    BY <1>1 DEF Retained, FoldLeft, MapThenFoldSet
  <1>10. jt[D] \in V[D] /\ ToSet(s) = {s[i] : i \in D}
    BY <1>1, <1>5 DEF ToSet
  <1>11. QED
    BY <1>0, <1>8, <1>9, <1>10

-----------------------------------------------------------------------------
(* Partial maps and sequences.                                             *)

LEMMA MapIs ==
  ASSUME NEW K, NEW T, NEW f
  PROVE  f \in Maps(K, T) <=> /\ f = [x \in DOMAIN f |-> f[x]]
                              /\ DOMAIN f \subseteq K /\ \A x \in DOMAIN f : f[x] \in T
  BY DEF Maps

LEMMA PutIs ==
  ASSUME NEW K, NEW T, NEW f \in Maps(K, T), NEW k \in K, NEW v \in T
  PROVE  Put(f, k, v) \in Maps(K, T)
  <1>1. DOMAIN f \subseteq K /\ \A x \in DOMAIN f : f[x] \in T
    BY MapIs
  <1>2. PICK p : p = Put(f, k, v)
    OBVIOUS
  <1>3. p = [x \in (DOMAIN f) \cup {k} |-> IF x = k THEN v ELSE f[x]]
    BY <1>2 DEF Put
  <1>4. QED
    BY <1>1, <1>2, <1>3, MapIs

LEMMA OnlyIs ==
  ASSUME NEW K, NEW T, NEW f \in Maps(K, T), NEW S
  PROVE  Only(f, S) \in Maps(K, T)
  <1>1. DOMAIN f \subseteq K /\ \A x \in DOMAIN f : f[x] \in T
    BY MapIs
  <1>2. PICK p : p = Only(f, S)
    OBVIOUS
  <1>3. p = [x \in (DOMAIN f) \cap S |-> f[x]]
    BY <1>2 DEF Only
  <1>4. QED
    BY <1>1, <1>2, <1>3, MapIs

\* Without leaves what is not in the set, once.
LEMMA WithoutIs ==
  ASSUME NEW X, NEW s \in Seq(X), IsInjective(s), NEW S
  PROVE  /\ Without(s, S) \in Seq(X) /\ IsInjective(Without(s, S))
         /\ ToSet(Without(s, S)) = ToSet(s) \ S
  <1>1. Without(s, S) = Retained(s, S)
    BY DEF Without, Retained
  <1>2. QED
    BY <1>1, RetainedIs

-----------------------------------------------------------------------------
(* What each operation leaves in each field.                               *)

LEMMA DeclTypes ==
  \A d \in Decls : /\ d.name \in Names /\ d.qual \in Names /\ Buckets(d) \subseteq Places
                   /\ <<"name", d.name>> \in Buckets(d)
  <1> SUFFICES ASSUME NEW d \in Decls
               PROVE  /\ d.name \in Names /\ d.qual \in Names /\ Buckets(d) \subseteq Places
                      /\ <<"name", d.name>> \in Buckets(d)
    OBVIOUS
  <1>1. d.name \in Names /\ d.qual \in Names
    BY DEF Names
  <1>2. \A b \in Buckets(d) : b \in {<<"name", d.name>>, <<"qual", d.qual>>, <<"value", d.name>>}
    BY DEF Buckets
  <1>3. {<<"name", d.name>>, <<"qual", d.qual>>, <<"value", d.name>>} \subseteq Places
    BY <1>1 DEF Places
  <1>4. QED
    BY <1>1, <1>2, <1>3 DEF Buckets

LEMMA AtIs ==
  ASSUME NEW K, NEW T, NEW f \in Maps(K, T), NEW default \in T
  PROVE  \A k : At(f, k, default) \in T
  BY MapIs DEF At

\* The index with an id added to the buckets of a declaration.
Indexed(h, id, d) ==
  [b \in (DOMAIN h.index) \cup Buckets(d) |->
     IF b \in Buckets(d) THEN Append(At(h.index, b, <<>>), id) ELSE h.index[b]]

LEMMA IndexedIs ==
  ASSUME NEW h \in Graph, NEW id \in Nat, NEW d \in Decls
  PROVE  /\ Indexed(h, id, d) \in Maps(Places, Seq(Nat))
         /\ \A b : At(h.index, b, <<>>) \in Seq(Nat)
  <1>1. h.index \in Maps(Places, Seq(Nat)) /\ <<>> \in Seq(Nat)
    BY DEF Graph
  <1>2. \A b : At(h.index, b, <<>>) \in Seq(Nat)
    BY <1>1, AtIs
  <1>3. Buckets(d) \subseteq Places /\ DOMAIN h.index \subseteq Places
        /\ \A b \in DOMAIN h.index : h.index[b] \in Seq(Nat)
    BY <1>1, DeclTypes, MapIs
  <1>4. \A b : Append(At(h.index, b, <<>>), id) \in Seq(Nat)
    BY <1>2
  <1>5. PICK p : p = Indexed(h, id, d)
    OBVIOUS
  <1>6. p = [b \in (DOMAIN h.index) \cup Buckets(d) |->
              IF b \in Buckets(d) THEN Append(At(h.index, b, <<>>), id) ELSE h.index[b]]
    BY <1>5 DEF Indexed
  <1>7. \A b \in DOMAIN p : p[b] \in Seq(Nat)
    BY <1>3, <1>4, <1>6
  <1>8. p \in Maps(Places, Seq(Nat))
    <2>1. DOMAIN p \subseteq Places /\ p = [b \in DOMAIN p |-> p[b]]
      BY <1>3, <1>6
    <2> HIDE DEF Places
    <2>2. QED
      BY <1>7, <2>1, MapIs
  <1>9. QED
    BY <1>2, <1>5, <1>8

LEMMA AddEvidenceIs ==
  ASSUME NEW ev \in Maps(Files, Evidence), NEW f \in Files, NEW N \in SUBSET Nat, NEW K \in SUBSET AllKeys
  PROVE  AddEvidence(ev, f, N, K) \in Maps(Files, Evidence)
  <1> DEFINE old == At(ev, f, NoEvidence)
             v == [nodes |-> old.nodes \cup N, edges |-> old.edges \cup K]
  <1>1. NoEvidence \in Evidence
    BY DEF Evidence, NoEvidence
  <1>2. old \in Evidence
    BY <1>1, AtIs
  <1>3. v \in Evidence
    BY <1>2 DEF Evidence
  <1>4. AddEvidence(ev, f, N, K) = Put(ev, f, v)
    BY DEF AddEvidence
  <1> HIDE DEF v
  <1>5. QED
    BY <1>3, <1>4, PutIs

LEMMA PlaceNodeIs ==
  ASSUME NEW h \in Graph, NEW id \in Nat, NEW n \in Node
  PROVE  LET p == PlaceNode(h, id, n)
         IN /\ p \in Graph
            /\ p.nodes = Put(h.nodes, id, n) /\ p.edges = h.edges /\ p.nextId = h.nextId
            /\ p.index = Indexed(h, id, n.decl) /\ p.seen = h.seen
            /\ p.evidence = AddEvidence(h.evidence, n.file, {id}, {}) /\ p.gone = h.gone
            /\ p.blooms = Put(h.blooms, n.file, At(h.blooms, n.file, {}) \cup {n.decl.name})
            /\ At(h.blooms, n.file, {}) \cup {n.decl.name} \in SUBSET Names
  <1> DEFINE ev == AddEvidence(h.evidence, n.file, {id}, {})
             bloom == At(h.blooms, n.file, {}) \cup {n.decl.name}
  <1>1. n.file \in Files /\ n.decl \in Decls
    BY DEF Node
  <1>2. /\ h.nodes \in Maps(Nat, Node) /\ h.evidence \in Maps(Files, Evidence)
        /\ h.blooms \in Maps(Files, SUBSET Names)
    BY DEF Graph
  <1>3. ev \in Maps(Files, Evidence)
    <2>1. {id} \in SUBSET Nat /\ {} \in SUBSET AllKeys
      OBVIOUS
    <2>2. QED
      BY <1>1, <1>2, <2>1, AddEvidenceIs
  <1>4. bloom \in SUBSET Names
    <2>1. At(h.blooms, n.file, {}) \in SUBSET Names
      BY <1>2, AtIs
    <2>2. QED
      BY <1>1, <2>1, DeclTypes
  <1>5. /\ Put(h.nodes, id, n) \in Maps(Nat, Node)
        /\ Put(h.blooms, n.file, bloom) \in Maps(Files, SUBSET Names)
        /\ Indexed(h, id, n.decl) \in Maps(Places, Seq(Nat))
    <2>1. Put(h.nodes, id, n) \in Maps(Nat, Node)
      BY <1>2, PutIs
    <2> HIDE DEF bloom
    <2>2. Put(h.blooms, n.file, bloom) \in Maps(Files, SUBSET Names)
      BY <1>1, <1>2, <1>4, PutIs
    <2>3. QED
      BY <1>1, <2>1, <2>2, IndexedIs
  <1>6. PICK r : r = RecordIndexes(h, id, n.file, n.decl)
    OBVIOUS
  <1>7. r = [h EXCEPT !.index = Indexed(h, id, n.decl), !.blooms = Put(h.blooms, n.file, bloom)]
    BY <1>6 DEF RecordIndexes, Indexed, Graph
  <1>8. r.nodes = h.nodes /\ r.evidence = h.evidence
    BY <1>7 DEF Graph
  <1>9. PlaceNode(h, id, n) = [r EXCEPT !.nodes = Put(h.nodes, id, n), !.evidence = ev]
    BY <1>6, <1>8 DEF PlaceNode
  <1> HIDE DEF ev, bloom
  <1>10. LET p == PlaceNode(h, id, n)
         IN /\ p \in Graph
            /\ p.nodes = Put(h.nodes, id, n) /\ p.edges = h.edges /\ p.nextId = h.nextId
            /\ p.index = Indexed(h, id, n.decl) /\ p.seen = h.seen
            /\ p.evidence = ev /\ p.gone = h.gone
            /\ p.blooms = Put(h.blooms, n.file, bloom)
    BY <1>3, <1>5, <1>7, <1>9 DEF Graph
  <1>11. QED
    BY <1>4, <1>10 DEF ev, bloom

-----------------------------------------------------------------------------
(* A node is placed.                                                       *)

LEMMA PlaceNodeSound ==
  ASSUME NEW h, Sound(h), NEW id \in Nat, id \notin DOMAIN h.nodes, NEW n \in Node
  PROVE  LET p == PlaceNode(h, id, n)
         IN /\ p \in Graph /\ IsFiniteSet(DOMAIN p.nodes) /\ IsFiniteSet(p.edges)
            /\ EvidenceSound(p) /\ IndexSound(p) /\ GoneSound(p) /\ BloomsSound(p)
  <1>0. h \in Graph
    BY DEF Sound
  <1>1. h \in Graph /\ h.nodes \in Maps(Nat, Node) /\ h.evidence \in Maps(Files, Evidence)
        /\ h.blooms \in Maps(Files, SUBSET Names) /\ n.file \in Files /\ n.decl \in Decls
        /\ {id} \in SUBSET Nat /\ {} \in SUBSET AllKeys
    BY DEF Sound, Graph, Node
  <1>2. PICK p : p = PlaceNode(h, id, n)
    OBVIOUS
  <1>3. /\ p \in Graph
        /\ p.nodes = Put(h.nodes, id, n) /\ p.edges = h.edges /\ p.nextId = h.nextId
        /\ p.index = Indexed(h, id, n.decl) /\ p.seen = h.seen
        /\ p.evidence = AddEvidence(h.evidence, n.file, {id}, {}) /\ p.gone = h.gone
        /\ p.blooms = Put(h.blooms, n.file, At(h.blooms, n.file, {}) \cup {n.decl.name})
        /\ At(h.blooms, n.file, {}) \cup {n.decl.name} \in SUBSET Names
    BY <1>0, <1>2, PlaceNodeIs, ZenonT(40)
  <1>4. /\ DOMAIN p.nodes = (DOMAIN h.nodes) \cup {id} /\ p.nodes[id] = n
        /\ \A x \in DOMAIN h.nodes : x # id /\ p.nodes[x] = h.nodes[x]
    BY <1>3 DEF Put
  <1>5. \A f : InFile(p, f) = IF f = n.file THEN InFile(h, f) \cup {id} ELSE InFile(h, f)
    BY <1>4 DEF InFile
  <1>6. /\ DOMAIN p.evidence = (DOMAIN h.evidence) \cup {n.file}
        /\ p.evidence[n.file].nodes = At(h.evidence, n.file, NoEvidence).nodes \cup {id}
        /\ p.evidence[n.file].edges = At(h.evidence, n.file, NoEvidence).edges
        /\ \A x \in DOMAIN h.evidence : x # n.file => p.evidence[x] = h.evidence[x]
    BY <1>3 DEF AddEvidence, Put
  <1>7. EvidenceSound(p)
    <2>1. EvidenceSound(h)
      BY DEF Sound
    <2>2. \A f \in DOMAIN p.evidence : \A k : k \in p.evidence[f].edges <=>
            f \in DOMAIN h.evidence /\ k \in h.evidence[f].edges
      BY <1>6 DEF At, NoEvidence
    <2>3. \A f \in Files : At(p.evidence, f, NoEvidence).nodes = InFile(p, f)
      <3>1. ASSUME NEW f \in Files, f # n.file PROVE At(p.evidence, f, NoEvidence) = At(h.evidence, f, NoEvidence)
        BY <1>6, <3>1 DEF At
      <3>2. At(p.evidence, n.file, NoEvidence) = p.evidence[n.file]
        BY <1>6 DEF At
      <3>3. \A f \in Files : At(h.evidence, f, NoEvidence).nodes = InFile(h, f)
        BY <2>1 DEF EvidenceSound
      <3>4. QED
        BY <1>1, <1>5, <1>6, <3>1, <3>2, <3>3
    <2>4. \A f \in DOMAIN p.evidence : p.evidence[f] # NoEvidence
      BY <1>6, <2>1 DEF EvidenceSound, NoEvidence
    <2>5. \A k \in p.seen : k[1] \in DOMAIN p.nodes /\ k[2] \in DOMAIN p.nodes
      BY <1>3, <1>4, <2>1 DEF EvidenceSound
    <2>6. \A k \in p.seen : \E f \in DOMAIN p.evidence : k \in p.evidence[f].edges
      BY <1>3, <1>6, <2>1, <2>2 DEF EvidenceSound
    <2>7. \A f \in DOMAIN p.evidence : p.evidence[f].edges \subseteq p.seen
      BY <1>3, <2>1, <2>2 DEF EvidenceSound
    <2>8. \A f1, f2 \in DOMAIN p.evidence : \A k \in p.evidence[f1].edges :
            k \in p.evidence[f2].edges => f1 = f2
      BY <2>1, <2>2 DEF EvidenceSound
    <2>9. \A e \in p.edges : e.ev \in DOMAIN p.evidence /\ EdgeKey(e) \in p.evidence[e.ev].edges
      BY <1>3, <1>6, <2>1, <2>2 DEF EvidenceSound
    <2>10. \A e1, e2 \in p.edges : EdgeKey(e1) = EdgeKey(e2) => e1 = e2
      BY <1>3, <2>1 DEF EvidenceSound
    <2>11. QED
      BY <2>3, <2>4, <2>5, <2>6, <2>7, <2>8, <2>9, <2>10 DEF EvidenceSound
  <1>8. IndexSound(p)
    <2>1. IndexSound(h)
      BY DEF Sound
    <2>2. /\ DOMAIN p.index = (DOMAIN h.index) \cup Buckets(n.decl)
          /\ \A b \in DOMAIN h.index : b \notin Buckets(n.decl) => p.index[b] = h.index[b]
          /\ \A b \in Buckets(n.decl) : p.index[b] = Append(At(h.index, b, <<>>), id)
          /\ \A b : At(h.index, b, <<>>) \in Seq(Nat)
      BY <1>1, <1>3, IndexedIs DEF Indexed
    <2>3. \A b : b \in DOMAIN p.index <=> \E x \in DOMAIN p.nodes : b \in Buckets(p.nodes[x].decl)
      BY <1>4, <2>1, <2>2 DEF IndexSound
    <2>4. ASSUME NEW b \in DOMAIN p.index
          PROVE  /\ IsInjective(p.index[b])
                 /\ ToSet(p.index[b]) = {x \in DOMAIN p.nodes : b \in Buckets(p.nodes[x].decl)}
      <3>1. CASE b \notin Buckets(n.decl)
        <4>1. b \in DOMAIN h.index /\ p.index[b] = h.index[b]
          BY <2>2, <3>1
        <4>2. {x \in DOMAIN p.nodes : b \in Buckets(p.nodes[x].decl)}
                = {x \in DOMAIN h.nodes : b \in Buckets(h.nodes[x].decl)}
          BY <1>4, <3>1
        <4>3. QED
          BY <2>1, <4>1, <4>2 DEF IndexSound
      <3>2. CASE b \in Buckets(n.decl)
        <4> DEFINE old == At(h.index, b, <<>>)
        <4>1. IsInjective(old) /\ ToSet(old) = {x \in DOMAIN h.nodes : b \in Buckets(h.nodes[x].decl)}
          <5>1. CASE b \in DOMAIN h.index
            BY <2>1, <5>1 DEF IndexSound, At
          <5>2. CASE b \notin DOMAIN h.index
            <6>1. old = <<>> /\ {x \in DOMAIN h.nodes : b \in Buckets(h.nodes[x].decl)} = {}
              BY <2>1, <5>2 DEF IndexSound, At
            <6>2. QED
              BY <6>1 DEF IsInjective, ToSet
          <5>3. QED
            BY <5>1, <5>2
        <4>2. p.index[b] = Append(old, id) /\ old \in Seq(Nat) /\ id \notin ToSet(old)
          BY <2>2, <3>2, <4>1
        <4>3. {x \in DOMAIN p.nodes : b \in Buckets(p.nodes[x].decl)} = ToSet(old) \cup {id}
          BY <1>4, <3>2, <4>1
        <4> HIDE DEF old
        <4>4. QED
          BY <4>1, <4>2, <4>3, AppendIs
      <3>3. QED
        BY <3>1, <3>2
    <2>5. QED
      BY <2>3, <2>4 DEF IndexSound
  <1>9. GoneSound(p)
    BY <1>3, <1>4 DEF Sound, GoneSound
  <1>10. BloomsSound(p)
    <2> DEFINE bloom == At(h.blooms, n.file, {}) \cup {n.decl.name}
    <2>1. BloomsSound(h)
      BY DEF Sound
    <2>2. /\ DOMAIN p.blooms = (DOMAIN h.blooms) \cup {n.file}
          /\ p.blooms[n.file] = bloom
          /\ \A f \in DOMAIN h.blooms : f # n.file => p.blooms[f] = h.blooms[f]
      BY <1>3 DEF Put
    <2>3. \A f : f \in DOMAIN p.blooms <=> \E x \in DOMAIN p.nodes : p.nodes[x].file = f
      BY <1>4, <2>1, <2>2 DEF BloomsSound
    <2>4. \A x \in DOMAIN p.nodes : p.nodes[x].decl.name \in p.blooms[p.nodes[x].file]
      BY <1>4, <2>1, <2>2 DEF BloomsSound, At
    <2>5. QED
      BY <2>3, <2>4 DEF BloomsSound
  <1>11. IsFiniteSet(DOMAIN p.nodes) /\ IsFiniteSet(p.edges)
    <2>1. IsFiniteSet(DOMAIN h.nodes) /\ IsFiniteSet(h.edges)
      BY DEF Sound
    <2>2. IsFiniteSet((DOMAIN h.nodes) \cup {id})
      BY <2>1, FS_AddElement
    <2>3. QED
      BY <1>3, <1>4, <2>1, <2>2
  <1>12. QED
    BY <1>2, <1>3, <1>7, <1>8, <1>9, <1>10, <1>11

LEMMA InsertNodeSound ==
  ASSUME NEW h, Sound(h), NEW f \in Files, NEW d \in Decls
  PROVE  LET p == InsertNode(h, f, d)
         IN /\ Sound(p) /\ p.edges = h.edges /\ p.seen = h.seen /\ p.nextId = h.nextId + 1
            /\ p.nodes = Put(h.nodes, h.nextId, [file |-> f, decl |-> d, status |-> "Live"])
  <1> DEFINE n == [file |-> f, decl |-> d, status |-> "Live"]
  <1>1. h \in Graph /\ h.nextId \in Nat /\ h.nextId \notin DOMAIN h.nodes /\ n \in Node
    BY DEF Sound, Graph, IdsSound, Node, Statuses
  <1> HIDE DEF n
  <1>2. PICK q : q = PlaceNode(h, h.nextId, n)
    OBVIOUS
  <1>3. /\ q \in Graph /\ IsFiniteSet(DOMAIN q.nodes) /\ IsFiniteSet(q.edges)
        /\ EvidenceSound(q) /\ IndexSound(q) /\ GoneSound(q) /\ BloomsSound(q)
    BY <1>1, <1>2, PlaceNodeSound
  <1>4. /\ q.nodes = Put(h.nodes, h.nextId, n) /\ q.edges = h.edges /\ q.nextId = h.nextId
        /\ q.seen = h.seen
    BY <1>1, <1>2, PlaceNodeIs
  <1>5. PICK p : p = InsertNode(h, f, d)
    OBVIOUS
  <1>6. p = [q EXCEPT !.nextId = h.nextId + 1]
    BY <1>2, <1>4, <1>5 DEF InsertNode, n
  <1>7. /\ p \in Graph /\ p.nodes = q.nodes /\ p.edges = q.edges /\ p.nextId = h.nextId + 1
        /\ p.index = q.index /\ p.seen = q.seen /\ p.evidence = q.evidence /\ p.gone = q.gone
        /\ p.blooms = q.blooms
    BY <1>1, <1>3, <1>6 DEF Graph
  <1>8. IdsSound(p)
    <2>1. DOMAIN p.nodes = (DOMAIN h.nodes) \cup {h.nextId}
      BY <1>4, <1>7 DEF Put
    <2>2. DOMAIN h.nodes \subseteq Nat /\ \A id \in DOMAIN h.nodes : id < h.nextId
      BY <1>1, MapIs DEF Sound, Graph, IdsSound
    <2>3. QED
      BY <1>1, <1>7, <2>1, <2>2 DEF IdsSound
  <1>9. EvidenceSound(p) /\ IndexSound(p) /\ GoneSound(p) /\ BloomsSound(p)
    BY <1>3, <1>7 DEF EvidenceSound, IndexSound, GoneSound, BloomsSound, InFile
  <1>10. QED
    BY <1>3, <1>4, <1>5, <1>7, <1>8, <1>9 DEF Sound, n

LEMMA InsertPreservingIdSound ==
  ASSUME NEW h, Sound(h), NEW id \in Nat, id \notin DOMAIN h.nodes, NEW n \in Node
  PROVE  LET p == InsertPreservingId(h, id, n)
         IN /\ Sound(p) /\ p.edges = h.edges /\ p.nodes = Put(h.nodes, id, n)
            /\ p.nextId \in Nat /\ p.nextId = IF id >= h.nextId THEN id + 1 ELSE h.nextId
  <1>1. h \in Graph /\ h.nextId \in Nat
    BY DEF Sound, Graph
  <1>2. PICK q : q = PlaceNode(h, id, n)
    OBVIOUS
  <1>3. /\ q \in Graph /\ IsFiniteSet(DOMAIN q.nodes) /\ IsFiniteSet(q.edges)
        /\ EvidenceSound(q) /\ IndexSound(q) /\ GoneSound(q) /\ BloomsSound(q)
    BY <1>1, <1>2, PlaceNodeSound
  <1>4. q.nodes = Put(h.nodes, id, n) /\ q.edges = h.edges /\ q.nextId = h.nextId
    BY <1>1, <1>2, PlaceNodeIs
  <1>5. PICK p : p = InsertPreservingId(h, id, n)
    OBVIOUS
  <1>6. PICK next \in Nat : next = IF id >= h.nextId THEN id + 1 ELSE h.nextId
    BY <1>1
  <1>7. p = [q EXCEPT !.nextId = next]
    BY <1>2, <1>4, <1>5, <1>6 DEF InsertPreservingId
  <1>8. /\ p \in Graph /\ p.nodes = q.nodes /\ p.edges = q.edges /\ p.nextId = next
        /\ p.index = q.index /\ p.seen = q.seen /\ p.evidence = q.evidence /\ p.gone = q.gone
        /\ p.blooms = q.blooms
    BY <1>3, <1>7 DEF Graph
  <1>9. IdsSound(p)
    <2>1. DOMAIN p.nodes = (DOMAIN h.nodes) \cup {id}
      BY <1>4, <1>8 DEF Put
    <2>2. DOMAIN h.nodes \subseteq Nat /\ \A x \in DOMAIN h.nodes : x < h.nextId
      BY <1>1, MapIs DEF Sound, Graph, IdsSound
    <2>3. QED
      BY <1>1, <1>6, <1>8, <2>1, <2>2 DEF IdsSound
  <1>10. EvidenceSound(p) /\ IndexSound(p) /\ GoneSound(p) /\ BloomsSound(p)
    BY <1>3, <1>8 DEF EvidenceSound, IndexSound, GoneSound, BloomsSound, InFile
  <1>11. QED
    BY <1>3, <1>4, <1>5, <1>6, <1>8, <1>9, <1>10 DEF Sound

-----------------------------------------------------------------------------
(* Edges.                                                                  *)

LEMMA InsertEdgeSound ==
  ASSUME NEW h, Sound(h), NEW e \in Edges
  PROVE  LET p == InsertEdge(h, e)
         IN /\ Sound(p) /\ p.nodes = h.nodes /\ p.nextId = h.nextId
            /\ h.edges \subseteq p.edges /\ p.edges \subseteq h.edges \cup {e}
  <1>1. h \in Graph /\ h.edges \in SUBSET Edges /\ h.seen \in SUBSET AllKeys
        /\ h.evidence \in Maps(Files, Evidence) /\ EvidenceSound(h)
    BY DEF Sound, Graph
  <1>2. PICK p : p = InsertEdge(h, e)
    OBVIOUS
  <1>3. CASE {e.from, e.to} \subseteq DOMAIN h.nodes /\ EdgeKey(e) \notin h.seen
    <2>1. PICK k : k = EdgeKey(e)
      OBVIOUS
    <2>2. k \in AllKeys /\ k[1] = e.from /\ k[2] = e.to /\ e.ev \in Files
      BY <2>1 DEF Edges, AllKeys, EdgeKey
    <2>3. PICK ev : ev = AddEvidence(h.evidence, e.ev, {}, {k})
      OBVIOUS
    <2>4. ev \in Maps(Files, Evidence)
      <3>1. {} \in SUBSET Nat /\ {k} \in SUBSET AllKeys
        BY <2>2
      <3>2. QED
        BY <1>1, <2>2, <2>3, <3>1, AddEvidenceIs
    <2>5. p = [h EXCEPT !.edges = h.edges \cup {e}, !.seen = h.seen \cup {k}, !.evidence = ev]
      BY <1>2, <1>3, <2>1, <2>3 DEF InsertEdge
    <2>6. /\ p.nodes = h.nodes /\ p.edges = h.edges \cup {e} /\ p.nextId = h.nextId
          /\ p.index = h.index /\ p.seen = h.seen \cup {k} /\ p.evidence = ev /\ p.gone = h.gone
          /\ p.blooms = h.blooms
      BY <1>1, <2>5 DEF Graph
    <2>7. p \in Graph
      <3>1. h.edges \cup {e} \in SUBSET Edges /\ h.seen \cup {k} \in SUBSET AllKeys
        BY <1>1, <2>2
      <3>2. QED
        BY <1>1, <2>4, <2>5, <3>1 DEF Graph
    <2>8. IsFiniteSet(p.edges)
      <3>1. IsFiniteSet(h.edges)
        BY DEF Sound
      <3>2. QED
        BY <2>6, <3>1, FS_AddElement
    <2>9. EvidenceSound(p)
      <3>1. /\ DOMAIN ev = (DOMAIN h.evidence) \cup {e.ev}
            /\ ev[e.ev].nodes = At(h.evidence, e.ev, NoEvidence).nodes
            /\ ev[e.ev].edges = At(h.evidence, e.ev, NoEvidence).edges \cup {k}
            /\ \A f \in DOMAIN h.evidence : f # e.ev => ev[f] = h.evidence[f]
        BY <2>3 DEF AddEvidence, Put
      <3>2. \A f \in DOMAIN ev : \A x : x \in ev[f].edges <=>
              \/ f \in DOMAIN h.evidence /\ x \in h.evidence[f].edges
              \/ f = e.ev /\ x = k
        BY <3>1 DEF At, NoEvidence
      <3>3. \A f \in Files : At(ev, f, NoEvidence).nodes = At(h.evidence, f, NoEvidence).nodes
        BY <3>1 DEF At
      <3>4. \A f \in Files : At(ev, f, NoEvidence).nodes = InFile(p, f)
        BY <1>1, <2>6, <3>3 DEF EvidenceSound, InFile
      <3>5. \A f \in DOMAIN ev : ev[f] # NoEvidence
        BY <1>1, <3>1 DEF EvidenceSound, NoEvidence
      <3>6. \A x \in p.seen : x[1] \in DOMAIN p.nodes /\ x[2] \in DOMAIN p.nodes
        BY <1>1, <1>3, <2>2, <2>6 DEF EvidenceSound
      <3>7. \A x \in p.seen : \E f \in DOMAIN ev : x \in ev[f].edges
        BY <1>1, <2>6, <3>1, <3>2 DEF EvidenceSound
      <3>8. \A f \in DOMAIN ev : ev[f].edges \subseteq p.seen
        BY <1>1, <2>6, <3>2 DEF EvidenceSound
      <3>9. \A f1, f2 \in DOMAIN ev : \A x \in ev[f1].edges : x \in ev[f2].edges => f1 = f2
        <4>1. \A f \in DOMAIN h.evidence : k \notin h.evidence[f].edges
          BY <1>1, <1>3, <2>1 DEF EvidenceSound
        <4>2. QED
          BY <1>1, <3>2, <4>1 DEF EvidenceSound
      <3>10. \A x \in p.edges : x.ev \in DOMAIN ev /\ EdgeKey(x) \in ev[x.ev].edges
        BY <1>1, <2>1, <2>6, <3>1, <3>2 DEF EvidenceSound
      <3>11. \A e1, e2 \in p.edges : EdgeKey(e1) = EdgeKey(e2) => e1 = e2
        <4>1. \A x \in h.edges : EdgeKey(x) \in h.seen
          BY <1>1 DEF EvidenceSound
        <4>2. QED
          BY <1>1, <1>3, <2>6, <4>1 DEF EvidenceSound
      <3>12. QED
        BY <2>6, <3>4, <3>5, <3>6, <3>7, <3>8, <3>9, <3>10, <3>11 DEF EvidenceSound
    <2>10. IndexSound(p) /\ GoneSound(p) /\ BloomsSound(p) /\ IdsSound(p) /\ IsFiniteSet(DOMAIN p.nodes)
      BY <2>6 DEF Sound, IndexSound, GoneSound, BloomsSound, IdsSound
    <2>11. QED
      BY <1>2, <2>6, <2>7, <2>8, <2>9, <2>10 DEF Sound
  <1>4. CASE ~({e.from, e.to} \subseteq DOMAIN h.nodes /\ EdgeKey(e) \notin h.seen)
    <2>1. p = h
      BY <1>2, <1>4 DEF InsertEdge
    <2>2. QED
      BY <1>2, <2>1
  <1>5. QED
    BY <1>3, <1>4

\* After the insertion of an edge between known nodes its key has been seen;
\* if it had not been before, the edge is in the graph.
LEMMA InsertEdgeIs ==
  ASSUME NEW h \in Graph, NEW e
  PROVE  LET p == InsertEdge(h, e)
         IN /\ p.index = h.index /\ h.edges \subseteq p.edges
            /\ h.seen \subseteq p.seen /\ p.seen \subseteq h.seen \cup {EdgeKey(e)}
            /\ p.seen = h.seen \/ e \in p.edges
            /\ e.from \in DOMAIN h.nodes /\ e.to \in DOMAIN h.nodes => EdgeKey(e) \in p.seen
  <1>1. PICK k : k = EdgeKey(e)
    OBVIOUS
  <1>2. PICK p : p = InsertEdge(h, e)
    OBVIOUS
  <1>3. CASE {e.from, e.to} \subseteq DOMAIN h.nodes /\ k \notin h.seen
    <2>1. p.index = h.index /\ p.edges = h.edges \cup {e} /\ p.seen = h.seen \cup {k}
      BY <1>1, <1>2, <1>3 DEF InsertEdge, Graph
    <2>2. QED
      BY <1>1, <1>2, <2>1
  <1>4. CASE ~({e.from, e.to} \subseteq DOMAIN h.nodes /\ k \notin h.seen)
    <2>1. p = h
      BY <1>1, <1>2, <1>4 DEF InsertEdge
    <2>2. QED
      BY <1>1, <1>2, <1>4, <2>1
  <1>5. QED
    BY <1>3, <1>4

LEMMA RetainEdgesSound ==
  ASSUME NEW h, Sound(h), NEW keep
  PROVE  LET p == RetainEdges(h, keep)
         IN Sound(p) /\ p.nodes = h.nodes /\ p.nextId = h.nextId /\ p.edges = h.edges \cap keep
  <1>1. h \in Graph /\ h.edges \in SUBSET Edges /\ IsFiniteSet(h.edges) /\ EvidenceSound(h)
    BY DEF Sound, Graph
  <1>2. PICK p : p = RetainEdges(h, keep)
    OBVIOUS
  <1>3. PICK E : E = h.edges \cap keep
    OBVIOUS
  <1>4. E \subseteq h.edges /\ IsFiniteSet(E) /\ E \in SUBSET Edges
    BY <1>1, <1>3, FS_Subset
  <1>5. p = [h EXCEPT !.edges = E]
    BY <1>2, <1>3 DEF RetainEdges
  <1>6. /\ p \in Graph
        /\ p.nodes = h.nodes /\ p.edges = E /\ p.nextId = h.nextId
        /\ p.index = h.index /\ p.seen = h.seen /\ p.evidence = h.evidence /\ p.gone = h.gone
        /\ p.blooms = h.blooms
    BY <1>1, <1>4, <1>5 DEF Graph
  <1>7. EvidenceSound(p)
    BY <1>1, <1>4, <1>6 DEF EvidenceSound, InFile
  <1>8. QED
    BY <1>2, <1>3, <1>4, <1>6, <1>7 DEF Sound, IndexSound, GoneSound, BloomsSound, IdsSound

-----------------------------------------------------------------------------
(* Marks and removal.                                                      *)

\* The cemetery of a graph changes.
LEMMA GoneSet ==
  ASSUME NEW h, Sound(h), NEW gone \in Maps(Nat, Ages),
         \A id \in DOMAIN gone : id \in DOMAIN h.nodes /\ h.nodes[id].status = "Gone"
  PROVE  Sound([h EXCEPT !.gone = gone])
  <1>1. h \in Graph
    BY DEF Sound
  <1>2. PICK p : p = [h EXCEPT !.gone = gone]
    OBVIOUS
  <1>3. /\ p \in Graph
        /\ p.nodes = h.nodes /\ p.edges = h.edges /\ p.nextId = h.nextId
        /\ p.index = h.index /\ p.seen = h.seen /\ p.evidence = h.evidence /\ p.gone = gone
        /\ p.blooms = h.blooms
    BY <1>1, <1>2 DEF Graph
  <1>4. QED
    BY <1>2, <1>3 DEF Sound, IdsSound, EvidenceSound, InFile, IndexSound, GoneSound, BloomsSound

LEMMA SetStatusSound ==
  ASSUME NEW h, Sound(h), NEW ids, NEW status \in Statuses
  PROVE  Sound(SetStatus(h, ids, status)) /\ SetStatus(h, ids, status).nextId = h.nextId
  <1>1. h \in Graph /\ h.nodes \in Maps(Nat, Node) /\ h.gone \in Maps(Nat, Ages) /\ GoneSound(h)
    BY DEF Sound, Graph
  <1>2. PICK live : live = ids \cap DOMAIN h.nodes
    OBVIOUS
  <1>3. PICK nodes : nodes = [id \in DOMAIN h.nodes |->
                                IF id \in live THEN [h.nodes[id] EXCEPT !.status = status] ELSE h.nodes[id]]
    OBVIOUS
  <1>4. PICK gone : gone = IF status = "Gone"
                             THEN [id \in (DOMAIN h.gone) \cup live |-> IF id \in live THEN "young" ELSE h.gone[id]]
                             ELSE Only(h.gone, (DOMAIN h.gone) \ live)
    OBVIOUS
  <1>5. PICK p : p = SetStatus(h, ids, status)
    OBVIOUS
  <1>6. p = [h EXCEPT !.nodes = nodes, !.gone = gone]
    BY <1>2, <1>3, <1>4, <1>5 DEF SetStatus
  <1>7. DOMAIN h.nodes \subseteq Nat /\ \A id \in DOMAIN h.nodes : h.nodes[id] \in Node
    BY <1>1, MapIs
  <1>8. \A id \in DOMAIN h.nodes :
          /\ nodes[id] \in Node /\ nodes[id].file = h.nodes[id].file /\ nodes[id].decl = h.nodes[id].decl
          /\ nodes[id].status = IF id \in live THEN status ELSE h.nodes[id].status
    BY <1>3, <1>7 DEF Node
  <1>9. DOMAIN nodes = DOMAIN h.nodes /\ nodes = [id \in DOMAIN nodes |-> nodes[id]]
    BY <1>3
  <1>10. nodes \in Maps(Nat, Node)
    BY <1>7, <1>8, <1>9, MapIs
  <1>11. /\ gone \in Maps(Nat, Ages)
         /\ \A id \in DOMAIN gone : id \in DOMAIN nodes /\ nodes[id].status = "Gone"
    <2>0. DOMAIN h.gone \subseteq Nat /\ \A id \in DOMAIN h.gone : h.gone[id] \in Ages
      BY <1>1, MapIs
    <2>1. CASE status = "Gone"
      <3>1. gone = [id \in (DOMAIN h.gone) \cup live |-> IF id \in live THEN "young" ELSE h.gone[id]]
        BY <1>4, <2>1
      <3>2. /\ DOMAIN gone = (DOMAIN h.gone) \cup live /\ gone = [id \in DOMAIN gone |-> gone[id]]
            /\ \A id \in DOMAIN gone : gone[id] \in Ages
        BY <2>0, <3>1 DEF Ages
      <3>3. gone \in Maps(Nat, Ages)
        BY <1>2, <1>7, <2>0, <3>2, MapIs
      <3>4. \A id \in DOMAIN gone : id \in DOMAIN nodes /\ nodes[id].status = "Gone"
        BY <1>1, <1>2, <1>8, <1>9, <2>1, <3>2 DEF GoneSound
      <3>5. QED
        BY <3>3, <3>4
    <2>2. CASE status # "Gone"
      <3>1. gone = Only(h.gone, (DOMAIN h.gone) \ live)
        BY <1>4, <2>2
      <3>2. gone \in Maps(Nat, Ages)
        BY <1>1, <3>1, OnlyIs
      <3>3. DOMAIN gone = (DOMAIN h.gone) \ live
        BY <3>1 DEF Only
      <3>4. \A id \in DOMAIN gone : id \in DOMAIN nodes /\ nodes[id].status = "Gone"
        BY <1>1, <1>8, <1>9, <3>3 DEF GoneSound
      <3>5. QED
        BY <3>2, <3>4
    <2>3. QED
      BY <2>1, <2>2
  <1>12. /\ p \in Graph
         /\ p.nodes = nodes /\ p.edges = h.edges /\ p.nextId = h.nextId
         /\ p.index = h.index /\ p.seen = h.seen /\ p.evidence = h.evidence /\ p.gone = gone
         /\ p.blooms = h.blooms
    BY <1>1, <1>6, <1>10, <1>11 DEF Graph
  <1>13. EvidenceSound(p)
    <2>1. \A f : InFile(p, f) = InFile(h, f)
      BY <1>8, <1>9, <1>12 DEF InFile
    <2>2. QED
      BY <1>9, <1>12, <2>1 DEF Sound, EvidenceSound
  <1>14. IndexSound(p)
    <2>1. \A b : {id \in DOMAIN p.nodes : b \in Buckets(p.nodes[id].decl)}
                   = {id \in DOMAIN h.nodes : b \in Buckets(h.nodes[id].decl)}
      BY <1>8, <1>9, <1>12
    <2>2. QED
      BY <1>8, <1>9, <1>12, <2>1 DEF Sound, IndexSound
  <1>15. BloomsSound(p) /\ IdsSound(p)
    BY <1>8, <1>9, <1>12 DEF Sound, BloomsSound, IdsSound
  <1>16. GoneSound(p)
    BY <1>11, <1>12 DEF GoneSound
  <1>17. QED
    BY <1>5, <1>9, <1>12, <1>13, <1>14, <1>15, <1>16 DEF Sound

LEMMA CutIndexIs ==
  ASSUME NEW index \in Maps(Places, Seq(Nat)), \A b \in DOMAIN index : IsInjective(index[b]), NEW S
  PROVE  LET new == CutIndex(index, S)
         IN /\ new \in Maps(Places, Seq(Nat))
            /\ \A b : b \in DOMAIN new <=> b \in DOMAIN index /\ ToSet(index[b]) \ S # {}
            /\ \A b \in DOMAIN new : IsInjective(new[b]) /\ ToSet(new[b]) = ToSet(index[b]) \ S
  <1>1. DOMAIN index \subseteq Places /\ \A b \in DOMAIN index : index[b] \in Seq(Nat)
    BY MapIs
  <1>2. PICK left : left = [b \in DOMAIN index |-> Without(index[b], S)]
    OBVIOUS
  <1>3. \A b \in DOMAIN index : /\ left[b] \in Seq(Nat) /\ IsInjective(left[b])
                                /\ ToSet(left[b]) = ToSet(index[b]) \ S
    <2>1. ASSUME NEW b \in DOMAIN index
          PROVE  /\ left[b] \in Seq(Nat) /\ IsInjective(left[b])
                 /\ ToSet(left[b]) = ToSet(index[b]) \ S
      <3>1. PICK s \in Seq(Nat) : s = index[b]
        BY <1>1
      <3>2. left[b] = Without(s, S) /\ IsInjective(s)
        BY <1>2, <3>1
      <3>3. QED
        BY <3>1, <3>2, WithoutIs
    <2>2. QED
      BY <2>1
  <1>4. \A s \in Seq(Nat) : s = <<>> <=> ToSet(s) = {}
    <2>1. ASSUME NEW s \in Seq(Nat), s # <<>> PROVE ToSet(s) # {}
      <3>1. 1 \in DOMAIN s
        BY <2>1
      <3>2. QED
        BY <3>1 DEF ToSet
    <2>2. ToSet(<<>>) = {}
      BY DEF ToSet
    <2>3. QED
      BY <2>1, <2>2
  <1>5. PICK new : new = CutIndex(index, S)
    OBVIOUS
  <1>6. new = [b \in {x \in DOMAIN index : left[x] # <<>>} |-> left[b]]
    BY <1>2, <1>5 DEF CutIndex
  <1>7. /\ DOMAIN new = {x \in DOMAIN index : left[x] # <<>>} /\ new = [b \in DOMAIN new |-> new[b]]
        /\ \A b \in DOMAIN new : new[b] = left[b]
    BY <1>6
  <1>8. new \in Maps(Places, Seq(Nat))
    <2>1. DOMAIN new \subseteq Places /\ \A b \in DOMAIN new : new[b] \in Seq(Nat)
      BY <1>1, <1>3, <1>7
    <2> HIDE DEF Places
    <2>2. QED
      BY <1>7, <2>1, MapIs
  <1>9. \A b : b \in DOMAIN new <=> b \in DOMAIN index /\ ToSet(index[b]) \ S # {}
    BY <1>3, <1>4, <1>7
  <1>10. \A b \in DOMAIN new : IsInjective(new[b]) /\ ToSet(new[b]) = ToSet(index[b]) \ S
    BY <1>3, <1>7
  <1>11. QED
    BY <1>5, <1>8, <1>9, <1>10

LEMMA CutEvidenceIs ==
  ASSUME NEW evidence \in Maps(Files, Evidence), NEW S
  PROVE  LET new == CutEvidence(evidence, S)
             Kept(f) == {k \in evidence[f].edges : {k[1], k[2]} \cap S = {}}
         IN /\ new \in Maps(Files, Evidence)
            /\ \A f : f \in DOMAIN new <=> f \in DOMAIN evidence /\ (evidence[f].nodes \ S # {} \/ Kept(f) # {})
            /\ \A f \in DOMAIN new : /\ new[f].nodes = evidence[f].nodes \ S /\ new[f].edges = Kept(f)
                                     /\ new[f] # NoEvidence
  <1>1. DOMAIN evidence \subseteq Files /\ \A f \in DOMAIN evidence : evidence[f] \in Evidence
    BY MapIs
  <1>2. PICK kept : kept = [f \in DOMAIN evidence |-> {k \in evidence[f].edges : {k[1], k[2]} \cap S = {}}]
    OBVIOUS
  <1>3. PICK left : left = [f \in DOMAIN evidence |-> [nodes |-> evidence[f].nodes \ S, edges |-> kept[f]]]
    OBVIOUS
  <1>4. \A f \in DOMAIN evidence :
          /\ left[f] \in Evidence /\ left[f].nodes = evidence[f].nodes \ S /\ left[f].edges = kept[f]
          /\ left[f] = NoEvidence <=> evidence[f].nodes \ S = {} /\ kept[f] = {}
    BY <1>1, <1>2, <1>3 DEF Evidence, NoEvidence
  <1>5. PICK new : new = CutEvidence(evidence, S)
    OBVIOUS
  <1>6. new = [f \in {x \in DOMAIN evidence : left[x] # NoEvidence} |-> left[f]]
    BY <1>2, <1>3, <1>5 DEF CutEvidence
  <1>7. /\ DOMAIN new = {x \in DOMAIN evidence : left[x] # NoEvidence} /\ new = [f \in DOMAIN new |-> new[f]]
        /\ \A f \in DOMAIN new : new[f] = left[f]
    BY <1>6
  <1>8. new \in Maps(Files, Evidence)
    <2>1. DOMAIN new \subseteq Files /\ \A f \in DOMAIN new : new[f] \in Evidence
      BY <1>1, <1>4, <1>7
    <2>2. QED
      BY <1>7, <2>1, MapIs
  <1>9. /\ \A f : f \in DOMAIN new <=> f \in DOMAIN evidence /\ (evidence[f].nodes \ S # {} \/ kept[f] # {})
        /\ \A f \in DOMAIN new : /\ new[f].nodes = evidence[f].nodes \ S /\ new[f].edges = kept[f]
                                 /\ new[f] # NoEvidence
    BY <1>4, <1>7
  <1>10. QED
    BY <1>2, <1>5, <1>8, <1>9

LEMMA RemoveNodesSound ==
  ASSUME NEW h, Sound(h), NEW S, S \subseteq DOMAIN h.nodes
  PROVE  LET p == RemoveNodes(h, S)
         IN /\ Sound(p) /\ p.nodes = Only(h.nodes, (DOMAIN h.nodes) \ S) /\ p.nextId = h.nextId
            /\ \A e : e \in p.edges <=> e \in h.edges /\ e.from \notin S /\ e.to \notin S
  <1>1. h \in Graph /\ EvidenceSound(h) /\ IndexSound(h) /\ GoneSound(h) /\ BloomsSound(h) /\ IdsSound(h)
    BY DEF Sound
  <1>2. /\ h.nodes \in Maps(Nat, Node) /\ h.edges \in SUBSET Edges /\ h.index \in Maps(Places, Seq(Nat))
        /\ h.seen \in SUBSET AllKeys /\ h.evidence \in Maps(Files, Evidence)
        /\ h.gone \in Maps(Nat, Ages) /\ h.blooms \in Maps(Files, SUBSET Names)
    BY <1>1 DEF Graph
  <1>3. PICK p : p = RemoveNodes(h, S)
    OBVIOUS
  <1>4. PICK live : live = (DOMAIN h.nodes) \ S
    OBVIOUS
  <1>5. PICK full : full = {f \in DOMAIN h.blooms :
                              ~(/\ \E id \in S : h.nodes[id].file = f
                                /\ \A id \in live : h.nodes[id].file # f)}
    OBVIOUS
  <1>6. PICK nodes : nodes = Only(h.nodes, live)
    OBVIOUS
  <1>7. PICK edges : edges = {e \in h.edges : {e.from, e.to} \cap S = {}}
    OBVIOUS
  <1>8. PICK index : index = CutIndex(h.index, S)
    OBVIOUS
  <1>9. PICK seen : seen = {k \in h.seen : {k[1], k[2]} \cap S = {}}
    OBVIOUS
  <1>10. PICK ev : ev = CutEvidence(h.evidence, S)
    OBVIOUS
  <1>11. PICK gone : gone = Only(h.gone, (DOMAIN h.gone) \ S)
    OBVIOUS
  <1>12. PICK blooms : blooms = Only(h.blooms, full)
    OBVIOUS
  <1>13. p = [h EXCEPT !.nodes = nodes, !.edges = edges, !.index = index, !.seen = seen,
                       !.evidence = ev, !.gone = gone, !.blooms = blooms]
    BY <1>3, <1>4, <1>5, <1>6, <1>7, <1>8, <1>9, <1>10, <1>11, <1>12 DEF RemoveNodes
  <1>14. /\ p.nodes = nodes /\ p.edges = edges /\ p.nextId = h.nextId /\ p.index = index
         /\ p.seen = seen /\ p.evidence = ev /\ p.gone = gone /\ p.blooms = blooms
    BY <1>1, <1>13 DEF Graph
  <1>15. DOMAIN nodes = live /\ \A id \in live : nodes[id] = h.nodes[id]
    BY <1>4, <1>6 DEF Only
  <1>16. /\ index \in Maps(Places, Seq(Nat))
         /\ \A b : b \in DOMAIN index <=> b \in DOMAIN h.index /\ ToSet(h.index[b]) \ S # {}
         /\ \A b \in DOMAIN index : IsInjective(index[b]) /\ ToSet(index[b]) = ToSet(h.index[b]) \ S
    BY <1>1, <1>2, <1>8, CutIndexIs DEF IndexSound
  <1>17. /\ ev \in Maps(Files, Evidence)
         /\ \A f : f \in DOMAIN ev <=> /\ f \in DOMAIN h.evidence
                                       /\ \/ h.evidence[f].nodes \ S # {}
                                          \/ {k \in h.evidence[f].edges : {k[1], k[2]} \cap S = {}} # {}
         /\ \A f \in DOMAIN ev : /\ ev[f].nodes = h.evidence[f].nodes \ S
                                 /\ ev[f].edges = {k \in h.evidence[f].edges : {k[1], k[2]} \cap S = {}}
                                 /\ ev[f] # NoEvidence
    BY <1>2, <1>10, CutEvidenceIs
  <1>18. p \in Graph /\ IsFiniteSet(DOMAIN p.nodes) /\ IsFiniteSet(p.edges)
    <2>1. nodes \in Maps(Nat, Node) /\ gone \in Maps(Nat, Ages) /\ blooms \in Maps(Files, SUBSET Names)
      BY <1>2, <1>6, <1>11, <1>12, OnlyIs
    <2>2. edges \in SUBSET Edges /\ seen \in SUBSET AllKeys
      BY <1>2, <1>7, <1>9
    <2>3. p \in Graph
      BY <1>1, <1>13, <1>16, <1>17, <2>1, <2>2 DEF Graph
    <2>4. edges \subseteq h.edges /\ live \subseteq DOMAIN h.nodes
      BY <1>4, <1>7
    <2>5. IsFiniteSet(edges) /\ IsFiniteSet(live)
      BY <2>4, FS_Subset DEF Sound
    <2>6. QED
      BY <1>14, <1>15, <2>3, <2>5
  <1>19. EvidenceSound(p)
    <2>1. \A f : InFile(p, f) = InFile(h, f) \ S
      BY <1>4, <1>14, <1>15 DEF InFile
    <2>2. \A f \in DOMAIN ev : \A k : k \in ev[f].edges <=> k \in h.evidence[f].edges /\ k[1] \notin S /\ k[2] \notin S
      BY <1>17
    <2>3. \A f \in DOMAIN h.evidence : \A k \in h.evidence[f].edges :
            k[1] \notin S /\ k[2] \notin S => f \in DOMAIN ev
      BY <1>17
    <2>4. \A k \in p.seen : k[1] \in DOMAIN p.nodes /\ k[2] \in DOMAIN p.nodes
      BY <1>1, <1>4, <1>9, <1>14, <1>15 DEF EvidenceSound
    <2>5. \A k \in p.seen : \E f \in DOMAIN ev : k \in ev[f].edges
      BY <1>1, <1>9, <1>14, <2>2, <2>3 DEF EvidenceSound
    <2>6. \A f \in DOMAIN ev : ev[f].edges \subseteq p.seen
      BY <1>1, <1>9, <1>14, <1>17, <2>2 DEF EvidenceSound
    <2>7. \A f1, f2 \in DOMAIN ev : \A k \in ev[f1].edges : k \in ev[f2].edges => f1 = f2
      BY <1>1, <1>17, <2>2 DEF EvidenceSound
    <2>8. \A e \in p.edges : e.ev \in DOMAIN ev /\ EdgeKey(e) \in ev[e.ev].edges
      <3>1. ASSUME NEW e \in p.edges PROVE e.ev \in DOMAIN ev /\ EdgeKey(e) \in ev[e.ev].edges
        <4>1. e \in h.edges /\ e.from \notin S /\ e.to \notin S
          BY <1>7, <1>14
        <4>2. PICK k : k = EdgeKey(e)
          OBVIOUS
        <4>3. k[1] = e.from /\ k[2] = e.to
          BY <4>2 DEF EdgeKey
        <4>4. e.ev \in DOMAIN h.evidence /\ k \in h.evidence[e.ev].edges
          BY <1>1, <4>1, <4>2 DEF EvidenceSound
        <4>5. QED
          BY <2>2, <2>3, <4>1, <4>2, <4>3, <4>4
      <3>2. QED
        BY <3>1
    <2>9. \A e1, e2 \in p.edges : EdgeKey(e1) = EdgeKey(e2) => e1 = e2
      BY <1>1, <1>7, <1>14 DEF EvidenceSound
    <2>10. \A f \in Files : At(ev, f, NoEvidence).nodes = InFile(p, f)
      <3>1. ASSUME NEW f \in Files PROVE At(ev, f, NoEvidence).nodes = InFile(p, f)
        <4>1. At(h.evidence, f, NoEvidence).nodes \ S = InFile(p, f)
          BY <1>1, <2>1 DEF EvidenceSound
        <4>2. CASE f \in DOMAIN ev
          BY <1>17, <4>1, <4>2 DEF At
        <4>3. CASE f \notin DOMAIN ev
          BY <1>17, <4>1, <4>3 DEF At, NoEvidence
        <4>4. QED
          BY <4>2, <4>3
      <3>2. QED
        BY <3>1
    <2>11. QED
      BY <1>14, <1>17, <2>4, <2>5, <2>6, <2>7, <2>8, <2>9, <2>10 DEF EvidenceSound
  <1>20. IndexSound(p)
    <2>1. \A b : {id \in DOMAIN p.nodes : b \in Buckets(p.nodes[id].decl)}
                   = {id \in DOMAIN h.nodes : b \in Buckets(h.nodes[id].decl)} \ S
      BY <1>4, <1>14, <1>15
    <2>2. \A b \in DOMAIN h.index : ToSet(h.index[b]) = {id \in DOMAIN h.nodes : b \in Buckets(h.nodes[id].decl)}
      BY <1>1 DEF IndexSound
    <2>3. \A b \in DOMAIN p.index :
            /\ IsInjective(p.index[b])
            /\ ToSet(p.index[b]) = {id \in DOMAIN p.nodes : b \in Buckets(p.nodes[id].decl)}
      BY <1>14, <1>16, <2>1, <2>2
    <2>4. \A b : b \in DOMAIN p.index <=> \E id \in DOMAIN p.nodes : b \in Buckets(p.nodes[id].decl)
      <3>1. ASSUME NEW b
            PROVE  b \in DOMAIN p.index <=> \E id \in DOMAIN p.nodes : b \in Buckets(p.nodes[id].decl)
        <4>1. PICK N : N = {id \in DOMAIN h.nodes : b \in Buckets(h.nodes[id].decl)}
          OBVIOUS
        <4>2. b \in DOMAIN h.index <=> N # {}
          BY <1>1, <4>1 DEF IndexSound
        <4>3. b \in DOMAIN p.index <=> N \ S # {}
          BY <1>14, <1>16, <2>2, <4>1, <4>2
        <4>4. N \ S # {} <=> \E id \in DOMAIN p.nodes : b \in Buckets(p.nodes[id].decl)
          BY <2>1, <4>1
        <4>5. QED
          BY <4>3, <4>4
      <3>2. QED
        BY <3>1
    <2>5. QED
      BY <2>3, <2>4 DEF IndexSound
  <1>21. GoneSound(p)
    <2>1. DOMAIN gone = (DOMAIN h.gone) \ S
      BY <1>11 DEF Only
    <2>2. QED
      BY <1>1, <1>4, <1>14, <1>15, <2>1 DEF GoneSound
  <1>22. BloomsSound(p)
    <2>1. DOMAIN blooms = full /\ \A f \in full : blooms[f] = h.blooms[f]
      BY <1>5, <1>12 DEF Only
    <2>2. \A f : f \in full <=> \E id \in live : h.nodes[id].file = f
      BY <1>1, <1>4, <1>5 DEF BloomsSound
    <2>3. \A f : f \in DOMAIN p.blooms <=> \E id \in DOMAIN p.nodes : p.nodes[id].file = f
      BY <1>14, <1>15, <2>1, <2>2
    <2>4. \A id \in DOMAIN p.nodes : p.nodes[id].decl.name \in p.blooms[p.nodes[id].file]
      BY <1>1, <1>4, <1>14, <1>15, <2>1, <2>2 DEF BloomsSound
    <2>5. QED
      BY <2>3, <2>4 DEF BloomsSound
  <1>23. IdsSound(p)
    BY <1>1, <1>4, <1>14, <1>15 DEF IdsSound
  <1>24. \A e : e \in p.edges <=> e \in h.edges /\ e.from \notin S /\ e.to \notin S
    BY <1>7, <1>14
  <1>25. QED
    BY <1>3, <1>4, <1>6, <1>14, <1>18, <1>19, <1>20, <1>21, <1>22, <1>23, <1>24 DEF Sound

-----------------------------------------------------------------------------
(* What the extraction of a file adds.                                     *)

\* The nodes of h are in a as they were; the others lie in f.
Grown(h, a, f) ==
  /\ DOMAIN h.nodes \subseteq DOMAIN a.nodes
  /\ \A id \in DOMAIN h.nodes : a.nodes[id] = h.nodes[id]
  /\ \A id \in (DOMAIN a.nodes) \ DOMAIN h.nodes : a.nodes[id].file = f

\* The file has a node of the declaration.
Declares(h, f, d) == \E id \in DOMAIN h.nodes : h.nodes[id].file = f /\ h.nodes[id].decl = d

LEMMA ExtractedSound ==
  ASSUME NEW h, Sound(h), NEW f \in Files, NEW content \in Seq(Decls)
  PROVE  LET p == Extracted(h, f, content)
         IN /\ Sound(p) /\ p.edges = h.edges /\ p.seen = h.seen /\ Grown(h, p, f)
            /\ p.nextId = h.nextId + Len(content)
            /\ \A i \in 1..Len(content) : Declares(p, f, content[i])
  <1> DEFINE D == 1..Len(content)
             C == SeqChoice(Len(content))
             U == {a \in Graph : Sound(a)}
             V == [r \in SUBSET D |-> {a \in U : /\ a.edges = h.edges /\ a.seen = h.seen /\ Grown(h, a, f)
                                                 /\ \A i \in r : Declares(a, f, content[i])
                                                 /\ a.nextId = h.nextId + Cardinality(r)}]
             G == [p \in D \X U |-> InsertNode(p[2], f, content[p[1]])]
             Step(it, r) == IF r = {} THEN h ELSE InsertNode(it[r \ {Max(r)}], f, content[Max(r)])
             fold == CHOOSE it : it = [r \in SUBSET D |-> Step(it, r)]
  <1>1. Len(content) \in Nat /\ DOMAIN content = D /\ content \in [D -> Decls]
    OBVIOUS
  <1>2. IsFiniteSet(D) /\ Chooses(C, D) /\ \A r \in SUBSET D : C[r] = Max(r)
    BY <1>1, SeqChooses DEF SeqChoice
  <1>3. h \in V[{}]
    <2>1. h \in Graph /\ h.nextId \in Nat /\ Cardinality({}) = 0
      BY FS_EmptySet DEF Sound, Graph
    <2>2. QED
      BY <2>1 DEF Grown
  <1>4. ASSUME NEW r \in (SUBSET D) \ {{}}, NEW v \in V[r \ {C[r]}]
        PROVE  /\ v \in U /\ C[r] \in D
               /\ InsertNode(v, f, content[C[r]]) \in V[r]
    <2>1. C[r] \in D /\ r \ {C[r]} \in SUBSET D
          /\ Cardinality(r) \in Nat /\ Cardinality(r \ {C[r]}) = Cardinality(r) - 1
      <3> HIDE DEF C, D
      <3>1. QED
        BY <1>2, OneLess
    <2>2. v \in Graph /\ Sound(v) /\ v.edges = h.edges /\ v.seen = h.seen /\ Grown(h, v, f)
          /\ \A i \in r \ {C[r]} : Declares(v, f, content[i])
          /\ v.nextId = h.nextId + (Cardinality(r) - 1)
      BY <2>1
    <2>3. PICK d \in Decls : d = content[C[r]]
      BY <1>1, <2>1
    <2>4. PICK p : p = InsertNode(v, f, d)
      OBVIOUS
    <2>5. /\ Sound(p) /\ p.edges = v.edges /\ p.seen = v.seen /\ p.nextId = v.nextId + 1
          /\ p.nodes = Put(v.nodes, v.nextId, [file |-> f, decl |-> d, status |-> "Live"])
      BY <2>2, <2>4, InsertNodeSound
    <2>6. v.nextId \notin DOMAIN v.nodes /\ h.nextId \in Nat /\ p \in Graph /\ v.nextId \in Nat
      BY <2>2, <2>5 DEF Sound, IdsSound, Graph
    <2>7. Grown(h, p, f)
      BY <2>2, <2>5, <2>6 DEF Grown, Put
    <2>8. p.nextId = h.nextId + Cardinality(r)
      BY <2>1, <2>2, <2>5, <2>6
    <2>9. \A i \in r : Declares(p, f, content[i])
      <3>1. \A x \in Decls : Declares(v, f, x) => Declares(p, f, x)
        BY <2>5, <2>6 DEF Declares, Put
      <3>2. Declares(p, f, d)
        <4>1. PICK id : id = v.nextId
          OBVIOUS
        <4>2. id \in DOMAIN p.nodes /\ p.nodes[id] = [file |-> f, decl |-> d, status |-> "Live"]
          BY <2>5, <4>1 DEF Put
        <4>3. QED
          BY <4>2 DEF Declares
      <3>3. \A i \in r : content[i] \in Decls
        BY <1>1
      <3>4. QED
        BY <2>2, <2>3, <3>1, <3>2, <3>3
    <2>10. QED
      BY <2>1, <2>2, <2>3, <2>4, <2>5, <2>6, <2>7, <2>8, <2>9
  <1>5. PICK jt : /\ jt = [r \in SUBSET D |-> jt[r]] /\ IsFold(jt, D, C, h, G)
                  /\ \A r \in SUBSET D : jt[r] \in V[r]
    <2>1. \A r \in (SUBSET D) \ {{}} : \A v \in V[r \ {C[r]}] : G[<<C[r], v>>] \in V[r]
      <3>1. ASSUME NEW r \in (SUBSET D) \ {{}}, NEW v \in V[r \ {C[r]}] PROVE G[<<C[r], v>>] \in V[r]
        <4>1. v \in U /\ C[r] \in D /\ InsertNode(v, f, content[C[r]]) \in V[r]
          BY <1>4
        <4> HIDE DEF U, V, C, D
        <4>2. G[<<C[r], v>>] = InsertNode(v, f, content[C[r]])
          BY <4>1
        <4>3. QED
          BY <4>1, <4>2
      <3>2. QED
        BY <3>1
    <2> HIDE DEF D, C, V, G
    <2>2. QED
      BY <1>2, <1>3, <2>1, Folding
  <1>6. jt = [r \in SUBSET D |-> Step(jt, r)]
    <2>1. ASSUME NEW r \in (SUBSET D) \ {{}} PROVE jt[r] = InsertNode(jt[r \ {Max(r)}], f, content[Max(r)])
      <3>1. r \ {C[r]} \in SUBSET D /\ C[r] = Max(r) /\ jt[r] = G[<<C[r], jt[r \ {C[r]}]>>]
        BY <1>2, <1>5 DEF IsFold
      <3>2. jt[r \ {C[r]}] \in U /\ C[r] \in D
        <4> HIDE DEF V, U, C, D
        <4>1. QED
          BY <1>4, <1>5, <3>1
      <3> HIDE DEF U, V, C, D
      <3>3. QED
        BY <3>1, <3>2
    <2>2. jt[{}] = h
      BY <1>5 DEF IsFold
    <2> HIDE DEF D, C, V, G
    <2>3. QED
      BY <1>5, <2>1, <2>2
  <1>7. fold = [r \in SUBSET D |-> Step(fold, r)]
    BY <1>6
  <1>8. fold[D] \in V[D]
    <2>1. fold[{}] = h /\ \A r \in (SUBSET D) \ {{}} : fold[r] = InsertNode(fold[r \ {C[r]}], f, content[C[r]])
      <3> HIDE DEF fold, D
      <3>1. QED
        BY <1>2, <1>7
    <2> HIDE DEF fold, D, C, V, U
    <2>2. \A r \in (SUBSET D) \ {{}} : fold[r \ {C[r]}] \in V[r \ {C[r]}] => fold[r] \in V[r]
      BY <1>4, <2>1
    <2>3. fold[{}] \in V[{}]
      BY <1>3, <2>1
    <2>4. QED
      BY <1>2, <2>2, <2>3, Folded
  <1>9. Extracted(h, f, content) = fold[D]
    BY <1>1 DEF Extracted, FoldLeft, MapThenFoldSet
  <1>10. Cardinality(D) = Len(content)
    BY <1>1, FS_Interval
  <1>11. PICK p : p = fold[D]
    OBVIOUS
  <1>12. /\ Sound(p) /\ p.edges = h.edges /\ p.seen = h.seen /\ Grown(h, p, f)
         /\ p.nextId = h.nextId + Cardinality(D) /\ \A i \in D : Declares(p, f, content[i])
    <2> HIDE DEF fold, D
    <2>1. QED
      BY <1>8, <1>11
  <1>13. QED
    BY <1>9, <1>10, <1>11, <1>12

-----------------------------------------------------------------------------
(* What the round trip through a snapshot restores.                        *)

LEMMA EmptyGraphSound == Sound(EmptyGraph)
  <1>1. \A K, T : Empty \in Maps(K, T) /\ DOMAIN Empty = {}
    <2>1. Empty = [x \in DOMAIN Empty |-> Empty[x]] /\ DOMAIN Empty = {}
      BY DEF Empty
    <2>2. QED
      BY <2>1, MapIs
  <1>2. PICK e : e = Empty
    OBVIOUS
  <1>3. EmptyGraph = [nodes |-> e, edges |-> {}, nextId |-> 0, index |-> e, seen |-> {},
                      evidence |-> e, gone |-> e, blooms |-> e]
    BY <1>2 DEF EmptyGraph
  <1>4. (\A K, T : e \in Maps(K, T)) /\ DOMAIN e = {}
    BY <1>1, <1>2
  <1>5. EmptyGraph \in Graph
    BY <1>3, <1>4 DEF Graph
  <1>6. PICK h : h = EmptyGraph
    OBVIOUS
  <1>7. /\ DOMAIN h.nodes = {} /\ h.edges = {} /\ DOMAIN h.index = {} /\ h.seen = {}
        /\ DOMAIN h.evidence = {} /\ DOMAIN h.gone = {} /\ DOMAIN h.blooms = {}
    BY <1>3, <1>4, <1>6
  <1>8. EvidenceSound(h)
    BY <1>7 DEF EvidenceSound, At, NoEvidence, InFile
  <1>9. IsFiniteSet(DOMAIN h.nodes) /\ IsFiniteSet(h.edges)
    BY <1>7, FS_EmptySet
  <1>10. QED
    BY <1>5, <1>6, <1>7, <1>8, <1>9 DEF Sound, IdsSound, IndexSound, GoneSound, BloomsSound

\* The nodes, inserted with the ids they had.
Renumbered(h, order) == FoldLeft(LAMBDA a, id : InsertPreservingId(a, id, h.nodes[id]), EmptyGraph, order)

LEMMA RenumberedSound ==
  ASSUME NEW h, Sound(h), NEW n \in Nat, NEW order \in [1..n -> DOMAIN h.nodes],
         \A i, j \in 1..n : i # j => order[i] # order[j]
  PROVE  Sound(Renumbered(h, order)) /\ Renumbered(h, order).nextId <= h.nextId
  <1> DEFINE D == 1..n
             C == SeqChoice(n)
             U == {a \in Graph : Sound(a) /\ a.nextId <= h.nextId}
             V == [r \in SUBSET D |-> {a \in U : DOMAIN a.nodes = {order[i] : i \in r}}]
             Next1(a, i) == InsertPreservingId(a, order[i], h.nodes[order[i]])
             G == [p \in D \X U |-> Next1(p[2], p[1])]
             Step(it, r) == IF r = {} THEN EmptyGraph ELSE Next1(it[r \ {Max(r)}], Max(r))
             fold == CHOOSE it : it = [r \in SUBSET D |-> Step(it, r)]
  <1>1. DOMAIN order = D
    OBVIOUS
  <1>2. IsFiniteSet(D) /\ Chooses(C, D) /\ \A r \in SUBSET D : C[r] = Max(r)
    BY <1>1, SeqChooses DEF SeqChoice
  <1>3. EmptyGraph \in V[{}]
    <2>1. Sound(EmptyGraph) /\ EmptyGraph \in Graph
      BY EmptyGraphSound DEF Sound
    <2>2. DOMAIN EmptyGraph.nodes = {} /\ EmptyGraph.nextId = 0 /\ h.nextId \in Nat
      BY DEF EmptyGraph, Empty, Sound, Graph
    <2>3. QED
      BY <2>1, <2>2
  <1>4. ASSUME NEW r \in (SUBSET D) \ {{}}, NEW v \in V[r \ {C[r]}]
        PROVE  v \in U /\ C[r] \in D /\ Next1(v, C[r]) \in V[r]
    <2>1. PICK i \in D : i = C[r] /\ i \in r
      BY <1>2 DEF Chooses
    <2>2. v \in U /\ Sound(v) /\ DOMAIN v.nodes = {order[j] : j \in r \ {i}}
      BY <2>1
    <2>3. PICK id : id = order[i]
      OBVIOUS
    <2>4. id \in DOMAIN h.nodes /\ id \notin DOMAIN v.nodes /\ id \in Nat /\ id < h.nextId
          /\ h.nextId \in Nat /\ h.nodes[id] \in Node
      <3>1. h.nodes \in Maps(Nat, Node) /\ h.nextId \in Nat /\ \A x \in DOMAIN h.nodes : x < h.nextId
        BY DEF Sound, Graph, IdsSound
      <3>2. id \in DOMAIN h.nodes
        BY <2>3
      <3>3. id \notin DOMAIN v.nodes
        BY <2>1, <2>2, <2>3
      <3>4. id \in Nat /\ h.nodes[id] \in Node
        BY <3>1, <3>2, MapIs
      <3>5. QED
        BY <3>1, <3>2, <3>3, <3>4
    <2>5. PICK p : p = InsertPreservingId(v, id, h.nodes[id])
      OBVIOUS
    <2>6. /\ Sound(p) /\ p.nodes = Put(v.nodes, id, h.nodes[id])
          /\ p.nextId = IF id >= v.nextId THEN id + 1 ELSE v.nextId
      <3>1. PICK m \in Node : m = h.nodes[id]
        BY <2>4
      <3>2. QED
        BY <2>2, <2>4, <2>5, <3>1, InsertPreservingIdSound
    <2>7. p.nextId <= h.nextId /\ p \in Graph
      <3>1. v.nextId \in Nat /\ v.nextId <= h.nextId
        BY <2>2 DEF Graph
      <3>2. QED
        BY <2>4, <2>6, <3>1 DEF Sound
    <2>8. DOMAIN p.nodes = {order[j] : j \in r}
      <3>1. DOMAIN p.nodes = (DOMAIN v.nodes) \cup {id}
        BY <2>6 DEF Put
      <3>2. QED
        BY <2>1, <2>2, <2>3, <3>1
    <2>9. QED
      BY <2>1, <2>2, <2>3, <2>5, <2>6, <2>7, <2>8
  <1>5. PICK jt : /\ jt = [r \in SUBSET D |-> jt[r]] /\ IsFold(jt, D, C, EmptyGraph, G)
                  /\ \A r \in SUBSET D : jt[r] \in V[r]
    <2>1. \A r \in (SUBSET D) \ {{}} : \A v \in V[r \ {C[r]}] : G[<<C[r], v>>] \in V[r]
      <3>1. ASSUME NEW r \in (SUBSET D) \ {{}}, NEW v \in V[r \ {C[r]}] PROVE G[<<C[r], v>>] \in V[r]
        <4>1. v \in U /\ C[r] \in D /\ Next1(v, C[r]) \in V[r]
          BY <1>4
        <4> HIDE DEF U, V, C, D, Next1
        <4>2. G[<<C[r], v>>] = Next1(v, C[r])
          BY <4>1
        <4>3. QED
          BY <4>1, <4>2
      <3>2. QED
        BY <3>1
    <2> HIDE DEF D, C, V, G
    <2>2. QED
      BY <1>2, <1>3, <2>1, Folding
  <1>6. jt = [r \in SUBSET D |-> Step(jt, r)]
    <2>1. ASSUME NEW r \in (SUBSET D) \ {{}} PROVE jt[r] = Next1(jt[r \ {Max(r)}], Max(r))
      <3>1. r \ {C[r]} \in SUBSET D /\ C[r] = Max(r) /\ jt[r] = G[<<C[r], jt[r \ {C[r]}]>>]
        BY <1>2, <1>5 DEF IsFold
      <3>2. jt[r \ {C[r]}] \in U /\ C[r] \in D
        <4> HIDE DEF V, U, C, D
        <4>1. QED
          BY <1>4, <1>5, <3>1
      <3> HIDE DEF U, V, C, D, Next1
      <3>3. QED
        BY <3>1, <3>2
    <2>2. jt[{}] = EmptyGraph
      BY <1>5 DEF IsFold
    <2> HIDE DEF D, C, V, G, Next1
    <2>3. QED
      BY <1>5, <2>1, <2>2
  <1>7. fold = [r \in SUBSET D |-> Step(fold, r)]
    BY <1>6
  <1>8. fold[D] \in V[D]
    <2>1. fold[{}] = EmptyGraph /\ \A r \in (SUBSET D) \ {{}} : fold[r] = Next1(fold[r \ {C[r]}], C[r])
      <3> HIDE DEF fold, D, Next1
      <3>1. QED
        BY <1>2, <1>7
    <2> HIDE DEF fold, D, C, V, U, Next1
    <2>2. \A r \in (SUBSET D) \ {{}} : fold[r \ {C[r]}] \in V[r \ {C[r]}] => fold[r] \in V[r]
      BY <1>4, <2>1
    <2>3. fold[{}] \in V[{}]
      BY <1>3, <2>1
    <2>4. QED
      BY <1>2, <2>2, <2>3, Folded
  <1>9. Renumbered(h, order) = fold[D]
    BY <1>1 DEF Renumbered, FoldLeft, MapThenFoldSet
  <1>10. QED
    BY <1>8, <1>9

\* A set of edges is inserted.
Connected(h, edges) == FoldSet(LAMBDA e, a : InsertEdge(a, e), h, edges)

LEMMA ConnectedSound ==
  ASSUME NEW h, Sound(h), NEW edges \in SUBSET Edges, IsFiniteSet(edges)
  PROVE  Sound(Connected(h, edges)) /\ Connected(h, edges).nextId = h.nextId
  <1> DEFINE C == SetChoice(edges)
             U == {a \in Graph : Sound(a) /\ a.nextId = h.nextId}
             V == [r \in SUBSET edges |-> U]
             G == [p \in edges \X U |-> InsertEdge(p[2], p[1])]
             Pick(s) == CHOOSE x \in s : TRUE
             Step(it, r) == IF r = {} THEN h ELSE InsertEdge(it[r \ {Pick(r)}], Pick(r))
             fold == CHOOSE it : it = [r \in SUBSET edges |-> Step(it, r)]
  <1>1. IsFiniteSet(edges)
    OBVIOUS
  <1>2. Chooses(C, edges) /\ \A r \in SUBSET edges : C[r] = Pick(r)
    BY SetChooses DEF SetChoice
  <1>3. h \in V[{}]
    BY DEF Sound
  <1>4. ASSUME NEW r \in (SUBSET edges) \ {{}}, NEW v \in V[r \ {C[r]}]
        PROVE  v \in U /\ C[r] \in edges /\ InsertEdge(v, C[r]) \in V[r]
    <2>1. PICK e \in edges : e = C[r]
      BY <1>2 DEF Chooses
    <2>2. v \in U /\ Sound(v) /\ v.nextId = h.nextId
      OBVIOUS
    <2>3. PICK p : p = InsertEdge(v, e)
      OBVIOUS
    <2>4. Sound(p) /\ p.nextId = h.nextId
      BY <2>2, <2>3, InsertEdgeSound
    <2>5. p \in Graph
      BY <2>4 DEF Sound
    <2>6. QED
      BY <2>1, <2>2, <2>3, <2>4, <2>5
  <1>5. PICK jt : /\ jt = [r \in SUBSET edges |-> jt[r]] /\ IsFold(jt, edges, C, h, G)
                  /\ \A r \in SUBSET edges : jt[r] \in V[r]
    <2>1. \A r \in (SUBSET edges) \ {{}} : \A v \in V[r \ {C[r]}] : G[<<C[r], v>>] \in V[r]
      <3>1. ASSUME NEW r \in (SUBSET edges) \ {{}}, NEW v \in V[r \ {C[r]}] PROVE G[<<C[r], v>>] \in V[r]
        <4>1. v \in U /\ C[r] \in edges /\ InsertEdge(v, C[r]) \in V[r]
          BY <1>4
        <4> HIDE DEF U, V, C
        <4>2. G[<<C[r], v>>] = InsertEdge(v, C[r])
          BY <4>1
        <4>3. QED
          BY <4>1, <4>2
      <3>2. QED
        BY <3>1
    <2> HIDE DEF C, V, G
    <2>2. Chooses(C, edges) /\ h \in V[{}]
      BY <1>2, <1>3
    <2>3. QED
      BY <1>1, <2>1, <2>2, Folding
  <1>6. jt = [r \in SUBSET edges |-> Step(jt, r)]
    <2>1. ASSUME NEW r \in (SUBSET edges) \ {{}} PROVE jt[r] = InsertEdge(jt[r \ {Pick(r)}], Pick(r))
      <3>1. r \ {C[r]} \in SUBSET edges /\ C[r] = Pick(r) /\ jt[r] = G[<<C[r], jt[r \ {C[r]}]>>]
        BY <1>2, <1>5 DEF IsFold
      <3>2. jt[r \ {C[r]}] \in U /\ C[r] \in edges
        <4> HIDE DEF V, U, C
        <4>1. QED
          BY <1>4, <1>5, <3>1
      <3> HIDE DEF U, V, C, Pick
      <3>3. QED
        BY <3>1, <3>2
    <2>2. jt[{}] = h
      BY <1>5 DEF IsFold
    <2> HIDE DEF C, V, G, Pick
    <2>3. QED
      BY <1>5, <2>1, <2>2
  <1>7. fold = [r \in SUBSET edges |-> Step(fold, r)]
    BY <1>6
  <1>8. fold[edges] \in V[edges]
    <2>1. fold[{}] = h /\ \A r \in (SUBSET edges) \ {{}} : fold[r] = InsertEdge(fold[r \ {C[r]}], C[r])
      <3> HIDE DEF fold, Pick
      <3>1. QED
        BY <1>2, <1>7
    <2> HIDE DEF fold, C, V, U
    <2>2. \A r \in (SUBSET edges) \ {{}} : fold[r \ {C[r]}] \in V[r \ {C[r]}] => fold[r] \in V[r]
      BY <1>4, <2>1
    <2>3. fold[{}] \in V[{}]
      BY <1>3, <2>1
    <2>4. QED
      BY <1>2, <2>2, <2>3, Folded
  <1>9. Connected(h, edges) = fold[edges]
    BY DEF Connected, FoldSet, MapThenFoldSet
  <1>10. QED
    BY <1>8, <1>9

LEMMA RestoredSound ==
  ASSUME NEW h, Sound(h), NEW S, S \subseteq DOMAIN h.nodes, NEW order \in SetToSeqs(S),
         NEW edges \in SUBSET h.edges
  PROVE  Sound(Restored(h, order, edges)) /\ Restored(h, order, edges).nextId <= h.nextId
  <1>1. PICK n \in Nat : n = Cardinality(S)
    BY FS_Subset, FS_CardinalityType DEF Sound
  <1>2. order \in [1..n -> DOMAIN h.nodes] /\ \A i, j \in 1..n : i # j => order[i] # order[j]
    BY <1>1 DEF SetToSeqs
  <1>3. PICK a : a = Renumbered(h, order)
    OBVIOUS
  <1>4. Sound(a) /\ a.nextId <= h.nextId
    BY <1>2, <1>3, RenumberedSound
  <1>5. edges \in SUBSET Edges /\ IsFiniteSet(edges)
    BY FS_Subset DEF Sound, Graph
  <1>6. Restored(h, order, edges) = Connected(a, edges)
    BY <1>3 DEF Restored, Renumbered, Connected
  <1>7. QED
    BY <1>4, <1>5, <1>6, ConnectedSound

-----------------------------------------------------------------------------
(* Reindex of one file.                                                    *)

LEMMA HitIs ==
  ASSUME NEW h, Sound(h), NEW f, NEW b, Hit(h, f, b) # NoId
  PROVE  /\ Hit(h, f, b) \in DOMAIN h.nodes /\ h.nodes[Hit(h, f, b)].file = f
         /\ b \in Buckets(h.nodes[Hit(h, f, b)].decl)
  <1>1. PICK bucket : bucket = At(h.index, b, <<>>)
    OBVIOUS
  <1>2. PICK hits : hits = {i \in DOMAIN bucket : i <= LookupLimit /\ h.nodes[bucket[i]].file = f}
    OBVIOUS
  <1>3. bucket \in Seq(Nat)
    <2>1. h.index \in Maps(Places, Seq(Nat)) /\ <<>> \in Seq(Nat)
      BY DEF Sound, Graph
    <2>2. QED
      BY <1>1, <2>1, AtIs
  <1>4. Hit(h, f, b) = IF hits = {} THEN NoId ELSE bucket[Min(hits)]
    BY <1>1, <1>2 DEF Hit
  <1>5. PICK i : i = Min(hits) /\ i \in hits
    <2>1. hits \subseteq Nat /\ hits # {}
      BY <1>2, <1>3, <1>4
    <2>2. QED
      BY <2>1, MinIs
  <1>6. Hit(h, f, b) = bucket[i] /\ i \in DOMAIN bucket /\ h.nodes[bucket[i]].file = f
    BY <1>2, <1>4, <1>5
  <1>7. b \in DOMAIN h.index /\ bucket = h.index[b]
    BY <1>1, <1>6 DEF At
  <1>8. bucket[i] \in ToSet(bucket)
    BY <1>6 DEF ToSet
  <1>9. ToSet(bucket) = {id \in DOMAIN h.nodes : b \in Buckets(h.nodes[id].decl)}
    BY <1>7 DEF Sound, IndexSound
  <1>10. QED
    BY <1>6, <1>8, <1>9

LEMMA BucketIs ==
  ASSUME NEW d, NEW b \in Buckets(d)
  PROVE  /\ b[1] \in {"name", "qual", "value"}
         /\ b[1] = "name" => b = <<"name", d.name>> /\ b[2] = d.name
         /\ b[1] = "qual" => b = <<"qual", d.qual>> /\ b[2] = d.qual /\ d.qual # ""
  <1>1. CASE b = <<"name", d.name>>
    BY <1>1
  <1>2. CASE b = <<"qual", d.qual>> /\ d.qual \notin {"", d.name}
    BY <1>2
  <1>3. CASE b = <<"value", d.name>>
    BY <1>3
  <1>4. QED
    BY <1>1, <1>2, <1>3 DEF Buckets

\* A lookup whose bucket is not crowded finds a node of the file.
LEMMA HitFinds ==
  ASSUME NEW h, Sound(h), h.nextId <= MaxId, NEW f, NEW id \in DOMAIN h.nodes, h.nodes[id].file = f,
         NEW b \in Buckets(h.nodes[id].decl), Len(h.index[b]) <= LookupLimit
  PROVE  Hit(h, f, b) # NoId
  <1>1. b \in DOMAIN h.index /\ h.index \in Maps(Places, Seq(Nat)) /\ h.nextId \in Nat
        /\ DOMAIN h.nodes \subseteq Nat
    BY MapIs DEF Sound, IndexSound, Graph
  <1>2. PICK bucket \in Seq(Nat) : bucket = h.index[b]
    BY <1>1, MapIs
  <1>3. PICK hits : hits = {i \in DOMAIN bucket : i <= LookupLimit /\ h.nodes[bucket[i]].file = f}
    OBVIOUS
  <1>4. Hit(h, f, b) = IF hits = {} THEN NoId ELSE bucket[Min(hits)]
    BY <1>1, <1>2, <1>3 DEF Hit, At
  <1>5. ToSet(bucket) = {x \in DOMAIN h.nodes : b \in Buckets(h.nodes[x].decl)}
    BY <1>1, <1>2 DEF Sound, IndexSound
  <1>6. PICK i \in DOMAIN bucket : bucket[i] = id
    BY <1>5 DEF ToSet
  <1>7. i \in Nat /\ i <= Len(bucket) /\ Len(bucket) \in Nat /\ Len(bucket) <= LookupLimit
    BY <1>2, <1>6
  <1>8. i \in hits /\ hits \subseteq Nat
    BY <1>2, <1>3, <1>6, <1>7, BoundsAssumption
  <1>9. PICK m : m = Min(hits) /\ m \in hits
    BY <1>8, MinIs
  <1>10. bucket[m] \in DOMAIN h.nodes
    BY <1>3, <1>5, <1>9 DEF ToSet
  <1>11. bucket[m] < h.nextId /\ bucket[m] \in Nat
    BY <1>1, <1>10 DEF Sound, IdsSound
  <1>12. QED
    BY <1>1, <1>4, <1>8, <1>9, <1>11, BoundsAssumption DEF NoId

\* The symbol has the declaration's qualified name, or its name.
Alike(d, old) == d.name = old.name \/ (old.qual # "" /\ d.qual = old.qual)

\* A lookup by either key of d is not crowded.
Findable(h, d) ==
  \E b \in Buckets(d) : b[1] \in {"name", "qual"} /\ Len(h.index[b]) <= LookupLimit

LEMMA RelinkTargetIs ==
  ASSUME NEW h, Sound(h), NEW f, NEW d, RelinkTarget(h, f, d) # NoId
  PROVE  LET t == RelinkTarget(h, f, d)
         IN t \in DOMAIN h.nodes /\ h.nodes[t].file = f /\ Alike(h.nodes[t].decl, d)
  <1>1. PICK t : t = RelinkTarget(h, f, d)
    OBVIOUS
  <1>2. PICK b : /\ b = <<"qual", d.qual>> \/ b = <<"name", d.name>>
                 /\ t = Hit(h, f, b) /\ t # NoId
    BY <1>1 DEF RelinkTarget
  <1>3. t \in DOMAIN h.nodes /\ h.nodes[t].file = f /\ b \in Buckets(h.nodes[t].decl)
    BY <1>2, HitIs
  <1>4. PICK c : c = h.nodes[t].decl /\ b \in Buckets(c)
    BY <1>3
  <1>5. Alike(c, d)
    <2>1. CASE b = <<"qual", d.qual>>
      <3>1. b[1] = "qual" /\ b[2] = d.qual
        BY <2>1
      <3>2. c.qual = d.qual /\ c.qual # ""
        BY <1>4, <3>1, BucketIs
      <3>3. QED
        BY <3>2 DEF Alike
    <2>2. CASE b = <<"name", d.name>>
      <3>1. b[1] = "name" /\ b[2] = d.name
        BY <2>2
      <3>2. c.name = d.name
        BY <1>4, <3>1, BucketIs
      <3>3. QED
        BY <3>2 DEF Alike
    <2>3. QED
      BY <1>2, <2>1, <2>2
  <1>6. QED
    BY <1>1, <1>3, <1>4, <1>5

LEMMA RelinkTargetFound ==
  ASSUME NEW h, Sound(h), h.nextId <= MaxId, NEW f, NEW d, Declares(h, f, d), Findable(h, d)
  PROVE  RelinkTarget(h, f, d) # NoId
  <1>1. PICK id \in DOMAIN h.nodes : h.nodes[id].file = f /\ h.nodes[id].decl = d
    BY DEF Declares
  <1>2. PICK b \in Buckets(d) : b[1] \in {"name", "qual"} /\ Len(h.index[b]) <= LookupLimit
    BY DEF Findable
  <1>3. Hit(h, f, b) # NoId
    BY <1>1, <1>2, HitFinds
  <1>4. b = <<"qual", d.qual>> \/ b = <<"name", d.name>>
    BY <1>2, BucketIs
  <1>5. QED
    BY <1>3, <1>4 DEF RelinkTarget

\* The nodes that do not lie in f, and the edges between them.
AwayFrom(h, f) == {id \in DOMAIN h.nodes : h.nodes[id].file # f}
OutsideOf(h, f) == {e \in h.edges : {e.from, e.to} \subseteq AwayFrom(h, f)}

\* The ends of a captured edge, in and out of the file, and the key it gets
\* when it is inserted again with t at the file's end.
FileEnd(h, f, e) == IF h.nodes[e.to].file = f THEN e.to ELSE e.from
OtherEnd(h, f, e) == IF h.nodes[e.to].file = f THEN e.from ELSE e.to
RelinkKey(h, f, e, t) == IF h.nodes[e.to].file = f THEN <<e.from, t, e.kind>> ELSE <<t, e.to, e.kind>>

\* What was seen at a node of the file is an edge, one step staler at least.
LinksOlder(a, f) ==
  \A k \in a.seen :
    ~({k[1], k[2]} \subseteq AwayFrom(a, f)) => \E e \in a.edges : EdgeKey(e) = k /\ e.stale > 0

\* If a finds the symbol e had its end at, p has an edge in the place of e.
Replaced(a, h, f, e, p) ==
  LET t == RelinkTarget(a, f, h.nodes[FileEnd(h, f, e)].decl)
  IN t # NoId => RelinkKey(h, f, e, t) \in p.seen

LEMMA RelinkedSound ==
  ASSUME NEW a, Sound(a), NEW h, NEW f, LinksOlder(a, f),
         NEW e \in Edges, OtherEnd(h, f, e) \in DOMAIN a.nodes
  PROVE  LET p == Relinked(a, h, f, e)
         IN /\ Sound(p) /\ p.nodes = a.nodes /\ p.nextId = a.nextId /\ p.index = a.index
            /\ OutsideOf(p, f) = OutsideOf(a, f)
            /\ a.seen \subseteq p.seen /\ LinksOlder(p, f) /\ Replaced(a, h, f, e, p)
  <1>1. PICK p : p = Relinked(a, h, f, e)
    OBVIOUS
  <1>2. PICK incoming \in BOOLEAN : incoming = (h.nodes[e.to].file = f)
    OBVIOUS
  <1>3. PICK d : d = h.nodes[FileEnd(h, f, e)].decl
    OBVIOUS
  <1>4. PICK target : target = RelinkTarget(a, f, d)
    OBVIOUS
  <1>5. PICK new : new = IF incoming THEN [e EXCEPT !.to = target, !.stale = Older(e)]
                                     ELSE [e EXCEPT !.from = target, !.stale = Older(e)]
    OBVIOUS
  <1>6. p = IF target = NoId THEN a ELSE InsertEdge(a, new)
    <2>1. d = h.nodes[IF incoming THEN e.to ELSE e.from].decl
      BY <1>2, <1>3 DEF FileEnd
    <2>2. QED
      BY <1>1, <1>2, <1>4, <1>5, <2>1 DEF Relinked
  <1>7. CASE target = NoId
    BY <1>1, <1>3, <1>4, <1>6, <1>7 DEF Replaced
  <1>8. CASE target # NoId
    <2>1. target \in DOMAIN a.nodes /\ a.nodes[target].file = f
      BY <1>4, <1>8, RelinkTargetIs
    <2>2. target \in Nat
      BY <2>1, MapIs DEF Sound, Graph
    <2>3. Older(e) \in 0..MaxStale /\ Older(e) > 0
      BY BoundsAssumption DEF Older, Edges
    <2>4. new \in Edges /\ (new.to = target \/ new.from = target) /\ new.stale > 0
      BY <1>5, <2>2, <2>3 DEF Edges
    <2>5. p = InsertEdge(a, new)
      BY <1>6, <1>8
    <2>6. /\ Sound(p) /\ p.nodes = a.nodes /\ p.nextId = a.nextId
          /\ a.edges \subseteq p.edges /\ p.edges \subseteq a.edges \cup {new}
      BY <2>4, <2>5, InsertEdgeSound
    <2>7. AwayFrom(p, f) = AwayFrom(a, f) /\ target \notin AwayFrom(a, f)
      BY <2>1, <2>6 DEF AwayFrom
    <2>8. OutsideOf(p, f) = OutsideOf(a, f)
      BY <2>4, <2>6, <2>7 DEF OutsideOf
    <2>9. PICK k : k = EdgeKey(new)
      OBVIOUS
    <2>10. /\ p.index = a.index /\ a.seen \subseteq p.seen /\ p.seen \subseteq a.seen \cup {k}
           /\ p.seen = a.seen \/ new \in p.edges
           /\ new.from \in DOMAIN a.nodes /\ new.to \in DOMAIN a.nodes => k \in p.seen
      <3>1. a \in Graph
        BY DEF Sound
      <3>2. QED
        BY <2>5, <2>9, <3>1, InsertEdgeIs
    <2>11. LinksOlder(p, f)
      BY <2>4, <2>6, <2>7, <2>9, <2>10 DEF LinksOlder
    <2>12. k = RelinkKey(h, f, e, target) /\ new.from \in DOMAIN a.nodes /\ new.to \in DOMAIN a.nodes
      BY <1>2, <1>5, <2>1, <2>9 DEF EdgeKey, RelinkKey, OtherEnd, Edges
    <2>13. Replaced(a, h, f, e, p)
      BY <1>3, <1>4, <2>10, <2>12 DEF Replaced
    <2>14. QED
      BY <1>1, <2>6, <2>8, <2>10, <2>11, <2>13
  <1>9. QED
    BY <1>7, <1>8

\* Insertions of edges change no lookup.
LEMMA SameTarget ==
  ASSUME NEW a, NEW b, b.nodes = a.nodes, b.index = a.index, NEW f, NEW d
  PROVE  RelinkTarget(b, f, d) = RelinkTarget(a, f, d)
  <1>1. \A k : Hit(b, f, k) = Hit(a, f, k)
    BY DEF Hit
  <1>2. QED
    BY <1>1 DEF RelinkTarget

\* The captured edges are inserted again, in any order.
Linked(a, h, f, order) == FoldLeft(LAMBDA b, e : Relinked(b, h, f, e), a, order)

LEMMA LinkedSound ==
  ASSUME NEW a, Sound(a), NEW h, NEW f, LinksOlder(a, f), NEW n \in Nat, NEW order \in [1..n -> Edges],
         \A i \in 1..n : OtherEnd(h, f, order[i]) \in DOMAIN a.nodes
  PROVE  LET p == Linked(a, h, f, order)
         IN /\ Sound(p) /\ p.nodes = a.nodes /\ p.nextId = a.nextId /\ p.index = a.index
            /\ OutsideOf(p, f) = OutsideOf(a, f)
            /\ LinksOlder(p, f) /\ \A i \in 1..n : Replaced(a, h, f, order[i], p)
  <1> DEFINE D == 1..n
             C == SeqChoice(n)
             U == {b \in Graph : /\ Sound(b) /\ b.nodes = a.nodes /\ b.nextId = a.nextId
                                 /\ b.index = a.index /\ OutsideOf(b, f) = OutsideOf(a, f)
                                 /\ LinksOlder(b, f)}
             V == [r \in SUBSET D |-> {b \in U : \A i \in r : Replaced(a, h, f, order[i], b)}]
             Link(b, i) == Relinked(b, h, f, order[i])
             G == [p \in D \X U |-> Link(p[2], p[1])]
             Step(it, r) == IF r = {} THEN a ELSE Link(it[r \ {Max(r)}], Max(r))
             fold == CHOOSE it : it = [r \in SUBSET D |-> Step(it, r)]
  <1>1. DOMAIN order = D
    OBVIOUS
  <1>2. IsFiniteSet(D) /\ Chooses(C, D) /\ \A r \in SUBSET D : C[r] = Max(r)
    BY SeqChooses DEF SeqChoice
  <1>3. a \in V[{}]
    BY DEF Sound
  <1>4. ASSUME NEW r \in (SUBSET D) \ {{}}, NEW v \in V[r \ {C[r]}]
        PROVE  v \in U /\ C[r] \in D /\ Link(v, C[r]) \in V[r]
    <2>1. PICK i \in D : i = C[r]
      BY <1>2 DEF Chooses
    <2>2. /\ v \in U /\ Sound(v) /\ v.nodes = a.nodes /\ v.nextId = a.nextId
          /\ v.index = a.index /\ OutsideOf(v, f) = OutsideOf(a, f) /\ LinksOlder(v, f)
          /\ \A x \in r \ {i} : Replaced(a, h, f, order[x], v)
      BY <2>1
    <2>3. PICK e \in Edges : e = order[i] /\ OtherEnd(h, f, e) \in DOMAIN v.nodes
      BY <2>1, <2>2
    <2>4. PICK p : p = Relinked(v, h, f, e)
      OBVIOUS
    <2>5. /\ Sound(p) /\ p.nodes = v.nodes /\ p.nextId = v.nextId /\ p.index = v.index
          /\ OutsideOf(p, f) = OutsideOf(v, f)
          /\ v.seen \subseteq p.seen /\ LinksOlder(p, f) /\ Replaced(v, h, f, e, p)
      <3>1. Sound(v) /\ LinksOlder(v, f) /\ OtherEnd(h, f, e) \in DOMAIN v.nodes
        BY <2>2, <2>3
      <3>2. LET q == Relinked(v, h, f, e)
            IN /\ Sound(q) /\ q.nodes = v.nodes /\ q.nextId = v.nextId /\ q.index = v.index
               /\ OutsideOf(q, f) = OutsideOf(v, f)
               /\ v.seen \subseteq q.seen /\ LinksOlder(q, f) /\ Replaced(v, h, f, e, q)
        BY <3>1, RelinkedSound
      <3>3. QED
        BY <2>4, <3>2
    <2>6. p \in U
      BY <2>2, <2>5 DEF Sound
    <2>7. \A x \in r : Replaced(a, h, f, order[x], p)
      <3>1. Replaced(a, h, f, e, p)
        <4>1. PICK d : d = h.nodes[FileEnd(h, f, e)].decl
          OBVIOUS
        <4>2. RelinkTarget(v, f, d) = RelinkTarget(a, f, d)
          BY <2>2, SameTarget
        <4>3. QED
          BY <2>5, <4>1, <4>2 DEF Replaced
      <3>2. \A x \in r \ {i} : Replaced(a, h, f, order[x], p)
        BY <2>2, <2>5 DEF Replaced
      <3>3. QED
        BY <2>3, <3>1, <3>2
    <2>8. QED
      BY <2>1, <2>2, <2>3, <2>4, <2>6, <2>7
  <1>5. PICK jt : /\ jt = [r \in SUBSET D |-> jt[r]] /\ IsFold(jt, D, C, a, G)
                  /\ \A r \in SUBSET D : jt[r] \in V[r]
    <2>1. \A r \in (SUBSET D) \ {{}} : \A v \in V[r \ {C[r]}] : G[<<C[r], v>>] \in V[r]
      <3>1. ASSUME NEW r \in (SUBSET D) \ {{}}, NEW v \in V[r \ {C[r]}] PROVE G[<<C[r], v>>] \in V[r]
        <4>1. v \in U /\ C[r] \in D /\ Link(v, C[r]) \in V[r]
          BY <1>4
        <4> HIDE DEF U, V, C, D, Link
        <4>2. G[<<C[r], v>>] = Link(v, C[r])
          BY <4>1
        <4>3. QED
          BY <4>1, <4>2
      <3>2. QED
        BY <3>1
    <2> HIDE DEF D, C, V, G
    <2>2. QED
      BY <1>2, <1>3, <2>1, Folding
  <1>6. jt = [r \in SUBSET D |-> Step(jt, r)]
    <2>1. ASSUME NEW r \in (SUBSET D) \ {{}} PROVE jt[r] = Link(jt[r \ {Max(r)}], Max(r))
      <3>1. r \ {C[r]} \in SUBSET D /\ C[r] = Max(r) /\ jt[r] = G[<<C[r], jt[r \ {C[r]}]>>]
        BY <1>2, <1>5 DEF IsFold
      <3>2. jt[r \ {C[r]}] \in U /\ C[r] \in D
        <4> HIDE DEF V, U, C, D
        <4>1. QED
          BY <1>4, <1>5, <3>1
      <3> HIDE DEF U, V, C, D, Link
      <3>3. QED
        BY <3>1, <3>2
    <2>2. jt[{}] = a
      BY <1>5 DEF IsFold
    <2> HIDE DEF D, C, V, G, Link
    <2>3. QED
      BY <1>5, <2>1, <2>2
  <1>7. fold = [r \in SUBSET D |-> Step(fold, r)]
    BY <1>6
  <1>8. fold[D] \in V[D]
    <2>1. fold[{}] = a /\ \A r \in (SUBSET D) \ {{}} : fold[r] = Link(fold[r \ {C[r]}], C[r])
      <3> HIDE DEF fold, D, Link
      <3>1. QED
        BY <1>2, <1>7
    <2> HIDE DEF fold, D, C, V, U, Link
    <2>2. \A r \in (SUBSET D) \ {{}} : fold[r \ {C[r]}] \in V[r \ {C[r]}] => fold[r] \in V[r]
      BY <1>4, <2>1
    <2>3. fold[{}] \in V[{}]
      BY <1>3, <2>1
    <2>4. QED
      BY <1>2, <2>2, <2>3, Folded
  <1>9. Linked(a, h, f, order) = fold[D]
    BY <1>1 DEF Linked, FoldLeft, MapThenFoldSet
  <1>10. PICK p : p = fold[D]
    OBVIOUS
  <1>11. /\ Sound(p) /\ p.nodes = a.nodes /\ p.nextId = a.nextId /\ p.index = a.index
         /\ OutsideOf(p, f) = OutsideOf(a, f)
         /\ LinksOlder(p, f) /\ \A i \in D : Replaced(a, h, f, order[i], p)
    <2> HIDE DEF fold, D
    <2>1. QED
      BY <1>8, <1>10
  <1>12. QED
    BY <1>9, <1>10, <1>11

LEMMA ReindexedSound ==
  ASSUME NEW h, Sound(h), NEW f \in Files, NEW content \in Seq(Decls), NEW order \in SetToSeqs(Captured(h, f))
  PROVE  LET p == Reindexed(h, f, content, order)
         IN /\ Sound(p) /\ p.nextId = h.nextId + Len(content)
            /\ Only(p.nodes, AwayFrom(p, f)) = Only(h.nodes, AwayFrom(h, f))
            /\ OutsideOf(p, f) = OutsideOf(h, f)
            /\ LinksOlder(p, f) /\ \A e \in Captured(h, f) : Replaced(p, h, f, e, p)
            /\ \A i \in 1..Len(content) : Declares(p, f, content[i])
  <1>1. PICK n \in Nat : /\ order \in [1..n -> Edges] /\ order \in [1..n -> Captured(h, f)]
                         /\ \A e \in Captured(h, f) : \E i \in 1..n : order[i] = e
    <2>1. Captured(h, f) \subseteq h.edges /\ h.edges \subseteq Edges /\ IsFiniteSet(h.edges)
      BY DEF Captured, Sound, Graph
    <2>2. PICK n \in Nat : n = Cardinality(Captured(h, f))
      BY <2>1, FS_Subset, FS_CardinalityType
    <2>3. order \in [1..n -> Captured(h, f)] /\ \A i, j \in 1..n : i # j => order[i] # order[j]
      BY <2>2 DEF SetToSeqs
    <2>4. order \in Injection(1..n, Captured(h, f)) /\ IsFiniteSet(Captured(h, f))
      BY <2>1, <2>3, FS_Subset DEF Injection, IsInjective
    <2>5. Cardinality(1..n) = Cardinality(Captured(h, f))
      BY <2>2, FS_Interval
    <2>6. order \in Surjection(1..n, Captured(h, f))
      BY <2>4, <2>5, FS_Injection
    <2>7. QED
      BY <2>1, <2>3, <2>6 DEF Surjection
  <1>2. PICK cut : cut = RemoveNodes(h, InFile(h, f))
    OBVIOUS
  <1>3. /\ Sound(cut) /\ cut.nodes = Only(h.nodes, (DOMAIN h.nodes) \ InFile(h, f)) /\ cut.nextId = h.nextId
        /\ \A e : e \in cut.edges <=> e \in h.edges /\ e.from \notin InFile(h, f) /\ e.to \notin InFile(h, f)
    <2>1. PICK S : S = InFile(h, f)
      OBVIOUS
    <2>2. S \subseteq DOMAIN h.nodes
      BY <2>1 DEF InFile
    <2>3. cut = RemoveNodes(h, S)
      BY <1>2, <2>1
    <2>4. Sound(cut) /\ cut.nextId = h.nextId
      BY <2>2, <2>3, RemoveNodesSound
    <2>5. cut.nodes = Only(h.nodes, (DOMAIN h.nodes) \ S)
      BY <2>2, <2>3, RemoveNodesSound
    <2>6. \A e : e \in cut.edges <=> e \in h.edges /\ e.from \notin S /\ e.to \notin S
      BY <2>2, <2>3, RemoveNodesSound
    <2>7. QED
      BY <2>1, <2>4, <2>5, <2>6
  <1>4. PICK grown : grown = Extracted(cut, f, content)
    OBVIOUS
  <1>5. /\ Sound(grown) /\ grown.edges = cut.edges /\ grown.seen = cut.seen /\ Grown(cut, grown, f)
        /\ grown.nextId = cut.nextId + Len(content)
        /\ \A i \in 1..Len(content) : Declares(grown, f, content[i])
    BY <1>3, <1>4, ExtractedSound
  <1>6. PICK p : p = Reindexed(h, f, content, order)
    OBVIOUS
  <1>7. p = Linked(grown, h, f, order)
    BY <1>2, <1>4, <1>6 DEF Reindexed, Linked
  <1>8. /\ DOMAIN cut.nodes = AwayFrom(h, f)
        /\ \A id \in DOMAIN cut.nodes : cut.nodes[id] = h.nodes[id] /\ h.nodes[id].file # f
    BY <1>3 DEF Only, AwayFrom, InFile
  <1>9. /\ Sound(p) /\ p.nodes = grown.nodes /\ p.nextId = grown.nextId /\ p.index = grown.index
        /\ OutsideOf(p, f) = OutsideOf(grown, f)
        /\ LinksOlder(p, f) /\ \A i \in 1..n : Replaced(grown, h, f, order[i], p)
    <2>1. LinksOlder(grown, f)
      <3>1. \A k \in grown.seen : k[1] \in DOMAIN cut.nodes /\ k[2] \in DOMAIN cut.nodes
        BY <1>3, <1>5 DEF Sound, EvidenceSound
      <3>2. DOMAIN cut.nodes \subseteq AwayFrom(grown, f)
        BY <1>5, <1>8 DEF Grown, AwayFrom
      <3>3. QED
        BY <3>1, <3>2 DEF LinksOlder
    <2>2. ASSUME NEW i \in 1..n PROVE OtherEnd(h, f, order[i]) \in DOMAIN grown.nodes
      <3>1. PICK e \in Captured(h, f) : e = order[i]
        BY <1>1
      <3>2. e.from \in DOMAIN h.nodes /\ e.to \in DOMAIN h.nodes
        <4>1. PICK k : k = EdgeKey(e)
          OBVIOUS
        <4>2. k[1] = e.from /\ k[2] = e.to
          BY <4>1 DEF EdgeKey
        <4>3. k \in h.seen
          BY <3>1, <4>1 DEF Captured, Sound, EvidenceSound
        <4>4. QED
          BY <4>2, <4>3 DEF Sound, EvidenceSound
      <3>3. OtherEnd(h, f, e) \in AwayFrom(h, f)
        BY <3>1, <3>2 DEF Captured, OtherEnd, AwayFrom
      <3>4. QED
        BY <1>5, <1>8, <3>1, <3>3 DEF Grown
    <2>3. QED
      <3>1. Sound(grown) /\ n \in Nat /\ order \in [1..n -> Edges]
            /\ \A i \in 1..n : OtherEnd(h, f, order[i]) \in DOMAIN grown.nodes
        BY <1>1, <1>5, <2>2
      <3>2. LET q == Linked(grown, h, f, order)
            IN /\ Sound(q) /\ q.nodes = grown.nodes /\ q.nextId = grown.nextId /\ q.index = grown.index
               /\ OutsideOf(q, f) = OutsideOf(grown, f)
               /\ LinksOlder(q, f) /\ \A i \in 1..n : Replaced(grown, h, f, order[i], q)
        BY <2>1, <3>1, LinkedSound
      <3>3. QED
        BY <1>7, <3>2
  <1>10. /\ AwayFrom(p, f) = AwayFrom(h, f)
         /\ \A id \in AwayFrom(h, f) : id \in DOMAIN p.nodes /\ p.nodes[id] = h.nodes[id]
    <2>1. \A id \in DOMAIN p.nodes : id \in AwayFrom(h, f) \/ p.nodes[id].file = f
      BY <1>5, <1>9, <1>8 DEF Grown
    <2>2. \A id \in AwayFrom(h, f) : id \in DOMAIN p.nodes /\ p.nodes[id] = h.nodes[id] /\ p.nodes[id].file # f
      BY <1>5, <1>9, <1>8 DEF Grown
    <2>3. QED
      BY <2>1, <2>2 DEF AwayFrom
  <1>11. Only(p.nodes, AwayFrom(p, f)) = Only(h.nodes, AwayFrom(h, f))
    <2>1. (DOMAIN p.nodes) \cap AwayFrom(p, f) = (DOMAIN h.nodes) \cap AwayFrom(h, f)
      BY <1>10 DEF AwayFrom
    <2>2. QED
      BY <1>10, <2>1 DEF Only
  <1>12. OutsideOf(p, f) = OutsideOf(h, f)
    <2>1. AwayFrom(grown, f) = AwayFrom(h, f)
      BY <1>9, <1>10 DEF AwayFrom
    <2>2. AwayFrom(h, f) \cap InFile(h, f) = {}
      BY DEF AwayFrom, InFile
    <2>3. OutsideOf(grown, f) = OutsideOf(h, f)
      BY <1>3, <1>5, <2>1, <2>2 DEF OutsideOf
    <2>4. QED
      BY <1>9, <2>3
  <1>13. ASSUME NEW e \in Captured(h, f) PROVE Replaced(p, h, f, e, p)
    <2>1. PICK i \in 1..n : order[i] = e
      BY <1>1
    <2>2. Replaced(grown, h, f, e, p)
      BY <1>9, <2>1
    <2>3. PICK d : d = h.nodes[FileEnd(h, f, e)].decl
      OBVIOUS
    <2>4. RelinkTarget(p, f, d) = RelinkTarget(grown, f, d)
      BY <1>9, SameTarget
    <2>5. QED
      BY <2>2, <2>3, <2>4 DEF Replaced
  <1>14. \A i \in 1..Len(content) : Declares(p, f, content[i])
    BY <1>5, <1>9 DEF Declares
  <1>15. QED
    BY <1>3, <1>5, <1>6, <1>9, <1>11, <1>12, <1>13, <1>14

\* A symbol that is found again keeps its edges with other files.
LEMMA Relinking ==
  ASSUME NEW h, Sound(h), NEW f \in Files, NEW content \in Seq(Decls), NEW order \in SetToSeqs(Captured(h, f)),
         NEW p, p = Reindexed(h, f, content, order), p.nextId <= MaxId,
         NEW e \in Captured(h, f), NEW old, old = h.nodes[FileEnd(h, f, e)].decl,
         old \in ToSet(content), Findable(p, old)
  PROVE  \E e2 \in p.edges :
           /\ e2.kind = e.kind /\ e2.stale > 0
           /\ \E t \in DOMAIN p.nodes :
                /\ p.nodes[t].file = f /\ Alike(p.nodes[t].decl, old)
                /\ IF h.nodes[e.to].file = f THEN e2.from = e.from /\ e2.to = t
                                             ELSE e2.to = e.to /\ e2.from = t
  <1>1. Sound(p) /\ LinksOlder(p, f) /\ Replaced(p, h, f, e, p)
        /\ \A i \in 1..Len(content) : Declares(p, f, content[i])
    BY ReindexedSound
  <1>2. Declares(p, f, old)
    BY <1>1 DEF ToSet
  <1>3. PICK t : t = RelinkTarget(p, f, old) /\ t # NoId
    BY <1>1, <1>2, RelinkTargetFound
  <1>4. t \in DOMAIN p.nodes /\ p.nodes[t].file = f /\ Alike(p.nodes[t].decl, old)
    BY <1>1, <1>3, RelinkTargetIs
  <1>5. PICK k : k = RelinkKey(h, f, e, t) /\ k \in p.seen
    BY <1>1, <1>3 DEF Replaced
  <1>6. PICK incoming \in BOOLEAN : incoming = (h.nodes[e.to].file = f)
    OBVIOUS
  <1>7. k = IF incoming THEN <<e.from, t, e.kind>> ELSE <<t, e.to, e.kind>>
    BY <1>5, <1>6 DEF RelinkKey
  <1>8. /\ k[3] = e.kind /\ (k[1] = t \/ k[2] = t)
        /\ IF incoming THEN k[1] = e.from /\ k[2] = t ELSE k[2] = e.to /\ k[1] = t
    BY <1>7
  <1>9. ~({k[1], k[2]} \subseteq AwayFrom(p, f))
    BY <1>4, <1>8 DEF AwayFrom
  <1>10. PICK e2 \in p.edges : EdgeKey(e2) = k /\ e2.stale > 0
    BY <1>1, <1>5, <1>9 DEF LinksOlder
  <1>11. k[1] = e2.from /\ k[2] = e2.to /\ k[3] = e2.kind
    BY <1>10 DEF EdgeKey
  <1>12. IF incoming THEN e2.from = e.from /\ e2.to = t ELSE e2.to = e.to /\ e2.from = t
    BY <1>8, <1>11
  <1>13. e2.kind = e.kind /\ e2.stale > 0
    BY <1>8, <1>10, <1>11
  <1>14. QED
    BY <1>4, <1>6, <1>12, <1>13

-----------------------------------------------------------------------------
(* The invariant and what follows from it.                                 *)

GraphInv == Sound(g) /\ g.nextId \in 0..MaxId

LEMMA GraphInit == Init => GraphInv
  <1>1. EmptyGraph.nextId = 0
    BY DEF EmptyGraph
  <1>2. QED
    BY <1>1, EmptyGraphSound, BoundsAssumption DEF Init, GraphInv

LEMMA ContentIs ==
  ASSUME NEW content \in Contents
  PROVE  content \in Seq(Decls) /\ Len(content) \in Nat
  <1>1. PICK n \in 0..MaxContent : content \in [1..n -> Decls]
    BY DEF Contents
  <1>2. n \in Nat
    BY BoundsAssumption
  <1>3. QED
    BY <1>1, <1>2, SeqIs

\* What ReindexIsLocal says of a step.
LEMMA ReindexKeeps ==
  ASSUME GraphInv, NEW f \in Files, NEW content \in Contents, ReindexFile(f, content)
  PROVE  /\ GraphInv'
         /\ Only(g'.nodes, AwayFrom(g', f)) = Only(g.nodes, AwayFrom(g, f))
         /\ OutsideOf(g', f) = OutsideOf(g, f)
  <1>1. PICK order \in SetToSeqs(Captured(g, f)) : g' = Reindexed(g, f, content, order)
    BY DEF ReindexFile
  <1>2. content \in Seq(Decls) /\ Len(content) \in Nat
    BY ContentIs
  <1>3. PICK h : h = g /\ Sound(h)
    BY DEF GraphInv
  <1>4. PICK p : p = g' /\ p = Reindexed(h, f, content, order)
    BY <1>1, <1>3
  <1>5. /\ Sound(p) /\ p.nextId = h.nextId + Len(content)
        /\ Only(p.nodes, AwayFrom(p, f)) = Only(h.nodes, AwayFrom(h, f))
        /\ OutsideOf(p, f) = OutsideOf(h, f)
    BY <1>1, <1>2, <1>3, <1>4, ReindexedSound
  <1>6. p.nextId \in 0..MaxId
    <2>1. h.nextId \in Nat /\ h.nextId + Len(content) <= MaxId
      BY <1>3 DEF ReindexFile, Sound, Graph
    <2>2. QED
      BY <1>2, <1>5, <2>1, BoundsAssumption
  <1>7. QED
    BY <1>3, <1>4, <1>5, <1>6 DEF GraphInv

LEMMA GraphNext == GraphInv /\ [Next]_g => GraphInv'
  <1> SUFFICES ASSUME GraphInv, [Next]_g PROVE GraphInv'
    OBVIOUS
  <1>0. /\ Sound(g) /\ g \in Graph /\ g.nextId \in 0..MaxId /\ MaxId \in Nat
        /\ DOMAIN g.nodes \subseteq Nat /\ \A id \in DOMAIN g.nodes : g.nodes[id] \in Node
        /\ g.edges \subseteq Edges /\ IsFiniteSet(g.edges)
    <2>1. Sound(g) /\ g \in Graph /\ g.nextId \in 0..MaxId /\ MaxId \in Nat
      BY BoundsAssumption DEF GraphInv, Sound
    <2>2. g.nodes \in Maps(Nat, Node) /\ g.edges \subseteq Edges /\ IsFiniteSet(g.edges)
      BY <2>1 DEF Graph, Sound
    <2>3. QED
      BY <2>1, <2>2, MapIs
  <1>1. ASSUME NEW f \in Files, NEW d \in Decls, AddNode(f, d) PROVE GraphInv'
    <2>1. g' = InsertNode(g, f, d) /\ g.nextId < MaxId
      BY <1>1 DEF AddNode
    <2>2. Sound(g') /\ g'.nextId = g.nextId + 1
      BY <1>0, <2>1, InsertNodeSound
    <2>3. QED
      BY <1>0, <2>1, <2>2 DEF GraphInv
  <1>2. ASSUME NEW from \in DOMAIN g.nodes, NEW to \in DOMAIN g.nodes,
               NEW kind \in {"Contains", "Imports", "StringMatch"}, AddEdge(from, to, kind)
        PROVE  GraphInv'
    <2>1. PICK e : e = [from |-> from, to |-> to, kind |-> kind, ev |-> g.nodes[from].file, stale |-> 0]
      OBVIOUS
    <2>2. from \in Nat /\ to \in Nat /\ kind \in EdgeKinds /\ g.nodes[from].file \in Files
          /\ 0 \in 0..MaxStale
      BY <1>0, BoundsAssumption DEF EdgeKinds, Node
    <2>3. e \in Edges
      BY <2>1, <2>2 DEF Edges
    <2>4. g' = InsertEdge(g, e)
      BY <1>2, <2>1 DEF AddEdge
    <2>5. QED
      BY <1>0, <2>3, <2>4, InsertEdgeSound DEF GraphInv
  <1>3. CASE ReclassifyStringMatch
    <2>1. PICK old : old \subseteq g.edges /\
             g' = Connected(RetainEdges(g, g.edges \ old),
                            {[e EXCEPT !.kind = "EnumValueMatch", !.stale = 0] : e \in old})
      BY <1>3 DEF ReclassifyStringMatch, Connected
    <2>2. PICK new : new = {[e EXCEPT !.kind = "EnumValueMatch", !.stale = 0] : e \in old}
      OBVIOUS
    <2>3. IsFiniteSet(old)
      BY <1>0, <2>1, FS_Subset
    <2>4. new \in SUBSET Edges
      <3>1. "EnumValueMatch" \in EdgeKinds /\ 0 \in 0..MaxStale
        BY BoundsAssumption DEF EdgeKinds
      <3>2. g.edges \subseteq Edges
        BY <1>0 DEF Graph
      <3>3. ASSUME NEW e \in old PROVE [e EXCEPT !.kind = "EnumValueMatch", !.stale = 0] \in Edges
        <4>1. e \in Edges
          BY <2>1, <3>2
        <4>2. QED
          BY <3>1, <4>1 DEF Edges
      <3>4. QED
        BY <2>2, <3>3
    <2>5. IsFiniteSet(new)
      <3>1. PICK image : image = [e \in old |-> [e EXCEPT !.kind = "EnumValueMatch", !.stale = 0]]
        OBVIOUS
      <3>2. image \in Surjection(old, new)
        BY <2>2, <3>1 DEF Surjection
      <3>3. QED
        BY <2>3, <3>2, FS_Surjection
    <2>6. PICK a : a = RetainEdges(g, g.edges \ old)
      OBVIOUS
    <2>7. Sound(a) /\ a.nextId = g.nextId
      BY <1>0, <2>6, RetainEdgesSound
    <2>8. g' = Connected(a, new)
      BY <2>1, <2>2, <2>6
    <2>9. QED
      BY <1>0, <2>4, <2>5, <2>7, <2>8, ConnectedSound DEF GraphInv
  <1>4. ASSUME NEW f \in Files, NEW s \in Statuses, MarkFile(f, s) PROVE GraphInv'
    <2>1. g' = SetStatus(g, g.evidence[f].nodes, s)
      BY <1>4 DEF MarkFile
    <2>2. QED
      BY <1>0, <2>1, SetStatusSound DEF GraphInv
  <1>5. CASE GracePasses
    <2>1. PICK gone : gone = [id \in DOMAIN g.gone |-> "ripe"]
      OBVIOUS
    <2>2. g' = [g EXCEPT !.gone = gone]
      BY <1>5, <2>1 DEF GracePasses
    <2>3. DOMAIN gone = DOMAIN g.gone /\ gone = [id \in DOMAIN gone |-> gone[id]]
          /\ \A id \in DOMAIN gone : gone[id] \in Ages
      BY <2>1 DEF Ages
    <2>4. DOMAIN g.gone \subseteq Nat
      BY <1>0, MapIs DEF Graph
    <2>5. gone \in Maps(Nat, Ages)
      BY <2>3, <2>4, MapIs
    <2>6. \A id \in DOMAIN gone : id \in DOMAIN g.nodes /\ g.nodes[id].status = "Gone"
      BY <1>0, <2>3 DEF Sound, GoneSound
    <2>7. Sound(g')
      BY <1>0, <2>2, <2>5, <2>6, GoneSet
    <2>8. g'.nextId = g.nextId
      BY <1>0, <2>2 DEF Graph
    <2>9. QED
      BY <1>0, <2>7, <2>8 DEF GraphInv
  <1>6. CASE GcGone
    <2>1. PICK ripe : ripe \subseteq DOMAIN g.gone /\ g' = RemoveNodes(g, ripe)
      BY <1>6 DEF GcGone
    <2>2. ripe \subseteq DOMAIN g.nodes
      BY <1>0, <2>1 DEF Sound, GoneSound
    <2>3. QED
      BY <1>0, <2>1, <2>2, RemoveNodesSound DEF GraphInv
  <1>7. ASSUME NEW S, S \subseteq DOMAIN g.nodes, NEW order \in SetToSeqs(S), NEW edges \in SUBSET g.edges,
               g' = Restored(g, order, edges)
        PROVE  GraphInv'
    <2>1. Sound(g') /\ g'.nextId <= g.nextId
      BY <1>0, <1>7, RestoredSound
    <2>2. g'.nextId \in Nat
      BY <2>1 DEF Sound, Graph
    <2>3. QED
      BY <1>0, <2>1, <2>2 DEF GraphInv
  <1>8. ASSUME NEW changed \in (SUBSET Files) \ {{}}, Invalidate(changed) PROVE GraphInv'
    <2>1. PICK S : S = {id \in DOMAIN g.nodes : g.nodes[id].file \notin changed}
      OBVIOUS
    <2>2. PICK edges : edges = {e \in g.edges : e.ev \notin changed}
      OBVIOUS
    <2>3. PICK order \in SetToSeqs(S) : g' = Restored(g, order, edges)
      BY <1>8, <2>1, <2>2 DEF Invalidate
    <2>4. S \subseteq DOMAIN g.nodes /\ edges \in SUBSET g.edges
      BY <2>1, <2>2
    <2>5. QED
      BY <1>7, <2>3, <2>4
  <1>9. CASE SaveAndLoad
    <2>1. PICK order \in SetToSeqs(DOMAIN g.nodes) : g' = Restored(g, order, g.edges)
      BY <1>9 DEF SaveAndLoad
    <2>2. QED
      BY <1>7, <2>1
  <1>10. ASSUME NEW f \in Files, NEW content \in Contents, ReindexFile(f, content) PROVE GraphInv'
    BY <1>10, ReindexKeeps
  <1>11. CASE UNCHANGED g
    BY <1>11 DEF GraphInv
  <1>12. QED
    BY <1>1, <1>2, <1>3, <1>4, <1>5, <1>6, <1>8, <1>9, <1>10, <1>11 DEF Next

LEMMA GraphInvariant == Spec => []GraphInv
  <1>1. GraphInv /\ [Next]_g => GraphInv'
    BY GraphNext
  <1>2. QED
    BY <1>1, GraphInit, PTL DEF Spec

\* The graph keeps its type, whatever the files and declarations and however
\* often it is changed, collected, saved, loaded and reindexed.
THEOREM GraphTypeCorrect == Spec => []TypeOK
  <1>1. GraphInv => TypeOK
    <2> SUFFICES ASSUME GraphInv PROVE TypeOK
      OBVIOUS
    <2>1. Sound(g) /\ g \in Graph /\ g.nextId \in 0..MaxId /\ MaxId \in Nat
      BY BoundsAssumption DEF GraphInv, Sound
    <2>2. g.nodes \in Maps(Nat, Node) /\ g.edges \subseteq Edges /\ g.evidence \in Maps(Files, Evidence)
      BY <2>1 DEF Graph
    <2>3. /\ DOMAIN g.nodes \subseteq Nat /\ DOMAIN g.evidence \subseteq Files
          /\ \A id \in DOMAIN g.nodes : g.nodes[id] \in Node
      BY <2>2, MapIs
    <2>4. \A id \in DOMAIN g.nodes : id < g.nextId
      BY <2>1 DEF Sound, IdsSound
    <2>5. DOMAIN g.nodes \subseteq Ids
      BY <2>1, <2>3, <2>4 DEF Ids
    <2>6. \A e \in g.edges : e.from \in DOMAIN g.nodes /\ e.to \in DOMAIN g.nodes
      <3>1. ASSUME NEW e \in g.edges PROVE e.from \in DOMAIN g.nodes /\ e.to \in DOMAIN g.nodes
        <4>0. PICK k : k = EdgeKey(e)
          OBVIOUS
        <4>1. k = EdgeKey(e) /\ k[1] = e.from /\ k[2] = e.to
          BY <4>0 DEF EdgeKey
        <4>2. k \in g.seen
          BY <2>1, <4>1 DEF Sound, EvidenceSound
        <4>3. QED
          BY <2>1, <4>1, <4>2 DEF Sound, EvidenceSound
      <3>2. QED
        BY <3>1
    <2>7. g.edges \subseteq [from : DOMAIN g.nodes, to : DOMAIN g.nodes, kind : EdgeKinds,
                             ev : Files, stale : 0..MaxStale]
      BY <2>2, <2>6 DEF Edges
    <2>8. QED
      BY <2>1, <2>3, <2>4, <2>5, <2>7 DEF TypeOK, Node
  <1>2. QED
    BY <1>1, GraphInvariant, PTL

\* The seen set, the evidence of each file and the edges agree, however the
\* graph was built: insert_edge refuses nothing it should take, and a file's
\* evidence is removed with it and with nothing else.
THEOREM EvidenceExactHolds == Spec => []EvidenceExact
  <1>1. GraphInv => EvidenceExact
    <2> SUFFICES ASSUME GraphInv PROVE EvidenceExact
      OBVIOUS
    <2>1. EvidenceSound(g)
      BY DEF GraphInv, Sound
    <2>2. ASSUME NEW k \in g.seen PROVE Cardinality({f \in DOMAIN g.evidence : k \in g.evidence[f].edges}) = 1
      <3>1. PICK f \in DOMAIN g.evidence : k \in g.evidence[f].edges
        BY <2>1 DEF EvidenceSound
      <3>2. {x \in DOMAIN g.evidence : k \in g.evidence[x].edges} = {f}
        BY <2>1, <3>1 DEF EvidenceSound
      <3>3. QED
        BY <3>2, FS_Singleton
    <2>3. UNION {g.evidence[f].edges : f \in DOMAIN g.evidence} = g.seen
      BY <2>1 DEF EvidenceSound
    <2>4. \A k \in g.seen : {k[1], k[2]} \subseteq DOMAIN g.nodes
      BY <2>1 DEF EvidenceSound
    <2>5. QED
      BY <2>1, <2>2, <2>3, <2>4 DEF EvidenceSound, EvidenceExact
  <1>2. QED
    BY <1>1, GraphInvariant, PTL

\* The name index, the cemetery and the bloom filters mirror the nodes: no
\* lookup misses a live symbol or finds a removed one.
THEOREM LookupsExactHolds == Spec => []LookupsExact
  <1>1. GraphInv => LookupsExact
    <2> SUFFICES ASSUME GraphInv PROVE LookupsExact
      OBVIOUS
    <2>1. IndexSound(g) /\ GoneSound(g) /\ BloomsSound(g)
      BY DEF GraphInv, Sound
    <2>2. DOMAIN g.index = UNION {Buckets(g.nodes[id].decl) : id \in DOMAIN g.nodes}
      BY <2>1 DEF IndexSound
    <2>3. IndexExact
      BY <2>1, <2>2 DEF IndexExact, IndexSound
    <2>4. BloomsCover
      BY <2>1 DEF BloomsCover, BloomsSound
    <2>5. QED
      BY <2>1, <2>3, <2>4 DEF LookupsExact, GoneResident, GoneSound
  <1>2. QED
    BY <1>1, GraphInvariant, PTL

\* A reindex gives the edges of other files to the symbol that takes the old
\* one's place, unless its name is crowded: none is refused as a duplicate.
THEOREM RelinksSurvivorsHolds == Spec => RelinksSurvivors
  <1> DEFINE Survive ==
        \A f \in Files, content \in Contents :
          IsReindex(f, content) =>
            \A e \in Captured(g, f) :
              LET incoming == g.nodes[e.to].file = f
                  old == g.nodes[IF incoming THEN e.to ELSE e.from].decl
                  again == \/ /\ old \in ToSet(content)
                              /\ Uncrowded(<<"name", old.name>>)
                           \/ /\ old \in ToSet(content) /\ old.qual \notin {"", old.name}
                              /\ Uncrowded(<<"qual", old.qual>>)
              IN again => \E e2 \in g'.edges :
                            LET end == g'.nodes[IF incoming THEN e2.to ELSE e2.from]
                            IN /\ e2.kind = e.kind
                               /\ IF incoming THEN e2.from = e.from ELSE e2.to = e.to
                               /\ end.file = f
                               /\ \/ end.decl.name = old.name
                                  \/ old.qual # "" /\ end.decl.qual = old.qual
                               /\ e2.stale > 0
  <1>1. GraphInv => Survive
    <2> SUFFICES ASSUME GraphInv, NEW f \in Files, NEW content \in Contents, IsReindex(f, content),
                        NEW e \in Captured(g, f)
                 PROVE  LET incoming == g.nodes[e.to].file = f
                            old == g.nodes[IF incoming THEN e.to ELSE e.from].decl
                            again == \/ /\ old \in ToSet(content)
                                        /\ Uncrowded(<<"name", old.name>>)
                                     \/ /\ old \in ToSet(content) /\ old.qual \notin {"", old.name}
                                        /\ Uncrowded(<<"qual", old.qual>>)
                        IN again => \E e2 \in g'.edges :
                                      LET end == g'.nodes[IF incoming THEN e2.to ELSE e2.from]
                                      IN /\ e2.kind = e.kind
                                         /\ IF incoming THEN e2.from = e.from ELSE e2.to = e.to
                                         /\ end.file = f
                                         /\ \/ end.decl.name = old.name
                                            \/ old.qual # "" /\ end.decl.qual = old.qual
                                         /\ e2.stale > 0
      OBVIOUS
    <2> DEFINE incoming == g.nodes[e.to].file = f
    <2>0. PICK old : old = g.nodes[IF incoming THEN e.to ELSE e.from].decl
      OBVIOUS
    <2> DEFINE again == \/ Uncrowded(<<"name", old.name>>)
                        \/ old.qual \notin {"", old.name} /\ Uncrowded(<<"qual", old.qual>>)
    <2> SUFFICES ASSUME old \in ToSet(content), again
                 PROVE  \E e2 \in g'.edges :
                          LET end == g'.nodes[IF incoming THEN e2.to ELSE e2.from]
                          IN /\ e2.kind = e.kind
                             /\ IF incoming THEN e2.from = e.from ELSE e2.to = e.to
                             /\ end.file = f
                             /\ \/ end.decl.name = old.name
                                \/ old.qual # "" /\ end.decl.qual = old.qual
                             /\ e2.stale > 0
      BY <2>0
    <2> HIDE DEF Survive, incoming, again
    <2>1. PICK order \in SetToSeqs(Captured(g, f)) : g' = Reindexed(g, f, content, order)
      BY DEF IsReindex, ReindexFile
    <2>2. content \in Seq(Decls)
      BY ContentIs
    <2>3. PICK h : h = g /\ Sound(h)
      BY DEF GraphInv
    <2>4. PICK p : p = g' /\ p = Reindexed(h, f, content, order)
      BY <2>1, <2>3
    <2>5. p.nextId <= MaxId
      <3>1. GraphInv'
        BY ReindexKeeps DEF IsReindex
      <3>2. g'.nextId \in 0..MaxId
        BY <3>1 DEF GraphInv
      <3>3. QED
        BY <2>4, <3>2, BoundsAssumption
    <2>6. Findable(p, old)
      <3>1. PICK b \in Buckets(old) : b[1] \in {"name", "qual"} /\ Uncrowded(b)
        BY DEF Buckets, again
      <3>2. QED
        BY <2>4, <3>1 DEF Findable, Uncrowded
    <2>7. e \in Captured(h, f) /\ old = h.nodes[FileEnd(h, f, e)].decl /\ order \in SetToSeqs(Captured(h, f))
      BY <2>0, <2>1, <2>3 DEF FileEnd, incoming
    <2>8. \E e2 \in p.edges :
            /\ e2.kind = e.kind /\ e2.stale > 0
            /\ \E t \in DOMAIN p.nodes :
                 /\ p.nodes[t].file = f /\ Alike(p.nodes[t].decl, old)
                 /\ IF h.nodes[e.to].file = f THEN e2.from = e.from /\ e2.to = t
                                              ELSE e2.to = e.to /\ e2.from = t
      <3>1. Sound(h) /\ p = Reindexed(h, f, content, order) /\ p.nextId <= MaxId
        BY <2>3, <2>4, <2>5
      <3>2. QED
        BY <2>2, <2>6, <2>7, <3>1, Relinking
    <2>9. PICK e2 \in p.edges, t \in DOMAIN p.nodes :
            /\ e2.kind = e.kind /\ e2.stale > 0
            /\ p.nodes[t].file = f /\ Alike(p.nodes[t].decl, old)
            /\ IF h.nodes[e.to].file = f THEN e2.from = e.from /\ e2.to = t
                                         ELSE e2.to = e.to /\ e2.from = t
      BY <2>8
    <2>10. QED
      BY <2>3, <2>4, <2>9 DEF Alike, incoming
  <1>2. GraphInv => [Survive]_g
    BY <1>1
  <1> HIDE DEF Survive
  <1>3. QED
    BY <1>2, GraphInvariant, PTL DEF RelinksSurvivors, Survive

\* A reindex leaves the nodes of other files, and the edges between them, as
\* they were.
THEOREM ReindexIsLocalHolds == Spec => ReindexIsLocal
  <1> DEFINE Local ==
        \A f \in Files, content \in Contents :
          IsReindex(f, content) =>
            LET Away(h) == {id \in DOMAIN h.nodes : h.nodes[id].file # f}
                Outside(h) == {e \in h.edges : {e.from, e.to} \subseteq Away(h)}
            IN /\ Only(g'.nodes, Away(g')) = Only(g.nodes, Away(g))
               /\ Outside(g') = Outside(g)
  <1>1. GraphInv => Local
    <2> SUFFICES ASSUME GraphInv, NEW f \in Files, NEW content \in Contents, IsReindex(f, content)
                 PROVE  /\ Only(g'.nodes, AwayFrom(g', f)) = Only(g.nodes, AwayFrom(g, f))
                        /\ OutsideOf(g', f) = OutsideOf(g, f)
      BY DEF AwayFrom, OutsideOf
    <2>1. ReindexFile(f, content)
      BY DEF IsReindex
    <2>2. QED
      BY <2>1, ReindexKeeps
  <1>2. GraphInv => [Local]_g
    BY <1>1
  <1> HIDE DEF Local
  <1>3. QED
    BY <1>2, GraphInvariant, PTL DEF ReindexIsLocal, Local
=============================================================================
