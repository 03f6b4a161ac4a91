----------------------- MODULE ColoredNetFiringProofs -----------------------
(***************************************************************************)
(* What holds of colored nets for any clients, definitions, markings and   *)
(* values from outside.                                                    *)
(*                                                                         *)
(* The operations are pure, so what was computed once is what would be     *)
(* computed again: a selection holds the marking it was made of, and a     *)
(* result what it was made of.  A firing compares these; that no marking   *)
(* ever recurs, because a name holds the name before it, makes the         *)
(* comparison tell the past from the present.                              *)
(***************************************************************************)
EXTENDS ColoredNetFiring, FiniteSetTheorems, SequenceTheorems, WellFoundedInduction, TLAPS

-----------------------------------------------------------------------------
(* Orders and counts.                                                      *)

\* Every set of numbers has a least one.
LEMMA LeastNatural ==
    ASSUME NEW T \in SUBSET Nat, T # {}
    PROVE  \E x \in T : \A y \in T : x <= y
<1> DEFINE R == OpToRel(<, Nat)
<1>1. IsWellFoundedOn(R, Nat)
  BY NatLessThanWellFounded
<1>2. \A x, y \in Nat : x < y => <<x, y>> \in R
  BY DEF OpToRel
<1> HIDE DEF R
<1>3. PICK x \in T : \A y \in T : ~ (<<y, x>> \in R)
  BY <1>1, WFMin
<1>4. ASSUME NEW y \in T
      PROVE  x <= y
  <2>1. x \in Nat /\ y \in Nat /\ ~ (y < x)
    BY <1>2, <1>3
  <2> QED
    BY <2>1
<1> QED
  BY <1>4

\* Coordinates are ordered by their first part, then by their second.
LEMMA PairOrder ==
    ASSUME NEW x \in Nat \X Nat, NEW y \in Nat \X Nat
    PROVE  KeyPrecedes(x, y) <=> x[1] < y[1] \/ (x[1] = y[1] /\ x[2] < y[2])
<1>1. DOMAIN x = {1, 2}
  OBVIOUS
<1>2. \A j \in 1..2 - 1 : j = 1
  OBVIOUS
<1>3. \A j \in 1..1 - 1 : FALSE
  OBVIOUS
<1>4. 1 \in 1..2 - 1
  OBVIOUS
<1> QED
  BY <1>1, <1>2, <1>3, <1>4 DEF KeyPrecedes

\* The order of keys is strict and total: keys are equal, or one comes first.
LEMMA KeyOrder ==
    ASSUME NEW a \in Nat \X Nat \X Nat \X Nat, NEW b \in Nat \X Nat \X Nat \X Nat
    PROVE  KeyPrecedes(a, b) <=>
              \/ a[1] < b[1]
              \/ a[1] = b[1] /\ a[2] < b[2]
              \/ a[1] = b[1] /\ a[2] = b[2] /\ a[3] < b[3]
              \/ a[1] = b[1] /\ a[2] = b[2] /\ a[3] = b[3] /\ a[4] < b[4]
<1>1. \A j : /\ j \in 1..1 - 1 <=> FALSE
             /\ j \in 1..2 - 1 <=> j = 1
             /\ j \in 1..3 - 1 <=> j = 1 \/ j = 2
             /\ j \in 1..4 - 1 <=> j = 1 \/ j = 2 \/ j = 3
  OBVIOUS
<1>2. DOMAIN a = {1, 2, 3, 4}
  OBVIOUS
<1> QED
  BY <1>1, <1>2 DEF KeyPrecedes

\* Ranks by sets of predecessors number the members of a finite set.
LEMMA RanksNumber ==
    ASSUME NEW K, IsFiniteSet(K), NEW upTo \in [K -> SUBSET K],
           \A x \in K : x \in upTo[x],
           \A x \in K : \A y \in upTo[x] : upTo[y] \subseteq upTo[x],
           \A x, y \in K : x \in upTo[y] \/ y \in upTo[x],
           \A x, y \in K : x \in upTo[y] /\ y \in upTo[x] => x = y
    PROVE  [x \in K |-> Cardinality(upTo[x])] \in Bijection(K, 1..Cardinality(K))
<1>1. PICK n : n = Cardinality(K)
  OBVIOUS
<1>2. PICK rank : rank = [x \in K |-> Cardinality(upTo[x])]
  OBVIOUS
<1>3. n \in Nat
  BY <1>1, FS_CardinalityType
<1>4. \A x \in K : IsFiniteSet(upTo[x]) /\ rank[x] \in Nat /\ rank[x] <= n
  BY <1>1, <1>2, FS_Subset, FS_CardinalityType
<1>5. \A x \in K : rank[x] # 0
  BY <1>2, <1>4, FS_EmptySet
<1>6. rank \in [K -> 1..n]
  BY <1>2, <1>3, <1>4, <1>5
<1>7. ASSUME NEW x \in K, NEW y \in K, rank[x] = rank[y], x \in upTo[y]
      PROVE  x = y
  <2>1. upTo[x] \subseteq upTo[y] /\ IsFiniteSet(upTo[y])
    BY <1>4, <1>7
  <2>2. upTo[x] = upTo[y]
    BY <1>2, <1>7, <2>1, FS_Subset
  <2> QED
    BY <1>7, <2>2
<1>8. \A x, y \in K : rank[x] = rank[y] => x = y
  BY <1>7
<1>9. rank \in Injection(K, 1..n)
  BY <1>6, <1>8 DEF Injection, IsInjective
<1>10. IsFiniteSet(1..n) /\ Cardinality(1..n) = n
  BY <1>3, FS_Interval
<1>11. rank \in Surjection(K, 1..n)
  BY <1>1, <1>9, <1>10, FS_Injection
<1> QED
  BY <1>1, <1>2, <1>9, <1>11 DEF Bijection

\* Every set of pairs of numbers has a first one.
LEMMA FirstPair ==
    ASSUME NEW P \in SUBSET (Nat \X Nat), P # {}
    PROVE  \E x \in P : \A y \in P : y # x => KeyPrecedes(x, y)
<1>1. PICK a \in {x[1] : x \in P} : \A b \in {x[1] : x \in P} : a <= b
  <2>1. {x[1] : x \in P} \in SUBSET Nat /\ {x[1] : x \in P} # {}
    OBVIOUS
  <2> QED
    BY <2>1, LeastNatural
<1>2. PICK Q : Q = {x \in P : x[1] = a}
  OBVIOUS
<1>3. PICK c \in {x[2] : x \in Q} : \A b \in {x[2] : x \in Q} : c <= b
  <2>1. {x[2] : x \in Q} \in SUBSET Nat /\ {x[2] : x \in Q} # {}
    BY <1>1, <1>2
  <2> QED
    BY <2>1, LeastNatural
<1>4. PICK x \in P : x[1] = a /\ x[2] = c
  BY <1>2, <1>3
<1>5. ASSUME NEW y \in P, y # x
      PROVE  x[1] < y[1] \/ (x[1] = y[1] /\ x[2] < y[2])
  <2>1. a <= y[1] /\ (y[1] = a => c <= y[2])
    BY <1>1, <1>2, <1>3
  <2>2. x = <<x[1], x[2]>> /\ y = <<y[1], y[2]>> /\ y[1] \in Nat /\ y[2] \in Nat
        /\ x[1] \in Nat /\ x[2] \in Nat
    OBVIOUS
  <2>3. y[1] = x[1] /\ y[2] = x[2] => FALSE
    BY <1>5, <2>2
  <2>4. a \in Nat /\ c \in Nat
    BY <1>4, <2>2
  <2> QED
    BY <1>4, <2>1, <2>2, <2>3, <2>4
<1> QED
  BY <1>5, PairOrder

Prefix(D, E) == E \subseteq D /\ \A d \in E : \A e \in D : KeyPrecedes(e, d) => e \in E

Ahead(D, E, f, g) ==
    \/ \A d \in E : g[d] = f[d]
    \/ \E d \in E : f[d] < g[d] /\ \A e \in D : KeyPrecedes(e, d) => f[e] = g[e]

\* Of numberings of finitely many coordinates one comes first: a longest prefix
\* on which one is ahead of all others is the whole.
LEMMA FirstNumbering ==
    ASSUME NEW D, D \subseteq Nat \X Nat, IsFiniteSet(D), NEW S, S # {},
           \A f \in S : \A d \in D : f[d] \in Nat
    PROVE  \E f \in S : \A g \in S : Ahead(D, D, f, g)
<1>1. PICK Es : Es = {E \in SUBSET D : Prefix(D, E) /\ \E f \in S : \A g \in S : Ahead(D, E, f, g)}
  OBVIOUS
<1>2. {} \in Es
  BY <1>1 DEF Prefix, Ahead
<1>3. \A E \in Es : IsFiniteSet(D \ E) /\ Cardinality(D \ E) \in Nat
  BY <1>1, FS_Difference, FS_CardinalityType
<1>4. PICK n \in {Cardinality(D \ E) : E \in Es} : \A k \in {Cardinality(D \ E) : E \in Es} : n <= k
  <2>1. {Cardinality(D \ E) : E \in Es} \in SUBSET Nat
    BY <1>3
  <2>2. {Cardinality(D \ E) : E \in Es} # {}
    BY <1>2
  <2> QED
    BY <2>1, <2>2, LeastNatural
<1>5. PICK E \in Es : n = Cardinality(D \ E)
  BY <1>4
<1>6. PICK f \in S : \A g \in S : Ahead(D, E, f, g)
  BY <1>1
<1>7. CASE D \ E = {}
  <2>1. E = D
    BY <1>1, <1>7
  <2> QED
    BY <1>6, <2>1
<1>8. CASE D \ E # {}
  <2>1. PICK d \in D \ E : \A y \in D \ E : y # d => KeyPrecedes(d, y)
    BY <1>8, FirstPair
  <2>2. PICK F : F = {g \in S : \A e \in E : g[e] = f[e]}
    OBVIOUS
  <2>3. PICK v \in {g[d] : g \in F} : \A w \in {g[d] : g \in F} : v <= w
    <3>1. {g[d] : g \in F} \in SUBSET Nat /\ {g[d] : g \in F} # {}
      BY <2>2
    <3> QED
      BY <3>1, LeastNatural
  <2>4. PICK h \in F : v = h[d]
    BY <2>3
  <2>5. PICK G : G = E \cup {d}
    OBVIOUS
  <2>6. \A e \in D : KeyPrecedes(e, d) => e \in E
    <3>1. ASSUME NEW e \in D, KeyPrecedes(e, d), e \notin E
          PROVE  FALSE
      <4>1. e = d \/ KeyPrecedes(d, e)
        BY <2>1, <3>1
      <4>2. e[1] \in Nat /\ e[2] \in Nat /\ d[1] \in Nat /\ d[2] \in Nat
        OBVIOUS
      <4> QED
        BY <3>1, <4>1, <4>2, PairOrder
    <3> QED
      BY <3>1
  <2>7. Prefix(D, G)
    BY <1>1, <2>5, <2>6 DEF Prefix
  <2>8. ASSUME NEW g \in S
        PROVE  Ahead(D, G, h, g)
    <3>1. \A e \in E : h[e] = f[e]
      BY <2>2
    <3>2. CASE \A e \in E : g[e] = f[e]
      <4>1. v <= g[d] /\ v \in Nat /\ g[d] \in Nat
        BY <2>2, <2>3, <2>4, <3>2
      <4>2. CASE g[d] = v
        BY <2>4, <2>5, <3>1, <3>2, <4>2 DEF Ahead
      <4>3. CASE v < g[d]
        <5>1. \A e \in D : KeyPrecedes(e, d) => h[e] = g[e]
          BY <2>6, <3>1, <3>2
        <5> QED
          BY <2>4, <2>5, <4>3, <5>1 DEF Ahead
      <4> QED
        BY <4>1, <4>2, <4>3
    <3>3. CASE ~ \A e \in E : g[e] = f[e]
      <4>1. PICK c \in E : f[c] < g[c] /\ \A e \in D : KeyPrecedes(e, c) => f[e] = g[e]
        BY <1>6, <3>3 DEF Ahead
      <4>2. \A e \in D : KeyPrecedes(e, c) => h[e] = g[e]
        BY <1>1, <3>1, <4>1 DEF Prefix
      <4> QED
        BY <2>5, <3>1, <4>1, <4>2 DEF Ahead
    <3> QED
      BY <3>2, <3>3
  <2>9. G \in Es
    BY <1>1, <2>2, <2>5, <2>7, <2>8
  <2>10. Cardinality(D \ G) = n - 1
    <3>1. D \ G = (D \ E) \ {d}
      BY <2>5
    <3> QED
      BY <1>3, <1>5, <3>1, FS_RemoveElement
  <2>11. n \in Nat
    BY <1>3, <1>5
  <2>12. n <= n - 1
    BY <1>4, <2>9, <2>10
  <2> QED
    BY <2>11, <2>12
<1> QED
  BY <1>7, <1>8

\* Each kind of value has a rank.
LEMMA KindIsRanked ==
    ASSUME NEW kind \in ToSet(Kinds)
    PROVE  KindRank(kind) \in 1..6 /\ Kinds[KindRank(kind)] = kind
<1>1. DOMAIN Kinds = 1..6
  BY DEF Kinds
<1>2. \E i \in DOMAIN Kinds : Kinds[i] = kind
  BY DEF ToSet
<1> QED
  BY <1>1, <1>2 DEF KindRank

\* The key of a token is four numbers.
LEMMA TokensHaveKeys ==
    ASSUME NEW token \in AllTokens
    PROVE  TokenKey(token) \in Nat \X Nat \X Nat \X Nat
<1>1. token.color \in Nat /\ token.value \in Values /\ (token.id # None => token.id \in Nat)
  BY DEF AllTokens
<1>2. token.value.at \in Nat /\ KindRank(token.value.kind) \in Nat
  BY <1>1, KindIsRanked DEF Values
<1>3. PICK id \in Nat : id = IF token.id = None THEN 0 ELSE token.id
  BY <1>1
<1>4. TokenKey(token) = <<token.color, KindRank(token.value.kind), token.value.at, id>>
  BY <1>3 DEF TokenKey, ValueKey
<1> QED
  BY <1>1, <1>2, <1>3, <1>4

Sorted(s) == \A i, j \in DOMAIN s : i < j => ~ KeyPrecedes(TokenKey(s[j]), TokenKey(s[i]))

\* Canonical order rearranges: no token is lost, none is made.
LEMMA CanonicalRearranges ==
    ASSUME NEW tokens, DOMAIN tokens \subseteq Nat \X Nat, IsFiniteSet(DOMAIN tokens),
           \A x \in DOMAIN tokens : tokens[x] \in AllTokens
    PROVE  /\ \E at \in Bijection(1..Cardinality(DOMAIN tokens), DOMAIN tokens) :
                 Canonical(tokens) = [k \in 1..Cardinality(DOMAIN tokens) |-> tokens[at[k]]]
           /\ Sorted(Canonical(tokens))
<1>1. PICK K : K = DOMAIN tokens
  OBVIOUS
<1>2. PICK key : key = [x \in K |-> TokenKey(tokens[x])]
  OBVIOUS
<1>3. PICK upTo : upTo = [x \in K |-> UpTo(tokens, x)]
  OBVIOUS
<1>4. \A x \in K : key[x] \in Nat \X Nat \X Nat \X Nat
  BY <1>1, <1>2, TokensHaveKeys
<1>5. \A x, y \in K : y \in upTo[x] <=>
         \/ KeyPrecedes(key[y], key[x]) \/ (key[y] = key[x] /\ ~ KeyPrecedes(x, y))
  <2> TAKE x, y \in K
  <2>1. upTo[x] = UpTo(tokens, x) /\ key[x] = TokenKey(tokens[x]) /\ key[y] = TokenKey(tokens[y])
    BY <1>2, <1>3
  <2>2. y \in UpTo(tokens, x) <=>
           \/ KeyPrecedes(TokenKey(tokens[y]), TokenKey(tokens[x]))
           \/ TokenKey(tokens[y]) = TokenKey(tokens[x]) /\ ~ KeyPrecedes(x, y)
    BY <1>1 DEF UpTo
  <2> QED
    BY <2>1, <2>2
<1>6. \A x, y \in K : KeyPrecedes(key[y], key[x]) <=>
         \/ key[y][1] < key[x][1]
         \/ key[y][1] = key[x][1] /\ key[y][2] < key[x][2]
         \/ key[y][1] = key[x][1] /\ key[y][2] = key[x][2] /\ key[y][3] < key[x][3]
         \/ key[y][1] = key[x][1] /\ key[y][2] = key[x][2] /\ key[y][3] = key[x][3]
            /\ key[y][4] < key[x][4]
  BY <1>4, KeyOrder
<1>7. \A x, y \in K : key[y] = key[x] <=>
         /\ key[y][1] = key[x][1] /\ key[y][2] = key[x][2]
         /\ key[y][3] = key[x][3] /\ key[y][4] = key[x][4]
  BY <1>4
<1>8. \A x, y \in K : KeyPrecedes(x, y) <=> x[1] < y[1] \/ (x[1] = y[1] /\ x[2] < y[2])
  BY <1>1, PairOrder
<1>9. \A x, y \in K : y \in upTo[x] <=>
         \/ key[y][1] < key[x][1]
         \/ key[y][1] = key[x][1] /\ key[y][2] < key[x][2]
         \/ key[y][1] = key[x][1] /\ key[y][2] = key[x][2] /\ key[y][3] < key[x][3]
         \/ key[y][1] = key[x][1] /\ key[y][2] = key[x][2] /\ key[y][3] = key[x][3]
            /\ key[y][4] < key[x][4]
         \/ /\ key[y][1] = key[x][1] /\ key[y][2] = key[x][2]
            /\ key[y][3] = key[x][3] /\ key[y][4] = key[x][4]
            /\ ~ (x[1] < y[1] \/ (x[1] = y[1] /\ x[2] < y[2]))
  <2> TAKE x, y \in K
  <2>1. y \in upTo[x] <=> KeyPrecedes(key[y], key[x]) \/ (key[y] = key[x] /\ ~ KeyPrecedes(x, y))
    BY <1>5
  <2>2. KeyPrecedes(x, y) <=> x[1] < y[1] \/ (x[1] = y[1] /\ x[2] < y[2])
    BY <1>8
  <2> QED
    BY <1>6, <1>7, <2>1, <2>2
<1>10. \A x \in K : /\ x[1] \in Nat /\ x[2] \in Nat
                    /\ key[x][1] \in Nat /\ key[x][2] \in Nat
                    /\ key[x][3] \in Nat /\ key[x][4] \in Nat
  BY <1>1, <1>4
<1>11. upTo \in [K -> SUBSET K]
  <2>1. \A x \in K : upTo[x] \subseteq K
    BY <1>1, <1>3 DEF UpTo
  <2> QED
    BY <1>3, <2>1
<1>12. \A x \in K : x \in upTo[x]
  BY <1>9, <1>10
<1>13. \A x, y \in K : x \in upTo[y] \/ y \in upTo[x]
  BY <1>9, <1>10
<1>14. \A x, y \in K : x \in upTo[y] /\ y \in upTo[x] => x = y
  <2> TAKE x, y \in K
  <2>1. x \in upTo[y] /\ y \in upTo[x] => x[1] = y[1] /\ x[2] = y[2]
    BY <1>9, <1>10
  <2>2. x \in Nat \X Nat /\ y \in Nat \X Nat
    BY <1>1
  <2> QED
    BY <2>1, <2>2
<1>15. \A x \in K : \A y \in upTo[x] : upTo[y] \subseteq upTo[x]
  <2>1. ASSUME NEW x \in K, NEW y \in K, NEW z \in K, y \in upTo[x], z \in upTo[y]
        PROVE  z \in upTo[x]
    BY <1>9, <1>10, <2>1
  <2> QED
    BY <1>11, <2>1
<1>16. PICK n : n = Cardinality(K)
  OBVIOUS
<1>17. PICK rank : rank = [x \in K |-> Cardinality(upTo[x])]
  OBVIOUS
<1>18. rank \in Bijection(K, 1..n)
  BY <1>1, <1>11, <1>12, <1>13, <1>14, <1>15, <1>16, <1>17, RanksNumber
<1>19. rank = [x \in K |-> Cardinality(UpTo(tokens, x))]
  BY <1>3, <1>17
<1>20. PICK at : at = [k \in 1..n |-> CHOOSE x \in K : rank[x] = k]
  OBVIOUS
<1>21. \A k \in 1..n : at[k] \in K /\ rank[at[k]] = k
  BY <1>18, <1>20 DEF Bijection, Surjection
<1>22. \A x \in K : rank[x] \in 1..n /\ at[rank[x]] = x
  <2>1. \A x, y \in K : rank[x] = rank[y] => x = y
    BY <1>18 DEF Bijection, Injection, IsInjective
  <2>2. \A x \in K : rank[x] \in 1..n
    BY <1>18 DEF Bijection, Injection
  <2> QED
    BY <1>21, <2>1, <2>2
<1>23. at \in Bijection(1..n, K)
  <2>1. at \in [1..n -> K]
    BY <1>20, <1>21
  <2>2. \A j, k \in 1..n : at[j] = at[k] => j = k
    BY <1>21
  <2> QED
    BY <1>22, <2>1, <2>2 DEF Bijection, Injection, Surjection, IsInjective
<1>24. Canonical(tokens) = [k \in 1..n |-> tokens[CHOOSE x \in K : rank[x] = k]]
  BY <1>1, <1>16, <1>19 DEF Canonical
<1>25. Canonical(tokens) = [k \in 1..n |-> tokens[at[k]]]
  BY <1>20, <1>24
<1>26. ASSUME NEW i \in 1..n, NEW j \in 1..n, i < j
       PROVE  ~ KeyPrecedes(key[at[j]], key[at[i]])
  <2>1. SUFFICES ASSUME at[j] \in upTo[at[i]]
                 PROVE  FALSE
    BY <1>5, <1>21
  <2>2. at[i] \in K /\ at[j] \in K
    BY <1>21
  <2>3. upTo[at[j]] \subseteq upTo[at[i]] /\ IsFiniteSet(upTo[at[i]])
    BY <1>1, <1>11, <1>15, <2>1, <2>2, FS_Subset
  <2>4. Cardinality(upTo[at[j]]) <= Cardinality(upTo[at[i]])
    BY <2>3, FS_Subset
  <2>5. Cardinality(upTo[at[i]]) = i /\ Cardinality(upTo[at[j]]) = j
    BY <1>17, <1>21, <2>2
  <2> QED
    BY <1>26, <2>4, <2>5
<1>27. Sorted(Canonical(tokens))
  <2>1. PICK s : s = Canonical(tokens)
    OBVIOUS
  <2>2. DOMAIN s = 1..n /\ \A k \in 1..n : s[k] = tokens[at[k]] /\ key[at[k]] = TokenKey(s[k])
    BY <1>2, <1>21, <1>25, <2>1
  <2> QED
    BY <1>26, <2>1, <2>2 DEF Sorted
<1> QED
  BY <1>1, <1>16, <1>23, <1>25, <1>27

\* The coordinates of a sequence.
LEMMA Column ==
    ASSUME NEW A
    PROVE  /\ \A k \in A : <<0, k>> \in {0} \X A
           /\ \A x \in {0} \X A : x = <<0, x[2]>> /\ x[2] \in A
OBVIOUS

\* A sequence has as many members as coordinates.
LEMMA ColumnLength ==
    ASSUME NEW k \in Nat
    PROVE  Cardinality({0} \X (1..k)) = k
<1>1. PICK A, B : A = {0} /\ B = 1..k
  OBVIOUS
<1>2. IsFiniteSet(A) /\ Cardinality(A) = 1
  BY <1>1, FS_Singleton
<1>3. IsFiniteSet(B) /\ Cardinality(B) = k
  BY <1>1, FS_Interval
<1>4. Cardinality(A \X B) = Cardinality(A) * Cardinality(B)
  BY <1>2, <1>3, FS_Product
<1>5. Cardinality(A \X B) = k
  BY <1>2, <1>3, <1>4
<1> QED
  BY <1>1, <1>5

\* What is in canonical order stays as it is.
LEMMA CanonicalAgain ==
    ASSUME NEW s \in Seq(AllTokens), Sorted(s)
    PROVE  Canonical(Listed(s)) = s
<1>1. PICK n \in Nat : DOMAIN s = 1..n /\ s = [k \in 1..n |-> s[k]]
  OBVIOUS
<1>2. PICK tokens, K : tokens = Listed(s) /\ K = {0} \X (1..n)
  OBVIOUS
<1>3. DOMAIN tokens = K /\ \A k \in 1..n : tokens[<<0, k>>] = s[k] /\ <<0, k>> \in K
  <2>1. tokens = [x \in {0} \X DOMAIN s |-> s[x[2]]]
    BY <1>2 DEF Listed
  <2>2. tokens = [x \in K |-> s[x[2]]]
    BY <1>1, <1>2, <2>1
  <2>3. \A k \in 1..n : <<0, k>> \in K
    BY <1>2, Column
  <2> QED
    BY <2>2, <2>3
<1>4. PICK key : key = [k \in 1..n |-> TokenKey(s[k])]
  OBVIOUS
<1>5. \A k \in 1..n : key[k] \in Nat \X Nat \X Nat \X Nat
  BY <1>1, <1>4, TokensHaveKeys
<1>6. \A j, k \in 1..n : j < k => ~ KeyPrecedes(key[k], key[j])
  BY <1>1, <1>4 DEF Sorted
<1>7. \A j, k \in 1..n : KeyPrecedes(key[j], key[k]) \/ KeyPrecedes(key[k], key[j]) \/ key[j] = key[k]
  <2> TAKE j, k \in 1..n
  <2>1. PICK a, b \in Nat \X Nat \X Nat \X Nat : a = key[j] /\ b = key[k]
    BY <1>5
  <2>2. KeyPrecedes(a, b) \/ KeyPrecedes(b, a) \/ a = b
    BY KeyOrder
  <2> QED
    BY <2>1, <2>2
<1>8. \A j, k \in 1..n : KeyPrecedes(<<0, j>>, <<0, k>>) <=> j < k
  <2> TAKE j, k \in 1..n
  <2>1. PICK x, y : x = <<0, j>> /\ y = <<0, k>>
    OBVIOUS
  <2>2. x \in Nat \X Nat /\ y \in Nat \X Nat
    BY <2>1
  <2>3. KeyPrecedes(x, y) <=> x[1] < y[1] \/ (x[1] = y[1] /\ x[2] < y[2])
    BY <2>2, PairOrder
  <2> QED
    BY <2>1, <2>3
<1>9. ASSUME NEW k \in 1..n
      PROVE  UpTo(tokens, <<0, k>>) = {0} \X (1..k)
  <2>1. ASSUME NEW j \in 1..n
        PROVE  <<0, j>> \in UpTo(tokens, <<0, k>>) <=> j <= k
    <3>1. <<0, j>> \in UpTo(tokens, <<0, k>>) <=>
             KeyPrecedes(key[j], key[k]) \/ (key[j] = key[k] /\ ~ KeyPrecedes(<<0, k>>, <<0, j>>))
      BY <1>3, <1>4 DEF UpTo
    <3>2. KeyPrecedes(<<0, k>>, <<0, j>>) <=> k < j
      BY <1>8
    <3>3. CASE k < j
      <4>1. ~ KeyPrecedes(key[j], key[k])
        BY <1>6, <3>3
      <4> QED
        BY <3>1, <3>2, <3>3, <4>1
    <3>4. CASE j < k
      <4>1. ~ KeyPrecedes(key[k], key[j])
        BY <1>6, <3>4
      <4>2. KeyPrecedes(key[j], key[k]) \/ key[j] = key[k]
        BY <1>7, <4>1
      <4> QED
        BY <3>1, <3>2, <3>4, <4>2
    <3>5. CASE j = k
      BY <3>1, <3>2, <3>5
    <3> QED
      BY <3>3, <3>4, <3>5
  <2>2. PICK upTo : upTo = UpTo(tokens, <<0, k>>)
    OBVIOUS
  <2>3. upTo \subseteq {0} \X (1..n) /\ \A j \in 1..n : <<0, j>> \in upTo <=> j <= k
    BY <1>2, <1>3, <2>1, <2>2 DEF UpTo
  <2>4. PICK A, B : A = 1..n /\ B = 1..k
    OBVIOUS
  <2>5. B \subseteq A /\ \A j \in A : j \in B <=> j <= k
    BY <2>4
  <2>6. upTo \subseteq {0} \X A /\ \A j \in A : <<0, j>> \in upTo <=> j \in B
    BY <2>3, <2>4, <2>5
  <2>7. ASSUME NEW x \in upTo
        PROVE  x \in {0} \X B
    <3>1. x = <<0, x[2]>> /\ x[2] \in A
      BY <2>6, Column
    <3> QED
      BY <2>6, <3>1, Column
  <2>8. ASSUME NEW x \in {0} \X B
        PROVE  x \in upTo
    <3>1. x = <<0, x[2]>> /\ x[2] \in B
      BY Column
    <3> QED
      BY <2>5, <2>6, <3>1
  <2> QED
    BY <2>2, <2>4, <2>7, <2>8
<1>10. PICK rank : rank = [x \in DOMAIN tokens |-> Cardinality(UpTo(tokens, x))]
  OBVIOUS
<1>12. \A k \in 1..n : rank[<<0, k>>] = k
  <2> TAKE k \in 1..n
  <2>1. Cardinality({0} \X (1..k)) = k
    BY ColumnLength
  <2> QED
    BY <1>3, <1>9, <1>10, <2>1
<1>13. \A k \in 1..n : tokens[CHOOSE x \in DOMAIN tokens : rank[x] = k] = s[k]
  <2> TAKE k \in 1..n
  <2>1. PICK x : x = CHOOSE y \in DOMAIN tokens : rank[y] = k
    OBVIOUS
  <2>2. \E y \in DOMAIN tokens : rank[y] = k
    BY <1>3, <1>12
  <2>3. x \in K /\ rank[x] = k
    BY <1>3, <2>1, <2>2
  <2>4. PICK j \in 1..n : x = <<0, j>>
    <3>1. \A y \in {0} \X (1..n) : y = <<0, y[2]>> /\ y[2] \in 1..n
      BY Column
    <3> QED
      BY <1>2, <2>3, <3>1
  <2>5. j = k
    BY <1>12, <2>3, <2>4
  <2> QED
    BY <1>3, <2>1, <2>4, <2>5
<1>14. Cardinality(DOMAIN tokens) = n
  <2>1. Cardinality({0} \X (1..n)) = n
    BY ColumnLength
  <2> QED
    BY <1>2, <1>3, <2>1
<1>15. Canonical(tokens) = [k \in 1..n |-> tokens[CHOOSE x \in DOMAIN tokens : rank[x] = k]]
  BY <1>10, <1>14 DEF Canonical
<1> QED
  BY <1>1, <1>2, <1>13, <1>15

-----------------------------------------------------------------------------
(* What a firing that succeeds has compared.                               *)

\* A firing that succeeds was offered what enablement and selection, computed
\* again, make of its definition and marking.
LEMMA FiringCompares ==
    ASSUME NEW i, Firing(i).outcome = "success"
    PROVE  /\ ValidDefinition(i.definition) /\ ValidMarking(i.definition, i.marking)
           /\ i.enablement = Enablement(i.definition, i.marking, Supported, Supported)
           /\ i.selection = Selection(i.definition, i.enablement, i.selection.directive)
           /\ i.selection.outcome = "selected" /\ i.selection.binding = i.binding
           /\ i.directive = i.selection.directive
           /\ i.transition = i.binding.transition
           /\ ExternalsExact(i.definition, i.transition, i.external)
           /\ \E f \in Reconstruct(i.definition, i.marking, i.binding) :
                 Firing(i) = Fired(i.definition, i.marking, i.binding, i.external, f)
<1>1. \A code : Failed(code).outcome = code
  BY DEF Failed
<1>2. PICK enablement : enablement = Enablement(i.definition, i.marking, Supported, Supported)
  OBVIOUS
<1>3. PICK selection : selection = Selection(i.definition, enablement, i.selection.directive)
  OBVIOUS
<1>4. PICK f : f = CHOOSE g \in Reconstruct(i.definition, i.marking, i.binding) : TRUE
  OBVIOUS
<1>5. PICK fired : fired = Fired(i.definition, i.marking, i.binding, i.external, f)
  OBVIOUS
<1>6. /\ ValidDefinition(i.definition) /\ ValidMarking(i.definition, i.marking)
      /\ i.enablement = enablement /\ i.selection = selection
      /\ i.selection.outcome = "selected" /\ i.selection.binding = i.binding
      /\ i.directive = i.selection.directive
      /\ i.transition = i.binding.transition
      /\ ExternalsExact(i.definition, i.transition, i.external)
      /\ Firing(i) = fired
      /\ Reconstruct(i.definition, i.marking, i.binding) # {}
  BY <1>1, <1>2, <1>3, <1>4, <1>5 DEF Firing
<1>7. f \in Reconstruct(i.definition, i.marking, i.binding)
  BY <1>4, <1>6
<1> QED
  BY <1>2, <1>3, <1>5, <1>6, <1>7

\* It leads to a valid marking, named after the one before it.
LEMMA FiredSucceeds ==
    ASSUME NEW n, NEW m, NEW binding, NEW external, NEW f,
           Fired(n, m, binding, external, f).outcome = "success"
    PROVE  /\ ValidMarking(n, Fired(n, m, binding, external, f).marking)
           /\ \E places : Fired(n, m, binding, external, f).marking =
                 [name |-> SuccessorName(m, places), definition |-> n.name, places |-> places]
<1>1. \A code : Failed(code).outcome = code
  BY DEF Failed
<1>2. PICK retained_, produced_ :
         /\ Fired(n, m, binding, external, f).marking = Successor(n, m, retained_, produced_)
         /\ AdmitsSuccessor(n, Successor(n, m, retained_, produced_))
  BY <1>1 DEF Fired
<1> QED
  BY <1>2 DEF Successor, AdmitsSuccessor

-----------------------------------------------------------------------------
(* What a client offers.                                                   *)

IsInput(i) ==
    i = [definition |-> i.definition, marking    |-> i.marking,
         enablement |-> i.enablement, selection  |-> i.selection,
         binding    |-> i.binding,    transition |-> i.transition,
         directive  |-> i.directive,  external   |-> i.external]

\* Whichever part is exchanged, the marking is the current one and the
\* selection the client's own.
LEMMA OffersAreOwn ==
    ASSUME NEW c, NEW i \in Offers(c)
    PROVE  i.marking = marking /\ i.selection = held[c].selection /\ IsInput(i)
<1>1. PICK external : i \in Exchanged(Held(c, external))
  BY DEF Offers
<1>2. PICK h : h = Held(c, external)
  OBVIOUS
<1>3. h.marking = marking /\ h.selection = held[c].selection /\ IsInput(h)
  BY <1>2 DEF Held, IsInput
<1>4. CASE i = h
  BY <1>3, <1>4
<1>5. ASSUME NEW v, i = [h EXCEPT !.definition = v]
      PROVE  i.marking = h.marking /\ i.selection = h.selection /\ IsInput(i)
  BY <1>3, <1>5 DEF IsInput
<1>6. ASSUME NEW v, i = [h EXCEPT !.enablement = v]
      PROVE  i.marking = h.marking /\ i.selection = h.selection /\ IsInput(i)
  BY <1>3, <1>6 DEF IsInput
<1>7. ASSUME NEW v, i = [h EXCEPT !.binding = v]
      PROVE  i.marking = h.marking /\ i.selection = h.selection /\ IsInput(i)
  BY <1>3, <1>7 DEF IsInput
<1>8. ASSUME NEW v, i = [h EXCEPT !.transition = v]
      PROVE  i.marking = h.marking /\ i.selection = h.selection /\ IsInput(i)
  BY <1>3, <1>8 DEF IsInput
<1>9. ASSUME NEW v, i = [h EXCEPT !.directive = v]
      PROVE  i.marking = h.marking /\ i.selection = h.selection /\ IsInput(i)
  BY <1>3, <1>9 DEF IsInput
<1>10. ASSUME NEW v, i = [h EXCEPT !.external = v]
      PROVE  i.marking = h.marking /\ i.selection = h.selection /\ IsInput(i)
  BY <1>3, <1>10 DEF IsInput
<1>11. \/ i = h
       \/ \E v : \/ i = [h EXCEPT !.definition = v]
                 \/ i = [h EXCEPT !.enablement = v]
                 \/ i = [h EXCEPT !.binding = v]
                 \/ i = [h EXCEPT !.transition = v]
                 \/ i = [h EXCEPT !.directive = v]
                 \/ i = [h EXCEPT !.external = v]
  BY <1>1, <1>2 DEF Exchanged
<1> QED
  BY <1>3, <1>4, <1>5, <1>6, <1>7, <1>8, <1>9, <1>10, <1>11

-----------------------------------------------------------------------------
(* The invariant.                                                          *)

\* A selection is what its own parts make.
SelectionInv(s) ==
    /\ s.outcome = "selected"
    /\ s = Selection(net, s.enablement, s.directive)
    /\ s.enablement = Enablement(s.enablement.definition, s.enablement.marking,
                                 Supported, Supported)
    /\ s.directive # None =>
          s.directive = [enablement |-> s.enablement, binding |-> s.binding]

HeldInv(h) ==
    /\ SelectionInv(h.selection)
    /\ h.selection.enablement.definition \in Definitions
    /\ h.since \in 0..firings
    /\ h.since = firings => h.selection.enablement.marking = marking

\* The names of the markings there were, the current one last: each holds the
\* one before.
Names(names) ==
    /\ names[0] = [nominal |-> InitialName]
    /\ \A k \in 1..firings : \E places :
          names[k] = [predecessor |-> names[k - 1], places |-> places]
    /\ names[firings] = marking.name
    /\ \A c \in Holders : held[c].selection.enablement.marking.name = names[held[c].since]

\* What is retained is the bundle of an input that fired under its plan.
FiredInput(plan, i) ==
    /\ IsInput(i) /\ Firing(i).outcome = "success"
    /\ SelectionInv(i.selection)
    /\ i.definition = net
    /\ plan = Plan(plan.action, net, Supported)

RetainedInv ==
    retained # None =>
        \E plan, i : /\ FiredInput(plan, i)
                     /\ retained = [columns |-> Columns(plan, i), bundle |-> Bundle(plan, i)]

IInv ==
    /\ net \in Nets
    /\ firings \in Nat
    /\ DOMAIN held = Clients
    /\ \A c \in Holders : HeldInv(held[c])
    /\ \E names : Names(names)
    /\ RetainedInv

\* A selection that is made is made of what is there.
LEMMA ChosenIsHeld ==
    ASSUME IInv, NEW d \in Definitions, NEW enablement,
           enablement = Enablement(d, marking, Supported, Supported),
           NEW directive \in Directives(enablement), NEW selection,
           selection = Selection(net, enablement, directive), selection.outcome = "selected",
           NEW h, h = [selection |-> selection, since |-> firings]
    PROVE  HeldInv(h)
<1>1. enablement.definition = d /\ enablement.marking = marking
  BY DEF Enablement
<1>2. selection.enablement = enablement /\ selection.directive = directive
  BY DEF Selection
<1>3. h.selection = selection /\ h.since = firings
  OBVIOUS
<1>4. ASSUME directive # None
      PROVE  directive = [enablement |-> enablement, binding |-> selection.binding]
  <2>1. PICK e, b : directive = [enablement |-> e, binding |-> b]
    BY <1>4 DEF Directives
  <2>2. directive.enablement = enablement
    BY <1>4 DEF Selection, SelectionOutcome
  <2>3. selection.binding = directive.binding
    BY <1>4 DEF Selection
  <2> QED
    BY <2>1, <2>2, <2>3
<1>5. SelectionInv(selection)
  BY <1>1, <1>2, <1>4 DEF SelectionInv
<1>6. firings \in 0..firings
  BY DEF IInv
<1> QED
  BY <1>1, <1>2, <1>3, <1>5, <1>6 DEF HeldInv

\* At first nothing is held and there is one name.
LEMMA InitInvariant == Init => IInv
<1> SUFFICES ASSUME Init
             PROVE  IInv
  OBVIOUS
<1>1. Holders = {}
  BY DEF Init, Holders
<1>2. marking.name = [nominal |-> InitialName]
  BY DEF Init, Marking
<1>3. PICK names : names = [k \in {0} |-> marking.name]
  OBVIOUS
<1>4. Names(names)
  BY <1>1, <1>2, <1>3 DEF Init, Names
<1> QED
  BY <1>1, <1>4 DEF Init, IInv, RetainedInv

Chosen(c, selection) ==
    /\ selection.outcome = "selected"
    /\ held' = [held EXCEPT ![c] = [selection |-> selection, since |-> firings]]
    /\ UNCHANGED <<net, marking, firings, retained>>

\* A selection is of the current marking, which has the newest name.
LEMMA ChooseKeeps ==
    ASSUME IInv, NEW c \in Clients, Choose(c)
    PROVE  IInv'
<1>1. PICK d \in Definitions :
         \E directive \in Directives(Enablement(d, marking, Supported, Supported)) :
            Chosen(c, Selection(net, Enablement(d, marking, Supported, Supported), directive))
  BY DEF Choose, Chosen
<1>2. PICK enablement : enablement = Enablement(d, marking, Supported, Supported)
  OBVIOUS
<1>3. PICK directive \in Directives(enablement) : Chosen(c, Selection(net, enablement, directive))
  BY <1>1, <1>2
<1>4. PICK selection : selection = Selection(net, enablement, directive)
  OBVIOUS
<1>5. PICK h : h = [selection |-> selection, since |-> firings]
  OBVIOUS
<1>6. /\ held' = [held EXCEPT ![c] = h] /\ selection.outcome = "selected"
      /\ UNCHANGED <<net, marking, firings, retained>>
  BY <1>3, <1>4, <1>5 DEF Chosen
<1>7. HeldInv(h) /\ HeldInv(h)'
  <2>1. HeldInv(h)
    BY <1>2, <1>4, <1>5, <1>6, ChosenIsHeld
  <2> QED
    BY <1>6, <2>1 DEF HeldInv, SelectionInv, Definitions
<1>8. ASSUME NEW k \in Holders', k # c
      PROVE  k \in Holders /\ held'[k] = held[k]
  BY <1>6, <1>8 DEF IInv, Holders
<1>9. held'[c] = h
  BY <1>6 DEF IInv
<1>10. \A k \in Holders' : HeldInv(held[k])'
  <2>1. \A k \in Holders : HeldInv(held[k])
    BY DEF IInv
  <2> QED
    BY <1>6, <1>7, <1>8, <1>9, <2>1 DEF HeldInv, SelectionInv, Definitions
<1>11. PICK names : Names(names)
  BY DEF IInv
<1>12. Names(names)'
  <2>1. h.selection.enablement.marking.name = names[h.since]
    <3>1. h.selection = selection /\ h.since = firings
      BY <1>5
    <3>2. selection.enablement = enablement
      BY <1>4 DEF Selection
    <3>3. enablement.marking = marking
      BY <1>2 DEF Enablement
    <3> QED
      BY <1>11, <3>1, <3>2, <3>3 DEF Names
  <2> QED
    BY <1>6, <1>8, <1>9, <1>11, <2>1 DEF Names
<1>13. RetainedInv'
  BY <1>6 DEF IInv, RetainedInv, FiredInput, SelectionInv
<1> QED
  BY <1>6, <1>10, <1>12, <1>13 DEF IInv

\* A firing adds one name to the chain and leaves what is held behind it.
LEMMA FireKeeps ==
    ASSUME IInv, NEW c \in Clients, Fire(c)
    PROVE  IInv'
<1>1. PICK i \in Offers(c), plan \in Plans :
         /\ FiresUnder(plan, i)
         /\ MakesBundle(plan, i)
         /\ marking' = Firing(i).marking
         /\ firings' = firings + 1
         /\ retained' = [columns |-> Columns(plan, i), bundle |-> Bundle(plan, i)]
         /\ UNCHANGED <<net, held>>
  BY DEF Fire
<1>2. i.marking = marking /\ i.selection = held[c].selection /\ IsInput(i)
  BY OffersAreOwn
<1>3. plan = Plan(plan.action, net, Supported)
  <2>1. PICK action : plan = Plan(action, net, Supported)
    BY DEF Plans
  <2> QED
    BY <2>1 DEF Plan
<1>4. Firing(i).outcome = "success" /\ i.definition = net
  BY <1>1, <1>3 DEF MakesBundle, Plan
<1>5. PICK places : marking' = [name |-> SuccessorName(marking, places),
                                definition |-> net.name, places |-> places]
  BY <1>1, <1>2, <1>4, FiringCompares, FiredSucceeds
<1>6. marking'.name = [predecessor |-> marking.name, places |-> places]
  BY <1>5 DEF SuccessorName
<1>7. \A k \in Holders' : HeldInv(held[k])'
  BY <1>1 DEF IInv, Holders, HeldInv, SelectionInv, Definitions
<1>8. PICK names : Names(names)
  BY DEF IInv
<1>9. PICK more : more = [k \in 0..firings + 1 |-> IF k = firings + 1 THEN marking'.name ELSE names[k]]
  OBVIOUS
<1>10. Names(more)'
  <2>1. firings \in Nat /\ firings' = firings + 1
    BY <1>1 DEF IInv
  <2>2. \A k \in 0..firings : more[k] = names[k]
    BY <1>9, <2>1
  <2>3. more[firings + 1] = marking'.name
    BY <1>9, <2>1
  <2>4. more[0] = [nominal |-> InitialName]
    BY <1>8, <2>1, <2>2 DEF Names
  <2>5. ASSUME NEW k \in 1..firings + 1
        PROVE  \E q : more[k] = [predecessor |-> more[k - 1], places |-> q]
    <3>1. CASE k = firings + 1
      <4>1. more[k - 1] = marking.name
        BY <1>8, <2>1, <2>2, <3>1 DEF Names
      <4> QED
        BY <1>6, <2>3, <3>1, <4>1
    <3>2. CASE k # firings + 1
      <4>1. k \in 1..firings /\ k \in 0..firings /\ k - 1 \in 0..firings
        BY <2>1, <3>2
      <4> QED
        BY <1>8, <2>2, <4>1 DEF Names
    <3> QED
      BY <3>1, <3>2
  <2>6. ASSUME NEW k \in Holders
        PROVE  held[k].selection.enablement.marking.name = more[held[k].since]
    <3>1. held[k].since \in 0..firings
      BY DEF IInv, HeldInv
    <3> QED
      BY <1>8, <2>2, <3>1 DEF Names
  <2> QED
    BY <1>1, <2>1, <2>3, <2>4, <2>5, <2>6 DEF Names, Holders
<1>11. RetainedInv'
  <2>1. SelectionInv(i.selection)
    BY <1>2 DEF Fire, IInv, HeldInv
  <2>2. FiredInput(plan, i)'
    BY <1>1, <1>2, <1>3, <1>4, <2>1 DEF FiredInput, SelectionInv
  <2> QED
    BY <1>1, <2>2 DEF RetainedInv
<1>12. firings' \in Nat
  BY <1>1 DEF IInv
<1> QED
  BY <1>1, <1>7, <1>10, <1>11, <1>12 DEF IInv

\* So does every step, and a stuttering one.
LEMMA NextKeeps == IInv /\ [Next]_vars => IInv'
<1> SUFFICES ASSUME IInv, [Next]_vars
             PROVE  IInv'
  OBVIOUS
<1>1. CASE UNCHANGED vars
  <2>1. UNCHANGED <<net, marking, held, firings, retained>>
    BY <1>1 DEF vars
  <2>2. \A c \in Holders' : HeldInv(held[c])'
    BY <2>1 DEF IInv, Holders, HeldInv, SelectionInv, Definitions
  <2>3. (\E names : Names(names))'
    BY <2>1 DEF IInv, Names, Holders
  <2>4. RetainedInv'
    BY <2>1 DEF IInv, RetainedInv, FiredInput, SelectionInv
  <2> QED
    BY <2>1, <2>2, <2>3, <2>4 DEF IInv
<1> QED
  BY <1>1, ChooseKeeps, FireKeeps DEF Next

\* What is held was computed from a marking there was, and what is retained
\* from an input that fired.
THEOREM Invariance == Spec => []IInv
  BY InitInvariant, NextKeeps, PTL DEF Spec

-----------------------------------------------------------------------------
(* No marking recurs.                                                      *)

\* Two names of a chain that were equal would have equal names before them,
\* down to the first, which no firing gave.
LEMMA NamesDiffer ==
    ASSUME IInv, NEW names, Names(names), NEW i \in 0..firings, NEW j \in 0..firings, i < j
    PROVE  names[i] # names[j]
<1> DEFINE T == {k \in Nat : \E l \in 1..firings : k < l /\ names[k] = names[l]}
<1> SUFFICES ASSUME T # {}
             PROVE  FALSE
  BY DEF IInv
<1>1. PICK k \in T : \A x \in T : k <= x
  <2>1. T \in SUBSET Nat
    OBVIOUS
  <2> QED
    BY <2>1, LeastNatural
<1>2. PICK l \in 1..firings : k < l /\ names[k] = names[l]
  OBVIOUS
<1>3. k \in Nat /\ l \in Nat /\ firings \in Nat /\ l - 1 \in Nat
  BY DEF IInv
<1>4. PICK places : names[l] = [predecessor |-> names[l - 1], places |-> places]
  BY DEF Names
<1>5. CASE k = 0
  <2>1. names[l] = [nominal |-> InitialName]
    BY <1>2, <1>5 DEF Names
  <2>2. "nominal" \in DOMAIN names[l] /\ "nominal" \notin DOMAIN names[l]
    BY <1>4, <2>1
  <2> QED
    BY <2>2
<1>6. CASE k > 0
  <2>1. k \in 1..firings
    BY <1>2, <1>3, <1>6
  <2>2. PICK q : names[k] = [predecessor |-> names[k - 1], places |-> q]
    BY <2>1 DEF Names
  <2>3. names[k].predecessor = names[k - 1] /\ names[l].predecessor = names[l - 1]
    BY <1>4, <2>2
  <2>4. names[k - 1] = names[l - 1] /\ k - 1 \in Nat /\ l - 1 \in 1..firings /\ k - 1 < l - 1
    BY <1>2, <1>3, <1>6, <2>3
  <2>5. k - 1 \in T
    BY <2>4
  <2> QED
    BY <1>1, <1>3, <2>5
<1> QED
  BY <1>3, <1>5, <1>6

\* What was selected before the last firing does not fire, whichever of its
\* parts is exchanged for another: some firing gave the marking a name that no
\* marking had.
THEOREM OldSelectionsNeverFire == Spec => []OldSelectionNeverFires
<1>1. IInv => OldSelectionNeverFires
  <2> SUFFICES ASSUME IInv, NEW c \in Holders, held[c].since < firings, NEW i \in Offers(c),
                      Firing(i).outcome = "success"
               PROVE  FALSE
    BY DEF OldSelectionNeverFires
  <2>1. i.marking = marking /\ i.selection = held[c].selection
    BY OffersAreOwn
  <2>2. i.selection.enablement.marking = i.marking
    <3>1. /\ i.enablement = Enablement(i.definition, i.marking, Supported, Supported)
          /\ i.selection = Selection(i.definition, i.enablement, i.selection.directive)
      BY FiringCompares
    <3>2. i.selection.enablement = i.enablement
      BY <3>1 DEF Selection
    <3> QED
      BY <3>1, <3>2 DEF Enablement
  <2>3. PICK names : Names(names)
    BY DEF IInv
  <2>4. names[held[c].since] = names[firings]
    BY <2>1, <2>2, <2>3 DEF Names
  <2>5. held[c].since \in 0..firings /\ firings \in 0..firings
    BY DEF IInv, HeldInv
  <2> QED
    BY <2>3, <2>4, <2>5, NamesDiffer
<1> QED
  BY <1>1, Invariance, PTL

-----------------------------------------------------------------------------
(* Replay.                                                                 *)

\* The enablement, the directive and the input that are computed again.
EnablementAgain(b) == Enablement(b.definition, b.predecessor, Supported, Supported)

DirectiveAgain(b) ==
    IF b.directive = None THEN None
    ELSE [enablement |-> EnablementAgain(b), binding |-> b.binding]

InputAgain(b) ==
    [definition |-> b.definition, marking |-> b.predecessor,
     enablement |-> EnablementAgain(b),
     selection  |-> Selection(b.definition, EnablementAgain(b), DirectiveAgain(b)),
     binding    |-> b.binding, transition |-> b.transition,
     directive  |-> b.directive, external |-> b.external]

\* What replays is well formed, leads to its successor, and is what its result
\* was made of.
LEMMA ReplayedCompares ==
    ASSUME NEW b
    PROVE  Replay(b) = "replayed" <=>
              LET i == InputAgain(b)
              IN  /\ WellFormed(b) /\ b.profile = Supported
                  /\ DirectiveAgain(b) = b.directive
                  /\ i.selection.outcome = "selected" /\ i.selection.binding = b.binding
                  /\ SameResult(b, i)
<1>1. PICK enablement : enablement = EnablementAgain(b)
  OBVIOUS
<1>2. PICK directive : directive = DirectiveAgain(b)
  OBVIOUS
<1>3. PICK selection : selection = Selection(b.definition, enablement, directive)
  OBVIOUS
<1>4. PICK i : i = InputAgain(b)
  OBVIOUS
<1>5. /\ i = [definition |-> b.definition, marking |-> b.predecessor,
              enablement |-> enablement, selection |-> selection,
              binding    |-> b.binding, transition |-> b.transition,
              directive  |-> b.directive, external |-> b.external]
      /\ i.selection = selection
  BY <1>1, <1>2, <1>3, <1>4 DEF InputAgain
<1>6. Replay(b) = IF ~ WellFormed(b) THEN "corrupt"
                  ELSE IF b.profile # Supported THEN "incompatible"
                  ELSE IF /\ directive = b.directive
                          /\ selection.outcome = "selected" /\ selection.binding = b.binding
                          /\ SameResult(b, i)
                       THEN "replayed"
                  ELSE "corrupt"
  BY <1>1, <1>2, <1>3, <1>5 DEF Replay, EnablementAgain, DirectiveAgain
<1> QED
  BY <1>2, <1>4, <1>5, <1>6

\* The result of a bundle that replays names every part but the successor.
LEMMA ReplayedIsItsResult ==
    ASSUME NEW b, Replay(b) = "replayed"
    PROVE  /\ b.result.enablement = EnablementAgain(b)
           /\ b.result.transition = b.transition /\ b.result.binding = b.binding
           /\ b.result.external = b.external /\ b.result.directive = b.directive
           /\ Firing(InputAgain(b)).marking = b.successor
<1>1. PICK i : i = InputAgain(b)
  OBVIOUS
<1>2. /\ i.enablement = EnablementAgain(b) /\ i.transition = b.transition
      /\ i.binding = b.binding /\ i.external = b.external /\ i.directive = b.directive
  BY <1>1 DEF InputAgain
<1>3. SameResult(b, i)
  BY <1>1, ReplayedCompares
<1>4. Firing(i).marking = b.successor /\ b.result = ResultIdentity(i, b.successor)
  BY <1>3 DEF SameResult
<1> QED
  BY <1>1, <1>2, <1>4 DEF ResultIdentity

\* The bundle of an input that fired replays.
LEMMA FiredReplays ==
    ASSUME IInv, NEW plan, NEW i, FiredInput(plan, i), NEW b, b = Bundle(plan, i)
    PROVE  Replay(b) = "replayed"
<1>1. PICK successor : successor = Firing(i).marking
  OBVIOUS
<1>2. /\ b.plan = plan /\ b.action = plan.action /\ b.profile = plan.profile
      /\ b.definition = plan.definition /\ b.predecessor = i.marking /\ b.successor = successor
      /\ b.transition = i.transition /\ b.binding = i.binding /\ b.external = i.external
      /\ b.directive = i.directive /\ b.result = ResultIdentity(i, successor)
  BY <1>1 DEF Bundle
<1>3. plan.definition = net /\ plan.profile = Supported /\ i.definition = net
  BY DEF FiredInput, Plan
<1>4. /\ ValidMarking(net, i.marking)
      /\ i.enablement = Enablement(net, i.marking, Supported, Supported)
      /\ i.selection = Selection(net, i.enablement, i.selection.directive)
      /\ i.selection.outcome = "selected" /\ i.selection.binding = i.binding
      /\ i.directive = i.selection.directive
      /\ i.transition = i.binding.transition
      /\ ExternalsExact(net, i.transition, i.external)
  BY <1>3, FiringCompares DEF FiredInput
<1>5. successor.definition = net.name
  <2>1. PICK f : Firing(i) = Fired(net, i.marking, i.binding, i.external, f)
    BY <1>3, FiringCompares DEF FiredInput
  <2>2. PICK fired : fired = Fired(net, i.marking, i.binding, i.external, f) /\ fired = Firing(i)
    BY <2>1
  <2>3. fired.outcome = "success" /\ fired.marking = successor
    BY <1>1, <2>2 DEF FiredInput
  <2>4. Fired(net, i.marking, i.binding, i.external, f).outcome = "success"
    BY <2>2, <2>3
  <2>5. ValidMarking(net, Fired(net, i.marking, i.binding, i.external, f).marking)
    BY <2>4, FiredSucceeds
  <2>6. ValidMarking(net, fired.marking)
    BY <2>2, <2>5
  <2> QED
    BY <2>3, <2>6 DEF ValidMarking
<1>6. WellFormed(b)
  <2>1. i.marking.definition = net.name
    BY <1>4 DEF ValidMarking
  <2>2. b.plan = Plan(b.action, b.definition, b.profile)
    BY <1>2, <1>3 DEF FiredInput
  <2>3. i.external.transition = i.transition
    BY <1>4 DEF ExternalsExact
  <2> QED
    BY <1>2, <1>3, <1>4, <1>5, <2>1, <2>2, <2>3 DEF WellFormed
<1>7. EnablementAgain(b) = i.enablement
  BY <1>2, <1>3, <1>4 DEF EnablementAgain
<1>8. DirectiveAgain(b) = i.directive
  <2>1. i.directive # None =>
           i.directive = [enablement |-> i.selection.enablement, binding |-> i.binding]
    BY <1>4 DEF FiredInput, SelectionInv
  <2>2. i.selection.enablement = i.enablement
    BY <1>4 DEF Selection
  <2> QED
    BY <1>2, <1>7, <2>1, <2>2 DEF DirectiveAgain
<1>9. InputAgain(b) = i
  <2>1. Selection(b.definition, EnablementAgain(b), DirectiveAgain(b)) = i.selection
    BY <1>2, <1>3, <1>4, <1>7, <1>8
  <2> QED
    BY <1>2, <1>3, <1>7, <2>1 DEF InputAgain, FiredInput, IsInput
<1>10. SameResult(b, i)
  BY <1>1, <1>2 DEF SameResult, FiredInput
<1> QED
  BY <1>2, <1>3, <1>4, <1>6, <1>8, <1>9, <1>10, ReplayedCompares

\* A bundle has no parts but these.
IsBundle(b) ==
    b = [plan |-> b.plan, action |-> b.action, profile |-> b.profile,
         definition  |-> b.definition, predecessor |-> b.predecessor, successor |-> b.successor,
         transition  |-> b.transition, binding |-> b.binding, external |-> b.external,
         directive   |-> b.directive, result |-> b.result]

\* Of the bundles with one part exchanged only the same one replays: its result
\* names every part but the successor, and that is what firing leads to.
LEMMA AlteredDoesNotReplay ==
    ASSUME NEW b, IsBundle(b), Replay(b) = "replayed", b.definition = net,
           b.plan = Plan(b.action, net, Supported), NEW a \in Altered(b)
    PROVE  Replay(a) # "replayed"
<1> SUFFICES ASSUME Replay(a) = "replayed"
             PROVE  a = b
  BY DEF Altered
<1>1. b.profile = Supported
  BY ReplayedCompares
<1>2. /\ b.result.enablement = EnablementAgain(b)
      /\ b.result.transition = b.transition /\ b.result.binding = b.binding
      /\ b.result.external = b.external /\ b.result.directive = b.directive
      /\ Firing(InputAgain(b)).marking = b.successor
  BY ReplayedIsItsResult
<1>3. /\ a.result.enablement = EnablementAgain(a)
      /\ a.result.transition = a.transition /\ a.result.binding = a.binding
      /\ a.result.external = a.external /\ a.result.directive = a.directive
      /\ Firing(InputAgain(a)).marking = a.successor
      /\ a.profile = Supported /\ WellFormed(a)
  BY ReplayedIsItsResult, ReplayedCompares
<1>4. \A x : EnablementAgain(x).definition = x.definition /\ EnablementAgain(x).marking = x.predecessor
  BY DEF EnablementAgain, Enablement
<1>5. ASSUME NEW v, a = [b EXCEPT !.binding = v]
      PROVE  a = b
  BY <1>2, <1>3, <1>5 DEF IsBundle
<1>6. ASSUME NEW v, a = [b EXCEPT !.external = v]
      PROVE  a = b
  BY <1>2, <1>3, <1>6 DEF IsBundle
<1>7. ASSUME NEW v, a = [b EXCEPT !.transition = v]
      PROVE  a = b
  BY <1>2, <1>3, <1>7 DEF IsBundle
<1>8. ASSUME NEW v, a = [b EXCEPT !.directive = v]
      PROVE  a = b
  BY <1>2, <1>3, <1>8 DEF IsBundle
<1>9. ASSUME NEW v, a = [b EXCEPT !.predecessor = v]
      PROVE  a = b
  BY <1>2, <1>3, <1>4, <1>9 DEF IsBundle
<1>10. ASSUME NEW v, a = [b EXCEPT !.successor = v]
       PROVE  a = b
  <2>1. InputAgain(a) = InputAgain(b)
    BY <1>10 DEF IsBundle, InputAgain, EnablementAgain, DirectiveAgain
  <2> QED
    BY <1>2, <1>3, <1>10, <2>1 DEF IsBundle
<1>11. ASSUME NEW v, a = [b EXCEPT !.definition = v]
       PROVE  a = b
  BY <1>2, <1>3, <1>4, <1>11 DEF IsBundle
<1>12. ASSUME NEW v, NEW profile, a = [b EXCEPT !.definition = v, !.profile = profile,
                                                !.plan = Plan(b.action, v, profile)]
       PROVE  a = b
  <2>1. a.result = b.result /\ a.profile = profile /\ a.definition = v
    BY <1>12 DEF IsBundle
  <2>2. v = net /\ profile = Supported
    BY <1>2, <1>3, <1>4, <2>1
  <2> QED
    BY <1>1, <1>12, <2>2 DEF IsBundle
<1>13. \E v, profile : \/ a = [b EXCEPT !.definition = v, !.profile = profile,
                                        !.plan = Plan(b.action, v, profile)]
                       \/ a = [b EXCEPT !.definition = v]
                       \/ a = [b EXCEPT !.predecessor = v]
                       \/ a = [b EXCEPT !.successor = v]
                       \/ a = [b EXCEPT !.binding = v]
                       \/ a = [b EXCEPT !.external = v]
                       \/ a = [b EXCEPT !.transition = v]
                       \/ a = [b EXCEPT !.directive = v]
  BY DEF Altered
<1> QED
  BY <1>5, <1>6, <1>7, <1>8, <1>9, <1>10, <1>11, <1>12, <1>13

\* A retained commit replays although enablement and selection are computed
\* again; no bundle that differs in one part does, nor one given to another
\* action.
THEOREM ReplaysAreExact == Spec => []ReplayIsExact
<1>1. IInv => ReplayIsExact
  <2> SUFFICES ASSUME IInv, retained # None
               PROVE  /\ DurableReplay(retained) = "replayed"
                      /\ \A a \in Altered(retained.bundle) : Replay(a) # "replayed"
                      /\ \A plan \in Plans \ {retained.bundle.plan} :
                            DurableReplay([retained EXCEPT !.bundle.action = plan.action,
                                                           !.bundle.plan = plan]) # "replayed"
    BY DEF ReplayIsExact, DurableReplay
  <2>1. PICK plan, i : /\ FiredInput(plan, i)
                       /\ retained = [columns |-> Columns(plan, i), bundle |-> Bundle(plan, i)]
    BY DEF IInv, RetainedInv
  <2>2. PICK b : b = Bundle(plan, i)
    OBVIOUS
  <2>3. PICK columns : columns = Columns(plan, i)
    OBVIOUS
  <2>4. retained = [columns |-> columns, bundle |-> b]
    BY <2>1, <2>2, <2>3
  <2>5. Replay(b) = "replayed"
    BY <2>1, <2>2, FiredReplays
  <2>6. /\ IsBundle(b) /\ b.definition = net /\ b.plan = Plan(b.action, net, Supported)
        /\ Correlated(columns, b) /\ columns.plan = b.plan
    BY <2>1, <2>2, <2>3 DEF Bundle, Columns, Correlated, IsBundle, FiredInput, Plan
  <2>7. DurableReplay(retained) = "replayed"
    BY <2>4, <2>5, <2>6, ReplayedCompares DEF DurableReplay
  <2>8. ASSUME NEW p, p # b.plan
        PROVE  DurableReplay([retained EXCEPT !.bundle.action = p.action, !.bundle.plan = p])
                  # "replayed"
    <3>1. PICK x : x = [retained EXCEPT !.bundle.action = p.action, !.bundle.plan = p]
      OBVIOUS
    <3>2. x.columns = columns /\ x.bundle.plan = p
      BY <2>4, <2>6, <3>1 DEF IsBundle
    <3>3. ~ Correlated(x.columns, x.bundle)
      BY <2>6, <2>8, <3>2 DEF Correlated
    <3> QED
      BY <3>1, <3>3 DEF DurableReplay
  <2> QED
    BY <2>4, <2>5, <2>6, <2>7, <2>8, AlteredDoesNotReplay
<1> QED
  BY <1>1, Invariance, PTL

-----------------------------------------------------------------------------
(* Assignments and bindings.                                               *)

\* Finitely many places with finitely many members each have finitely many
\* coordinates.
LEMMA FiniteCoordinates ==
    ASSUME NEW A, IsFiniteSet(A), NEW I, \A a \in A : IsFiniteSet(I[a])
    PROVE  IsFiniteSet(UNION {{<<a, i>> : i \in I[a]} : a \in A})
<1>1. PICK g : g = [a \in A |-> {<<a, i>> : i \in I[a]}]
  OBVIOUS
<1>2. PICK T : T = {g[a] : a \in A}
  OBVIOUS
<1>3. g \in Surjection(A, T)
  BY <1>1, <1>2 DEF Surjection
<1>4. IsFiniteSet(T)
  BY <1>3, FS_Surjection
<1>5. ASSUME NEW a \in A
      PROVE  IsFiniteSet(g[a])
  <2>1. g[a] = {a} \X I[a]
    BY <1>1
  <2>2. IsFiniteSet({a}) /\ IsFiniteSet(I[a])
    BY FS_Singleton
  <2>3. IsFiniteSet({a} \X I[a])
    BY <2>2, FS_Product
  <2> QED
    BY <2>1, <2>3
<1>6. IsFiniteSet(UNION T)
  BY <1>2, <1>4, <1>5, FS_UNION
<1>7. T = {{<<a, i>> : i \in I[a]} : a \in A}
  BY <1>1, <1>2
<1> QED
  BY <1>6, <1>7

\* A tuple is a function on the numbers up to its length.
LEMMA TupleDomain ==
    ASSUME NEW s, IsTuple(s)
    PROVE  \E n \in Nat : n = Len(s) /\ DOMAIN s = 1..n /\ s = [i \in 1..n |-> s[i]]
BY DEF IsTuple

\* The demands of a transition are finitely many coordinates of patterns.
LEMMA DemandsAreFinite ==
    ASSUME NEW n, IsNet(n), NEW t
    PROVE  /\ Demands(n, t) \subseteq Nat \X Nat /\ IsFiniteSet(Demands(n, t))
           /\ \A d \in Demands(n, t) : /\ d[1] \in DOMAIN n.arcs
                                       /\ Arc(n, d).mode \in {"consume", "read"}
                                       /\ Arc(n, d).transition = t
                                       /\ d[2] \in DOMAIN Arc(n, d).patterns
<1>1. PICK A : A = ArcsOf(n, t, {"consume", "read"})
  OBVIOUS
<1>2. PICK I : I = [a \in A |-> DOMAIN n.arcs[a].patterns]
  OBVIOUS
<1>3. A \subseteq DOMAIN n.arcs /\ \A a \in A : n.arcs[a].transition = t /\ n.arcs[a].mode \in {"consume", "read"}
  BY <1>1 DEF ArcsOf
<1>4. PICK l \in Nat : DOMAIN n.arcs = 1..l
  BY TupleDomain DEF IsNet
<1>5. A \subseteq Nat /\ IsFiniteSet(A)
  BY <1>3, <1>4, FS_Interval, FS_Subset
<1>6. ASSUME NEW a \in A
      PROVE  I[a] \subseteq Nat /\ IsFiniteSet(I[a])
  <2>1. IsTuple(n.arcs[a].patterns)
    BY <1>3 DEF IsNet
  <2>2. PICK k \in Nat : I[a] = 1..k
    BY <1>2, <2>1, TupleDomain
  <2> QED
    BY <2>2, FS_Interval
<1>7. Demands(n, t) = UNION {{<<a, i>> : i \in I[a]} : a \in A}
  BY <1>1, <1>2 DEF Demands
<1>8. IsFiniteSet(Demands(n, t))
  BY <1>5, <1>6, <1>7, FiniteCoordinates
<1>9. ASSUME NEW d \in Demands(n, t)
      PROVE  d[1] \in A /\ d[2] \in I[d[1]] /\ d = <<d[1], d[2]>>
  BY <1>7
<1>10. Demands(n, t) \subseteq Nat \X Nat
  BY <1>5, <1>6, <1>9
<1> QED
  BY <1>2, <1>3, <1>8, <1>9, <1>10 DEF Arc

\* A token that occurs at a place is there, and the arcs lead to places.
TokensTyped(n, m) ==
    /\ DOMAIN m.places = DOMAIN n.places
    /\ \A p \in DOMAIN m.places : m.places[p] \in Seq(AllTokens)

\* An assignment gives each demand a token that is there, of an admitted color.
LEMMA AssignedTokens ==
    ASSUME NEW n, NEW m, IsNet(n), ValidDefinition(n), TokensTyped(n, m),
           NEW t, NEW f \in Assignments(n, m, t)
    PROVE  /\ DOMAIN f = Demands(n, t) /\ Feasible(n, f)
           /\ f = [d \in Demands(n, t) |-> f[d]]
           /\ \A d \in Demands(n, t) :
                 /\ Arc(n, d).place \in DOMAIN m.places
                 /\ f[d] \in DOMAIN m.places[Arc(n, d).place]
                 /\ f[d] \in Nat
                 /\ TokenOf(n, m, f, d) \in AllTokens
                 /\ TokenOf(n, m, f, d).color \in Pattern(n, d).colors
<1>1. PICK X : f \in [Demands(n, t) -> X]
  BY DEF Assignments
<1>2. Feasible(n, f) /\ \A d \in Demands(n, t) : Meets(n, m, d, f[d])
  BY DEF Assignments
<1>3. ASSUME NEW d \in Demands(n, t)
      PROVE  /\ Arc(n, d).place \in DOMAIN m.places
             /\ f[d] \in DOMAIN m.places[Arc(n, d).place]
             /\ f[d] \in Nat
             /\ TokenOf(n, m, f, d) \in AllTokens
             /\ TokenOf(n, m, f, d).color \in Pattern(n, d).colors
  <2>1. Arc(n, d).place \in DOMAIN n.places
    BY DemandsAreFinite DEF ValidDefinition, Arc
  <2>2. m.places[Arc(n, d).place] \in Seq(AllTokens)
    BY <2>1 DEF TokensTyped
  <2>3. f[d] \in DOMAIN m.places[Arc(n, d).place]
        /\ m.places[Arc(n, d).place][f[d]].color \in Pattern(n, d).colors
    BY <1>2 DEF Meets
  <2> QED
    BY <2>1, <2>2, <2>3 DEF TokensTyped, TokenOf
<1> QED
  BY <1>1, <1>2, <1>3

\* A binding gives each input variable the value of a token that is there.
LEMMA BindingIsTyped ==
    ASSUME NEW n, NEW m, IsNet(n), ValidDefinition(n), TokensTyped(n, m),
           NEW t \in DOMAIN n.transitions, NEW f \in Assignments(n, m, t),
           NEW b, b = BindingOf(n, m, t, f)
    PROVE  /\ b.transition = t /\ b.values \in [Inputs(n, t) -> Values]
           /\ b = [transition |-> t, values |-> b.values]
           /\ \A v \in Inputs(n, t) :
                 /\ \E d \in Demands(n, t) : Pattern(n, d).variable = v
                 /\ b.values[v] = TokenOf(n, m, f, CHOOSE d \in Demands(n, t) :
                                                     Pattern(n, d).variable = v).value
<1>1. ASSUME NEW v \in Inputs(n, t)
      PROVE  \E d \in Demands(n, t) : Pattern(n, d).variable = v
  <2>1. Cardinality({d \in Demands(n, t) : Pattern(n, d).variable = v}) = 1
    BY DEF ValidDefinition, ValidTransition
  <2>2. {d \in Demands(n, t) : Pattern(n, d).variable = v} # {}
    BY <2>1, FS_EmptySet
  <2> QED
    BY <2>2
<1>2. /\ b.transition = t
      /\ b.values = [v \in Inputs(n, t) |->
                       TokenOf(n, m, f, CHOOSE d \in Demands(n, t) : Pattern(n, d).variable = v).value]
      /\ b = [transition |-> t, values |-> b.values]
  BY DEF BindingOf
<1>3. \A v \in Inputs(n, t) :
         TokenOf(n, m, f, CHOOSE d \in Demands(n, t) : Pattern(n, d).variable = v).value \in Values
  <2> TAKE v \in Inputs(n, t)
  <2>1. PICK e : e = CHOOSE d \in Demands(n, t) : Pattern(n, d).variable = v
    OBVIOUS
  <2>2. e \in Demands(n, t)
    BY <1>1, <2>1
  <2>3. TokenOf(n, m, f, e) \in AllTokens
    BY <2>2, AssignedTokens
  <2> QED
    BY <2>1, <2>3 DEF AllTokens
<1> QED
  BY <1>1, <1>2, <1>3

\* The first assignment there is, of those that make a binding.
LEMMA SomeIsLeast ==
    ASSUME NEW D, D \subseteq Nat \X Nat, IsFiniteSet(D), NEW S, S # {},
           \A f \in S : f = [d \in D |-> f[d]] /\ \A d \in D : f[d] \in Nat
    PROVE  Least(S) # {}
<1>1. PICK f \in S : \A g \in S : Ahead(D, D, f, g)
  BY FirstNumbering
<1>2. ASSUME NEW g \in S \ {f}
      PROVE  \E d \in DOMAIN f : f[d] < g[d] /\ \A e \in DOMAIN f : KeyPrecedes(e, d) => f[e] = g[e]
  <2>1. DOMAIN f = D /\ f = [d \in D |-> f[d]] /\ g = [d \in D |-> g[d]]
    OBVIOUS
  <2>2. ~ \A d \in D : g[d] = f[d]
    BY <2>1
  <2> QED
    BY <1>1, <2>1, <2>2 DEF Ahead
<1> QED
  BY <1>2 DEF Least

\* The key of a value is two numbers.
LEMMA ValueKeysNumber ==
    ASSUME NEW v \in Values
    PROVE  /\ ValueKey(v) \in Nat \X Nat
           /\ \A w \in Values : ValueKey(w) = ValueKey(v) => w = v
<1>1. \A w \in Values : /\ w = [kind |-> w.kind, at |-> w.at] /\ w.at \in Nat
                        /\ KindRank(w.kind) \in Nat /\ Kinds[KindRank(w.kind)] = w.kind
  BY KindIsRanked DEF Values
<1>2. \A w \in Values : ValueKey(w) = <<KindRank(w.kind), w.at>>
  BY DEF ValueKey
<1>3. \A w \in Values : ValueKey(w) = ValueKey(v) => w.kind = v.kind /\ w.at = v.at
  BY <1>1, <1>2
<1>4. \A w \in Values : w.kind = v.kind /\ w.at = v.at => w = v
  BY <1>1
<1> QED
  BY <1>1, <1>2, <1>3, <1>4

\* Of any enabled bindings one is first.
LEMMA SomeBindingIsFirst ==
    ASSUME NEW n, NEW m, IsNet(n), ValidDefinition(n), TokensTyped(n, m),
           NEW bindings \in SUBSET FeasibleBindings(n, m), bindings # {}
    PROVE  FirstBinding(n, bindings) \in bindings
<1>1. \A b \in bindings : \E t \in DOMAIN n.transitions : \E f \in Assignments(n, m, t) :
         b = BindingOf(n, m, t, f)
  BY DEF FeasibleBindings
<1>2. \A b \in bindings : /\ b.transition \in DOMAIN n.transitions
                         /\ b.values \in [Inputs(n, b.transition) -> Values]
                         /\ b = [transition |-> b.transition, values |-> b.values]
  BY <1>1, BindingIsTyped
<1>3. \A b \in bindings : Priority(n, b) \in Nat /\ n.priority[Priority(n, b)] = b.transition
  <2> TAKE b \in bindings
  <2>1. \E i \in DOMAIN n.priority : n.priority[i] = b.transition
    BY <1>2 DEF IsNet, ToSet
  <2>2. Priority(n, b) \in DOMAIN n.priority /\ n.priority[Priority(n, b)] = b.transition
    BY <2>1 DEF Priority
  <2> QED
    BY <2>2, TupleDomain DEF IsNet
<1>4. PICK p \in {Priority(n, b) : b \in bindings} : \A q \in {Priority(n, b) : b \in bindings} : p <= q
  <2>1. {Priority(n, b) : b \in bindings} \in SUBSET Nat /\ {Priority(n, b) : b \in bindings} # {}
    BY <1>3
  <2> QED
    BY <2>1, LeastNatural
<1>5. PICK B : B = {b \in bindings : Priority(n, b) = p}
  OBVIOUS
<1>6. PICK t : t = n.priority[p]
  OBVIOUS
<1>7. \A b \in B : b.transition = t
  BY <1>3, <1>5, <1>6
<1>8. PICK inputs : inputs = n.transitions[t].inputs
  OBVIOUS
<1>9. t \in DOMAIN n.transitions /\ B # {}
  BY <1>2, <1>4, <1>5, <1>7
<1>10. PICK l \in Nat : DOMAIN inputs = 1..l
  BY <1>8, <1>9, TupleDomain DEF IsNet
<1>11. Inputs(n, t) = {inputs[i] : i \in 1..l}
  BY <1>8, <1>10 DEF Inputs, ToSet
<1>12. PICK keys : keys = [b \in B |-> ValueKeys(n, b)]
  OBVIOUS
<1>13. \A b \in B : keys[b] = [i \in 1..l |-> ValueKey(b.values[inputs[i]])]
  BY <1>7, <1>8, <1>10, <1>12 DEF ValueKeys
<1>14. \A b \in B : \A i \in 1..l : b.values[inputs[i]] \in Values /\ keys[b][i] \in Nat \X Nat
  <2> TAKE b \in B
  <2> TAKE i \in 1..l
  <2>1. b.values \in [Inputs(n, t) -> Values] /\ inputs[i] \in Inputs(n, t)
    BY <1>2, <1>5, <1>7, <1>11
  <2>2. b.values[inputs[i]] \in Values
    BY <2>1
  <2>3. keys[b][i] = ValueKey(b.values[inputs[i]])
    BY <1>13
  <2> QED
    BY <2>2, <2>3, ValueKeysNumber
<1>15. \A b, c \in B : (\A i \in 1..l : keys[b][i] = keys[c][i]) => b = c
  <2>1. ASSUME NEW b \in B, NEW c \in B, \A i \in 1..l : keys[b][i] = keys[c][i]
        PROVE  b = c
    <3>1. \A i \in 1..l : b.values[inputs[i]] = c.values[inputs[i]]
      <4> TAKE i \in 1..l
      <4>1. b.values[inputs[i]] \in Values /\ c.values[inputs[i]] \in Values
        BY <1>14
      <4>2. ValueKey(b.values[inputs[i]]) = ValueKey(c.values[inputs[i]])
        <5>1. keys[b][i] = ValueKey(b.values[inputs[i]]) /\ keys[c][i] = ValueKey(c.values[inputs[i]])
          BY <1>13
        <5> QED
          BY <2>1, <5>1
      <4>3. PICK v, w : v = b.values[inputs[i]] /\ w = c.values[inputs[i]]
        OBVIOUS
      <4>4. w = v
        BY <4>1, <4>2, <4>3, ValueKeysNumber
      <4> QED
        BY <4>3, <4>4
    <3>2. b.values \in [Inputs(n, t) -> Values] /\ c.values \in [Inputs(n, t) -> Values]
      BY <1>2, <1>5, <1>7
    <3>3. b.values = c.values
      BY <1>11, <3>1, <3>2
    <3>4. b = [transition |-> t, values |-> b.values] /\ c = [transition |-> t, values |-> c.values]
      BY <1>2, <1>5, <1>7
    <3> QED
      BY <3>3, <3>4
  <2> QED
    BY <2>1
<1>16. PICK D : D = (1..l) \X {1, 2}
  OBVIOUS
<1>17. D \subseteq Nat \X Nat /\ IsFiniteSet(D)
  <2>1. IsFiniteSet(1..l)
    BY FS_Interval
  <2>2. IsFiniteSet({1, 2})
    <3>1. {1, 2} = {1} \cup {2}
      OBVIOUS
    <3>2. IsFiniteSet({1}) /\ IsFiniteSet({2})
      BY FS_Singleton
    <3>3. IsFiniteSet({1} \cup {2})
      BY <3>2, FS_Union
    <3> QED
      BY <3>1, <3>3
  <2>3. IsFiniteSet((1..l) \X {1, 2})
    BY <2>1, <2>2, FS_Product
  <2> QED
    BY <1>16, <2>3
<1>18. PICK number : number = [b \in B |-> [d \in D |-> keys[b][d[1]][d[2]]]]
  OBVIOUS
<1>19. PICK S : S = {number[b] : b \in B}
  OBVIOUS
<1>20. S # {} /\ \A f \in S : \A d \in D : f[d] \in Nat
  <2>1. S # {}
    BY <1>9, <1>19
  <2>2. ASSUME NEW b \in B, NEW d \in D
        PROVE  number[b][d] \in Nat
    <3>1. d[1] \in 1..l /\ (d[2] = 1 \/ d[2] = 2)
      BY <1>16
    <3>2. keys[b][d[1]] \in Nat \X Nat
      BY <1>14, <3>1
    <3>3. keys[b][d[1]][1] \in Nat /\ keys[b][d[1]][2] \in Nat
      BY <3>2
    <3>4. number[b][d] = keys[b][d[1]][d[2]]
      BY <1>18
    <3> QED
      BY <3>1, <3>3, <3>4
  <2> QED
    BY <1>19, <2>1, <2>2
<1>21. PICK f \in S : \A g \in S : Ahead(D, D, f, g)
  BY <1>17, <1>20, FirstNumbering
<1>22. PICK b \in B : f = number[b]
  BY <1>19, <1>21
<1>23. ASSUME NEW c \in B, c # b
       PROVE  ValuesPrecede(keys[b], keys[c])
  <2>1. PICK g : g = number[c] /\ g \in S
    BY <1>19
  <2>2. \A i \in 1..l : /\ f[<<i, 1>>] = keys[b][i][1] /\ f[<<i, 2>>] = keys[b][i][2]
                        /\ g[<<i, 1>>] = keys[c][i][1] /\ g[<<i, 2>>] = keys[c][i][2]
                        /\ <<i, 1>> \in D /\ <<i, 2>> \in D
    BY <1>16, <1>18, <1>22, <2>1
  <2>3. ~ \A d \in D : g[d] = f[d]
    <3>1. ASSUME \A d \in D : g[d] = f[d]
          PROVE  FALSE
      <4>1. \A i \in 1..l : keys[b][i] = keys[c][i]
        <5> TAKE i \in 1..l
        <5>1. keys[b][i] \in Nat \X Nat /\ keys[c][i] \in Nat \X Nat
          BY <1>14
        <5>2. keys[b][i][1] = keys[c][i][1] /\ keys[b][i][2] = keys[c][i][2]
          <6>1. g[<<i, 1>>] = f[<<i, 1>>] /\ g[<<i, 2>>] = f[<<i, 2>>]
            BY <2>2, <3>1
          <6> QED
            BY <2>2, <6>1
        <5>3. \A x, y \in Nat \X Nat : x[1] = y[1] /\ x[2] = y[2] => x = y
          OBVIOUS
        <5> QED
          BY <5>1, <5>2, <5>3
      <4> QED
        BY <1>15, <1>23, <4>1
    <3> QED
      BY <3>1
  <2>4. PICK d \in D : f[d] < g[d] /\ \A e \in D : KeyPrecedes(e, d) => f[e] = g[e]
    BY <1>21, <2>1, <2>3 DEF Ahead
  <2>5. PICK i \in 1..l : d[1] = i
    BY <1>16
  <2>6. d = <<i, 1>> \/ d = <<i, 2>>
    BY <1>16, <2>5
  <2>7. \A j \in 1..i - 1 : keys[b][j] = keys[c][j]
    <3> TAKE j \in 1..i - 1
    <3>1. j \in 1..l /\ j < i /\ i \in Nat
      OBVIOUS
    <3>2. <<j, 1>> \in Nat \X Nat /\ <<j, 2>> \in Nat \X Nat /\ d \in Nat \X Nat
      BY <1>17, <3>1
    <3>3. KeyPrecedes(<<j, 1>>, d) /\ KeyPrecedes(<<j, 2>>, d)
      BY <2>5, <3>1, <3>2, PairOrder
    <3>4. f[<<j, 1>>] = g[<<j, 1>>] /\ f[<<j, 2>>] = g[<<j, 2>>]
      BY <2>2, <2>4, <3>1, <3>3
    <3> QED
      BY <1>14, <2>2, <3>1, <3>4
  <2>8. KeyPrecedes(keys[b][i], keys[c][i])
    <3>1. keys[b][i] \in Nat \X Nat /\ keys[c][i] \in Nat \X Nat
      BY <1>14
    <3>2. CASE d = <<i, 1>>
      BY <2>2, <2>4, <3>1, <3>2, PairOrder
    <3>3. CASE d = <<i, 2>>
      <4>1. KeyPrecedes(<<i, 1>>, d)
        BY <3>3, PairOrder
      <4> QED
        BY <2>2, <2>4, <3>1, <3>3, <4>1, PairOrder
    <3> QED
      BY <2>6, <3>2, <3>3
  <2>9. i \in DOMAIN keys[b]
    BY <1>13
  <2> QED
    BY <2>7, <2>8, <2>9 DEF ValuesPrecede
<1>24. \A c \in bindings \ {b} : BindingPrecedes(n, b, c)
  <2> TAKE c \in bindings \ {b}
  <2>1. Priority(n, b) = p /\ p <= Priority(n, c) /\ p \in Nat /\ Priority(n, c) \in Nat
    BY <1>3, <1>4, <1>5
  <2>2. CASE c \in B
    <3>1. Priority(n, c) = p /\ ValuesPrecede(ValueKeys(n, b), ValueKeys(n, c))
      BY <1>5, <1>12, <1>23, <2>2
    <3> QED
      BY <2>1, <3>1 DEF BindingPrecedes
  <2>3. CASE c \notin B
    BY <1>5, <2>1, <2>3 DEF BindingPrecedes
  <2> QED
    BY <2>2, <2>3
<1> QED
  BY <1>5, <1>24 DEF FirstBinding

-----------------------------------------------------------------------------
(* Places in canonical order.                                              *)

\* Where a function has a value.
Preimage(h, x) == {i \in DOMAIN h : h[i] = x}

\* Each member of a sequence is a token of its own.
ComesFrom(s, tokens) ==
    \E at \in [DOMAIN s -> DOMAIN tokens] :
        /\ \A i \in DOMAIN s : s[i] = tokens[at[i]]
        /\ \A i, j \in DOMAIN s : at[i] = at[j] => i = j

\* Sorted, each token is there as often as before.
LEMMA SortedTokens ==
    ASSUME NEW tokens, DOMAIN tokens \subseteq Nat \X Nat, IsFiniteSet(DOMAIN tokens),
           \A x \in DOMAIN tokens : tokens[x] \in AllTokens,
           NEW s, s = Canonical(tokens)
    PROVE  /\ s \in Seq(AllTokens) /\ IsFiniteSet(DOMAIN s) /\ Sorted(s)
           /\ ComesFrom(s, tokens)
           /\ \A x : Cardinality(Preimage(s, x)) = Cardinality(Preimage(tokens, x))
           /\ ToSet(s) = {tokens[c] : c \in DOMAIN tokens}
<1>1. PICK n : n = Cardinality(DOMAIN tokens)
  OBVIOUS
<1>2. n \in Nat
  BY <1>1, FS_CardinalityType
<1>3. PICK at \in Bijection(1..n, DOMAIN tokens) : s = [k \in 1..n |-> tokens[at[k]]]
  BY <1>1, CanonicalRearranges
<1>4. Sorted(s)
  BY CanonicalRearranges
<1>5. /\ at \in [1..n -> DOMAIN tokens]
      /\ \A i, j \in 1..n : at[i] = at[j] => i = j
      /\ \A c \in DOMAIN tokens : \E i \in 1..n : at[i] = c
  BY <1>3 DEF Bijection, Injection, Surjection, IsInjective
<1>6. DOMAIN s = 1..n /\ \A i \in 1..n : s[i] = tokens[at[i]]
  BY <1>3
<1>7. s \in Seq(AllTokens)
  <2>1. s \in [1..n -> AllTokens]
    BY <1>3, <1>5
  <2> QED
    BY <1>2, <2>1
<1>8. IsFiniteSet(1..n)
  BY <1>2, FS_Interval
<1>9. ASSUME NEW x
      PROVE  Cardinality({i \in 1..n : s[i] = x}) = Cardinality({c \in DOMAIN tokens : tokens[c] = x})
  <2>1. PICK P, Q : P = {i \in 1..n : s[i] = x} /\ Q = {c \in DOMAIN tokens : tokens[c] = x}
    OBVIOUS
  <2>2. PICK g : g = [i \in P |-> at[i]]
    OBVIOUS
  <2>3. g \in [P -> Q]
    BY <1>5, <1>6, <2>1, <2>2
  <2>4. \A i, j \in P : g[i] = g[j] => i = j
    BY <1>5, <2>1, <2>2
  <2>5. \A c \in Q : \E i \in P : g[i] = c
    BY <1>5, <1>6, <2>1, <2>2
  <2>6. g \in Bijection(P, Q)
    BY <2>3, <2>4, <2>5 DEF Bijection, Injection, Surjection, IsInjective
  <2>7. IsFiniteSet(P)
    BY <1>8, <2>1, FS_Subset
  <2>8. Cardinality(Q) = Cardinality(P)
    BY <2>6, <2>7, FS_Bijection DEF ExistsBijection
  <2> QED
    BY <2>1, <2>8
<1>10. ToSet(s) = {tokens[c] : c \in DOMAIN tokens}
  BY <1>5, <1>6 DEF ToSet
<1>11. ComesFrom(s, tokens)
  <2>1. at \in [DOMAIN s -> DOMAIN tokens]
    BY <1>5, <1>6
  <2>2. /\ \A i \in DOMAIN s : s[i] = tokens[at[i]]
        /\ \A i, j \in DOMAIN s : at[i] = at[j] => i = j
    BY <1>5, <1>6
  <2> QED
    BY <2>1, <2>2 DEF ComesFrom
<1>12. \A x : Cardinality(Preimage(s, x)) = Cardinality(Preimage(tokens, x))
  BY <1>6, <1>9 DEF Preimage
<1> QED
  BY <1>6, <1>7, <1>8, <1>10, <1>11, <1>12, <1>4

\* Identities are unique when no two places of tokens share one.
LEMMA UniqueMeans ==
    ASSUME NEW places
    PROVE  IdentitiesAreUnique(places) <=>
              \A p, q \in DOMAIN places : \A i \in DOMAIN places[p], j \in DOMAIN places[q] :
                 places[p][i].id # None /\ places[p][i].id = places[q][j].id => p = q /\ i = j
<1>1. \A x : x \in Identified(places) <=>
         \E p \in DOMAIN places : \E i \in DOMAIN places[p] :
            x = <<p, i>> /\ places[p][i].id # None
  BY DEF Identified
<1>2. ASSUME IdentitiesAreUnique(places),
             NEW p \in DOMAIN places, NEW q \in DOMAIN places,
             NEW i \in DOMAIN places[p], NEW j \in DOMAIN places[q],
             places[p][i].id # None, places[p][i].id = places[q][j].id
      PROVE  p = q /\ i = j
  <2>1. PICK x, y : x = <<p, i>> /\ y = <<q, j>>
    OBVIOUS
  <2>2. x \in Identified(places) /\ y \in Identified(places)
    BY <1>1, <1>2, <2>1
  <2>3. x[1] = p /\ x[2] = i /\ y[1] = q /\ y[2] = j
    BY <2>1
  <2>4. x = y
    BY <1>2, <2>2, <2>3 DEF IdentitiesAreUnique
  <2> QED
    BY <2>3, <2>4
<1>3. ASSUME \A p, q \in DOMAIN places : \A i \in DOMAIN places[p], j \in DOMAIN places[q] :
                places[p][i].id # None /\ places[p][i].id = places[q][j].id => p = q /\ i = j,
             NEW x \in Identified(places), NEW y \in Identified(places),
             places[x[1]][x[2]].id = places[y[1]][y[2]].id
      PROVE  x = y
  <2>1. PICK p \in DOMAIN places : \E i \in DOMAIN places[p] : x = <<p, i>> /\ places[p][i].id # None
    BY <1>1
  <2>2. PICK i \in DOMAIN places[p] : x = <<p, i>> /\ places[p][i].id # None
    BY <2>1
  <2>3. PICK q \in DOMAIN places : \E j \in DOMAIN places[q] : y = <<q, j>> /\ places[q][j].id # None
    BY <1>1
  <2>4. PICK j \in DOMAIN places[q] : y = <<q, j>>
    BY <2>3
  <2> QED
    BY <1>3, <2>2, <2>4
<1> QED
  BY <1>2, <1>3 DEF IdentitiesAreUnique

\* A marking of sorted places keeps what its tokens were.
LEMMA SortedPlaces ==
    ASSUME NEW items,
           \A p \in DOMAIN items :
              /\ DOMAIN items[p] \subseteq Nat \X Nat /\ IsFiniteSet(DOMAIN items[p])
              /\ \A x \in DOMAIN items[p] : items[p][x] \in AllTokens,
           \A p, q \in DOMAIN items : \A x \in DOMAIN items[p], y \in DOMAIN items[q] :
              items[p][x].id # None /\ items[p][x].id = items[q][y].id => p = q /\ x = y,
           NEW places, places = [p \in DOMAIN items |-> Canonical(items[p])]
    PROVE  /\ \A p \in DOMAIN places : places[p] \in Seq(AllTokens) /\ Sorted(places[p])
           /\ IdentitiesAreUnique(places)
<1>1. DOMAIN places = DOMAIN items /\ \A p \in DOMAIN items : places[p] = Canonical(items[p])
  OBVIOUS
<1>2. \A p \in DOMAIN items :
         /\ places[p] \in Seq(AllTokens) /\ Sorted(places[p])
         /\ \E at \in [DOMAIN places[p] -> DOMAIN items[p]] :
               /\ \A i \in DOMAIN places[p] : places[p][i] = items[p][at[i]]
               /\ \A i, j \in DOMAIN places[p] : at[i] = at[j] => i = j
  <2> TAKE p \in DOMAIN items
  <2>1. PICK s, tokens : s = places[p] /\ tokens = items[p]
    OBVIOUS
  <2>2. s = Canonical(tokens)
    BY <1>1, <2>1
  <2>3. s \in Seq(AllTokens) /\ Sorted(s) /\ ComesFrom(s, tokens)
    <3>1. /\ DOMAIN tokens \subseteq Nat \X Nat /\ IsFiniteSet(DOMAIN tokens)
          /\ \A x \in DOMAIN tokens : tokens[x] \in AllTokens
      BY <2>1
    <3> QED
      BY <2>2, <3>1, SortedTokens
  <2>4. PICK at \in [DOMAIN s -> DOMAIN tokens] :
           /\ \A i \in DOMAIN s : s[i] = tokens[at[i]]
           /\ \A i, j \in DOMAIN s : at[i] = at[j] => i = j
    BY <2>3 DEF ComesFrom
  <2>5. /\ at \in [DOMAIN places[p] -> DOMAIN items[p]]
        /\ \A i \in DOMAIN places[p] : places[p][i] = items[p][at[i]]
        /\ \A i, j \in DOMAIN places[p] : at[i] = at[j] => i = j
    BY <2>1, <2>4
  <2>6. places[p] \in Seq(AllTokens) /\ Sorted(places[p])
    BY <2>1, <2>3
  <2> QED
    BY <2>5, <2>6
<1>3. ASSUME NEW p \in DOMAIN places, NEW q \in DOMAIN places,
             NEW i \in DOMAIN places[p], NEW j \in DOMAIN places[q],
             places[p][i].id # None, places[p][i].id = places[q][j].id
      PROVE  p = q /\ i = j
  <2>1. PICK a \in [DOMAIN places[p] -> DOMAIN items[p]] :
           /\ \A k \in DOMAIN places[p] : places[p][k] = items[p][a[k]]
           /\ \A k, l \in DOMAIN places[p] : a[k] = a[l] => k = l
    BY <1>1, <1>2
  <2>2. PICK b \in [DOMAIN places[q] -> DOMAIN items[q]] :
           /\ \A k \in DOMAIN places[q] : places[q][k] = items[q][b[k]]
           /\ \A k, l \in DOMAIN places[q] : b[k] = b[l] => k = l
    BY <1>1, <1>2
  <2>3. p = q
    BY <1>1, <1>3, <2>1, <2>2
  <2>4. places[p][j] = items[p][a[j]]
    BY <2>1, <2>3
  <2>5. a[i] = a[j]
    BY <1>1, <1>3, <2>1, <2>3, <2>4
  <2> QED
    BY <2>1, <2>3, <2>5
<1>4. IdentitiesAreUnique(places)
  BY <1>3, UniqueMeans
<1> QED
  BY <1>1, <1>2, <1>4

MarkingInv ==
    /\ ValidMarking(net, marking)
    /\ TokensTyped(net, marking)
    /\ IdentitiesAreUnique(marking.places)
    /\ \A p \in DOMAIN marking.places : Sorted(marking.places[p])

\* The marking that a caller begins with is typed, valid and sorted.
LEMMA FirstMarking == Init => MarkingInv
<1> SUFFICES ASSUME Init
             PROVE  MarkingInv
  OBVIOUS
<1>1. PICK given : given = InitialPlaces(net)
  OBVIOUS
<1>2. /\ net \in Nets /\ DOMAIN given = DOMAIN net.places
      /\ \A p \in DOMAIN given : given[p] \in Seq(AllTokens)
      /\ \A p \in DOMAIN given : \A i \in DOMAIN given[p] : AdmitsToken(net, p, given[p][i])
      /\ IdentitiesAreUnique(given)
  BY <1>1, NetsAssumption DEF Init, ValidMarking
<1>3. PICK items : items = [p \in DOMAIN net.places |-> Listed(given[p])]
  OBVIOUS
<1>4. /\ marking.definition = net.name
      /\ marking.places = [p \in DOMAIN items |-> Canonical(items[p])]
  BY <1>1, <1>3 DEF Init, Marking
<1>5. ASSUME NEW p \in DOMAIN items
      PROVE  /\ DOMAIN items[p] \subseteq Nat \X Nat /\ IsFiniteSet(DOMAIN items[p])
             /\ \A x \in DOMAIN items[p] : /\ items[p][x] \in AllTokens
                                           /\ AdmitsToken(net, p, items[p][x])
                                           /\ x[2] \in DOMAIN given[p] /\ x = <<0, x[2]>>
                                           /\ items[p][x] = given[p][x[2]]
  <2>1. p \in DOMAIN net.places /\ items[p] = Listed(given[p])
    BY <1>3
  <2>2. DOMAIN items[p] = {0} \X DOMAIN given[p] /\ \A x \in DOMAIN items[p] : items[p][x] = given[p][x[2]]
    BY <2>1 DEF Listed
  <2>3. PICK k \in Nat : DOMAIN given[p] = 1..k
    BY <1>2, <2>1
  <2>4. IsFiniteSet({0}) /\ IsFiniteSet(DOMAIN given[p])
    <3>1. IsFiniteSet({0})
      BY FS_Singleton
    <3>2. IsFiniteSet(1..k)
      BY FS_Interval
    <3> QED
      BY <2>3, <3>1, <3>2
  <2>5. IsFiniteSet({0} \X DOMAIN given[p])
    BY <2>4, FS_Product
  <2>6. \A i \in DOMAIN given[p] : given[p][i] \in AllTokens /\ AdmitsToken(net, p, given[p][i])
    BY <1>2, <2>1
  <2> QED
    BY <2>2, <2>3, <2>5, <2>6
<1>6. ASSUME NEW p \in DOMAIN items, NEW q \in DOMAIN items,
             NEW x \in DOMAIN items[p], NEW y \in DOMAIN items[q],
             items[p][x].id # None, items[p][x].id = items[q][y].id
      PROVE  p = q /\ x = y
  <2>1. p \in DOMAIN given /\ q \in DOMAIN given
    BY <1>2, <1>3
  <2>2. p = q /\ x[2] = y[2]
    BY <1>2, <1>5, <1>6, <2>1, UniqueMeans
  <2> QED
    BY <1>5, <2>2
<1>7. /\ \A p \in DOMAIN marking.places :
            marking.places[p] \in Seq(AllTokens) /\ Sorted(marking.places[p])
      /\ IdentitiesAreUnique(marking.places)
  BY <1>4, <1>5, <1>6, SortedPlaces
<1>8. DOMAIN marking.places = DOMAIN net.places
  BY <1>3, <1>4
<1>9. ASSUME NEW p \in DOMAIN marking.places, NEW i \in DOMAIN marking.places[p]
      PROVE  AdmitsToken(net, p, marking.places[p][i])
  <2>1. p \in DOMAIN items /\ marking.places[p] = Canonical(items[p])
    BY <1>4, <1>9
  <2>2. PICK at \in [DOMAIN marking.places[p] -> DOMAIN items[p]] :
           \A k \in DOMAIN marking.places[p] : marking.places[p][k] = items[p][at[k]]
    <3>1. PICK s, tokens : s = marking.places[p] /\ tokens = items[p]
      OBVIOUS
    <3>2. s = Canonical(tokens)
      BY <2>1, <3>1
    <3>3. ComesFrom(s, tokens)
      <4>1. /\ DOMAIN tokens \subseteq Nat \X Nat /\ IsFiniteSet(DOMAIN tokens)
            /\ \A x \in DOMAIN tokens : tokens[x] \in AllTokens
        BY <1>5, <2>1, <3>1
      <4> QED
        BY <3>2, <4>1, SortedTokens
    <3>4. PICK at \in [DOMAIN s -> DOMAIN tokens] : \A k \in DOMAIN s : s[k] = tokens[at[k]]
      BY <3>3 DEF ComesFrom
    <3> QED
      BY <3>1, <3>4
  <2> QED
    BY <1>5, <1>9, <2>1, <2>2
<1> QED
  BY <1>4, <1>7, <1>8, <1>9 DEF MarkingInv, ValidMarking, TokensTyped

-----------------------------------------------------------------------------
(* A current selection fires.                                              *)

\* What is selected is enabled.
LEMMA SelectedIsEnabled ==
    ASSUME NEW n, NEW m, IsNet(n), ValidDefinition(n), TokensTyped(n, m),
           NEW e, e = Enablement(n, m, Supported, Supported),
           NEW d, NEW s, s = Selection(n, e, d), s.outcome = "selected"
    PROVE  /\ e.outcome = "enabled" /\ ValidMarking(n, m)
           /\ s.binding \in FeasibleBindings(n, m) /\ GuardOf(n, s.binding) = "true"
<1>1. PICK o : o = SelectionOutcome(n, e, d)
  OBVIOUS
<1>2. /\ o = "selected"
      /\ s.binding = IF d # None THEN d.binding ELSE FirstBinding(e.definition, e.bindings)
  BY <1>1 DEF Selection
<1>3. /\ e.outcome = "enabled"
      /\ d # None => d.binding \in e.bindings
      /\ d = None => e.bindings # {}
  BY <1>1, <1>2 DEF SelectionOutcome
<1>4. PICK x : x = EnablementOutcome(n, m, Supported, Supported)
  OBVIOUS
<1>5. /\ x = "enabled" /\ e.definition = n
      /\ e.bindings = {b \in FeasibleBindings(n, m) : GuardOf(n, b) = "true"}
  BY <1>3, <1>4 DEF Enablement
<1>6. ValidMarking(n, m)
  BY <1>4, <1>5 DEF EnablementOutcome
<1>7. e.bindings \in SUBSET FeasibleBindings(n, m)
  BY <1>5
<1>8. s.binding \in e.bindings
  <2>1. CASE d # None
    BY <1>2, <1>3, <2>1
  <2>2. CASE d = None
    <3>1. FirstBinding(n, e.bindings) \in e.bindings
      BY <1>3, <1>7, <2>2, SomeBindingIsFirst
    <3> QED
      BY <1>2, <1>5, <2>2, <3>1
  <2> QED
    BY <2>1, <2>2
<1> QED
  BY <1>3, <1>5, <1>6, <1>8

\* A feasible binding comes from an assignment of an uninhibited transition.
LEMMA FeasibleIsAssigned ==
    ASSUME NEW n, NEW m, IsNet(n), ValidDefinition(n), TokensTyped(n, m),
           NEW b \in FeasibleBindings(n, m)
    PROVE  /\ b.transition \in DOMAIN n.transitions
           /\ ~ Inhibited(n, b.transition, TokensAt(m))
           /\ \E f \in Assignments(n, m, b.transition) : b = BindingOf(n, m, b.transition, f)
<1>1. PICK t \in DOMAIN n.transitions :
         ~ Inhibited(n, t, TokensAt(m)) /\ \E f \in Assignments(n, m, t) : b = BindingOf(n, m, t, f)
  BY DEF FeasibleBindings
<1>2. b.transition = t
  BY <1>1 DEF BindingOf
<1> QED
  BY <1>1, <1>2

\* The tokens of an enabled binding are found again.
LEMMA EnabledIsReconstructed ==
    ASSUME NEW n, NEW m, IsNet(n), ValidDefinition(n), TokensTyped(n, m),
           NEW b \in FeasibleBindings(n, m)
    PROVE  Reconstruct(n, m, b) # {}
<1>1. PICK t : t = b.transition
  OBVIOUS
<1>2. PICK S : S = {f \in Assignments(n, m, t) : BindingOf(n, m, t, f) = b}
  OBVIOUS
<1>3. S # {} /\ ~ Inhibited(n, t, TokensAt(m))
  BY <1>1, <1>2, FeasibleIsAssigned
<1>4. PICK D : D = Demands(n, t)
  OBVIOUS
<1>5. D \subseteq Nat \X Nat /\ IsFiniteSet(D)
  BY <1>4, DemandsAreFinite
<1>6. \A f \in S : f = [d \in D |-> f[d]] /\ \A d \in D : f[d] \in Nat
  BY <1>2, <1>4, AssignedTokens
<1>7. Least(S) # {}
  BY <1>3, <1>5, <1>6, SomeIsLeast
<1> QED
  BY <1>1, <1>2, <1>3, <1>7 DEF Reconstruct

\* What firing reconstructs is an assignment that makes the binding.
LEMMA ReconstructedIsAssigned ==
    ASSUME NEW n, NEW m, NEW b, NEW f \in Reconstruct(n, m, b)
    PROVE  /\ ~ Inhibited(n, b.transition, TokensAt(m))
           /\ f \in Assignments(n, m, b.transition) /\ BindingOf(n, m, b.transition, f) = b
<1>1. PICK S : S = {g \in Assignments(n, m, b.transition) : BindingOf(n, m, b.transition, g) = b}
  OBVIOUS
<1>2. f \in Least(S) /\ ~ Inhibited(n, b.transition, TokensAt(m))
  BY <1>1 DEF Reconstruct
<1>3. f \in S
  BY <1>2 DEF Least
<1> QED
  BY <1>1, <1>2, <1>3

\* Values from outside come in the declared order.
LEMMA ExternalsAreExact ==
    ASSUME NEW t \in DOMAIN net.transitions, IsNet(net), NEW external \in ExternalBindings(t)
    PROVE  ExternalsExact(net, t, external)
<1>1. PICK variables : variables = net.transitions[t].externals
  OBVIOUS
<1>2. PICK f : external = [transition |-> t,
                           assignments |-> [i \in DOMAIN variables |->
                              [variable |-> variables[i], value |-> f[i]]]]
  BY <1>1 DEF ExternalBindings
<1>3. variables = [i \in DOMAIN variables |-> variables[i]]
  BY <1>1, TupleDomain DEF IsNet
<1>4. PICK a : a = external.assignments
  OBVIOUS
<1>5. DOMAIN a = DOMAIN variables /\ \A i \in DOMAIN variables : a[i].variable = variables[i]
  BY <1>2, <1>4
<1>6. [i \in DOMAIN a |-> a[i].variable] = variables
  BY <1>3, <1>5
<1> QED
  BY <1>1, <1>2, <1>4, <1>6 DEF ExternalsExact

\* A firing with its tokens found fails only for what it would produce.
LEMMA FiredOutcomes ==
    ASSUME NEW n, NEW m, NEW b, NEW external, NEW f
    PROVE  Fired(n, m, b, external, f).outcome \in
              {"success", "output_evaluation_failed",
               "token_identity_collision", "produced_token_invalid"}
<1>1. \A code : Failed(code).outcome = code
  BY DEF Failed
<1> QED
  BY <1>1 DEF Fired

TypedInv == IInv /\ MarkingInv /\ firings <= MaxFirings

\* What was selected from the current marking finds its tokens again: the order
\* in which firing checks leaves only the failures of what it would produce.
LEMMA CurrentFires ==
    ASSUME TypedInv, NEW c \in Holders, held[c].since = firings,
           held[c].selection.enablement.definition = net,
           NEW external \in ExternalBindings(held[c].selection.binding.transition)
    PROVE  Firing(Held(c, external)).outcome \in
              {"success", "output_evaluation_failed",
               "token_identity_collision", "produced_token_invalid"}
<1>1. PICK s, e : s = held[c].selection /\ e = s.enablement
  OBVIOUS
<1>2. /\ SelectionInv(s) /\ e.definition = net /\ e.marking = marking
  BY <1>1 DEF TypedInv, IInv, HeldInv
<1>3. /\ s.outcome = "selected"
      /\ s = Selection(net, e, s.directive)
      /\ e = Enablement(net, marking, Supported, Supported)
  BY <1>1, <1>2 DEF SelectionInv
<1>4. IsNet(net) /\ ValidDefinition(net) /\ TokensTyped(net, marking)
  BY NetsAssumption DEF TypedInv, IInv, MarkingInv
<1>5. ValidMarking(net, marking) /\ s.binding \in FeasibleBindings(net, marking)
  BY <1>3, <1>4, SelectedIsEnabled
<1>6. Reconstruct(net, marking, s.binding) # {}
  BY <1>4, <1>5, EnabledIsReconstructed
<1>7. ExternalsExact(net, s.binding.transition, external)
  BY <1>1, <1>4, <1>5, FeasibleIsAssigned, ExternalsAreExact
<1>8. PICK i : i = Held(c, external)
  OBVIOUS
<1>9. /\ i.definition = net /\ i.marking = marking /\ i.enablement = e /\ i.selection = s
      /\ i.binding = s.binding /\ i.transition = s.binding.transition
      /\ i.directive = s.directive /\ i.external = external
  BY <1>1, <1>8 DEF Held
<1>10. PICK f : f = CHOOSE g \in Reconstruct(net, marking, s.binding) : TRUE
  OBVIOUS
<1>11. Firing(i) = Fired(net, marking, s.binding, external, f)
  BY <1>3, <1>4, <1>5, <1>6, <1>7, <1>9, <1>10 DEF Firing
<1> QED
  BY <1>8, <1>11, FiredOutcomes

-----------------------------------------------------------------------------
(* What a firing makes.                                                    *)

\* The slots of a transition are finitely many coordinates of templates.
LEMMA SlotsAreFinite ==
    ASSUME NEW n, IsNet(n), NEW t
    PROVE  /\ Slots(n, t) \subseteq Nat \X Nat /\ IsFiniteSet(Slots(n, t))
           /\ \A s \in Slots(n, t) : /\ s[1] \in DOMAIN n.arcs /\ s[1] # 0
                                     /\ Arc(n, s).mode = "produce"
                                     /\ Arc(n, s).transition = t
                                     /\ s[2] \in DOMAIN Arc(n, s).templates
<1>1. PICK A : A = ArcsOf(n, t, {"produce"})
  OBVIOUS
<1>2. PICK I : I = [a \in A |-> DOMAIN n.arcs[a].templates]
  OBVIOUS
<1>3. A \subseteq DOMAIN n.arcs /\ \A a \in A : n.arcs[a].transition = t /\ n.arcs[a].mode = "produce"
  BY <1>1 DEF ArcsOf
<1>4. PICK l \in Nat : DOMAIN n.arcs = 1..l
  BY TupleDomain DEF IsNet
<1>5. A \subseteq Nat /\ IsFiniteSet(A) /\ 0 \notin A
  BY <1>3, <1>4, FS_Interval, FS_Subset
<1>6. ASSUME NEW a \in A
      PROVE  I[a] \subseteq Nat /\ IsFiniteSet(I[a])
  <2>1. IsTuple(n.arcs[a].templates)
    BY <1>3 DEF IsNet
  <2>2. PICK k \in Nat : I[a] = 1..k
    BY <1>2, <2>1, TupleDomain
  <2>3. IsFiniteSet(1..k)
    BY FS_Interval
  <2> QED
    BY <2>2, <2>3
<1>7. Slots(n, t) = UNION {{<<a, i>> : i \in I[a]} : a \in A}
  BY <1>1, <1>2 DEF Slots
<1>8. IsFiniteSet(Slots(n, t))
  <2>1. \A a \in A : IsFiniteSet(I[a])
    BY <1>6
  <2>2. IsFiniteSet(A)
    BY <1>5
  <2>3. IsFiniteSet(UNION {{<<a, i>> : i \in I[a]} : a \in A})
    BY <2>1, <2>2, FiniteCoordinates
  <2> QED
    BY <1>7, <2>3
<1>9. ASSUME NEW d \in Slots(n, t)
      PROVE  d[1] \in A /\ d[2] \in I[d[1]] /\ d = <<d[1], d[2]>>
  BY <1>7
<1>10. Slots(n, t) \subseteq Nat \X Nat
  BY <1>5, <1>6, <1>9
<1> QED
  BY <1>2, <1>3, <1>5, <1>8, <1>9, <1>10 DEF Arc

\* What a template makes of values is a token.
LEMMA ProducedIsToken ==
    ASSUME NEW n, IsNet(n), ValidDefinition(n), NEW t \in DOMAIN n.transitions,
           NEW s \in Slots(n, t),
           NEW values \in [Inputs(n, t) \cup Externals(n, t) -> Values],
           Evaluates(Template(n, s), values)
    PROVE  Produce(Template(n, s), values) \in AllTokens
<1>1. PICK arc, i : arc = Arc(n, s) /\ i = s[2]
  OBVIOUS
<1>2. PICK x : x = Template(n, s)
  OBVIOUS
<1>3. /\ s[1] \in DOMAIN n.arcs /\ arc = n.arcs[s[1]]
      /\ arc.mode = "produce" /\ arc.transition = t /\ i \in DOMAIN arc.templates
      /\ x = arc.templates[i]
  BY <1>1, <1>2, SlotsAreFinite DEF Arc, Template
<1>4. ValidOutputArc(n, arc)
  BY <1>3 DEF ValidDefinition
<1>5. /\ AdmitsColor(n, arc.place, x.color)
      /\ Variables(x.value) \subseteq Inputs(n, t) \cup Externals(n, t)
      /\ x.identity # None => Variables(x.identity) \subseteq Inputs(n, t) \cup Externals(n, t)
  BY <1>3, <1>4 DEF ValidOutputArc
<1>6. HasValues(x)
  BY <1>3 DEF IsNet
<1>7. x.color \in Nat
  BY <1>5 DEF AdmitsColor, IsNet
<1>8. EvaluateValue(x.value, values) \in Values
  BY <1>5, <1>6 DEF HasValues, EvaluateValue, Variables
<1>9. x.identity # None => EvaluateValue(x.identity, values) \in Values
  BY <1>5, <1>6 DEF HasValues, EvaluateValue, Variables
<1> QED
  BY <1>2, <1>7, <1>8, <1>9 DEF Evaluates, Produce, AllTokens, Values

\* The values from outside that a client offers.
FromOutside(i) ==
    \A k \in DOMAIN i.external.assignments :
        i.external.assignments[k].value \in ExternalValues

\* A client offers values from outside only.
LEMMA OffersAreFromOutside ==
    ASSUME IsNet(net), NEW c, held[c].selection.binding.transition \in DOMAIN net.transitions,
           NEW i \in Offers(c)
    PROVE  FromOutside(i)
<1>1. PICK t : t = held[c].selection.binding.transition
  OBVIOUS
<1>2. PICK external \in ExternalBindings(t) : i \in Exchanged(Held(c, external))
  BY <1>1 DEF Offers
<1>3. PICK h : h = Held(c, external)
  OBVIOUS
<1>4. PICK a : a = external.assignments
  OBVIOUS
<1>5. h.external = external /\ h.external.assignments = a
  BY <1>3, <1>4 DEF Held
<1>6. PICK variables : variables = net.transitions[t].externals
  OBVIOUS
<1>7. PICK f \in [DOMAIN variables -> ExternalValues] :
         external = [transition |-> t,
                     assignments |-> [k \in DOMAIN variables |->
                        [variable |-> variables[k], value |-> f[k]]]]
  BY <1>6 DEF ExternalBindings
<1>8. DOMAIN a = DOMAIN variables /\ \A k \in DOMAIN a : a[k].value \in ExternalValues
  BY <1>4, <1>7
<1>9. PICK l \in Nat : DOMAIN a = 1..l /\ a = [k \in 1..l |-> a[k]]
  <2>1. PICK l \in Nat : DOMAIN variables = 1..l
    BY <1>1, <1>6, TupleDomain DEF IsNet
  <2> QED
    BY <1>4, <1>7, <1>8, <2>1
<1>10. i.external.assignments = a \/ i.external.assignments = Reverse(a)
  <2>1. i = [h EXCEPT !.external.assignments = Reverse(@)] => i.external.assignments = Reverse(a)
    BY <1>3, <1>5, <1>7 DEF Held
  <2>2. i # [h EXCEPT !.external.assignments = Reverse(@)] => i.external.assignments = a
    <3>1. i = h \/ \E v : \/ i = [h EXCEPT !.definition = v]
                          \/ i = [h EXCEPT !.enablement = v]
                          \/ i = [h EXCEPT !.binding = v]
                          \/ i = [h EXCEPT !.transition = v]
                          \/ i = [h EXCEPT !.directive = v]
                          \/ i = [h EXCEPT !.external.assignments = Reverse(@)]
      BY <1>2, <1>3 DEF Exchanged
    <3>2. i = h \/ (\E v : i = [h EXCEPT !.definition = v])
          \/ (\E v : i = [h EXCEPT !.enablement = v])
          \/ (\E v : i = [h EXCEPT !.binding = v])
          \/ (\E v : i = [h EXCEPT !.transition = v])
          \/ (\E v : i = [h EXCEPT !.directive = v])
          => i.external = h.external
      BY <1>3 DEF Held
    <3> QED
      BY <1>5, <3>1, <3>2
  <2> QED
    BY <2>1, <2>2
<1>11. DOMAIN Reverse(a) = 1..l /\ \A k \in 1..l : Reverse(a)[k] = a[(l - k) + 1] /\ (l - k) + 1 \in 1..l
  <2>1. a \in Seq({a[k] : k \in 1..l}) /\ Len(a) = l
    <3>1. a \in [1..l -> {a[k] : k \in 1..l}]
      BY <1>9
    <3> QED
      BY <3>1
  <2> QED
    BY <2>1 DEF Reverse
<1> QED
  BY <1>8, <1>9, <1>10, <1>11 DEF FromOutside

Kept(f) == [p \in DOMAIN marking.places |-> Retained(marking, Consumed(net, f), p)]
Added(t, values) == [s \in Slots(net, t) |-> Produce(Template(net, s), values)]

\* A way for a transition to occur, and the marking it leads to.
Occurrence(t, f, values, next) ==
    /\ t \in DOMAIN net.transitions /\ ~ Inhibited(net, t, TokensAt(marking))
    /\ f \in Assignments(net, marking, t)
    /\ GuardOf(net, BindingOf(net, marking, t, f)) = "true"
    /\ values \in [Inputs(net, t) \cup Externals(net, t) -> Values]
    /\ \A v \in Inputs(net, t) : values[v] = BindingOf(net, marking, t, f).values[v]
    /\ \A v \in Externals(net, t) \ Inputs(net, t) : values[v] \in ExternalValues
    /\ \A s \in Slots(net, t) : Evaluates(Template(net, s), values)
    /\ ~ Collides(marking, Kept(f), Added(t, values))
    /\ next = Successor(net, marking, Kept(f), Added(t, values))
    /\ ValidMarking(net, next)

\* A firing that succeeds evaluates all templates, avoids every identity that
\* is kept, and leads to a valid successor.
LEMMA FiredDetails ==
    ASSUME NEW b, NEW external, NEW f, NEW fired,
           fired = Fired(net, marking, b, external, f), fired.outcome = "success",
           NEW values, values = Combined(b, external)
    PROVE  /\ \A s \in Slots(net, b.transition) : Evaluates(Template(net, s), values)
           /\ ~ Collides(marking, Kept(f), Added(b.transition, values))
           /\ fired.marking = Successor(net, marking, Kept(f), Added(b.transition, values))
           /\ ValidMarking(net, fired.marking)
<1>1. PICK kept, added : kept = Kept(f) /\ added = Added(b.transition, values)
  OBVIOUS
<1>2. \A code : Failed(code).outcome = code
  BY DEF Failed
<1>3. PICK successor : successor = Successor(net, marking, kept, added)
  OBVIOUS
<1>4. fired = IF \E s \in Slots(net, b.transition) : ~ Evaluates(Template(net, s), values)
              THEN Failed("output_evaluation_failed")
              ELSE IF Collides(marking, kept, added) THEN Failed("token_identity_collision")
              ELSE IF ~ AdmitsSuccessor(net, successor) THEN Failed("produced_token_invalid")
              ELSE [outcome |-> "success", marking |-> successor]
  BY <1>1, <1>3 DEF Fired, Kept, Added
<1> QED
  BY <1>1, <1>2, <1>3, <1>4 DEF AdmitsSuccessor

\* The values of a firing are those of its binding and those from outside.
LEMMA CombinedValues ==
    ASSUME IsNet(net), NEW t \in DOMAIN net.transitions,
           NEW b, b.values \in [Inputs(net, t) -> Values],
           NEW i, FromOutside(i), NEW external, external = i.external,
           ExternalsExact(net, t, external),
           NEW values, values = Combined(b, external)
    PROVE  /\ values \in [Inputs(net, t) \cup Externals(net, t) -> Values]
           /\ \A v \in Inputs(net, t) : values[v] = b.values[v]
           /\ \A v \in Externals(net, t) \ Inputs(net, t) : values[v] \in ExternalValues
<1>1. PICK a : a = i.external.assignments
  OBVIOUS
<1>2. [k \in DOMAIN a |-> a[k].variable] = net.transitions[t].externals
  BY <1>1 DEF ExternalsExact
<1>3. {a[k].variable : k \in DOMAIN a} = Externals(net, t)
  BY <1>2 DEF Externals, ToSet
<1>4. \A k \in DOMAIN a : a[k].value \in ExternalValues
  BY <1>1 DEF FromOutside
<1>5. values = [v \in Inputs(net, t) \cup Externals(net, t) |->
                  IF v \in Inputs(net, t) THEN b.values[v]
                  ELSE a[CHOOSE k \in DOMAIN a : a[k].variable = v].value]
  BY <1>1, <1>3 DEF Combined
<1>6. ASSUME NEW v \in Externals(net, t)
      PROVE  a[CHOOSE k \in DOMAIN a : a[k].variable = v].value \in ExternalValues
  <2>1. \E k \in DOMAIN a : a[k].variable = v
    BY <1>3
  <2> QED
    BY <1>4, <2>1
<1> QED
  BY <1>5, <1>6, ExternalValuesAssumption

\* What fires occurs.
LEMMA FiringOccurs ==
    ASSUME TypedInv, NEW i, Firing(i).outcome = "success",
           i.definition = net, i.marking = marking, FromOutside(i)
    PROVE  \E t, f, values : Occurrence(t, f, values, Firing(i).marking)
<1>1. IsNet(net) /\ ValidDefinition(net) /\ TokensTyped(net, marking)
  BY NetsAssumption DEF TypedInv, IInv, MarkingInv
<1>2. PICK e, s, b, t : e = i.enablement /\ s = i.selection /\ b = i.binding /\ t = i.transition
  OBVIOUS
<1>3. /\ e = Enablement(net, marking, Supported, Supported)
      /\ s = Selection(net, e, s.directive) /\ s.outcome = "selected" /\ s.binding = b
      /\ t = b.transition /\ ExternalsExact(net, t, i.external)
  BY <1>2, FiringCompares
<1>4. PICK f \in Reconstruct(net, marking, b) : Firing(i) = Fired(net, marking, b, i.external, f)
  BY <1>2, FiringCompares
<1>5. b \in FeasibleBindings(net, marking) /\ GuardOf(net, b) = "true"
  BY <1>1, <1>3, SelectedIsEnabled
<1>6. t \in DOMAIN net.transitions
  BY <1>1, <1>3, <1>5, FeasibleIsAssigned
<1>7. /\ ~ Inhibited(net, t, TokensAt(marking))
      /\ f \in Assignments(net, marking, t) /\ BindingOf(net, marking, t, f) = b
  BY <1>3, <1>4, ReconstructedIsAssigned
<1>8. b.values \in [Inputs(net, t) -> Values]
  BY <1>1, <1>6, <1>7, BindingIsTyped
<1>9. PICK values : values = Combined(b, i.external)
  OBVIOUS
<1>10. /\ values \in [Inputs(net, t) \cup Externals(net, t) -> Values]
       /\ \A v \in Inputs(net, t) : values[v] = b.values[v]
       /\ \A v \in Externals(net, t) \ Inputs(net, t) : values[v] \in ExternalValues
  <2>1. IsNet(net) /\ ExternalsExact(net, t, i.external) /\ FromOutside(i)
    BY <1>1, <1>3
  <2>2. PICK external : external = i.external
    OBVIOUS
  <2>3. values = Combined(b, external) /\ ExternalsExact(net, t, external)
    BY <1>9, <2>1, <2>2
  <2> QED
    BY <1>6, <1>8, <1>9, <2>1, <2>2, <2>3, CombinedValues
<1>11. PICK fired : fired = Firing(i)
  OBVIOUS
<1>12. /\ \A x \in Slots(net, t) : Evaluates(Template(net, x), values)
       /\ ~ Collides(marking, Kept(f), Added(t, values))
       /\ fired.marking = Successor(net, marking, Kept(f), Added(t, values))
       /\ ValidMarking(net, fired.marking)
  BY <1>3, <1>4, <1>9, <1>11, FiredDetails
<1> QED
  BY <1>5, <1>6, <1>7, <1>10, <1>11, <1>12 DEF Occurrence

-----------------------------------------------------------------------------
(* The next marking.                                                       *)

\* The tokens of the next marking, by coordinates.
SlotsAt(t, p) == {s \in Slots(net, t) : Arc(net, s).place = p}
At(t, f, p) == {0} \X Kept(f)[p] \cup SlotsAt(t, p)
Items(t, f, values) ==
    [p \in DOMAIN marking.places |->
        [x \in At(t, f, p) |-> IF x \in Slots(net, t) THEN Added(t, values)[x]
                               ELSE marking.places[p][x[2]]]]

\* The next marking sorts, at each place, the tokens that are kept and added.
LEMMA NextPlaces ==
    ASSUME NEW t, NEW f, NEW values, NEW next, Occurrence(t, f, values, next)
    PROVE  /\ next.definition = net.name /\ next.name = SuccessorName(marking, next.places)
           /\ next.places = [p \in DOMAIN marking.places |-> Canonical(Items(t, f, values)[p])]
<1>1. PICK items : items = Items(t, f, values)
  OBVIOUS
<1>2. PICK kept, added : kept = Kept(f) /\ added = Added(t, values)
  OBVIOUS
<1>3. DOMAIN added = Slots(net, t)
  BY <1>2 DEF Added
<1>4. \A p \in DOMAIN marking.places :
         items[p] = [x \in {0} \X kept[p] \cup {s \in DOMAIN added : Arc(net, s).place = p} |->
                       IF x \in DOMAIN added THEN added[x] ELSE marking.places[p][x[2]]]
  BY <1>1, <1>2, <1>3 DEF Items, At, SlotsAt
<1>5. PICK places : places = [p \in DOMAIN marking.places |-> Canonical(items[p])]
  OBVIOUS
<1>6. next = Successor(net, marking, kept, added)
  BY <1>2 DEF Occurrence
<1>7. places = [p \in DOMAIN marking.places |->
                  Canonical([x \in {0} \X kept[p] \cup {s \in DOMAIN added : Arc(net, s).place = p} |->
                       IF x \in DOMAIN added THEN added[x] ELSE marking.places[p][x[2]]])]
  BY <1>4, <1>5
<1>8. next = [name |-> SuccessorName(marking, places), definition |-> net.name, places |-> places]
  BY <1>6, <1>7 DEF Successor
<1> QED
  BY <1>1, <1>5, <1>8

\* These are finitely many, each with a coordinate of its own.
LEMMA ItemsAreTokens ==
    ASSUME IsNet(net), ValidDefinition(net), MarkingInv,
           NEW t, NEW f, NEW values, NEW next, Occurrence(t, f, values, next),
           NEW items, items = Items(t, f, values), NEW p \in DOMAIN marking.places,
           NEW kept, kept = Kept(f)[p], NEW here, here = SlotsAt(t, p)
    PROVE  /\ DOMAIN items[p] = {0} \X kept \cup here
           /\ kept \subseteq DOMAIN marking.places[p] /\ kept \subseteq Nat /\ IsFiniteSet(kept)
           /\ IsFiniteSet(here) /\ here \subseteq Nat \X Nat
           /\ DOMAIN items[p] \subseteq Nat \X Nat /\ IsFiniteSet(DOMAIN items[p])
           /\ \A x \in {0} \X kept : x \notin Slots(net, t) /\ items[p][x] = marking.places[p][x[2]]
           /\ \A s \in here : items[p][s] = Produce(Template(net, s), values)
           /\ \A x \in DOMAIN items[p] : items[p][x] \in AllTokens
<1>1. t \in DOMAIN net.transitions
      /\ values \in [Inputs(net, t) \cup Externals(net, t) -> Values]
      /\ \A s \in Slots(net, t) : Evaluates(Template(net, s), values)
  BY DEF Occurrence
<1>2. /\ Slots(net, t) \subseteq Nat \X Nat /\ IsFiniteSet(Slots(net, t))
      /\ \A s \in Slots(net, t) : s[1] # 0
  BY SlotsAreFinite
<1>3. here \subseteq Slots(net, t) /\ IsFiniteSet(here)
  BY <1>2, FS_Subset DEF SlotsAt
<1>4. marking.places[p] \in Seq(AllTokens)
  BY DEF MarkingInv, TokensTyped
<1>5. kept \subseteq DOMAIN marking.places[p]
  BY DEF Kept, Retained
<1>6. kept \subseteq Nat /\ IsFiniteSet(kept)
  <2>1. PICK l \in Nat : DOMAIN marking.places[p] = 1..l
    BY <1>4
  <2>2. IsFiniteSet(1..l)
    BY FS_Interval
  <2>3. IsFiniteSet(kept)
    BY <1>5, <2>1, <2>2, FS_Subset
  <2> QED
    BY <1>5, <2>1, <2>3
<1>7. IsFiniteSet({0} \X kept)
  <2>1. IsFiniteSet({0})
    BY FS_Singleton
  <2> QED
    BY <1>6, <2>1, FS_Product
<1>8. items[p] = [x \in {0} \X kept \cup here |-> IF x \in Slots(net, t) THEN Added(t, values)[x]
                                                ELSE marking.places[p][x[2]]]
  BY DEF Items, At
<1>9. DOMAIN items[p] = {0} \X kept \cup here
  BY <1>8
<1>10. DOMAIN items[p] \subseteq Nat \X Nat
  BY <1>2, <1>3, <1>6, <1>9
<1>11. IsFiniteSet({0} \X kept \cup here)
  BY <1>3, <1>7, FS_Union
<1>12. ASSUME NEW x \in {0} \X kept
       PROVE  x \notin Slots(net, t) /\ items[p][x] = marking.places[p][x[2]] /\ items[p][x] \in AllTokens
  <2>1. x[1] = 0 /\ x[2] \in kept
    OBVIOUS
  <2>2. x \notin Slots(net, t)
    BY <1>2, <2>1
  <2>3. items[p][x] = marking.places[p][x[2]]
    BY <1>8, <2>2
  <2>4. marking.places[p][x[2]] \in AllTokens
    BY <1>4, <1>5, <2>1
  <2> QED
    BY <2>2, <2>3, <2>4
<1>13. ASSUME NEW s \in here
       PROVE  items[p][s] = Produce(Template(net, s), values) /\ items[p][s] \in AllTokens
  <2>1. s \in Slots(net, t)
    BY <1>3
  <2>2. items[p][s] = Produce(Template(net, s), values)
    BY <1>8, <2>1 DEF Added
  <2>3. Produce(Template(net, s), values) \in AllTokens
    BY <1>1, <2>1, ProducedIsToken
  <2> QED
    BY <2>2, <2>3
<1>14. \A x \in DOMAIN items[p] : items[p][x] \in AllTokens
  BY <1>9, <1>12, <1>13
<1> QED
  BY <1>2, <1>3, <1>5, <1>6, <1>9, <1>10, <1>11, <1>12, <1>13, <1>14

\* The next marking is typed, valid and sorted again, with unique identities.
LEMMA OccurrenceKeepsMarking ==
    ASSUME IsNet(net), ValidDefinition(net), MarkingInv,
           NEW t, NEW f, NEW values, NEW next, Occurrence(t, f, values, next)
    PROVE  /\ TokensTyped(net, next) /\ IdentitiesAreUnique(next.places) /\ ValidMarking(net, next)
           /\ \A p \in DOMAIN next.places : Sorted(next.places[p])
<1>1. PICK items : items = Items(t, f, values)
  OBVIOUS
<1>2. DOMAIN items = DOMAIN marking.places
  BY <1>1 DEF Items
<1>3. next.places = [p \in DOMAIN items |-> Canonical(items[p])]
  BY <1>1, <1>2, NextPlaces
<1>4. PICK here : here = [p \in DOMAIN items |-> SlotsAt(t, p)]
  OBVIOUS
<1>5. PICK kept : kept = Kept(f)
  OBVIOUS
<1>6. ASSUME NEW p \in DOMAIN items
      PROVE  /\ DOMAIN items[p] = {0} \X kept[p] \cup here[p]
             /\ kept[p] \subseteq DOMAIN marking.places[p]
             /\ DOMAIN items[p] \subseteq Nat \X Nat /\ IsFiniteSet(DOMAIN items[p])
             /\ \A x \in {0} \X kept[p] : items[p][x] = marking.places[p][x[2]]
             /\ \A s \in here[p] : items[p][s] = Produce(Template(net, s), values)
             /\ \A x \in DOMAIN items[p] : items[p][x] \in AllTokens
  <2>1. PICK k, h : k = kept[p] /\ h = here[p]
    OBVIOUS
  <2>2. k = Kept(f)[p] /\ h = SlotsAt(t, p)
    BY <1>4, <1>5, <2>1
  <2>3. p \in DOMAIN marking.places
    BY <1>2
  <2>4. /\ DOMAIN items[p] = {0} \X k \cup h
        /\ k \subseteq DOMAIN marking.places[p]
        /\ DOMAIN items[p] \subseteq Nat \X Nat /\ IsFiniteSet(DOMAIN items[p])
        /\ \A x \in {0} \X k : items[p][x] = marking.places[p][x[2]]
        /\ \A s \in h : items[p][s] = Produce(Template(net, s), values)
        /\ \A x \in DOMAIN items[p] : items[p][x] \in AllTokens
    BY <1>1, <2>2, <2>3, ItemsAreTokens
  <2> QED
    BY <2>1, <2>4
<1>7. ~ Collides(marking, kept, Added(t, values))
  BY <1>5 DEF Occurrence
<1>8. PICK added : added = Added(t, values)
  OBVIOUS
<1>9. /\ DOMAIN added = Slots(net, t) /\ DOMAIN kept = DOMAIN items
      /\ \A s \in Slots(net, t) : added[s] = Produce(Template(net, s), values)
  BY <1>2, <1>5, <1>8 DEF Added, Kept
<1>10. \A s, u \in Slots(net, t) :
          s # u => added[s].id = None \/ added[s].id # added[u].id
  BY <1>7, <1>8, <1>9 DEF Collides
<1>11. \A s \in Slots(net, t), p \in DOMAIN items : \A i \in kept[p] :
          added[s].id = None \/ added[s].id # marking.places[p][i].id
  BY <1>7, <1>8, <1>9 DEF Collides
<1>12. ASSUME NEW p \in DOMAIN items
       PROVE  /\ \A x \in {0} \X kept[p] : /\ x = <<0, x[2]>> /\ x[2] \in kept[p]
                                           /\ x[2] \in DOMAIN marking.places[p]
                                           /\ items[p][x] = marking.places[p][x[2]]
              /\ \A x \in here[p] : /\ x \in Slots(net, t) /\ Arc(net, x).place = p
                                    /\ items[p][x] = added[x]
  <2>1. ASSUME NEW x \in {0} \X kept[p]
        PROVE  x = <<0, x[2]>> /\ x[2] \in kept[p]
    OBVIOUS
  <2>2. \A x \in here[p] : x \in Slots(net, t) /\ Arc(net, x).place = p
    BY <1>4 DEF SlotsAt
  <2> QED
    BY <1>6, <1>9, <2>1, <2>2
<1>13. ASSUME NEW p \in DOMAIN items, NEW q \in DOMAIN items,
              NEW x \in DOMAIN items[p], NEW y \in DOMAIN items[q],
              items[p][x].id # None, items[p][x].id = items[q][y].id
       PROVE  p = q /\ x = y
  <2>1. x \in {0} \X kept[p] \/ x \in here[p]
    BY <1>6
  <2>2. y \in {0} \X kept[q] \/ y \in here[q]
    BY <1>6
  <2>3. CASE x \in {0} \X kept[p] /\ y \in {0} \X kept[q]
    <3>1. /\ x = <<0, x[2]>> /\ x[2] \in DOMAIN marking.places[p]
          /\ items[p][x] = marking.places[p][x[2]]
      BY <1>12, <2>3
    <3>2. /\ y = <<0, y[2]>> /\ y[2] \in DOMAIN marking.places[q]
          /\ items[q][y] = marking.places[q][y[2]]
      BY <1>12, <2>3
    <3>3. p = q /\ x[2] = y[2]
      BY <1>2, <1>13, <3>1, <3>2, UniqueMeans DEF MarkingInv
    <3> QED
      BY <3>1, <3>2, <3>3
  <2>4. CASE x \in here[p] /\ y \in here[q]
    <3>1. /\ x \in Slots(net, t) /\ Arc(net, x).place = p /\ items[p][x] = added[x]
      BY <1>12, <2>4
    <3>2. /\ y \in Slots(net, t) /\ Arc(net, y).place = q /\ items[q][y] = added[y]
      BY <1>12, <2>4
    <3>3. x = y
      BY <1>10, <1>13, <3>1, <3>2
    <3> QED
      BY <3>1, <3>2, <3>3
  <2>5. CASE x \in here[p] /\ y \in {0} \X kept[q]
    <3>1. x \in Slots(net, t) /\ items[p][x] = added[x]
      BY <1>12, <2>5
    <3>2. y[2] \in kept[q] /\ items[q][y] = marking.places[q][y[2]]
      BY <1>12, <2>5
    <3>3. added[x].id = None \/ added[x].id # marking.places[q][y[2]].id
      BY <1>11, <3>1, <3>2
    <3> QED
      BY <1>13, <3>1, <3>2, <3>3
  <2>6. CASE x \in {0} \X kept[p] /\ y \in here[q]
    <3>1. y \in Slots(net, t) /\ items[q][y] = added[y]
      BY <1>12, <2>6
    <3>2. x[2] \in kept[p] /\ items[p][x] = marking.places[p][x[2]]
      BY <1>12, <2>6
    <3>3. added[y].id = None \/ added[y].id # marking.places[p][x[2]].id
      BY <1>11, <3>1, <3>2
    <3> QED
      BY <1>13, <3>1, <3>2, <3>3
  <2> QED
    BY <2>1, <2>2, <2>3, <2>4, <2>5, <2>6
<1>14. /\ \A p \in DOMAIN next.places : next.places[p] \in Seq(AllTokens) /\ Sorted(next.places[p])
       /\ IdentitiesAreUnique(next.places)
  <2>1. \A p \in DOMAIN items :
           /\ DOMAIN items[p] \subseteq Nat \X Nat /\ IsFiniteSet(DOMAIN items[p])
           /\ \A x \in DOMAIN items[p] : items[p][x] \in AllTokens
    BY <1>6
  <2>2. \A p, q \in DOMAIN items : \A x \in DOMAIN items[p], y \in DOMAIN items[q] :
           items[p][x].id # None /\ items[p][x].id = items[q][y].id => p = q /\ x = y
    BY <1>13
  <2>3. PICK places : places = next.places
    OBVIOUS
  <2>4. places = [p \in DOMAIN items |-> Canonical(items[p])]
    BY <1>3, <2>3
  <2>5. /\ \A p \in DOMAIN places : places[p] \in Seq(AllTokens) /\ Sorted(places[p])
        /\ IdentitiesAreUnique(places)
    BY <2>1, <2>2, <2>4, SortedPlaces
  <2> QED
    BY <2>3, <2>5
<1>15. DOMAIN next.places = DOMAIN net.places
  BY <1>2, <1>3 DEF MarkingInv, TokensTyped
<1> QED
  BY <1>14, <1>15 DEF TokensTyped, Occurrence

-----------------------------------------------------------------------------
(* The marking stays valid.                                                *)

\* A firing that is committed occurs.
LEMMA FireOccurs ==
    ASSUME TypedInv, NEW c \in Clients, Fire(c)
    PROVE  net' = net /\ \E t, f, values : Occurrence(t, f, values, marking')
<1>1. PICK i \in Offers(c), plan \in Plans :
         /\ FiresUnder(plan, i) /\ MakesBundle(plan, i)
         /\ marking' = Firing(i).marking /\ UNCHANGED <<net, held>>
  BY DEF Fire
<1>2. i.marking = marking /\ i.selection = held[c].selection
  BY OffersAreOwn
<1>3. plan.definition = net
  BY DEF Plans, Plan
<1>4. i.definition = net /\ Firing(i).outcome = "success"
  BY <1>1, <1>3 DEF FiresUnder, MakesBundle
<1>5. IsNet(net) /\ ValidDefinition(net) /\ TokensTyped(net, marking)
  BY NetsAssumption DEF TypedInv, IInv, MarkingInv
<1>6. PICK e, s, b : e = i.enablement /\ s = i.selection /\ b = i.binding
  OBVIOUS
<1>7. /\ e = Enablement(net, marking, Supported, Supported)
      /\ s = Selection(net, e, s.directive) /\ s.outcome = "selected" /\ s.binding = b
  BY <1>2, <1>4, <1>6, FiringCompares
<1>8. b \in FeasibleBindings(net, marking)
  BY <1>5, <1>7, SelectedIsEnabled
<1>9. held[c].selection.binding.transition \in DOMAIN net.transitions
  BY <1>2, <1>5, <1>6, <1>7, <1>8, FeasibleIsAssigned
<1>10. FromOutside(i)
  BY <1>5, <1>9, OffersAreFromOutside
<1>11. \E t, f, values : Occurrence(t, f, values, Firing(i).marking)
  BY <1>2, <1>4, <1>10, FiringOccurs
<1> QED
  BY <1>1, <1>11

\* The marking stays typed, valid and sorted through every firing that commits.
THEOREM TypedInvariance == Spec => []TypedInv
<1>1. Init => TypedInv
  <2>1. Init => firings <= MaxFirings
    BY MaxFiringsAssumption DEF Init
  <2> QED
    BY <2>1, InitInvariant, FirstMarking DEF TypedInv
<1>2. TypedInv /\ [Next]_vars => TypedInv'
  <2> SUFFICES ASSUME TypedInv, [Next]_vars
               PROVE  TypedInv'
    OBVIOUS
  <2>1. IInv'
    BY NextKeeps DEF TypedInv
  <2>2. CASE UNCHANGED <<net, marking, firings>>
    BY <2>1, <2>2 DEF TypedInv, MarkingInv
  <2>3. CASE \E c \in Clients : Fire(c)
    <3>1. PICK c \in Clients : Fire(c)
      BY <2>3
    <3>2. net' = net /\ \E t, f, values : Occurrence(t, f, values, marking')
      BY <3>1, FireOccurs
    <3>3. PICK next : next = marking'
      OBVIOUS
    <3>4. PICK t, f, values : Occurrence(t, f, values, next)
      BY <3>2, <3>3
    <3>5. IsNet(net) /\ ValidDefinition(net) /\ MarkingInv
      BY NetsAssumption DEF TypedInv, IInv
    <3>6. /\ TokensTyped(net, next) /\ IdentitiesAreUnique(next.places) /\ ValidMarking(net, next)
          /\ \A p \in DOMAIN next.places : Sorted(next.places[p])
      BY <3>4, <3>5, OccurrenceKeepsMarking
    <3>7. MarkingInv'
      BY <3>2, <3>3, <3>6 DEF MarkingInv
    <3>8. firings' <= MaxFirings
      BY <3>1, MaxFiringsAssumption DEF Fire, TypedInv, IInv
    <3> QED
      BY <2>1, <3>7, <3>8 DEF TypedInv
  <2> QED
    BY <2>2, <2>3 DEF Next, Choose, vars
<1> QED
  BY <1>1, <1>2, PTL DEF Spec

\* The type invariant: the marking is a valid one of the net in use, with its
\* tokens in canonical order, whatever values come from outside.
THEOREM TypeCorrectness == Spec => []TypeOK
<1>1. TypedInv => TypeOK
  <2> SUFFICES ASSUME TypedInv
               PROVE  TypeOK
    OBVIOUS
  <2>1. \A p \in DOMAIN marking.places : marking.places[p] = Canonical(Listed(marking.places[p]))
    BY CanonicalAgain DEF TypedInv, MarkingInv, TokensTyped
  <2>2. firings \in 0..MaxFirings
    BY MaxFiringsAssumption DEF TypedInv, IInv
  <2>3. \A c \in Holders : held[c].selection.outcome = "selected" /\ held[c].since \in 0..firings
    BY DEF TypedInv, IInv, HeldInv, SelectionInv
  <2> QED
    BY <2>1, <2>2, <2>3 DEF TypeOK, TypedInv, IInv, MarkingInv
<1> QED
  BY <1>1, TypedInvariance, PTL

\* What was selected from the current marking can always be fired, but for the
\* tokens it would produce: reconstruction never loses a binding that enablement
\* found.
THEOREM CurrentSelectionsFire == Spec => []CurrentSelectionFires
<1>1. TypedInv => CurrentSelectionFires
  BY CurrentFires DEF CurrentSelectionFires
<1> QED
  BY <1>1, TypedInvariance, PTL

-----------------------------------------------------------------------------
(* Bags.                                                                   *)

\* How many copies of a thing a bag has.
Copies(B, x) == IF x \in DOMAIN B THEN B[x] ELSE 0

Counted(B) ==
    /\ B = [x \in DOMAIN B |-> B[x]]
    /\ \A x : /\ Copies(B, x) \in Nat
              /\ x \in DOMAIN B <=> Copies(B, x) # 0
              /\ x \in DOMAIN B => B[x] = Copies(B, x)

\* The bag of a function counts where it has a value.
LEMMA BagCounts ==
    ASSUME NEW h, IsFiniteSet(DOMAIN h), NEW B, B = BagOf(h)
    PROVE  /\ Counted(B) /\ DOMAIN B = {h[i] : i \in DOMAIN h}
           /\ \A x : Copies(B, x) = Cardinality(Preimage(h, x))
<1>1. DOMAIN B = {h[i] : i \in DOMAIN h}
      /\ \A x \in DOMAIN B : B[x] = Cardinality({i \in DOMAIN h : h[i] = x})
  BY DEF BagOf, ToSet
<1>2. B = [x \in DOMAIN B |-> B[x]]
  BY DEF BagOf, ToSet
<1>3. ASSUME NEW x
      PROVE  /\ Copies(B, x) = Cardinality({i \in DOMAIN h : h[i] = x})
             /\ Copies(B, x) \in Nat
             /\ x \in DOMAIN B <=> Copies(B, x) # 0
             /\ x \in DOMAIN B => B[x] = Copies(B, x)
  <2>1. PICK S : S = {i \in DOMAIN h : h[i] = x}
    OBVIOUS
  <2>2. IsFiniteSet(S) /\ Cardinality(S) \in Nat
    BY <2>1, FS_Subset, FS_CardinalityType
  <2>3. Cardinality(S) = 0 <=> S = {}
    BY <2>2, FS_EmptySet
  <2>4. x \in DOMAIN B <=> S # {}
    BY <1>1, <2>1
  <2>5. x \in DOMAIN B => B[x] = Cardinality(S)
    BY <1>1, <2>1
  <2>6. Copies(B, x) = Cardinality(S)
    BY <2>3, <2>4, <2>5 DEF Copies
  <2> QED
    BY <2>1, <2>2, <2>3, <2>4, <2>5, <2>6
<1> QED
  BY <1>1, <1>2, <1>3 DEF Counted, Preimage

\* Bags with the same counts are the same.
LEMMA SameCopies ==
    ASSUME NEW A, NEW B, Counted(A), Counted(B), \A x : Copies(A, x) = Copies(B, x)
    PROVE  A = B
<1>1. DOMAIN A = DOMAIN B
  BY DEF Counted
<1>2. \A x \in DOMAIN A : A[x] = B[x]
  BY <1>1 DEF Counted
<1> QED
  BY <1>1, <1>2 DEF Counted

\* Counts subtract.
LEMMA BagMinus ==
    ASSUME NEW A, NEW T, Counted(A), Counted(T), \A x : Copies(T, x) <= Copies(A, x)
    PROVE  Counted(A (-) T) /\ \A x : Copies(A (-) T, x) = Copies(A, x) - Copies(T, x)
<1>1. PICK D : D = [x \in DOMAIN A |-> IF x \in DOMAIN T THEN A[x] - T[x] ELSE A[x]]
  OBVIOUS
<1>2. PICK B : B = A (-) T
  OBVIOUS
<1>3. B = [x \in {y \in DOMAIN D : D[y] > 0} |-> D[x]]
  BY <1>1, <1>2 DEF \ominus
<1>4. \A x \in DOMAIN A : D[x] = Copies(A, x) - Copies(T, x)
  BY <1>1 DEF Counted, Copies
<1>5. DOMAIN D = DOMAIN A
  BY <1>1
<1>6. \A x : x \in DOMAIN B <=> x \in DOMAIN A /\ D[x] > 0
  BY <1>3, <1>5
<1>7. \A x \in DOMAIN B : B[x] = D[x]
  BY <1>3
<1>8. ASSUME NEW x
      PROVE  /\ Copies(B, x) = Copies(A, x) - Copies(T, x) /\ Copies(B, x) \in Nat
             /\ x \in DOMAIN B <=> Copies(B, x) # 0
             /\ x \in DOMAIN B => B[x] = Copies(B, x)
  <2>1. /\ Copies(A, x) \in Nat /\ Copies(T, x) \in Nat /\ Copies(T, x) <= Copies(A, x)
        /\ x \in DOMAIN A <=> Copies(A, x) # 0
    BY DEF Counted
  <2>2. x \in DOMAIN B => B[x] = Copies(A, x) - Copies(T, x) /\ Copies(A, x) - Copies(T, x) > 0
    BY <1>4, <1>6, <1>7
  <2>3. x \notin DOMAIN B => ~ (Copies(A, x) - Copies(T, x) > 0)
    BY <1>4, <1>6, <2>1
  <2>4. Copies(B, x) = IF x \in DOMAIN B THEN B[x] ELSE 0
    BY DEF Copies
  <2> QED
    BY <2>1, <2>2, <2>3, <2>4
<1>9. B = [x \in DOMAIN B |-> B[x]]
  BY <1>3
<1> QED
  BY <1>2, <1>8, <1>9 DEF Counted

\* Counts add.
LEMMA BagPlus ==
    ASSUME NEW A, NEW M, Counted(A), Counted(M)
    PROVE  Counted(A (+) M) /\ \A x : Copies(A (+) M, x) = Copies(A, x) + Copies(M, x)
<1>1. PICK B : B = A (+) M
  OBVIOUS
<1>2. B = [x \in DOMAIN A \cup DOMAIN M |-> Copies(A, x) + Copies(M, x)]
  BY <1>1 DEF \oplus, Copies
<1>3. ASSUME NEW x
      PROVE  /\ Copies(B, x) = Copies(A, x) + Copies(M, x) /\ Copies(B, x) \in Nat
             /\ x \in DOMAIN B <=> Copies(B, x) # 0
             /\ x \in DOMAIN B => B[x] = Copies(B, x)
  <2>1. /\ Copies(A, x) \in Nat /\ Copies(M, x) \in Nat
        /\ x \in DOMAIN A <=> Copies(A, x) # 0
        /\ x \in DOMAIN M <=> Copies(M, x) # 0
    BY DEF Counted
  <2>2. x \in DOMAIN B <=> x \in DOMAIN A \/ x \in DOMAIN M
    BY <1>2
  <2>3. x \in DOMAIN B => B[x] = Copies(A, x) + Copies(M, x)
    BY <1>2
  <2>4. Copies(B, x) = IF x \in DOMAIN B THEN B[x] ELSE 0
    BY DEF Copies
  <2> QED
    BY <2>1, <2>2, <2>3, <2>4
<1>4. B = [x \in DOMAIN B |-> B[x]]
  BY <1>2
<1> QED
  BY <1>1, <1>3, <1>4 DEF Counted

\* Two sets of the same number of members.
LEMMA SameNumber ==
    ASSUME NEW S, NEW T, IsFiniteSet(S), NEW g \in [S -> T],
           \A x, y \in S : g[x] = g[y] => x = y, \A y \in T : \E x \in S : g[x] = y
    PROVE  IsFiniteSet(T) /\ Cardinality(T) = Cardinality(S)
<1>1. g \in Bijection(S, T)
  BY DEF Bijection, Injection, Surjection, IsInjective
<1> QED
  BY <1>1, FS_Bijection DEF ExistsBijection

\* A set that embeds into another has no more members.
LEMMA NoMore ==
    ASSUME NEW S, NEW T, IsFiniteSet(T), NEW g \in [S -> T],
           \A x, y \in S : g[x] = g[y] => x = y
    PROVE  Cardinality(S) <= Cardinality(T)
<1>1. g \in Injection(S, T)
  BY DEF Injection, IsInjective
<1> QED
  BY <1>1, FS_Injection

-----------------------------------------------------------------------------
(* The formal net.                                                         *)

\* It has the same definition of a net.
LEMMA SharedDemands ==
    /\ \A n, t : Formal!Demands(n, t) = Demands(n, t) /\ Formal!Slots(n, t) = Slots(n, t)
    /\ \A n, t : Formal!Inputs(n, t) = Inputs(n, t) /\ Formal!Externals(n, t) = Externals(n, t)
    /\ \A n, d : Formal!Arc(n, d) = Arc(n, d) /\ Formal!Pattern(n, d) = Pattern(n, d)
                 /\ Formal!Template(n, d) = Template(n, d)
<1>1. \A n, t : Formal!Demands(n, t) = Demands(n, t) /\ Formal!Slots(n, t) = Slots(n, t)
  BY DEF Formal!Demands, Demands, Formal!Slots, Slots, Formal!ArcsOf, ArcsOf
<1>2. \A n, t : Formal!Inputs(n, t) = Inputs(n, t) /\ Formal!Externals(n, t) = Externals(n, t)
  BY DEF Formal!Inputs, Inputs, Formal!Externals, Externals, Formal!ToSet, ToSet
<1>3. \A n, d : Formal!Arc(n, d) = Arc(n, d) /\ Formal!Pattern(n, d) = Pattern(n, d)
                /\ Formal!Template(n, d) = Template(n, d)
  BY DEF Formal!Arc, Arc, Formal!Pattern, Pattern, Formal!Template, Template
<1> QED
  BY <1>1, <1>2, <1>3

\* It has the same expressions, guards and inhibitors.
LEMMA SharedExpressions ==
    /\ \A guard, values : Formal!EvaluateGuard(guard, values) = EvaluateGuard(guard, values)
    /\ \A n, t, at : Formal!Inhibited(n, t, at) <=> Inhibited(n, t, at)
    /\ \A n, p, x : Formal!AdmitsToken(n, p, x) <=> AdmitsToken(n, p, x)
    /\ \A x, values : /\ Formal!Evaluates(x, values) <=> Evaluates(x, values)
                      /\ Formal!Produce(x, values) = Produce(x, values)
<1>1. \A guard, values : Formal!EvaluateGuard(guard, values) = EvaluateGuard(guard, values)
  BY DEF Formal!EvaluateGuard, EvaluateGuard, Formal!EvaluateValue, EvaluateValue,
         Formal!IsLiteral, IsLiteral, Formal!FirstUnlike, FirstUnlike,
         Formal!Connectives, Connectives, Formal!Compare, Compare, Formal!Orderable, Orderable
<1>2. \A n, t, at : Formal!Inhibited(n, t, at) <=> Inhibited(n, t, at)
  BY DEF Formal!Inhibited, Inhibited, Formal!ArcsOf, ArcsOf
<1>3. \A n, p, x : Formal!AdmitsToken(n, p, x) <=> AdmitsToken(n, p, x)
  BY DEF Formal!AdmitsToken, AdmitsToken, Formal!AdmitsColor, AdmitsColor
<1>4. \A x, values : /\ Formal!Evaluates(x, values) <=> Evaluates(x, values)
                     /\ Formal!Produce(x, values) = Produce(x, values)
  BY DEF Formal!Produce, Produce, Formal!Evaluates, Evaluates,
         Formal!EvaluateValue, EvaluateValue, Formal!IsLiteral, IsLiteral
<1> QED
  BY <1>1, <1>2, <1>3, <1>4

\* It has the same bags.
LEMMA SharedBags ==
    /\ \A A, B : /\ Formal!\oplus(A, B) = A (+) B
                 /\ Formal!\ominus(A, B) = A (-) B
                 /\ Formal!\sqsubseteq(A, B) <=> A \sqsubseteq B
    /\ \A B : Formal!BagToSet(B) = DOMAIN B
  BY DEF Formal!\oplus, \oplus, Formal!\ominus, \ominus, Formal!\sqsubseteq, \sqsubseteq,
         Formal!BagToSet

\* It counts alike.
LEMMA SharedBagOf == \A h : Formal!BagOf(h) = BagOf(h)
BY DEF Formal!BagOf, BagOf, Formal!ToSet, ToSet, Formal!Cardinality, Cardinality

Takers(t, mode, p) == {d \in Demands(net, t) : Arc(net, d).place = p /\ Arc(net, d).mode = mode}

\* What is given to the demands of one mode at a place, and made there.
GivenTo(t, F, mode, p) == [d \in Takers(t, mode, p) |-> F[d]]
MadeAt(t, values, p) == [s \in SlotsAt(t, p) |-> Produce(Template(net, s), values)]

\* What it takes is the bag of what is given.
LEMMA TakenIs ==
    ASSUME NEW t, NEW F, NEW mode, NEW p
    PROVE  Formal!Taken(t, F, mode, p) = BagOf(GivenTo(t, F, mode, p))
<1>1. PICK S : S = Takers(t, mode, p)
  OBVIOUS
<1>2. S = {d \in Formal!Demands(net, t) : Formal!Arc(net, d).place = p /\ Formal!Arc(net, d).mode = mode}
  BY <1>1, SharedDemands DEF Takers
<1>3. Formal!Taken(t, F, mode, p) = Formal!BagOf([d \in S |-> F[d]])
  BY <1>2 DEF Formal!Taken
<1> QED
  BY <1>1, <1>3, SharedBagOf DEF GivenTo

\* What it makes is the bag of what is produced.
LEMMA MadeIs ==
    ASSUME NEW t, NEW values, NEW p
    PROVE  Formal!Made(t, values, p)
             = BagOf(MadeAt(t, values, p))
<1>1. PICK S : S = SlotsAt(t, p)
  OBVIOUS
<1>2. S = {s \in Formal!Slots(net, t) : Formal!Arc(net, s).place = p}
  BY <1>1, SharedDemands DEF SlotsAt
<1>3. PICK P : P = [s \in S |-> Produce(Template(net, s), values)]
  OBVIOUS
<1>4. P = [s \in S |-> Formal!Produce(Formal!Template(net, s), values)]
  BY <1>3, SharedDemands, SharedExpressions
<1>5. Formal!Made(t, values, p) = Formal!BagOf(P)
  BY <1>2, <1>4 DEF Formal!Made
<1> QED
  BY <1>1, <1>3, <1>5, SharedBagOf DEF MadeAt

\* Tokens that are admitted and unique are a well-formed marking.
LEMMA BagsAreWellFormed ==
    ASSUME NEW m, TokensTyped(net, m), ValidMarking(net, m), IdentitiesAreUnique(m.places),
           NEW bags, bags = [p \in DOMAIN m.places |-> BagOf(m.places[p])]
    PROVE  Formal!WellFormed(bags)
<1>1. ASSUME NEW p \in DOMAIN m.places
      PROVE  /\ IsFiniteSet(DOMAIN m.places[p]) /\ bags[p] = BagOf(m.places[p])
             /\ \A x \in DOMAIN bags[p] : \E i \in DOMAIN m.places[p] : x = m.places[p][i]
  <2>1. PICK k \in Nat : DOMAIN m.places[p] = 1..k
    BY DEF TokensTyped
  <2>2. IsFiniteSet(1..k)
    BY FS_Interval
  <2>3. PICK h, B : h = m.places[p] /\ B = bags[p]
    OBVIOUS
  <2>4. IsFiniteSet(DOMAIN h) /\ B = BagOf(h)
    BY <2>1, <2>2, <2>3
  <2>5. DOMAIN B = {h[i] : i \in DOMAIN h}
    BY <2>4, BagCounts
  <2> QED
    BY <2>3, <2>4, <2>5
<1>2. \A p \in DOMAIN m.places : \A x \in DOMAIN bags[p] : AdmitsToken(net, p, x)
  BY <1>1 DEF ValidMarking
<1>3. DOMAIN bags = DOMAIN m.places
  OBVIOUS
<1>4. \A B : Formal!BagToSet(B) = DOMAIN B
  BY SharedBags
<1>5. \A p \in DOMAIN bags : \A x \in Formal!BagToSet(bags[p]) : Formal!AdmitsToken(net, p, x)
  BY <1>2, <1>3, <1>4, SharedExpressions
<1>6. \A p, q \in DOMAIN bags : \A x \in Formal!BagToSet(bags[p]), y \in Formal!BagToSet(bags[q]) :
         x.id # None /\ x.id = y.id => p = q /\ x = y /\ bags[p][x] = 1
  <2> SUFFICES ASSUME NEW p \in DOMAIN bags, NEW q \in DOMAIN bags,
                      NEW x \in Formal!BagToSet(bags[p]), NEW y \in Formal!BagToSet(bags[q]),
                      x.id # None, x.id = y.id
               PROVE  p = q /\ x = y /\ bags[p][x] = 1
    OBVIOUS
  <2>1. x \in DOMAIN bags[p] /\ y \in DOMAIN bags[q] /\ p \in DOMAIN m.places /\ q \in DOMAIN m.places
    BY <1>3, <1>4
  <2>2. PICK i \in DOMAIN m.places[p] : x = m.places[p][i]
    BY <1>1, <2>1
  <2>3. PICK j \in DOMAIN m.places[q] : y = m.places[q][j]
    BY <1>1, <2>1
  <2>4. p = q /\ i = j
    BY <2>1, <2>2, <2>3, UniqueMeans
  <2>5. PICK S : S = {k \in DOMAIN m.places[p] : m.places[p][k] = x}
    OBVIOUS
  <2>6. \A k \in S : k = i
    BY <2>1, <2>2, <2>5, UniqueMeans
  <2>7. S = {i}
    BY <2>2, <2>5, <2>6
  <2>8. bags[p][x] = Cardinality(S)
    BY <1>1, <2>1, <2>5 DEF BagOf
  <2>9. Cardinality(S) = 1
    BY <2>7, FS_Singleton
  <2> QED
    BY <2>2, <2>3, <2>4, <2>8, <2>9
<1> QED
  BY <1>5, <1>6 DEF Formal!WellFormed

-----------------------------------------------------------------------------
(* A firing is a step of the formal net.                                   *)

\* The bag of a place counts its tokens.
LEMMA PlacesAreFinite ==
    ASSUME MarkingInv, NEW p \in DOMAIN marking.places, NEW S, S = marking.places[p]
    PROVE  /\ S \in Seq(AllTokens) /\ IsFiniteSet(DOMAIN S)
           /\ TokenBags[p] = BagOf(S)
           /\ Counted(BagOf(S)) /\ \A x : Copies(BagOf(S), x) = Cardinality(Preimage(S, x))
<1>1. S \in Seq(AllTokens)
  BY DEF MarkingInv, TokensTyped
<1>2. PICK k \in Nat : DOMAIN S = 1..k
  BY <1>1
<1>3. IsFiniteSet(1..k)
  BY FS_Interval
<1>4. TokenBags[p] = BagOf(S)
  BY DEF TokenBags
<1>5. PICK B : B = BagOf(S)
  OBVIOUS
<1>6. IsFiniteSet(DOMAIN S)
  BY <1>2, <1>3
<1>7. Counted(B) /\ \A x : Copies(B, x) = Cardinality(Preimage(S, x))
  BY <1>5, <1>6, BagCounts
<1> QED
  BY <1>1, <1>4, <1>5, <1>6, <1>7

\* The tokens that an assignment gives to demands.
Given(t, f) == [d \in Demands(net, t) |-> TokenOf(net, marking, f, d)]

\* Different demands of one mode at one place take different occurrences.
LEMMA TakersDiffer ==
    ASSUME IsNet(net), ValidDefinition(net), MarkingInv, NEW t, NEW f \in Assignments(net, marking, t),
           NEW p \in DOMAIN marking.places, NEW S, S = marking.places[p], NEW mode, NEW x,
           NEW P, P = Preimage(GivenTo(t, Given(t, f), mode, p), x),
           NEW Q, Q = Preimage(S, x),
           NEW g, g = [d \in P |-> f[d]]
    PROVE  /\ g \in [P -> Q] /\ \A d, e \in P : g[d] = g[e] => d = e
           /\ IsFiniteSet(P) /\ IsFiniteSet(Q) /\ Cardinality(P) <= Cardinality(Q)
<1>1. TokensTyped(net, marking)
  BY DEF MarkingInv
<1>2. Feasible(net, f) /\ DOMAIN f = Demands(net, t)
  BY <1>1, AssignedTokens
<1>3. \A d \in P : /\ d \in Demands(net, t) /\ Arc(net, d).place = p /\ Arc(net, d).mode = mode
                   /\ TokenOf(net, marking, f, d) = x
  BY DEF Takers, Given, GivenTo, Preimage
<1>4. \A d \in P : f[d] \in DOMAIN S /\ S[f[d]] = x
  BY <1>1, <1>3, AssignedTokens DEF TokenOf
<1>5. g \in [P -> Q]
  BY <1>4 DEF Preimage
<1>6. \A d, e \in P : g[d] = g[e] => d = e
  BY <1>2, <1>3 DEF Feasible
<1>7. IsFiniteSet(Demands(net, t)) /\ P \subseteq Demands(net, t)
  BY <1>3, DemandsAreFinite
<1>8. IsFiniteSet(P)
  BY <1>7, FS_Subset
<1>9. IsFiniteSet(DOMAIN S) /\ Q \subseteq DOMAIN S
  BY PlacesAreFinite DEF Preimage
<1>10. IsFiniteSet(Q)
  BY <1>9, FS_Subset
<1>11. Cardinality(P) <= Cardinality(Q)
  BY <1>5, <1>6, <1>10, NoMore
<1> QED
  BY <1>5, <1>6, <1>8, <1>10, <1>11

\* What is taken counts the demands that are given a token.
LEMMA TakenIsCounted ==
    ASSUME IsNet(net), NEW t, NEW F, NEW mode, NEW p, NEW T, T = Formal!Taken(t, F, mode, p)
    PROVE  Counted(T) /\ \A x : Copies(T, x) = Cardinality(Preimage(GivenTo(t, F, mode, p), x))
<1>1. PICK h : h = GivenTo(t, F, mode, p)
  OBVIOUS
<1>2. T = BagOf(h) /\ DOMAIN h = Takers(t, mode, p)
  BY <1>1, TakenIs DEF GivenTo
<1>3. IsFiniteSet(Demands(net, t))
  BY DemandsAreFinite
<1>4. IsFiniteSet(Takers(t, mode, p))
  BY <1>3, FS_Subset DEF Takers
<1> QED
  BY <1>1, <1>2, <1>4, BagCounts

\* What is made counts the slots that produce a token.
LEMMA MadeIsCounted ==
    ASSUME IsNet(net), NEW t, NEW values, NEW p, NEW M, M = Formal!Made(t, values, p)
    PROVE  Counted(M) /\ \A x : Copies(M, x) = Cardinality(Preimage(MadeAt(t, values, p), x))
<1>1. PICK h : h = MadeAt(t, values, p)
  OBVIOUS
<1>2. M = BagOf(h) /\ DOMAIN h = SlotsAt(t, p)
  BY <1>1, MadeIs DEF MadeAt
<1>3. IsFiniteSet(Slots(net, t))
  BY SlotsAreFinite
<1>4. IsFiniteSet(SlotsAt(t, p))
  BY <1>3, FS_Subset DEF SlotsAt
<1> QED
  BY <1>1, <1>2, <1>4, BagCounts

\* What is consumed are the occurrences assigned to the demands that consume.
LEMMA ConsumedAreTaken ==
    ASSUME IsNet(net), ValidDefinition(net), MarkingInv, NEW t, NEW f \in Assignments(net, marking, t),
           NEW p \in DOMAIN marking.places, NEW S, S = marking.places[p], NEW x,
           NEW P, P = Preimage(GivenTo(t, Given(t, f), "consume", p), x),
           NEW Q, Q = Preimage(S, x),
           NEW C, \A i : i \in C <=> i \in Q /\ <<p, i>> \in Consumed(net, f)
    PROVE  IsFiniteSet(C) /\ Cardinality(C) = Cardinality(P)
<1>1. PICK g : g = [d \in P |-> f[d]]
  OBVIOUS
<1>2. g \in [P -> Q] /\ IsFiniteSet(P) /\ \A d, e \in P : g[d] = g[e] => d = e
  BY <1>1, TakersDiffer
<1>3. TokensTyped(net, marking)
  BY DEF MarkingInv
<1>4. DOMAIN f = Demands(net, t)
  BY <1>3, AssignedTokens
<1>5. \A i : <<p, i>> \in Consumed(net, f) <=>
         \E d \in Demands(net, t) : /\ Arc(net, d).mode = "consume"
                                    /\ Arc(net, d).place = p /\ f[d] = i
  BY <1>4 DEF Consumed
<1>6. ASSUME NEW d \in P
      PROVE  g[d] \in C
  <2>1. /\ d \in Demands(net, t) /\ Arc(net, d).place = p /\ Arc(net, d).mode = "consume"
        /\ g[d] = f[d] /\ g[d] \in Q
    BY <1>1, <1>2 DEF Takers, GivenTo, Preimage
  <2> QED
    BY <1>5, <2>1
<1>7. ASSUME NEW i \in C
      PROVE  \E d \in P : g[d] = i
  <2>1. PICK d \in Demands(net, t) : Arc(net, d).mode = "consume" /\ Arc(net, d).place = p /\ f[d] = i
    BY <1>5
  <2>2. S[i] = x
    BY DEF Preimage
  <2>3. Given(t, f)[d] = x
    BY <2>1, <2>2 DEF Given, TokenOf
  <2>4. d \in P
    BY <2>1, <2>3 DEF Takers, GivenTo, Preimage
  <2> QED
    BY <1>1, <2>1, <2>4
<1>8. g \in [P -> C]
  BY <1>1, <1>6
<1> QED
  BY <1>2, <1>7, <1>8, SameNumber

\* Of each token the next marking has as many as there were, without those
\* consumed and with those produced.
LEMMA StepBalance ==
    ASSUME IsNet(net), ValidDefinition(net), MarkingInv,
           NEW t, NEW f, NEW values, NEW next, Occurrence(t, f, values, next),
           NEW p \in DOMAIN marking.places, NEW S, S = marking.places[p], NEW R, R = next.places[p], NEW x,
           NEW P, P = Preimage(GivenTo(t, Given(t, f), "consume", p), x),
           NEW M, M = Preimage(MadeAt(t, values, p), x)
    PROVE  /\ IsFiniteSet(DOMAIN R)
           /\ Cardinality(Preimage(R, x))
                = (Cardinality(Preimage(S, x)) - Cardinality(P)) + Cardinality(M)
<1>1. PICK items : items = Items(t, f, values)
  OBVIOUS
<1>2. PICK kept, here : kept = Kept(f)[p] /\ here = SlotsAt(t, p)
  OBVIOUS
<1>3. PICK its : its = items[p]
  OBVIOUS
<1>4. /\ DOMAIN its = {0} \X kept \cup here
      /\ kept \subseteq DOMAIN S /\ IsFiniteSet(kept) /\ IsFiniteSet(here)
      /\ DOMAIN its \subseteq Nat \X Nat /\ IsFiniteSet(DOMAIN its)
      /\ \A c \in {0} \X kept : c \notin Slots(net, t) /\ its[c] = S[c[2]]
      /\ \A s \in here : its[s] = Produce(Template(net, s), values)
      /\ \A c \in DOMAIN its : its[c] \in AllTokens
  BY <1>1, <1>2, <1>3, ItemsAreTokens
<1>5. R = Canonical(its)
  <2>1. next.places = [q \in DOMAIN marking.places |-> Canonical(items[q])]
    BY <1>1, NextPlaces
  <2> QED
    BY <1>3, <2>1
<1>6. /\ R \in Seq(AllTokens) /\ IsFiniteSet(DOMAIN R)
      /\ Cardinality(Preimage(R, x)) = Cardinality(Preimage(its, x))
  <2>1. /\ DOMAIN its \subseteq Nat \X Nat /\ IsFiniteSet(DOMAIN its)
        /\ \A c \in DOMAIN its : its[c] \in AllTokens
    BY <1>4
  <2> QED
    BY <1>5, <2>1, SortedTokens
<1>7. PICK X, Y : X = {c \in {0} \X kept : its[c] = x} /\ Y = {s \in here : its[s] = x}
  OBVIOUS
<1>8. PICK K, Q, C : /\ K = {i \in kept : S[i] = x} /\ Q = Preimage(S, x)
                     /\ C = {i \in Q : <<p, i>> \in Consumed(net, f)}
  OBVIOUS
<1>9. kept = {i \in DOMAIN S : <<p, i>> \notin Consumed(net, f)}
  BY <1>2 DEF Kept, Retained
<1>10. K = Q \ C /\ Q \cap C = C
  BY <1>8, <1>9 DEF Preimage
<1>11. IsFiniteSet(Q)
  <2>1. IsFiniteSet(DOMAIN S) /\ Q \subseteq DOMAIN S
    BY <1>8, PlacesAreFinite DEF Preimage
  <2> QED
    BY <2>1, FS_Subset
<1>12. IsFiniteSet(K) /\ Cardinality(K) = Cardinality(Q) - Cardinality(C)
  <2>1. IsFiniteSet(Q \ C) /\ Cardinality(Q \ C) = Cardinality(Q) - Cardinality(Q \cap C)
    BY <1>11, FS_Difference
  <2> QED
    BY <1>10, <2>1
<1>13. f \in Assignments(net, marking, t)
  BY DEF Occurrence
<1>14. Cardinality(C) = Cardinality(P)
  <2>1. \A i : i \in C <=> i \in Q /\ <<p, i>> \in Consumed(net, f)
    BY <1>8
  <2> QED
    BY <1>8, <1>13, <2>1, ConsumedAreTaken
<1>15. IsFiniteSet(X) /\ Cardinality(X) = Cardinality(K)
  <2>1. PICK g : g = [i \in K |-> <<0, i>>]
    OBVIOUS
  <2>2. \A i \in K : <<0, i>> \in X
    <3> TAKE i \in K
    <3>1. PICK c : c = <<0, i>>
      OBVIOUS
    <3>2. i \in kept /\ S[i] = x
      BY <1>8
    <3>3. c \in {0} \X kept /\ c[2] = i
      BY <3>1, <3>2
    <3> QED
      BY <1>4, <1>7, <3>1, <3>2, <3>3
  <2>3. g \in [K -> X]
    BY <2>1, <2>2
  <2>4. \A i, j \in K : g[i] = g[j] => i = j
    BY <2>1
  <2>5. ASSUME NEW c \in X
        PROVE  \E i \in K : g[i] = c
    <3>1. c \in {0} \X kept /\ its[c] = x
      BY <1>7
    <3>2. c = <<0, c[2]>> /\ c[2] \in kept
      BY <3>1, Column
    <3>3. c[2] \in K
      BY <1>4, <1>8, <3>1, <3>2
    <3> QED
      BY <2>1, <3>2, <3>3
  <2> QED
    BY <1>12, <2>3, <2>4, <2>5, SameNumber
<1>16. IsFiniteSet(Y)
  BY <1>4, <1>7, FS_Subset
<1>17. Y = M
  BY <1>2, <1>4, <1>7 DEF Preimage, MadeAt
<1>18. X \cap Y = {}
  <2>1. here \subseteq Slots(net, t)
    BY <1>2 DEF SlotsAt
  <2> QED
    BY <1>4, <1>7, <2>1
<1>19. Preimage(its, x) = X \cup Y
  BY <1>4, <1>7 DEF Preimage
<1>20. Cardinality(X \cup Y) = Cardinality(X) + Cardinality(Y)
  <2>1. Cardinality(X \cup Y) = Cardinality(X) + Cardinality(Y) - Cardinality(X \cap Y)
    BY <1>15, <1>16, FS_Union
  <2>2. Cardinality(X \cap Y) = 0
    BY <1>18, FS_EmptySet
  <2>3. Cardinality(X) \in Nat /\ Cardinality(Y) \in Nat
    BY <1>15, <1>16, FS_CardinalityType
  <2> QED
    BY <2>1, <2>2, <2>3
<1> QED
  BY <1>6, <1>8, <1>12, <1>14, <1>15, <1>17, <1>19, <1>20

\* What an assignment gives can be taken in the formal net.
LEMMA AssignmentIsWay ==
    ASSUME IsNet(net), ValidDefinition(net), MarkingInv, NEW t \in DOMAIN net.transitions,
           ~ Inhibited(net, t, TokensAt(marking)),
           NEW f \in Assignments(net, marking, t), NEW F, F = Given(t, f)
    PROVE  F \in Formal!Ways(t) /\ Formal!ValuesOf(t, F) = BindingOf(net, marking, t, f).values
<1>1. TokensTyped(net, marking) /\ DOMAIN TokenBags = DOMAIN marking.places
  BY DEF MarkingInv, TokenBags
<1>2. \A d \in Demands(net, t) :
         /\ Arc(net, d).place \in DOMAIN marking.places
         /\ f[d] \in DOMAIN marking.places[Arc(net, d).place]
         /\ F[d] = TokenOf(net, marking, f, d)
         /\ F[d].color \in Pattern(net, d).colors
  BY <1>1, AssignedTokens DEF Given
<1>3. \A p \in DOMAIN marking.places : DOMAIN TokenBags[p] = ToSet(marking.places[p])
  BY DEF TokenBags, BagOf
<1>4. ~ Formal!Inhibited(net, t, [p \in DOMAIN TokenBags |-> Formal!BagToSet(TokenBags[p])])
  <2>1. [p \in DOMAIN TokenBags |-> Formal!BagToSet(TokenBags[p])] = TokensAt(marking)
    BY <1>1, <1>3, SharedBags DEF TokensAt
  <2> QED
    BY <2>1, SharedExpressions
<1>5. F \in [Formal!Demands(net, t) -> Formal!Tokens]
  <2>1. \A p \in DOMAIN TokenBags : DOMAIN TokenBags[p] \subseteq Formal!Tokens
    BY SharedBags DEF Formal!Tokens
  <2>2. ASSUME NEW d \in Demands(net, t)
        PROVE  F[d] \in Formal!Tokens
    <3>1. F[d] \in ToSet(marking.places[Arc(net, d).place])
      BY <1>2 DEF TokenOf, ToSet
    <3> QED
      BY <1>1, <1>2, <1>3, <2>1, <3>1
  <2>3. F = [d \in Demands(net, t) |-> F[d]]
    BY DEF Given
  <2> QED
    BY <2>2, <2>3, SharedDemands
<1>6. ASSUME NEW p \in DOMAIN net.places, NEW mode
      PROVE  Formal!\sqsubseteq(Formal!Taken(t, F, mode, p), TokenBags[p])
  <2>1. PICK T, B, S : T = Formal!Taken(t, F, mode, p) /\ B = TokenBags[p] /\ S = marking.places[p]
    OBVIOUS
  <2>2. p \in DOMAIN marking.places
    BY <1>1 DEF TokensTyped
  <2>3. Counted(T) /\ \A x : Copies(T, x) = Cardinality(Preimage(GivenTo(t, F, mode, p), x))
    BY <2>1, TakenIsCounted
  <2>4. Counted(B) /\ \A x : Copies(B, x) = Cardinality(Preimage(S, x))
    BY <2>1, <2>2, PlacesAreFinite
  <2>5. ASSUME NEW x
        PROVE  Copies(T, x) <= Copies(B, x)
    <3>1. PICK P, Q, g : /\ P = Preimage(GivenTo(t, Given(t, f), mode, p), x) /\ Q = Preimage(S, x)
                         /\ g = [d \in P |-> f[d]]
      OBVIOUS
    <3>2. Cardinality(P) <= Cardinality(Q)
      BY <2>1, <2>2, <3>1, TakersDiffer
    <3> QED
      BY <2>3, <2>4, <3>1, <3>2
  <2>6. \A x \in DOMAIN T : x \in DOMAIN B /\ T[x] <= B[x]
    BY <2>3, <2>4, <2>5 DEF Counted
  <2>7. T \sqsubseteq B
    BY <2>6 DEF \sqsubseteq
  <2> QED
    BY <2>1, <2>7, SharedBags
<1>7. Formal!MayTake(t, F)
  BY <1>2, <1>6, SharedDemands DEF Formal!MayTake
<1>8. F \in Formal!Ways(t)
  BY <1>4, <1>5, <1>7 DEF Formal!Ways
<1>9. Formal!ValuesOf(t, F) = BindingOf(net, marking, t, f).values
  <2>1. \A n, v : (CHOOSE d \in Formal!Demands(n, t) : Formal!Pattern(n, d).variable = v)
                    = (CHOOSE d \in Demands(n, t) : Pattern(n, d).variable = v)
    BY SharedDemands DEF Formal!Pattern, Pattern
  <2>2. Formal!Inputs(net, t) = Inputs(net, t)
    BY SharedDemands
  <2>3. ASSUME NEW v \in Inputs(net, t)
        PROVE  F[CHOOSE d \in Formal!Demands(net, t) : Formal!Pattern(net, d).variable = v].value
                 = TokenOf(net, marking, f, CHOOSE d \in Demands(net, t) : Pattern(net, d).variable = v).value
    <3>1. PICK d : d = CHOOSE e \in Demands(net, t) : Pattern(net, e).variable = v
      OBVIOUS
    <3>2. d \in Demands(net, t)
      BY <1>1, <3>1, BindingIsTyped
    <3>3. d = CHOOSE e \in Formal!Demands(net, t) : Formal!Pattern(net, e).variable = v
      BY <2>1, <3>1
    <3>4. F[d].value = TokenOf(net, marking, f, d).value
      BY <1>2, <3>2
    <3> QED
      BY <3>1, <3>3, <3>4
  <2> QED
    BY <2>2, <2>3 DEF Formal!ValuesOf, BindingOf
<1> QED
  BY <1>8, <1>9

\* An occurrence is a step of the formal net.
LEMMA OccurrenceIsStep ==
    ASSUME IsNet(net), ValidDefinition(net), MarkingInv, UNCHANGED net,
           NEW t, NEW f, NEW values, Occurrence(t, f, values, marking')
    PROVE  Formal!Next
<1>1. PICK F : F = Given(t, f)
  OBVIOUS
<1>2. PICK next : next = marking'
  OBVIOUS
<1>3. Occurrence(t, f, values, next)
  BY <1>2
<1>4. /\ t \in DOMAIN net.transitions /\ ~ Inhibited(net, t, TokensAt(marking))
      /\ f \in Assignments(net, marking, t)
      /\ GuardOf(net, BindingOf(net, marking, t, f)) = "true"
      /\ values \in [Inputs(net, t) \cup Externals(net, t) -> Values]
      /\ \A v \in Inputs(net, t) : values[v] = BindingOf(net, marking, t, f).values[v]
      /\ \A v \in Externals(net, t) \ Inputs(net, t) : values[v] \in ExternalValues
      /\ \A s \in Slots(net, t) : Evaluates(Template(net, s), values)
  BY <1>3 DEF Occurrence
<1>5. F \in Formal!Ways(t) /\ Formal!ValuesOf(t, F) = BindingOf(net, marking, t, f).values
  BY <1>1, <1>4, AssignmentIsWay
<1>6. PICK external : external = [v \in Externals(net, t) |-> values[v]]
  OBVIOUS
<1>7. Inputs(net, t) \cap Externals(net, t) = {}
  BY <1>4 DEF IsNet
<1>8. external \in [Formal!Externals(net, t) -> ExternalValues]
  BY <1>4, <1>6, <1>7, SharedDemands
<1>9. PICK inputs : inputs = Formal!ValuesOf(t, F)
  OBVIOUS
<1>10. values = [v \in Formal!Inputs(net, t) \cup Formal!Externals(net, t) |->
                   IF v \in Formal!Inputs(net, t) THEN inputs[v] ELSE external[v]]
  <2>1. \A v \in Inputs(net, t) \cup Externals(net, t) :
           values[v] = IF v \in Inputs(net, t) THEN inputs[v] ELSE external[v]
    BY <1>4, <1>5, <1>6, <1>9
  <2> QED
    BY <1>4, <2>1, SharedDemands
<1>11. Formal!Guard(t, F) = "true"
  <2>1. PICK b : b = BindingOf(net, marking, t, f)
    OBVIOUS
  <2>2. b.transition = t
    BY <2>1 DEF BindingOf
  <2>3. EvaluateGuard(net.transitions[t].guard, inputs) = "true"
    BY <1>4, <1>5, <1>9, <2>1, <2>2 DEF GuardOf
  <2> QED
    BY <1>9, <2>3, SharedExpressions DEF Formal!Guard
<1>12. \A s \in Formal!Slots(net, t) : Formal!Evaluates(Formal!Template(net, s), values)
  BY <1>4, SharedDemands, SharedExpressions
<1>13. /\ TokensTyped(net, next) /\ IdentitiesAreUnique(next.places) /\ ValidMarking(net, next)
  BY <1>3, OccurrenceKeepsMarking
<1>14. PICK bags : bags = [p \in DOMAIN next.places |-> BagOf(next.places[p])]
  OBVIOUS
<1>15. TokenBags' = bags
  BY <1>2, <1>14 DEF TokenBags
<1>16. Formal!WellFormed(bags)
  BY <1>13, <1>14, BagsAreWellFormed
<1>17. DOMAIN next.places = DOMAIN marking.places /\ DOMAIN TokenBags = DOMAIN marking.places
  BY <1>13 DEF MarkingInv, TokensTyped, TokenBags
<1>18. ASSUME NEW p \in DOMAIN marking.places
       PROVE  bags[p] = Formal!\oplus(Formal!\ominus(TokenBags[p], Formal!Taken(t, F, "consume", p)),
                                      Formal!Made(t, values, p))
  <2>1. PICK A, T, M, B : /\ A = TokenBags[p] /\ T = Formal!Taken(t, F, "consume", p)
                          /\ M = Formal!Made(t, values, p) /\ B = bags[p]
    OBVIOUS
  <2>2. PICK S, R : S = marking.places[p] /\ R = next.places[p]
    OBVIOUS
  <2>3. Counted(A) /\ \A x : Copies(A, x) = Cardinality(Preimage(S, x))
    BY <2>1, <2>2, PlacesAreFinite
  <2>4. Counted(T) /\ \A x : Copies(T, x) = Cardinality(Preimage(GivenTo(t, F, "consume", p), x))
    BY <2>1, TakenIsCounted
  <2>5. Counted(M) /\ \A x : Copies(M, x) = Cardinality(Preimage(MadeAt(t, values, p), x))
    BY <2>1, MadeIsCounted
  <2>6. \A x : /\ IsFiniteSet(DOMAIN R)
               /\ Cardinality(Preimage(R, x)) =
                    (Copies(A, x) - Copies(T, x)) + Copies(M, x)
    <3> TAKE x
    <3>1. PICK P, N : /\ P = Preimage(GivenTo(t, Given(t, f), "consume", p), x)
                      /\ N = Preimage(MadeAt(t, values, p), x)
      OBVIOUS
    <3>2. /\ IsFiniteSet(DOMAIN R)
          /\ Cardinality(Preimage(R, x)) =
               (Cardinality(Preimage(S, x)) - Cardinality(P)) + Cardinality(N)
      BY <1>3, <2>2, <3>1, StepBalance
    <3> QED
      BY <1>1, <2>3, <2>4, <2>5, <3>1, <3>2
  <2>7. Counted(B) /\ \A x : Copies(B, x) = Cardinality(Preimage(R, x))
    <3>1. B = BagOf(R) /\ IsFiniteSet(DOMAIN R)
      BY <1>14, <1>17, <2>1, <2>2, <2>6
    <3> QED
      BY <3>1, BagCounts
  <2>8. \A x : Copies(T, x) <= Copies(A, x)
    <3> TAKE x
    <3>1. PICK P, Q, g : /\ P = Preimage(GivenTo(t, Given(t, f), "consume", p), x) /\ Q = Preimage(S, x)
                         /\ g = [d \in P |-> f[d]]
      OBVIOUS
    <3>2. Cardinality(P) <= Cardinality(Q)
      BY <1>4, <2>2, <3>1, TakersDiffer
    <3> QED
      BY <1>1, <2>3, <2>4, <3>1, <3>2
  <2>9. Counted(A (-) T) /\ \A x : Copies(A (-) T, x) = Copies(A, x) - Copies(T, x)
    BY <2>3, <2>4, <2>8, BagMinus
  <2>10. PICK D : D = A (-) T
    OBVIOUS
  <2>11. Counted(D) /\ \A x : Copies(D, x) = Copies(A, x) - Copies(T, x)
    BY <2>9, <2>10
  <2>12. PICK E : E = D (+) M
    OBVIOUS
  <2>13. Counted(E) /\ \A x : Copies(E, x) = Copies(D, x) + Copies(M, x)
    BY <2>5, <2>11, <2>12, BagPlus
  <2>14. \A x : Copies(B, x) = Copies(E, x)
    BY <2>6, <2>7, <2>11, <2>13
  <2>15. B = E
    BY <2>7, <2>13, <2>14, SameCopies
  <2> QED
    BY <2>1, <2>10, <2>12, <2>15, SharedBags
<1>19. bags = [p \in DOMAIN TokenBags |->
                 Formal!\oplus(Formal!\ominus(TokenBags[p], Formal!Taken(t, F, "consume", p)),
                               Formal!Made(t, values, p))]
  BY <1>14, <1>17, <1>18
<1>20. Formal!Occur(t, F, external)
  BY <1>9, <1>10, <1>11, <1>12, <1>15, <1>16, <1>19 DEF Formal!Occur
<1> QED
  BY <1>4, <1>5, <1>8, <1>20 DEF Formal!Next

\* Every committed firing is an occurrence of the formal net, and nothing else
\* changes the marking: the net that the code runs implements the formal one.
THEOREM NetImplementsFormal == Spec => ImplementsFormalNet
<1>1. TypedInv => Formal!Init
  <2> SUFFICES ASSUME TypedInv
               PROVE  Formal!Init
    OBVIOUS
  <2>1. TokensTyped(net, marking) /\ ValidMarking(net, marking) /\ IdentitiesAreUnique(marking.places)
    BY DEF TypedInv, MarkingInv
  <2>2. PICK m, bags : m = marking /\ bags = [p \in DOMAIN m.places |-> BagOf(m.places[p])]
    OBVIOUS
  <2>3. bags = TokenBags
    BY <2>2 DEF TokenBags
  <2>4. Formal!WellFormed(bags)
    BY <2>1, <2>2, BagsAreWellFormed
  <2> QED
    BY <2>3, <2>4 DEF Formal!Init
<1>2. TypedInv /\ [Next]_vars => [Formal!Next]_<<net, TokenBags>>
  <2> SUFFICES ASSUME TypedInv, [Next]_vars
               PROVE  Formal!Next \/ UNCHANGED <<net, TokenBags>>
    OBVIOUS
  <2>1. IsNet(net) /\ ValidDefinition(net) /\ MarkingInv
    BY NetsAssumption DEF TypedInv, IInv
  <2>2. CASE UNCHANGED <<net, marking>>
    BY <2>2 DEF TokenBags
  <2>3. ASSUME NEW c \in Clients, Fire(c)
        PROVE  Formal!Next
    <3>1. UNCHANGED net /\ \E t, f, values : Occurrence(t, f, values, marking')
      BY <2>3, FireOccurs
    <3>2. PICK t, f, values : Occurrence(t, f, values, marking')
      BY <3>1
    <3> QED
      BY <2>1, <3>1, <3>2, OccurrenceIsStep
  <2> QED
    BY <2>2, <2>3 DEF Next, Choose, vars
<1> QED
  BY <1>1, <1>2, TypedInvariance, PTL DEF Spec, ImplementsFormalNet, Formal!Spec

-----------------------------------------------------------------------------
(* Enablement.                                                             *)

IsEmbedding(g, P, Q) == g \in [P -> Q] /\ \A x, y \in P : g[x] = g[y] => x = y
Embedding(P, Q) == CHOOSE g \in [P -> Q] : IsEmbedding(g, P, Q)

\* A set with no more members than another embeds into it.
LEMMA SomeEmbedding ==
    ASSUME NEW P, NEW Q, IsFiniteSet(P), IsFiniteSet(Q), Cardinality(P) <= Cardinality(Q)
    PROVE  IsEmbedding(Embedding(P, Q), P, Q)
<1>1. PICK m, n : m = Cardinality(P) /\ n = Cardinality(Q)
  OBVIOUS
<1>2. m \in Nat /\ n \in Nat /\ m <= n
  BY <1>1, FS_CardinalityType
<1>3. PICK a \in Bijection(1..m, P) : TRUE
  BY <1>1, FS_CardinalityType DEF ExistsBijection
<1>4. PICK b \in Bijection(1..n, Q) : TRUE
  BY <1>1, FS_CardinalityType DEF ExistsBijection
<1>5. \A x \in P : \E i \in 1..m : a[i] = x
  BY <1>3 DEF Bijection, Surjection
<1>6. b \in [1..n -> Q] /\ \A i, j \in 1..n : b[i] = b[j] => i = j
  BY <1>4 DEF Bijection, Injection, IsInjective
<1>7. PICK at : at = [x \in P |-> CHOOSE i \in 1..m : a[i] = x]
  OBVIOUS
<1>8. \A x \in P : at[x] \in 1..m /\ a[at[x]] = x
  BY <1>5, <1>7
<1>9. \A i \in 1..m : i \in 1..n
  BY <1>2
<1>10. PICK g : g = [x \in P |-> b[at[x]]]
  OBVIOUS
<1>11. g \in [P -> Q]
  BY <1>6, <1>8, <1>9, <1>10
<1>12. \A x, y \in P : g[x] = g[y] => x = y
  BY <1>6, <1>8, <1>9, <1>10
<1> QED
  BY <1>11, <1>12 DEF IsEmbedding, Embedding

\* A bag of tokens inhibits when its tokens do.
LEMMA SharedInhibition ==
    ASSUME MarkingInv, NEW t
    PROVE  Formal!Inhibited(net, t, [p \in DOMAIN TokenBags |-> Formal!BagToSet(TokenBags[p])])
              <=> Inhibited(net, t, TokensAt(marking))
<1>1. DOMAIN TokenBags = DOMAIN marking.places
      /\ \A p \in DOMAIN marking.places : DOMAIN TokenBags[p] = ToSet(marking.places[p])
  BY DEF TokenBags, BagOf
<1>2. [p \in DOMAIN TokenBags |-> Formal!BagToSet(TokenBags[p])] = TokensAt(marking)
  BY <1>1, SharedBags DEF TokensAt
<1> QED
  BY <1>2, SharedExpressions

\* What the formal net takes can be given by an assignment.
LEMMA WayIsAssignment ==
    ASSUME IsNet(net), ValidDefinition(net), MarkingInv, NEW t \in DOMAIN net.transitions,
           NEW F \in Formal!Ways(t)
    PROVE  /\ ~ Inhibited(net, t, TokensAt(marking))
           /\ \E f \in Assignments(net, marking, t) : F = Given(t, f)
<1>1. ~ Inhibited(net, t, TokensAt(marking))
  BY SharedInhibition DEF Formal!Ways
<1>2. F \in [Demands(net, t) -> Formal!Tokens] /\ Formal!MayTake(t, F)
  BY SharedDemands DEF Formal!Ways
<1>3. TokensTyped(net, marking) /\ DOMAIN marking.places = DOMAIN net.places
  BY DEF MarkingInv, TokensTyped, ValidMarking
<1>4. \A d \in Demands(net, t) : /\ Arc(net, d).place \in DOMAIN marking.places
                                 /\ Arc(net, d).mode \in {"consume", "read"}
                                 /\ F[d].color \in Pattern(net, d).colors
  <2>1. \A d \in Demands(net, t) : F[d].color \in Pattern(net, d).colors
    BY <1>2, SharedDemands DEF Formal!MayTake
  <2>2. \A d \in Demands(net, t) : /\ d[1] \in DOMAIN net.arcs /\ Arc(net, d) = net.arcs[d[1]]
                                   /\ net.arcs[d[1]].mode \in {"consume", "read"}
    BY DEF Demands, ArcsOf, Arc
  <2>3. \A a \in DOMAIN net.arcs : net.arcs[a].place \in DOMAIN net.places
    BY DEF ValidDefinition
  <2> QED
    BY <1>3, <2>1, <2>2, <2>3
<1>5. ASSUME NEW p \in DOMAIN marking.places, NEW mode \in {"consume", "read"}, NEW x
      PROVE  IsEmbedding(Embedding(Preimage(GivenTo(t, F, mode, p), x), Preimage(marking.places[p], x)),
                         Preimage(GivenTo(t, F, mode, p), x), Preimage(marking.places[p], x))
  <2>1. PICK T, B, S : T = Formal!Taken(t, F, mode, p) /\ B = TokenBags[p] /\ S = marking.places[p]
    OBVIOUS
  <2>2. PICK h : h = GivenTo(t, F, mode, p)
    OBVIOUS
  <2>3. Counted(T) /\ \A y : Copies(T, y) = Cardinality(Preimage(h, y))
    BY <2>1, <2>2, TakenIsCounted
  <2>4. Counted(B) /\ \A y : Copies(B, y) = Cardinality(Preimage(S, y))
    BY <2>1, PlacesAreFinite
  <2>5. T \sqsubseteq B
    BY <1>2, <1>3, <2>1, SharedBags DEF Formal!MayTake
  <2>6. Copies(T, x) <= Copies(B, x)
    BY <2>3, <2>4, <2>5 DEF Counted, Copies, \sqsubseteq
  <2>7. IsFiniteSet(Preimage(S, x))
    <3>1. IsFiniteSet(DOMAIN S) /\ Preimage(S, x) \subseteq DOMAIN S
      BY <2>1, PlacesAreFinite DEF Preimage
    <3> QED
      BY <3>1, FS_Subset
  <2>8. IsFiniteSet(Preimage(h, x))
    <3>1. IsFiniteSet(Demands(net, t)) /\ Preimage(h, x) \subseteq Demands(net, t)
      BY <2>2, DemandsAreFinite DEF Preimage, GivenTo, Takers
    <3> QED
      BY <3>1, FS_Subset
  <2>9. PICK P, Q : P = Preimage(h, x) /\ Q = Preimage(S, x)
    OBVIOUS
  <2>10. Cardinality(P) <= Cardinality(Q) /\ IsFiniteSet(P) /\ IsFiniteSet(Q)
    BY <2>3, <2>4, <2>6, <2>7, <2>8, <2>9
  <2>11. IsEmbedding(Embedding(P, Q), P, Q)
    BY <2>10, SomeEmbedding
  <2> QED
    BY <2>1, <2>2, <2>9, <2>11
<1>6. PICK f : f = [d \in Demands(net, t) |->
                      Embedding(Preimage(GivenTo(t, F, Arc(net, d).mode, Arc(net, d).place), F[d]),
                                Preimage(marking.places[Arc(net, d).place], F[d]))[d]]
  OBVIOUS
<1>7. ASSUME NEW d \in Demands(net, t)
      PROVE  /\ f[d] \in DOMAIN marking.places[Arc(net, d).place]
             /\ TokenOf(net, marking, f, d) = F[d]
  <2>1. PICK p, mode, x : p = Arc(net, d).place /\ mode = Arc(net, d).mode /\ x = F[d]
    OBVIOUS
  <2>2. PICK P, Q : P = Preimage(GivenTo(t, F, mode, p), x) /\ Q = Preimage(marking.places[p], x)
    OBVIOUS
  <2>3. d \in P
    BY <2>1, <2>2 DEF Preimage, GivenTo, Takers
  <2>4. p \in DOMAIN marking.places /\ mode \in {"consume", "read"}
    BY <1>4, <2>1
  <2>5. IsEmbedding(Embedding(P, Q), P, Q)
    BY <1>5, <2>2, <2>4
  <2>6. f[d] = Embedding(P, Q)[d]
    BY <1>6, <2>1, <2>2
  <2>7. f[d] \in Q
    BY <2>3, <2>5, <2>6 DEF IsEmbedding
  <2> QED
    BY <2>1, <2>2, <2>7 DEF Preimage, TokenOf
<1>8. Feasible(net, f)
  <2> SUFFICES ASSUME NEW d \in Demands(net, t), NEW e \in Demands(net, t), d # e,
                      Arc(net, d).place = Arc(net, e).place, Arc(net, d).mode = Arc(net, e).mode,
                      f[d] = f[e]
               PROVE  FALSE
    BY <1>6 DEF Feasible
  <2>1. F[d] = F[e]
    BY <1>7 DEF TokenOf
  <2>2. PICK p, mode, x : p = Arc(net, d).place /\ mode = Arc(net, d).mode /\ x = F[d]
    OBVIOUS
  <2>3. PICK P, Q : P = Preimage(GivenTo(t, F, mode, p), x) /\ Q = Preimage(marking.places[p], x)
    OBVIOUS
  <2>4. d \in P /\ e \in P
    BY <2>1, <2>2, <2>3 DEF Preimage, GivenTo, Takers
  <2>5. p \in DOMAIN marking.places /\ mode \in {"consume", "read"}
    BY <1>4, <2>2
  <2>6. IsEmbedding(Embedding(P, Q), P, Q)
    BY <1>5, <2>3, <2>5
  <2>7. f[d] = Embedding(P, Q)[d] /\ f[e] = Embedding(P, Q)[e]
    BY <1>6, <2>1, <2>2, <2>3
  <2> QED
    BY <2>4, <2>6, <2>7 DEF IsEmbedding
<1>9. f \in Assignments(net, marking, t)
  <2>1. \A d \in Demands(net, t) : Meets(net, marking, d, f[d])
    BY <1>4, <1>7 DEF Meets, TokenOf
  <2>2. f \in [Demands(net, t) -> UNION {DOMAIN marking.places[p] : p \in DOMAIN marking.places}]
    BY <1>4, <1>6, <1>7
  <2> QED
    BY <1>8, <2>1, <2>2 DEF Assignments
<1>10. F = Given(t, f)
  BY <1>2, <1>7 DEF Given
<1> QED
  BY <1>1, <1>9, <1>10

\* Each feasible binding is one of the formal net, with the same guard.
LEMMA FeasibleAreFormal ==
    ASSUME IsNet(net), ValidDefinition(net), MarkingInv
    PROVE  /\ \A b \in FeasibleBindings(net, marking) :
                 \E t \in DOMAIN net.transitions : \E F \in Formal!Ways(t) :
                    /\ b = [transition |-> t, values |-> Formal!ValuesOf(t, F)]
                    /\ GuardOf(net, b) = Formal!Guard(t, F)
           /\ \A t \in DOMAIN net.transitions : \A F \in Formal!Ways(t) :
                 \E b \in FeasibleBindings(net, marking) :
                    /\ b = [transition |-> t, values |-> Formal!ValuesOf(t, F)]
                    /\ GuardOf(net, b) = Formal!Guard(t, F)
<1>1. ASSUME NEW t \in DOMAIN net.transitions, NEW F, NEW b,
             b = [transition |-> t, values |-> Formal!ValuesOf(t, F)]
      PROVE  GuardOf(net, b) = Formal!Guard(t, F)
  BY <1>1, SharedExpressions DEF GuardOf, Formal!Guard
<1>2. ASSUME NEW b \in FeasibleBindings(net, marking)
      PROVE  \E t \in DOMAIN net.transitions : \E F \in Formal!Ways(t) :
                b = [transition |-> t, values |-> Formal!ValuesOf(t, F)]
  <2>1. PICK t \in DOMAIN net.transitions :
           /\ ~ Inhibited(net, t, TokensAt(marking))
           /\ \E f \in Assignments(net, marking, t) : b = BindingOf(net, marking, t, f)
    BY DEF FeasibleBindings
  <2>2. PICK f \in Assignments(net, marking, t) : b = BindingOf(net, marking, t, f)
    BY <2>1
  <2>3. PICK F : F = Given(t, f)
    OBVIOUS
  <2>4. F \in Formal!Ways(t) /\ Formal!ValuesOf(t, F) = b.values
    BY <2>1, <2>2, <2>3, AssignmentIsWay
  <2>5. b = [transition |-> t, values |-> b.values]
    BY <2>2 DEF BindingOf
  <2> QED
    BY <2>4, <2>5
<1>3. ASSUME NEW t \in DOMAIN net.transitions, NEW F \in Formal!Ways(t)
      PROVE  \E b \in FeasibleBindings(net, marking) :
                b = [transition |-> t, values |-> Formal!ValuesOf(t, F)]
  <2>1. PICK f \in Assignments(net, marking, t) : F = Given(t, f)
    BY WayIsAssignment
  <2>2. ~ Inhibited(net, t, TokensAt(marking))
    BY WayIsAssignment
  <2>3. PICK b : b = BindingOf(net, marking, t, f)
    OBVIOUS
  <2>4. Formal!ValuesOf(t, F) = b.values
    BY <2>1, <2>2, <2>3, AssignmentIsWay
  <2>5. b = [transition |-> t, values |-> b.values]
    BY <2>3 DEF BindingOf
  <2>6. b \in FeasibleBindings(net, marking)
    BY <2>2, <2>3 DEF FeasibleBindings
  <2> QED
    BY <2>4, <2>5, <2>6
<1> QED
  BY <1>1, <1>2, <1>3

\* Enablement enumerates occurrences, finds the bindings of the formal net and
\* no others, and fails for the formal net's reasons.
THEOREM EnablementFindsAll == Spec => []EnablementIsComplete
<1>1. TypedInv => EnablementIsComplete
  <2> SUFFICES ASSUME TypedInv
               PROVE  EnablementIsComplete
    OBVIOUS
  <2>1. IsNet(net) /\ ValidDefinition(net) /\ MarkingInv /\ ValidMarking(net, marking)
    BY NetsAssumption DEF TypedInv, IInv, MarkingInv
  <2>2. PICK e : e = Enablement(net, marking, Supported, Supported)
    OBVIOUS
  <2>3. (\E b \in FeasibleBindings(net, marking) : GuardOf(net, b) = "fails") <=> Formal!SomeGuardFails
    BY <2>1, FeasibleAreFormal DEF Formal!SomeGuardFails
  <2>4. EnablementOutcome(net, marking, Supported, Supported)
           = IF Formal!SomeGuardFails THEN "guard_evaluation_failed" ELSE "enabled"
    BY <2>1, <2>3 DEF EnablementOutcome
  <2>5. {b \in FeasibleBindings(net, marking) : GuardOf(net, b) = "true"} = Formal!EnabledBindings
    BY <2>1, FeasibleAreFormal DEF Formal!EnabledBindings
  <2>6. /\ e.outcome = IF Formal!SomeGuardFails THEN "guard_evaluation_failed" ELSE "enabled"
        /\ e.outcome = "enabled" => e.bindings = Formal!EnabledBindings
    BY <2>2, <2>4, <2>5 DEF Enablement
  <2> QED
    BY <2>2, <2>6 DEF EnablementIsComplete
<1> QED
  BY <1>1, TypedInvariance, PTL
=============================================================================
