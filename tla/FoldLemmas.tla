----------------------------- MODULE FoldLemmas -----------------------------
(***************************************************************************)
(* What the folds of the community modules compute.  MapThenFoldSet folds  *)
(* a set with a recursive function over its subsets; the lemmas here show  *)
(* that such a function exists and is unique when the set is finite, and   *)
(* what follows for the sums and the folds over sequences that the market  *)
(* and the replicas are written with.  Induction is over sets of subsets,  *)
(* not over a predicate.                                                   *)
(***************************************************************************)
EXTENDS Integers, FiniteSets, Sequences, SequencesExt, FiniteSetTheorems,
        WellFoundedInduction, TLAPS

-----------------------------------------------------------------------------
(* Folds over the subsets of a finite set.                                 *)

\* g folds op over the subsets of S, from base, taking out of a set first the
\* element that c picks.
IsFold(g, op, base, c, S) ==
  g = [s \in SUBSET S |-> IF s = {} THEN base ELSE op[<<c[s], g[s \ {c[s]}]>>]]

Picks(c, S) == \A s \in SUBSET S : s # {} => c[s] \in s

\* Every set of subsets of a finite set has a member that contains no other.
LEMMA SubsetMin ==
  ASSUME NEW S, IsFiniteSet(S), NEW T, T \subseteq SUBSET S, T # {}
  PROVE  \E m \in T : \A s \in T : s \subseteq m => s = m
<1>1. IsWellFoundedOn(StrictSubsetOrdering(S), SUBSET S)
  BY FS_StrictSubsetOrderingWellFounded, FS_FiniteSubsetsOfFinite
<1>2. \E m \in T : \A s \in T : <<s, m>> \notin StrictSubsetOrdering(S)
  BY <1>1, WFMin, Zenon
<1> QED BY <1>2 DEF StrictSubsetOrdering

\* Induction over the subsets of a finite set, one element at a time.
LEMMA SubsetInduction ==
  ASSUME NEW S, IsFiniteSet(S), NEW T, {} \in T,
         \A s \in SUBSET S : s # {} /\ (\A x \in s : s \ {x} \in T) => s \in T
  PROVE  SUBSET S \subseteq T
<1> DEFINE B == (SUBSET S) \ T
<1> SUFFICES ASSUME B # {} PROVE FALSE
  OBVIOUS
<1>1. PICK m \in B : \A s \in B : s \subseteq m => s = m
  <2> B \subseteq SUBSET S
    OBVIOUS
  <2> HIDE DEF B
  <2> QED BY SubsetMin
<1>2. ASSUME NEW x \in m
      PROVE  m \ {x} \in T
  <2>1. m \ {x} \in SUBSET S /\ m \ {x} \subseteq m /\ m \ {x} # m
    OBVIOUS
  <2> QED BY <1>1, <2>1
<1>3. m # {} /\ m \in SUBSET S /\ m \notin T
  OBVIOUS
<1> QED BY <1>2, <1>3

\* The value of a fold on one subset.
LEMMA FoldAt ==
  ASSUME NEW g, NEW op, NEW base, NEW c, NEW S, IsFold(g, op, base, c, S)
  PROVE  \A s \in SUBSET S : g[s] = IF s = {} THEN base ELSE op[<<c[s], g[s \ {c[s]}]>>]
BY DEF IsFold

\* Two folds agree where both are defined.
LEMMA FoldUnique ==
  ASSUME NEW S, NEW R, NEW op, NEW base, NEW c, NEW g, NEW h,
         IsFiniteSet(S), Picks(c, S), IsFold(g, op, base, c, S), IsFold(h, op, base, c, R)
  PROVE  \A s \in SUBSET (S \cap R) : g[s] = h[s]
<1> DEFINE T == {s \in SUBSET S : s \subseteq R => g[s] = h[s]}
<1>0. /\ \A s \in SUBSET S : g[s] = IF s = {} THEN base ELSE op[<<c[s], g[s \ {c[s]}]>>]
      /\ \A s \in SUBSET R : h[s] = IF s = {} THEN base ELSE op[<<c[s], h[s \ {c[s]}]>>]
  BY FoldAt
<1>1. {} \in T
  BY <1>0
<1>2. ASSUME NEW s \in SUBSET S, s # {}, \A x \in s : s \ {x} \in T
      PROVE  s \in T
  <2> SUFFICES ASSUME s \subseteq R PROVE g[s] = h[s]
    OBVIOUS
  <2>1. c[s] \in s
    BY <1>2 DEF Picks
  <2>2. g[s \ {c[s]}] = h[s \ {c[s]}]
    BY <1>2, <2>1
  <2> QED BY <1>0, <1>2, <2>2
<1> HIDE DEF T
<1>3. SUBSET S \subseteq T
  BY <1>1, <1>2, SubsetInduction
<1> QED BY <1>3 DEF T

\* A finite set has a fold.
LEMMA FoldExists ==
  ASSUME NEW S, IsFiniteSet(S), NEW op, NEW base, NEW c, Picks(c, S)
  PROVE  \E g : IsFold(g, op, base, c, S)
<1> DEFINE T == {s \in SUBSET S : \E g : IsFold(g, op, base, c, s)}
<1>1. {} \in T
  <2>1. IsFold([s \in SUBSET {} |-> base], op, base, c, {})
    BY DEF IsFold
  <2> QED BY <2>1
<1>2. ASSUME NEW s \in SUBSET S, s # {}, \A x \in s : s \ {x} \in T
      PROVE  s \in T
  <2> DEFINE f(v) == CHOOSE g : IsFold(g, op, base, c, v)
             val(v) == IF v = s THEN op[<<c[s], f(s \ {c[s]})[s \ {c[s]}]>>]
                                ELSE f(s \ {CHOOSE x \in s \ v : TRUE})[v]
             k == [v \in SUBSET s |-> val(v)]
  <2>1. \A x \in s : IsFold(f(s \ {x}), op, base, c, s \ {x})
    BY <1>2
  <2> HIDE DEF f
  <2>2. \A x \in s : \A y \in s : \A v \in SUBSET (s \ {x, y}) :
          f(s \ {x})[v] = f(s \ {y})[v]
    <3> TAKE x \in s
    <3> TAKE y \in s
    <3> TAKE v \in SUBSET (s \ {x, y})
    <3>1. IsFiniteSet(s \ {x}) /\ Picks(c, s \ {x})
      BY FS_Subset DEF Picks
    <3> QED BY <2>1, <3>1, FoldUnique
  <2>3. c[s] \in s /\ s \ {c[s]} # s
    BY <1>2 DEF Picks
  <2>4. \A x \in s : \A v \in SUBSET (s \ {x}) : k[v] = f(s \ {x})[v]
    <3> TAKE x \in s
    <3> TAKE v \in SUBSET (s \ {x})
    <3> DEFINE y == CHOOSE y \in s \ v : TRUE
    <3>1. y \in s \ v /\ v # s
      OBVIOUS
    <3>2. k[v] = f(s \ {y})[v]
      BY <3>1
    <3> HIDE DEF y
    <3> QED BY <3>1, <3>2, <2>2
  <2>5. ASSUME NEW v \in SUBSET s
        PROVE  k[v] = IF v = {} THEN base ELSE op[<<c[v], k[v \ {c[v]}]>>]
    <3>1. CASE v = s
      BY <3>1, <2>3, <2>4, <1>2
    <3>2. CASE v # s
      <4>1. PICK x \in s : v \in SUBSET (s \ {x})
        BY <3>2
      <4>2. \A w \in SUBSET v : k[w] = f(s \ {x})[w]
        BY <2>4, <4>1
      <4>3. f(s \ {x})[v] = IF v = {} THEN base
                            ELSE op[<<c[v], f(s \ {x})[v \ {c[v]}]>>]
        <5> DEFINE h == f(s \ {x})
        <5>1. IsFold(h, op, base, c, s \ {x})
          BY <2>1
        <5> HIDE DEF h
        <5>2. h[v] = IF v = {} THEN base ELSE op[<<c[v], h[v \ {c[v]}]>>]
          BY <4>1, <5>1, FoldAt
        <5> QED BY <5>2 DEF h
      <4>4. k[v] = f(s \ {x})[v] /\ k[v \ {c[v]}] = f(s \ {x})[v \ {c[v]}]
        BY <4>2
      <4> HIDE DEF k
      <4> QED BY <4>3, <4>4
    <3> QED BY <3>1, <3>2
  <2>6. IsFold(k, op, base, c, s)
    <3> HIDE DEF val
    <3>1. k = [v \in SUBSET s |-> k[v]]
      OBVIOUS
    <3> HIDE DEF k
    <3> QED BY <2>5, <3>1 DEF IsFold
  <2> QED BY <2>6
<1> HIDE DEF T
<1>3. SUBSET S \subseteq T
  BY <1>1, <1>2, SubsetInduction
<1> QED BY <1>3 DEF T

\* The values of a fold.
LEMMA FoldType ==
  ASSUME NEW S, IsFiniteSet(S), NEW X, NEW op, NEW base \in X, NEW c, Picks(c, S),
         \A x \in S, v \in X : op[<<x, v>>] \in X, NEW g, IsFold(g, op, base, c, S)
  PROVE  g \in [SUBSET S -> X]
<1> DEFINE T == {s \in SUBSET S : g[s] \in X}
<1>1. {} \in T
  <2>1. {} \in SUBSET S /\ g[{}] = base
    BY FoldAt
  <2> QED BY <2>1
<1>2. ASSUME NEW s \in SUBSET S, s # {}, \A x \in s : s \ {x} \in T
      PROVE  s \in T
  <2>1. c[s] \in s /\ g[s] = op[<<c[s], g[s \ {c[s]}]>>]
    BY <1>2, FoldAt DEF Picks
  <2>2. g[s \ {c[s]}] \in X /\ c[s] \in S
    BY <1>2, <2>1
  <2>3. g[s] \in X
    BY <2>1, <2>2
  <2> QED BY <2>3
<1> HIDE DEF T
<1>3. SUBSET S \subseteq T
  BY <1>1, <1>2, SubsetInduction
<1>4. g = [s \in SUBSET S |-> g[s]]
  BY DEF IsFold
<1> QED BY <1>3, <1>4 DEF T

-----------------------------------------------------------------------------
(* Sums.                                                                   *)

SumOf(f, S) == MapThenSumSet(LAMBDA x : f[x], S)

AnyOf(s) == CHOOSE x \in s : TRUE

\* g is the sum of f over each subset of S.
IsSum(g, f, S) ==
  /\ g \in [SUBSET S -> Int]
  /\ \A s \in SUBSET S : g[s] = IF s = {} THEN 0 ELSE f[AnyOf(s)] + g[s \ {AnyOf(s)}]

\* A finite set has the sums of its subsets.
LEMMA SumsExist ==
  ASSUME NEW S, IsFiniteSet(S), NEW f, \A x \in S : f[x] \in Int
  PROVE  \E g : IsSum(g, f, S)
<1> DEFINE op == [p \in S \X Int |-> f[p[1]] + p[2]]
           c == [s \in SUBSET S |-> AnyOf(s)]
<1>1. Picks(c, S)
  BY DEF Picks, AnyOf
<1>2. /\ 0 \in Int
      /\ \A x \in S, v \in Int : op[<<x, v>>] = f[x] + v /\ op[<<x, v>>] \in Int
  OBVIOUS
<1>3. \A s \in SUBSET S : c[s] = AnyOf(s) /\ (s # {} => c[s] \in S)
  BY DEF AnyOf
<1> HIDE DEF op, c
<1>4. PICK g : IsFold(g, op, 0, c, S)
  BY <1>1, FoldExists
<1>5. g \in [SUBSET S -> Int]
  BY <1>1, <1>2, <1>4, FoldType
<1>6. ASSUME NEW s \in SUBSET S, s # {}
      PROVE  g[s] = f[AnyOf(s)] + g[s \ {AnyOf(s)}]
  <2>1. g[s] = op[<<c[s], g[s \ {c[s]}]>>]
    BY <1>4, <1>6, FoldAt
  <2>2. c[s] \in S /\ g[s \ {c[s]}] \in Int
    BY <1>3, <1>5, <1>6
  <2> QED BY <1>2, <1>3, <2>1, <2>2
<1>7. g[{}] = 0
  <2>1. {} \in SUBSET S
    OBVIOUS
  <2> QED BY <1>4, <2>1, FoldAt
<1> QED BY <1>5, <1>6, <1>7 DEF IsSum

\* Sums over two sets agree on what the sets share.
LEMMA SumsUnique ==
  ASSUME NEW S, IsFiniteSet(S), NEW R, NEW f, NEW g, NEW h, IsSum(g, f, S), IsSum(h, f, R)
  PROVE  \A s \in SUBSET S : s \subseteq R => g[s] = h[s]
<1> DEFINE T == {s \in SUBSET S : s \subseteq R => g[s] = h[s]}
<1>1. {} \in T
  BY DEF IsSum
<1>2. ASSUME NEW s \in SUBSET S, s # {}, \A x \in s : s \ {x} \in T
      PROVE  s \in T
  <2> SUFFICES ASSUME s \subseteq R PROVE g[s] = h[s]
    OBVIOUS
  <2>1. AnyOf(s) \in s
    BY <1>2 DEF AnyOf
  <2>2. g[s \ {AnyOf(s)}] = h[s \ {AnyOf(s)}]
    BY <1>2, <2>1
  <2>3. /\ g[s] = f[AnyOf(s)] + g[s \ {AnyOf(s)}]
        /\ h[s] = f[AnyOf(s)] + h[s \ {AnyOf(s)}]
    BY <1>2 DEF IsSum
  <2> QED BY <2>2, <2>3
<1> HIDE DEF T
<1>3. SUBSET S \subseteq T
  BY <1>1, <1>2, SubsetInduction
<1> QED BY <1>3 DEF T

\* MapThenSumSet computes that sum.
LEMMA SumIsSum ==
  ASSUME NEW S, IsFiniteSet(S), NEW f, NEW g, IsSum(g, f, S)
  PROVE  SumOf(f, S) = g[S]
<1> DEFINE P(it) == it = [s \in SUBSET S |->
                            IF s = {} THEN 0
                            ELSE f[CHOOSE x \in s : TRUE] + it[s \ {CHOOSE x \in s : TRUE}]]
           I == CHOOSE it : P(it)
<1>1. SumOf(f, S) = I[S]
  BY DEF SumOf, MapThenSumSet, MapThenFoldSet
<1>2. P(g)
  <2>1. g = [s \in SUBSET S |-> g[s]]
    BY DEF IsSum
  <2> QED BY <2>1 DEF IsSum, AnyOf
<1>3. P(I)
  BY <1>2
<1> HIDE DEF I
<1>4. \A s \in SUBSET S : I[s] = IF s = {} THEN 0 ELSE f[AnyOf(s)] + I[s \ {AnyOf(s)}]
  BY <1>3 DEF AnyOf
<1> DEFINE T == {s \in SUBSET S : I[s] = g[s]}
<1>5. {} \in T
  <2>1. {} \in SUBSET S
    OBVIOUS
  <2> QED BY <1>4, <2>1 DEF IsSum
<1>6. ASSUME NEW s \in SUBSET S, s # {}, \A x \in s : s \ {x} \in T
      PROVE  s \in T
  <2>1. AnyOf(s) \in s
    BY <1>6 DEF AnyOf
  <2>2. I[s \ {AnyOf(s)}] = g[s \ {AnyOf(s)}]
    BY <1>6, <2>1
  <2>3. /\ g[s] = f[AnyOf(s)] + g[s \ {AnyOf(s)}]
        /\ I[s] = f[AnyOf(s)] + I[s \ {AnyOf(s)}]
    BY <1>4, <1>6 DEF IsSum
  <2> QED BY <2>2, <2>3
<1> HIDE DEF T, P
<1>7. SUBSET S \subseteq T
  BY <1>5, <1>6, SubsetInduction
<1> QED BY <1>1, <1>7 DEF T

\* The sum of a finite set of integers is an integer, and 0 for no element.
LEMMA SumType ==
  ASSUME NEW S, IsFiniteSet(S), NEW f, \A x \in S : f[x] \in Int
  PROVE  SumOf(f, S) \in Int /\ (S = {} => SumOf(f, S) = 0)
<1>1. PICK g : IsSum(g, f, S)
  BY SumsExist
<1>2. g[S] \in Int /\ (S = {} => g[S] = 0)
  BY <1>1 DEF IsSum
<1> QED BY <1>1, <1>2, SumIsSum

\* Any element may be taken out first.
LEMMA SumRemove ==
  ASSUME NEW S, IsFiniteSet(S), NEW f, \A x \in S : f[x] \in Int
  PROVE  \A x \in S : SumOf(f, S) = f[x] + SumOf(f, S \ {x})
<1>1. PICK g : IsSum(g, f, S)
  BY SumsExist
<1>2. ASSUME NEW s \in SUBSET S
      PROVE  SumOf(f, s) = g[s]
  <2>1. IsFiniteSet(s) /\ \A x \in s : f[x] \in Int
    BY FS_Subset
  <2>2. PICK h : IsSum(h, f, s)
    BY <2>1, SumsExist
  <2>3. SumOf(f, s) = h[s]
    BY <2>1, <2>2, SumIsSum
  <2>4. s \in SUBSET s /\ s \subseteq S
    OBVIOUS
  <2>5. h[s] = g[s]
    BY <1>1, <2>1, <2>2, <2>4, SumsUnique
  <2> QED BY <2>3, <2>5
<1> DEFINE T == {s \in SUBSET S : \A x \in s : g[s] = f[x] + g[s \ {x}]}
<1>3. {} \in T
  OBVIOUS
<1>4. ASSUME NEW s \in SUBSET S, s # {}, \A x \in s : s \ {x} \in T
      PROVE  s \in T
  <2> DEFINE c == AnyOf(s)
  <2>1. c \in s /\ g[s] = f[c] + g[s \ {c}]
    BY <1>1, <1>4 DEF AnyOf, IsSum
  <2> HIDE DEF c
  <2>2. ASSUME NEW x \in s, x # c
        PROVE  g[s] = f[x] + g[s \ {x}]
    <3> DEFINE r == s \ {c, x}
    <3>1. r \in SUBSET S /\ (s \ {c}) \ {x} = r /\ (s \ {x}) \ {c} = r
      OBVIOUS
    <3>2. g[s \ {c}] = f[x] + g[r]
      <4>1. x \in s \ {c} /\ s \ {c} \in T
        BY <1>4, <2>1, <2>2
      <4> QED BY <3>1, <4>1
    <3>3. g[s \ {x}] = f[c] + g[r]
      <4>1. c \in s \ {x} /\ s \ {x} \in T
        BY <1>4, <2>1, <2>2
      <4> QED BY <3>1, <4>1
    <3>4. f[x] \in Int /\ f[c] \in Int /\ g[r] \in Int
      BY <1>1, <2>1, <3>1 DEF IsSum
    <3> HIDE DEF r
    <3> QED BY <2>1, <3>2, <3>3, <3>4
  <2> QED BY <2>1, <2>2
<1> HIDE DEF T
<1>5. SUBSET S \subseteq T
  BY <1>3, <1>4, SubsetInduction
<1>6. S \in T
  BY <1>5
<1> QED BY <1>2, <1>6 DEF T

\* A sum of no smaller terms is no smaller.
LEMMA SumMonotone ==
  ASSUME NEW S, IsFiniteSet(S), NEW f, NEW h,
         \A x \in S : f[x] \in Int /\ h[x] \in Int /\ f[x] <= h[x]
  PROVE  SumOf(f, S) <= SumOf(h, S)
<1> DEFINE T == {s \in SUBSET S : SumOf(f, s) <= SumOf(h, s)}
<1>1. {} \in T
  BY SumType, FS_EmptySet
<1>2. ASSUME NEW s \in SUBSET S, s # {}, \A x \in s : s \ {x} \in T
      PROVE  s \in T
  <2>1. PICK x \in s : TRUE
    BY <1>2
  <2>2. IsFiniteSet(s) /\ IsFiniteSet(s \ {x})
    BY FS_Subset
  <2>3. /\ SumOf(f, s) = f[x] + SumOf(f, s \ {x})
        /\ SumOf(h, s) = h[x] + SumOf(h, s \ {x})
    BY <2>2, SumRemove
  <2>4. SumOf(f, s \ {x}) \in Int /\ SumOf(h, s \ {x}) \in Int
    BY <2>2, SumType
  <2>5. SumOf(f, s \ {x}) <= SumOf(h, s \ {x})
    BY <1>2
  <2>6. f[x] \in Int /\ h[x] \in Int /\ f[x] <= h[x]
    OBVIOUS
  <2>7. SumOf(f, s) <= SumOf(h, s)
    BY <2>3, <2>4, <2>5, <2>6
  <2> QED BY <2>7
<1> HIDE DEF T
<1>3. SUBSET S \subseteq T
  BY <1>1, <1>2, SubsetInduction
<1>4. S \in T
  BY <1>3
<1> QED BY <1>4 DEF T

\* Only the values on the set matter.
LEMMA SumEqual ==
  ASSUME NEW S, IsFiniteSet(S), NEW f, NEW h,
         \A x \in S : f[x] \in Int /\ h[x] = f[x]
  PROVE  SumOf(f, S) = SumOf(h, S)
<1>1. /\ \A x \in S : f[x] \in Int /\ h[x] \in Int /\ f[x] <= h[x] /\ h[x] <= f[x]
      /\ \A x \in S : h[x] \in Int
  OBVIOUS
<1>2. SumOf(f, S) <= SumOf(h, S) /\ SumOf(h, S) <= SumOf(f, S)
  BY <1>1, SumMonotone
<1>3. SumOf(f, S) \in Int /\ SumOf(h, S) \in Int
  BY <1>1, SumType
<1> QED BY <1>2, <1>3

\* The sum over two disjoint sets.
LEMMA SumUnion ==
  ASSUME NEW A, NEW B, IsFiniteSet(A), IsFiniteSet(B), A \cap B = {},
         NEW f, \A x \in A \cup B : f[x] \in Int
  PROVE  SumOf(f, A \cup B) = SumOf(f, A) + SumOf(f, B)
<1> DEFINE T == {s \in SUBSET B : SumOf(f, A \cup s) = SumOf(f, A) + SumOf(f, s)}
<1>1. SumOf(f, A) \in Int
  BY SumType
<1>2. {} \in T
  <2>1. SumOf(f, {}) = 0
    BY SumType, FS_EmptySet
  <2>2. A \cup {} = A
    OBVIOUS
  <2>3. SumOf(f, A \cup {}) = SumOf(f, A) + SumOf(f, {})
    BY <1>1, <2>1, <2>2
  <2> QED BY <2>3
<1>3. ASSUME NEW s \in SUBSET B, s # {}, \A x \in s : s \ {x} \in T
      PROVE  s \in T
  <2>1. PICK x \in s : TRUE
    BY <1>3
  <2> DEFINE r == s \ {x}
             u == A \cup s
             v == A \cup r
  <2>2. IsFiniteSet(s) /\ IsFiniteSet(r)
    BY FS_Subset
  <2>3. IsFiniteSet(u)
    BY <2>2, FS_Union
  <2>4. u \ {x} = v /\ x \in u /\ \A y \in u : f[y] \in Int
    BY <2>1
  <2>5. \A y \in s : f[y] \in Int
    OBVIOUS
  <2>6. SumOf(f, v) = SumOf(f, A) + SumOf(f, r)
    BY <1>3, <2>1
  <2>7. SumOf(f, r) \in Int
    BY <2>2, <2>5, SumType
  <2>8. SumOf(f, s) = f[x] + SumOf(f, r)
    BY <2>1, <2>2, <2>5, SumRemove
  <2> HIDE DEF u, v
  <2>9. SumOf(f, u) = f[x] + SumOf(f, v)
    BY <2>3, <2>4, SumRemove
  <2> HIDE DEF r
  <2>10. SumOf(f, u) = SumOf(f, A) + SumOf(f, s)
    BY <1>1, <2>1, <2>5, <2>6, <2>7, <2>8, <2>9
  <2> QED BY <2>10 DEF u
<1> HIDE DEF T
<1>4. SUBSET B \subseteq T
  BY <1>2, <1>3, SubsetInduction
<1>5. B \in T
  BY <1>4
<1> QED BY <1>5 DEF T

\* A sum by parts: when t bounds the sum of each part, it bounds the sum.
LEMMA SumByParts ==
  ASSUME NEW S, IsFiniteSet(S), NEW L, IsFiniteSet(L), NEW f, NEW t, NEW part,
         \A x \in S : f[x] \in Int /\ part[x] \in L,
         \A l \in L : t[l] \in Int /\ SumOf(f, {x \in S : part[x] = l}) <= t[l]
  PROVE  SumOf(f, S) <= SumOf(t, L)
<1> DEFINE In(m) == {x \in S : part[x] \in m}
           T == {m \in SUBSET L : SumOf(f, In(m)) <= SumOf(t, m)}
<1>1. {} \in T
  <2>1. In({}) = {} /\ SumOf(f, {}) = 0 /\ SumOf(t, {}) = 0
    BY SumType, FS_EmptySet
  <2>2. SumOf(f, In({})) <= SumOf(t, {})
    BY <2>1
  <2> QED BY <2>2
<1>2. ASSUME NEW m \in SUBSET L, m # {}, \A l \in m : m \ {l} \in T
      PROVE  m \in T
  <2>1. PICK l \in m : TRUE
    BY <1>2
  <2> DEFINE r == m \ {l}
             A == In(r)
             B == {x \in S : part[x] = l}
  <2>2. A \cap B = {} /\ In(m) = A \cup B /\ A \subseteq S /\ B \subseteq S
    BY <2>1
  <2>3. IsFiniteSet(A) /\ IsFiniteSet(B) /\ IsFiniteSet(m) /\ IsFiniteSet(r)
    BY <2>2, FS_Subset
  <2>4. \A x \in A \cup B : f[x] \in Int
    OBVIOUS
  <2>5. SumOf(f, A) <= SumOf(t, r)
    BY <1>2, <2>1
  <2>6. SumOf(f, B) <= t[l] /\ t[l] \in Int
    BY <2>1
  <2>7. \A k \in m : t[k] \in Int
    OBVIOUS
  <2>8. SumOf(t, m) = t[l] + SumOf(t, r)
    BY <2>1, <2>3, <2>7, SumRemove
  <2>9. SumOf(t, r) \in Int
    BY <2>3, <2>7, SumType
  <2> HIDE DEF A, B, r
  <2>10. SumOf(f, A \cup B) = SumOf(f, A) + SumOf(f, B)
    BY <2>2, <2>3, <2>4, SumUnion
  <2>11. SumOf(f, A) \in Int /\ SumOf(f, B) \in Int
    BY <2>3, <2>4, SumType
  <2>12. SumOf(f, In(m)) <= SumOf(t, m)
    BY <2>2, <2>5, <2>6, <2>8, <2>9, <2>10, <2>11
  <2> QED BY <2>12
<1> HIDE DEF T
<1>3. SUBSET L \subseteq T
  BY <1>1, <1>2, SubsetInduction
<1>4. L \in T /\ In(L) = S
  BY <1>3
<1> QED BY <1>4 DEF T

-----------------------------------------------------------------------------
(* Folds over sequences.                                                   *)

\* FoldLeft of a function of the result so far and the next element.
FoldOver(op, base, q) == FoldLeft(LAMBDA v, x : op[<<v, x>>], base, q)

\* From base, op makes of the elements of q, which are in D, results in X.
Folds(op, base, q, X, D) ==
  /\ base \in X
  /\ q \in Seq(D)
  /\ \A v \in X, d \in D : op[<<v, d>>] \in X

\* A set of positions has a last one.
LEMMA MaxPosition ==
  ASSUME NEW n \in Nat, NEW s \in SUBSET (1..n), s # {}
  PROVE  Max(s) \in s /\ \A x \in s : Max(s) >= x
<1> DEFINE T == {t \in SUBSET (1..n) : t # {} => \E x \in t : \A y \in t : x >= y}
<1>1. {} \in T
  OBVIOUS
<1>2. ASSUME NEW t \in SUBSET (1..n), t # {}, \A x \in t : t \ {x} \in T
      PROVE  t \in T
  <2>1. PICK x \in t : TRUE
    BY <1>2
  <2>2. CASE t \ {x} = {}
    BY <2>1, <2>2
  <2>3. CASE t \ {x} # {}
    <3>1. PICK z \in t \ {x} : \A y \in t \ {x} : z >= y
      BY <1>2, <2>3
    <3>2. CASE x >= z
      <4>1. \A y \in t : x >= y
        BY <3>1, <3>2
      <4> QED BY <4>1
    <3>3. CASE z >= x
      <4>1. \A y \in t : z >= y
        BY <3>1, <3>3
      <4> QED BY <4>1
    <3> QED BY <3>2, <3>3
  <2> QED BY <2>2, <2>3
<1> HIDE DEF T
<1>0. IsFiniteSet(1..n)
  BY FS_Interval
<1>3. SUBSET (1..n) \subseteq T
  <2> DEFINE S == 1..n
  <2>1. \A t \in SUBSET S : t # {} /\ (\A x \in t : t \ {x} \in T) => t \in T
    BY <1>2
  <2>2. IsFiniteSet(S)
    BY <1>0
  <2> HIDE DEF S
  <2>3. SUBSET S \subseteq T
    BY <1>1, <2>1, <2>2, SubsetInduction
  <2> QED BY <2>3 DEF S
<1>4. \E x \in s : \A y \in s : x >= y
  BY <1>3 DEF T
<1> QED BY <1>4 DEF Max

\* A set of positions with everything before any of its members is a front.
LEMMA FrontOfPositions ==
  ASSUME NEW n \in Nat, NEW s \in SUBSET (1..n), \A i \in s : \A j \in 1..i : j \in s
  PROVE  \E m \in 0..n : s = 1..m /\ Cardinality(s) = m
<1>1. CASE s = {}
  <2>1. s = 1..0 /\ 0 \in 0..n
    BY <1>1
  <2> QED BY <1>1, <2>1, FS_EmptySet
<1>2. CASE s # {}
  <2> DEFINE m == Max(s)
  <2>1. m \in s /\ \A x \in s : m >= x
    BY <1>2, MaxPosition
  <2> HIDE DEF m
  <2>2. m \in 1..n
    BY <2>1
  <2>3. s = 1..m
    <3>1. \A x \in s : x \in 1..m
      BY <2>1, <2>2
    <3>2. \A x \in 1..m : x \in s
      BY <2>1
    <3> QED BY <3>1, <3>2
  <2>4. Cardinality(1..m) = m
    BY <2>2, FS_Interval
  <2> QED BY <2>2, <2>3, <2>4
<1> QED BY <1>1, <1>2

\* g is what FoldOver makes of each subset of the positions of q, the last
\* position being taken out first.
IsSeqFold(g, X, op, base, q) ==
  /\ g \in [SUBSET DOMAIN q -> X]
  /\ \A s \in SUBSET DOMAIN q :
       g[s] = IF s = {} THEN base ELSE op[<<g[s \ {Max(s)}], q[Max(s)]>>]

\* What such a g satisfies on the first n positions.
FoldsUpTo(g, op, base, q, n) ==
  \A s \in SUBSET (1..n) :
    g[s] = IF s = {} THEN base ELSE op[<<g[s \ {Max(s)}], q[Max(s)]>>]

\* A sequence has such a fold.
LEMMA SeqFoldExists ==
  ASSUME NEW X, NEW D, NEW base, NEW q, NEW op, Folds(op, base, q, X, D)
  PROVE  \E g : IsSeqFold(g, X, op, base, q)
<1> DEFINE S == 1..Len(q)
           step == [p \in S \X X |-> op[<<p[2], q[p[1]]>>]]
           c == [s \in SUBSET S |-> Max(s)]
<1>0. DOMAIN q = S /\ Len(q) \in Nat /\ base \in X /\ \A i \in S : q[i] \in D
  BY DEF Folds
<1>1. \A s \in SUBSET S : s # {} => Max(s) \in s
  BY <1>0, MaxPosition
<1>2. Picks(c, S) /\ IsFiniteSet(S)
  <2>1. IsFiniteSet(S)
    BY <1>0, FS_Interval
  <2> QED BY <1>1, <2>1 DEF Picks
<1>3. \A i \in S, v \in X : step[<<i, v>>] = op[<<v, q[i]>>] /\ step[<<i, v>>] \in X
  BY <1>0 DEF Folds
<1>4. \A s \in SUBSET S : c[s] = Max(s)
  OBVIOUS
<1> HIDE DEF step, c, S
<1>5. PICK g : IsFold(g, step, base, c, S)
  BY <1>2, FoldExists
<1>6. g \in [SUBSET S -> X]
  BY <1>0, <1>2, <1>3, <1>5, FoldType
<1>7. ASSUME NEW s \in SUBSET S, s # {}
      PROVE  g[s] = op[<<g[s \ {Max(s)}], q[Max(s)]>>]
  <2>0. \A v \in SUBSET S : g[v] = IF v = {} THEN base ELSE step[<<c[v], g[v \ {c[v]}]>>]
    BY <1>5 DEF IsFold
  <2>1. g[s] = step[<<c[s], g[s \ {c[s]}]>>]
    BY <1>7, <2>0
  <2>2. Max(s) \in S /\ g[s \ {Max(s)}] \in X
    BY <1>1, <1>6, <1>7
  <2> QED BY <1>3, <1>4, <2>1, <2>2
<1>8. g[{}] = base
  <2>1. {} \in SUBSET S
    OBVIOUS
  <2> QED BY <1>5, <2>1, FoldAt
<1> QED BY <1>0, <1>6, <1>7, <1>8 DEF IsSeqFold

\* Two folds over sequences that agree on a set of positions agree there.
LEMMA SeqFoldsAgree ==
  ASSUME NEW X, NEW op, NEW base, NEW n \in Nat,
         NEW q, NEW r, NEW g, NEW h,
         FoldsUpTo(g, op, base, q, n), FoldsUpTo(h, op, base, r, n),
         \A i \in 1..n : q[i] = r[i]
  PROVE  \A s \in SUBSET (1..n) : g[s] = h[s]
<1> DEFINE S == 1..n
           T == {s \in SUBSET S : g[s] = h[s]}
<1>0. /\ \A s \in SUBSET S : s # {} => Max(s) \in s
      /\ \A s \in SUBSET S :
           /\ g[s] = IF s = {} THEN base ELSE op[<<g[s \ {Max(s)}], q[Max(s)]>>]
           /\ h[s] = IF s = {} THEN base ELSE op[<<h[s \ {Max(s)}], r[Max(s)]>>]
  BY MaxPosition DEF FoldsUpTo
<1>1. {} \in T
  BY <1>0
<1>2. ASSUME NEW s \in SUBSET S, s # {}, \A x \in s : s \ {x} \in T
      PROVE  s \in T
  <2>1. Max(s) \in s /\ q[Max(s)] = r[Max(s)]
    BY <1>0, <1>2
  <2>2. g[s \ {Max(s)}] = h[s \ {Max(s)}]
    BY <1>2, <2>1
  <2>3. s \in SUBSET S
    BY <1>2
  <2>4. /\ g[s] = op[<<g[s \ {Max(s)}], q[Max(s)]>>]
        /\ h[s] = op[<<h[s \ {Max(s)}], r[Max(s)]>>]
    BY <1>0, <1>2, <2>3
  <2>5. g[s] = h[s]
    BY <2>1, <2>2, <2>4
  <2> QED BY <2>3, <2>5
<1>3. IsFiniteSet(S)
  BY FS_Interval
<1> HIDE DEF T, S
<1>4. SUBSET S \subseteq T
  BY <1>1, <1>2, <1>3, SubsetInduction
<1> QED BY <1>4 DEF T, S

\* FoldLeft computes that fold.
LEMMA FoldOverIsFold ==
  ASSUME NEW X, NEW D, NEW base, NEW q, NEW op, Folds(op, base, q, X, D),
         NEW g, IsSeqFold(g, X, op, base, q)
  PROVE  FoldOver(op, base, q) = g[DOMAIN q]
<1> DEFINE P(it) == it = [s \in SUBSET DOMAIN q |->
                            IF s = {} THEN base
                            ELSE op[<<it[s \ {Max(s)}], q[Max(s)]>>]]
           I == CHOOSE it : P(it)
<1>1. FoldOver(op, base, q) = I[DOMAIN q]
  BY DEF FoldOver, FoldLeft, MapThenFoldSet
<1>2. P(g)
  <2>1. g = [s \in SUBSET DOMAIN q |-> g[s]]
    BY DEF IsSeqFold
  <2> QED BY <2>1 DEF IsSeqFold
<1>3. P(I)
  BY <1>2
<1> HIDE DEF I
<1>4. \A s \in SUBSET DOMAIN q : I[s] = IF s = {} THEN base
                                       ELSE op[<<I[s \ {Max(s)}], q[Max(s)]>>]
  BY <1>3
<1> DEFINE n == Len(q)
<1>5. DOMAIN q = 1..n /\ n \in Nat
  BY DEF Folds
<1> HIDE DEF P, n
<1>6. FoldsUpTo(I, op, base, q, n)
  BY <1>4, <1>5 DEF FoldsUpTo
<1>7. FoldsUpTo(g, op, base, q, n)
  BY <1>5 DEF IsSeqFold, FoldsUpTo
<1>8. \A s \in SUBSET (1..n) : I[s] = g[s]
  BY <1>5, <1>6, <1>7, SeqFoldsAgree
<1> QED BY <1>1, <1>5, <1>8

\* g folds q the way op does, as long as the results are in X.
FoldsAs(g, X, op, base, q) ==
  /\ g[{}] = base
  /\ \A s \in SUBSET DOMAIN q :
       s # {} /\ g[s \ {Max(s)}] \in X => g[s] = op[<<g[s \ {Max(s)}], q[Max(s)]>>]

\* Whatever folds q that way is that fold: how a FoldLeft of an operator is
\* brought to a FoldOver of a function.
LEMMA FoldMatches ==
  ASSUME NEW X, NEW D, NEW base, NEW q, NEW op, Folds(op, base, q, X, D),
         NEW I, FoldsAs(I, X, op, base, q), NEW S, S = DOMAIN q
  PROVE  I[S] = FoldOver(op, base, q)
<1>1. PICK g : IsSeqFold(g, X, op, base, q)
  BY SeqFoldExists
<1>2. S = 1..Len(q) /\ Len(q) \in Nat /\ IsFiniteSet(S)
  <2>1. S = 1..Len(q) /\ Len(q) \in Nat
    BY DEF Folds
  <2> QED BY <2>1, FS_Interval
<1>3. \A s \in SUBSET S : s # {} => Max(s) \in s
  BY <1>2, MaxPosition
<1> DEFINE T == {s \in SUBSET S : I[s] = g[s]}
<1>4. {} \in T
  BY <1>1 DEF IsSeqFold, FoldsAs
<1>5. ASSUME NEW s \in SUBSET S, s # {}, \A x \in s : s \ {x} \in T
      PROVE  s \in T
  <2>1. Max(s) \in s /\ s \ {Max(s)} \in SUBSET S
    BY <1>3, <1>5
  <2>2. I[s \ {Max(s)}] = g[s \ {Max(s)}]
    BY <1>5, <2>1
  <2>3. g[s \ {Max(s)}] \in X
    BY <1>1, <2>1 DEF IsSeqFold
  <2>4. I[s] = op[<<I[s \ {Max(s)}], q[Max(s)]>>]
    BY <1>5, <2>2, <2>3 DEF FoldsAs
  <2>5. g[s] = op[<<g[s \ {Max(s)}], q[Max(s)]>>]
    BY <1>1, <1>5 DEF IsSeqFold
  <2>6. I[s] = g[s]
    BY <2>2, <2>4, <2>5
  <2> QED BY <1>5, <2>6
<1> HIDE DEF T
<1>6. SUBSET S \subseteq T
  BY <1>2, <1>4, <1>5, SubsetInduction
<1>7. I[S] = g[S]
  BY <1>6 DEF T
<1>8. FoldOver(op, base, q) = g[S]
  BY <1>1, FoldOverIsFold
<1> QED BY <1>7, <1>8

\* What FoldOver is of the empty sequence, and its type.
LEMMA FoldOverType ==
  ASSUME NEW X, NEW D, NEW base, NEW q, NEW op, Folds(op, base, q, X, D)
  PROVE  /\ FoldOver(op, base, q) \in X
         /\ q = <<>> => FoldOver(op, base, q) = base
<1>1. PICK g : IsSeqFold(g, X, op, base, q)
  BY SeqFoldExists
<1>2. FoldOver(op, base, q) = g[DOMAIN q]
  BY <1>1, FoldOverIsFold
<1>3. g[DOMAIN q] \in X
  BY <1>1 DEF IsSeqFold
<1>4. q = <<>> => DOMAIN q = {}
  OBVIOUS
<1>5. g[{}] = base
  BY <1>1 DEF IsSeqFold
<1> QED BY <1>2, <1>3, <1>4, <1>5

\* Induction over the positions that have been folded: R relates them to the
\* results it allows there.
LEMMA FoldOverInduction ==
  ASSUME NEW X, NEW D, NEW base, NEW q, NEW op, Folds(op, base, q, X, D),
         NEW R, <<{}, base>> \in R,
         \A s \in SUBSET DOMAIN q : \A v \in X :
           s # {} /\ Max(s) \in s /\ <<s \ {Max(s)}, v>> \in R
             => <<s, op[<<v, q[Max(s)]>>]>> \in R
  PROVE  <<DOMAIN q, FoldOver(op, base, q)>> \in R
<1> DEFINE S == DOMAIN q
<1>1. PICK g : IsSeqFold(g, X, op, base, q)
  BY SeqFoldExists
<1>2. S = 1..Len(q) /\ Len(q) \in Nat /\ IsFiniteSet(S)
  <2>1. S = 1..Len(q) /\ Len(q) \in Nat
    BY DEF Folds
  <2> QED BY <2>1, FS_Interval
<1>3. \A s \in SUBSET S : s # {} => Max(s) \in s
  BY <1>2, MaxPosition
<1>4. /\ g[{}] = base
      /\ \A s \in SUBSET S : /\ g[s] \in X
                             /\ s # {} => g[s] = op[<<g[s \ {Max(s)}], q[Max(s)]>>]
  BY <1>1 DEF IsSeqFold
<1> DEFINE T == {s \in SUBSET S : <<s, g[s]>> \in R}
<1> HIDE DEF S
<1>5. {} \in T
  BY <1>4
<1>6. ASSUME NEW s \in SUBSET S, s # {}, \A x \in s : s \ {x} \in T
      PROVE  s \in T
  <2>1. Max(s) \in s
    BY <1>3, <1>6
  <2>2. <<s \ {Max(s)}, g[s \ {Max(s)}]>> \in R /\ g[s \ {Max(s)}] \in X
    BY <1>4, <1>6, <2>1
  <2>3. <<s, op[<<g[s \ {Max(s)}], q[Max(s)]>>]>> \in R
    BY <1>6, <2>1, <2>2 DEF S
  <2> QED BY <1>4, <1>6, <2>3
<1> HIDE DEF T
<1>7. SUBSET S \subseteq T
  <2>1. IsFiniteSet(S)
    BY <1>2
  <2> QED BY <1>5, <1>6, <2>1, SubsetInduction
<1>8. <<S, g[S]>> \in R
  BY <1>7 DEF T
<1>9. FoldOver(op, base, q) = g[S]
  BY <1>1, FoldOverIsFold DEF S
<1> QED BY <1>8, <1>9 DEF S

IsAppend(r, q, e) == r = Append(q, e)

\* FoldOver takes the last element last.
LEMMA FoldOverAppend ==
  ASSUME NEW X, NEW D, NEW base, NEW q, NEW op, Folds(op, base, q, X, D),
         NEW e \in D, NEW r, IsAppend(r, q, e)
  PROVE  FoldOver(op, base, r) = op[<<FoldOver(op, base, q), e>>]
<1> DEFINE n == Len(q)
<1>0. /\ DOMAIN q = 1..n /\ n \in Nat
      /\ Folds(op, base, r, X, D) /\ DOMAIN r = 1..(n + 1)
      /\ r[n + 1] = e /\ \A i \in 1..n : r[i] = q[i]
  BY DEF Folds, IsAppend
<1> HIDE DEF n
<1>1. PICK g : IsSeqFold(g, X, op, base, q)
  BY SeqFoldExists
<1>2. PICK h : IsSeqFold(h, X, op, base, r)
  BY <1>0, SeqFoldExists
<1>3. FoldOver(op, base, q) = g[1..n] /\ FoldOver(op, base, r) = h[1..(n + 1)]
  <2>1. FoldOver(op, base, q) = g[DOMAIN q]
    BY <1>1, FoldOverIsFold
  <2>2. FoldOver(op, base, r) = h[DOMAIN r]
    BY <1>0, <1>2, FoldOverIsFold
  <2> QED BY <1>0, <2>1, <2>2
<1>4. \A s \in SUBSET (1..n) : g[s] = h[s]
  <2>1. FoldsUpTo(g, op, base, q, n)
    BY <1>0, <1>1 DEF IsSeqFold, FoldsUpTo
  <2>2. FoldsUpTo(h, op, base, r, n)
    <3>1. SUBSET (1..n) \subseteq SUBSET DOMAIN r
      BY <1>0
    <3> QED BY <1>2, <3>1 DEF IsSeqFold, FoldsUpTo
  <2>3. n \in Nat /\ \A i \in 1..n : q[i] = r[i]
    BY <1>0
  <2> QED BY <2>1, <2>2, <2>3, SeqFoldsAgree
<1>5. Max(1..(n + 1)) = n + 1 /\ (1..(n + 1)) \ {n + 1} = 1..n
  <2>1. n + 1 \in Nat /\ n + 1 \in 1..(n + 1)
    BY <1>0
  <2>2. Max(1..(n + 1)) \in 1..(n + 1) /\ Max(1..(n + 1)) >= n + 1
    BY <2>1, MaxPosition
  <2> QED BY <1>0, <2>2
<1>6. h[1..(n + 1)] = op[<<h[1..n], e>>]
  <2>1. n + 1 \in 1..(n + 1) /\ 1..(n + 1) \in SUBSET DOMAIN r
    BY <1>0
  <2> QED BY <1>0, <1>2, <1>5, <2>1 DEF IsSeqFold
<1> QED BY <1>3, <1>4, <1>6
=============================================================================
