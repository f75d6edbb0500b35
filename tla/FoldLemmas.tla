----------------------------- MODULE FoldLemmas -----------------------------
(***************************************************************************)
(* Folds over finite sets: what the sums and the joins of the models are,   *)
(* for any set.  A fold is the value, for the whole set, of a function on   *)
(* its subsets that is defined by recursion.                                *)
(***************************************************************************)
EXTENDS Integers, FiniteSets, FiniteSetsExt, Functions, FiniteSetTheorems, WellFoundedInduction, TLAPS

-----------------------------------------------------------------------------
(* Induction.                                                               *)

\* Among some subsets of a finite set there is one that contains no other of them.
LEMMA OneIsInnermost ==
    ASSUME NEW S, IsFiniteSet(S), NEW B \in SUBSET SUBSET S, B # {}
    PROVE  \E T \in B : \A U \in B : U \subseteq T => U = T
<1>1. FiniteSubsetsOf(S) = SUBSET S
  BY FS_FiniteSubsetsOfFinite
<1>2. IsWellFoundedOn(StrictSubsetOrdering(S), SUBSET S)
  BY <1>1, FS_StrictSubsetOrderingWellFounded
<1>3. PICK T \in B : \A U \in B : ~(<<U, T>> \in StrictSubsetOrdering(S))
  BY <1>2, WFMin
<1>4. ASSUME NEW U \in B, U \subseteq T
      PROVE  U = T
  BY <1>3, <1>4 DEF StrictSubsetOrdering
<1> QED
  BY <1>4

\* What holds of the empty set, and of a set with one element more when it holds of
\* the set, holds of every subset of a finite set.
LEMMA SubsetInduction ==
    ASSUME NEW S, IsFiniteSet(S), NEW G, {} \in G,
           \A T \in SUBSET S : \A x \in S : T \in G /\ x \notin T => T \cup {x} \in G
    PROVE  \A T \in SUBSET S : T \in G
<1> DEFINE B == {T \in SUBSET S : T \notin G}
<1>1. ASSUME B # {}
      PROVE  FALSE
  <2>1. PICK T \in B : \A U \in B : U \subseteq T => U = T
    <3>1. B \in SUBSET SUBSET S
      OBVIOUS
    <3> HIDE DEF B
    <3> QED
      BY <1>1, <3>1, OneIsInnermost
  <2>2. PICK x \in T : TRUE
    BY <2>1
  <2>3. T \ {x} \in SUBSET S /\ x \in S /\ T \ {x} # T /\ T = (T \ {x}) \cup {x}
    BY <2>1, <2>2
  <2>4. T \ {x} \in G
    BY <2>1, <2>3
  <2> QED
    BY <2>1, <2>3, <2>4
<1> QED
  BY <1>1

\* Induction over the naturals, for a set.
LEMMA NatSetInduction ==
    ASSUME NEW G, 0 \in G, \A n \in Nat : n \in G => n + 1 \in G
    PROVE  \A n \in Nat : n \in G
<1> DEFINE B == {n \in Nat : n \notin G}
           R == {ss \in Nat \X Nat : ss[1] < ss[2]}
<1>1. IsWellFoundedOn(R, Nat)
  BY NatLessThanWellFounded DEF OpToRel
<1>2. ASSUME B # {}
      PROVE  FALSE
  <2>1. B \subseteq Nat
    OBVIOUS
  <2>2. PICK m \in B : \A i \in B : ~(<<i, m>> \in R)
    <3> HIDE DEF B, R
    <3> QED
      BY <1>1, <1>2, <2>1, WFMin
  <2>3. m \in Nat \ {0} /\ m - 1 \in Nat
    BY <2>2
  <2>4. <<m - 1, m>> \in R
    BY <2>3
  <2>5. m - 1 \in G
    BY <2>2, <2>3, <2>4
  <2>6. (m - 1) + 1 \in G /\ (m - 1) + 1 = m
    BY <2>3, <2>5
  <2> QED
    BY <2>2, <2>6
<1> QED
  BY <1>2

\* What the greatest element of a set is.
LEMMA GreatestIs ==
    ASSUME NEW S \in SUBSET Nat, NEW m \in S, \A x \in S : x <= m
    PROVE  Max(S) = m
<1>1. \A y \in S : (\A x \in S : y >= x) => y = m
  OBVIOUS
<1>2. \A x \in S : m >= x
  OBVIOUS
<1> QED
  BY <1>1, <1>2 DEF Max

\* A finite set of naturals has a greatest element.
LEMMA GreatestOf ==
    ASSUME NEW S \in SUBSET Nat, S # {}, IsFiniteSet(S)
    PROVE  Max(S) \in S /\ \A x \in S : x <= Max(S)
<1> DEFINE G == {T \in SUBSET S : T # {} => \E m \in T : \A x \in T : x <= m}
<1>1. {} \in G
  OBVIOUS
<1>2. ASSUME NEW T \in SUBSET S, NEW y \in S, T \in G, y \notin T
      PROVE  T \cup {y} \in G
  <2>1. CASE T = {}
    BY <2>1
  <2>2. CASE T # {}
    <3>1. PICK m \in T : \A x \in T : x <= m
      BY <1>2, <2>2
    <3>2. CASE m <= y
      <4>1. \A x \in T \cup {y} : x <= y
        BY <3>1, <3>2
      <4> QED
        BY <4>1
    <3>3. CASE ~(m <= y)
      <4>1. \A x \in T \cup {y} : x <= m
        BY <3>1, <3>3
      <4> QED
        BY <4>1
    <3> QED
      BY <3>2, <3>3
  <2> QED
    BY <2>1, <2>2
<1>3. \A T \in SUBSET S : T \in G
  <2> HIDE DEF G
  <2> QED
    BY <1>1, <1>2, SubsetInduction
<1>4. PICK m \in S : \A x \in S : x <= m
  BY <1>3
<1> QED
  BY <1>4, GreatestIs

-----------------------------------------------------------------------------
(* Recursion over subsets.                                                  *)

\* A fold, as a function on the subsets of S: base for the empty set, else what F
\* makes of the element that c takes and the fold of the others.
IsFold(it, S, base, c, F) ==
    it = [T \in SUBSET S |-> IF T = {} THEN base ELSE F[<<c[T], it[T \ {c[T]}]>>]]

\* There is one: level by level, by the number of elements.
LEMMA FoldExists ==
    ASSUME NEW S, IsFiniteSet(S), NEW Y, NEW base \in Y,
           NEW c, \A T \in SUBSET S : T # {} => c[T] \in T,
           NEW F, \A x \in S, y \in Y : F[<<x, y>>] \in Y
    PROVE  \E it \in [SUBSET S -> Y] : IsFold(it, S, base, c, F)
<1> DEFINE Level(n) == {T \in SUBSET S : Cardinality(T) <= n}
           Fits(it, n) == \A T \in Level(n) :
                             it[T] = IF T = {} THEN base ELSE F[<<c[T], it[T \ {c[T]}]>>]
           G == {n \in Nat : \E it \in [Level(n) -> Y] : Fits(it, n)}
<1>1. \A T \in SUBSET S : IsFiniteSet(T) /\ Cardinality(T) \in Nat /\ Cardinality(T) <= Cardinality(S)
  BY FS_Subset, FS_CardinalityType
<1>2. 0 \in G
  <2> DEFINE it == [T \in Level(0) |-> base]
  <2>1. \A T \in Level(0) : T = {}
    BY <1>1, FS_EmptySet
  <2>2. it \in [Level(0) -> Y] /\ Fits(it, 0)
    BY <2>1
  <2> QED
    BY <2>2
<1>3. ASSUME NEW n \in Nat, n \in G
      PROVE  n + 1 \in G
  <2>1. PICK f \in [Level(n) -> Y] : Fits(f, n)
    BY <1>3
  <2> DEFINE it == [T \in Level(n + 1) |-> IF T = {} THEN base ELSE F[<<c[T], f[T \ {c[T]}]>>]]
  <2>2. ASSUME NEW T \in Level(n + 1), T # {}
        PROVE  T \ {c[T]} \in Level(n) /\ T \ {c[T]} \in Level(n + 1) /\ c[T] \in S
    <3>1. T \in SUBSET S /\ c[T] \in T /\ Cardinality(T) <= n + 1
      BY <2>2
    <3>2. Cardinality(T \ {c[T]}) = Cardinality(T) - 1
      BY <1>1, <3>1, FS_RemoveElement
    <3>3. T \ {c[T]} \in SUBSET S /\ Cardinality(T) \in Nat
      BY <1>1, <3>1
    <3> QED
      BY <3>1, <3>2, <3>3
  <2>3. it \in [Level(n + 1) -> Y]
    <3>1. ASSUME NEW T \in Level(n + 1), T # {}
          PROVE  F[<<c[T], f[T \ {c[T]}]>>] \in Y
      <4>1. f[T \ {c[T]}] \in Y
        BY <2>2, <3>1
      <4> QED
        BY <2>2, <3>1, <4>1
    <3> QED
      BY <3>1
  <2>4. ASSUME NEW T \in Level(n)
        PROVE  it[T] = f[T]
    <3>1. T \in Level(n + 1)
      BY <1>1
    <3>2. f[T] = IF T = {} THEN base ELSE F[<<c[T], f[T \ {c[T]}]>>]
      BY <2>1
    <3> HIDE DEF Level
    <3> QED
      BY <3>1, <3>2
  <2>5. Fits(it, n + 1)
    <3>1. ASSUME NEW T \in Level(n + 1), T # {}
          PROVE  it[T] = F[<<c[T], it[T \ {c[T]}]>>]
      <4>1. it[T \ {c[T]}] = f[T \ {c[T]}]
        BY <2>2, <2>4, <3>1
      <4>2. it[T] = F[<<c[T], f[T \ {c[T]}]>>]
        BY <3>1
      <4> HIDE DEF it
      <4> QED
        BY <4>1, <4>2
    <3>2. ASSUME NEW T \in Level(n + 1), T = {}
          PROVE  it[T] = base
      BY <3>2
    <3> HIDE DEF it
    <3> QED
      BY <3>1, <3>2
  <2> HIDE DEF it, Level, Fits
  <2> QED
    BY <2>3, <2>5
<1>4. Cardinality(S) \in Nat
  BY FS_CardinalityType
<1>5. Cardinality(S) \in G
  <2> HIDE DEF G
  <2> QED
    BY <1>2, <1>3, <1>4, NatSetInduction
<1>6. PICK it \in [Level(Cardinality(S)) -> Y] : Fits(it, Cardinality(S))
  BY <1>5
<1>7. Level(Cardinality(S)) = SUBSET S
  BY <1>1
<1>8. IsFold(it, S, base, c, F)
  <2> HIDE DEF Level
  <2> QED
    BY <1>6, <1>7 DEF IsFold
<1> QED
  BY <1>6, <1>7, <1>8

\* Two folds agree where both are defined.
LEMMA FoldsAgree ==
    ASSUME NEW S, IsFiniteSet(S), NEW R \in SUBSET S,
           NEW c, \A T \in SUBSET S : T # {} => c[T] \in T,
           NEW d, \A T \in SUBSET R : d[T] = c[T],
           NEW base, NEW F, NEW it, IsFold(it, S, base, c, F), NEW jt, IsFold(jt, R, base, d, F)
    PROVE  \A T \in SUBSET R : jt[T] = it[T]
<1> DEFINE B == {T \in SUBSET R : jt[T] # it[T]}
<1>1. ASSUME B # {}
      PROVE  FALSE
  <2>1. PICK T \in B : \A U \in B : U \subseteq T => U = T
    <3>1. IsFiniteSet(R) /\ B \in SUBSET SUBSET R
      BY FS_Subset
    <3> HIDE DEF B
    <3> QED
      BY <1>1, <3>1, OneIsInnermost
  <2>2. T \in SUBSET R /\ T \in SUBSET S
    OBVIOUS
  <2>3. it[T] = IF T = {} THEN base ELSE F[<<c[T], it[T \ {c[T]}]>>]
    BY <2>2 DEF IsFold
  <2>4. jt[T] = IF T = {} THEN base ELSE F[<<c[T], jt[T \ {c[T]}]>>]
    <3>1. jt[T] = IF T = {} THEN base ELSE F[<<d[T], jt[T \ {d[T]}]>>]
      BY <2>2 DEF IsFold
    <3> QED
      BY <2>2, <3>1
  <2>5. jt[T] # it[T]
    BY <2>1
  <2>6. T # {}
    BY <2>3, <2>4, <2>5
  <2>7. c[T] \in T
    BY <2>2, <2>6
  <2>8. T \ {c[T]} \in SUBSET R /\ T \ {c[T]} # T
    BY <2>2, <2>7
  <2>9. T \ {c[T]} \notin B
    BY <2>1, <2>8
  <2>10. jt[T \ {c[T]}] = it[T \ {c[T]}]
    BY <2>8, <2>9
  <2> QED
    BY <2>3, <2>4, <2>5, <2>6, <2>10
<1> QED
  BY <1>1

-----------------------------------------------------------------------------
(* Sums.                                                                    *)

\* How SumFunctionOnSet makes a sum of the values of f.
LEMMA SumIsFold ==
    ASSUME NEW S, IsFiniteSet(S), NEW f, \A x \in S : f[x] \in Nat
    PROVE  \E c, F, it :
              /\ c = [T \in SUBSET S |-> CHOOSE x \in T : TRUE]
              /\ \A T \in SUBSET S : T # {} => c[T] \in T
              /\ \A x \in S, y \in Nat : F[<<x, y>>] = f[x] + y
              /\ it \in [SUBSET S -> Nat] /\ IsFold(it, S, 0, c, F)
              /\ SumFunctionOnSet(f, S) = it[S]
<1> DEFINE c == [T \in SUBSET S |-> CHOOSE x \in T : TRUE]
           F == [p \in S \X Nat |-> f[p[1]] + p[2]]
           Sums(g) == g = [T \in SUBSET S |-> IF T = {} THEN 0
                             ELSE LET x == CHOOSE y \in T : TRUE IN f[x] + g[T \ {x}]]
           it == CHOOSE g : Sums(g)
<1>1. \A T \in SUBSET S : T # {} => c[T] \in T
  OBVIOUS
<1>2. \A x \in S, y \in Nat : F[<<x, y>>] = f[x] + y /\ F[<<x, y>>] \in Nat
  OBVIOUS
<1>3. PICK g \in [SUBSET S -> Nat] : IsFold(g, S, 0, c, F)
  <2> HIDE DEF c, F
  <2> QED
    BY <1>1, <1>2, FoldExists
<1>4. ASSUME NEW T \in SUBSET S, T # {}, NEW h, h[T \ {c[T]}] \in Nat
      PROVE  F[<<c[T], h[T \ {c[T]}]>>] = (LET x == CHOOSE y \in T : TRUE IN f[x] + h[T \ {x}])
  <2>1. c[T] \in S /\ c[T] = CHOOSE y \in T : TRUE
    BY <1>1, <1>4
  <2> HIDE DEF c, F
  <2> QED
    BY <1>2, <1>4, <2>1
<1>5. Sums(g)
  <2>1. \A T \in SUBSET S : T # {} => g[T \ {c[T]}] \in Nat
    BY <1>1
  <2> HIDE DEF c, F
  <2>2. ASSUME NEW T \in SUBSET S
        PROVE  g[T] = IF T = {} THEN 0 ELSE F[<<c[T], g[T \ {c[T]}]>>]
    BY <1>3 DEF IsFold
  <2>3. ASSUME NEW T \in SUBSET S
        PROVE  g[T] = IF T = {} THEN 0 ELSE LET x == CHOOSE y \in T : TRUE IN f[x] + g[T \ {x}]
    <3>1. CASE T = {}
      BY <2>2, <3>1
    <3>2. CASE T # {}
      <4>1. g[T \ {c[T]}] \in Nat
        BY <2>1, <3>2
      <4>2. g[T] = F[<<c[T], g[T \ {c[T]}]>>]
        BY <2>2, <3>2
      <4> QED
        BY <1>4, <3>2, <4>1, <4>2
    <3> QED
      BY <3>1, <3>2
  <2>4. g = [T \in SUBSET S |-> g[T]]
    OBVIOUS
  <2> QED
    BY <2>3, <2>4
<1>6. Sums(it)
  <2> HIDE DEF Sums
  <2> QED
    BY <1>5
<1>7. it = g
  <2> HIDE DEF it
  <2> DEFINE B == {T \in SUBSET S : it[T] # g[T]}
  <2>1. ASSUME B # {}
        PROVE  FALSE
    <3>1. PICK T \in B : \A U \in B : U \subseteq T => U = T
      <4>1. B \in SUBSET SUBSET S
        OBVIOUS
      <4> HIDE DEF B
      <4> QED
        BY <2>1, <4>1, OneIsInnermost
    <3>2. T \in SUBSET S /\ it[T] # g[T]
      OBVIOUS
    <3>3. /\ it[T] = IF T = {} THEN 0 ELSE LET x == CHOOSE y \in T : TRUE IN f[x] + it[T \ {x}]
          /\ g[T] = IF T = {} THEN 0 ELSE LET x == CHOOSE y \in T : TRUE IN f[x] + g[T \ {x}]
      BY <1>5, <1>6, <3>2
    <3> DEFINE x == CHOOSE y \in T : TRUE
    <3>4. T # {} /\ x \in T
      BY <3>2, <3>3
    <3>5. T \ {x} \in SUBSET S /\ T \ {x} # T
      BY <3>2, <3>4
    <3>6. it[T \ {x}] = g[T \ {x}]
      BY <3>1, <3>5
    <3> QED
      BY <3>2, <3>3, <3>4, <3>6
  <2> QED
    BY <1>5, <1>6, <2>1
<1>8. SumFunctionOnSet(f, S) = it[S]
  BY DEF SumFunctionOnSet, FoldFunctionOnSet, MapThenFoldSet
<1> HIDE DEF c, F, it
<1> QED
  <2>1. c = [T \in SUBSET S |-> CHOOSE x \in T : TRUE]
    BY DEF c
  <2> QED
    BY <1>1, <1>2, <1>3, <1>7, <1>8, <2>1

\* The sum over no element is zero, any other takes one element and the sum of the others.
LEMMA SumTakesOne ==
    ASSUME NEW S, IsFiniteSet(S), NEW f, \A x \in S : f[x] \in Nat
    PROVE  /\ SumFunctionOnSet(f, S) \in Nat
           /\ S = {} => SumFunctionOnSet(f, S) = 0
           /\ S # {} => \E x \in S :
                 SumFunctionOnSet(f, S) = f[x] + SumFunctionOnSet(f, S \ {x})
<1>1. PICK c, F, it :
         /\ c = [T \in SUBSET S |-> CHOOSE x \in T : TRUE]
         /\ \A T \in SUBSET S : T # {} => c[T] \in T
         /\ \A x \in S, y \in Nat : F[<<x, y>>] = f[x] + y
         /\ it \in [SUBSET S -> Nat] /\ IsFold(it, S, 0, c, F)
         /\ SumFunctionOnSet(f, S) = it[S]
  BY SumIsFold
<1>2. it[S] = IF S = {} THEN 0 ELSE F[<<c[S], it[S \ {c[S]}]>>]
  BY <1>1 DEF IsFold
<1>3. ASSUME S # {}
      PROVE  SumFunctionOnSet(f, S) = f[c[S]] + SumFunctionOnSet(f, S \ {c[S]})
  <2> DEFINE R == S \ {c[S]}
  <2>1. c[S] \in S /\ R \in SUBSET S /\ IsFiniteSet(R) /\ \A x \in R : f[x] \in Nat
    BY <1>1, <1>3, FS_Subset
  <2>2. PICK d, H, jt :
           /\ d = [T \in SUBSET R |-> CHOOSE x \in T : TRUE]
           /\ \A T \in SUBSET R : T # {} => d[T] \in T
           /\ \A x \in R, y \in Nat : H[<<x, y>>] = f[x] + y
           /\ jt \in [SUBSET R -> Nat] /\ IsFold(jt, R, 0, d, H)
           /\ SumFunctionOnSet(f, R) = jt[R]
    <3> HIDE DEF R
    <3> QED
      BY <2>1, SumIsFold
  <2>3. \A T \in SUBSET R : d[T] = c[T]
    BY <1>1, <2>1, <2>2
  <2>4. IsFold(jt, R, 0, d, F)
    <3>1. ASSUME NEW T \in SUBSET R, T # {}
          PROVE  H[<<d[T], jt[T \ {d[T]}]>>] = F[<<d[T], jt[T \ {d[T]}]>>]
      <4>1. d[T] \in R /\ d[T] \in S /\ T \ {d[T]} \in SUBSET R
        BY <2>1, <2>2, <3>1
      <4>2. jt[T \ {d[T]}] \in Nat
        BY <2>2, <4>1
      <4>3. H[<<d[T], jt[T \ {d[T]}]>>] = f[d[T]] + jt[T \ {d[T]}]
        BY <2>2, <4>1, <4>2
      <4>4. F[<<d[T], jt[T \ {d[T]}]>>] = f[d[T]] + jt[T \ {d[T]}]
        BY <1>1, <4>1, <4>2
      <4> QED
        BY <4>3, <4>4
    <3> HIDE DEF R
    <3>2. jt = [T \in SUBSET R |-> IF T = {} THEN 0 ELSE H[<<d[T], jt[T \ {d[T]}]>>]]
      BY ONLY <2>2 DEF IsFold
    <3> QED
      BY ONLY <3>1, <3>2 DEF IsFold
  <2>5. jt[R] = it[R]
    <3>1. IsFold(it, S, 0, c, F) /\ \A T \in SUBSET S : T # {} => c[T] \in T
      BY <1>1
    <3>2. R \in SUBSET S
      OBVIOUS
    <3> HIDE DEF R
    <3>3. \A T \in SUBSET R : jt[T] = it[T]
      BY ONLY IsFiniteSet(S), <2>3, <2>4, <3>1, <3>2, FoldsAgree
    <3> QED
      BY <3>3
  <2>6. it[R] \in Nat
    BY <1>1, <2>1
  <2>7. F[<<c[S], it[R]>>] = f[c[S]] + it[R]
    BY <1>1, <2>1, <2>6
  <2>8. SumFunctionOnSet(f, R) = it[R]
    BY <2>2, <2>5
  <2>9. SumFunctionOnSet(f, S) = F[<<c[S], it[R]>>]
    BY <1>1, <1>2, <1>3
  <2> QED
    BY <2>7, <2>8, <2>9
<1> QED
  <2>1. S = {} => it[S] = 0
    BY <1>2
  <2>2. it[S] \in Nat
    BY <1>1
  <2>3. S # {} => c[S] \in S
    BY <1>1
  <2> QED
    BY <1>1, <1>3, <2>1, <2>2, <2>3

\* The sum takes any element and the sum of the others.
LEMMA SumRemove ==
    ASSUME NEW S, IsFiniteSet(S), NEW f, \A x \in S : f[x] \in Nat
    PROVE  \A x \in S : SumFunctionOnSet(f, S) = f[x] + SumFunctionOnSet(f, S \ {x})
<1> DEFINE Sum(T) == SumFunctionOnSet(f, T)
           B == {T \in SUBSET S : \E x \in T : Sum(T) # f[x] + Sum(T \ {x})}
<1>1. \A T \in SUBSET S : Sum(T) \in Nat /\ (T # {} => \E x \in T : Sum(T) = f[x] + Sum(T \ {x}))
  <2> TAKE T \in SUBSET S
  <2>1. IsFiniteSet(T) /\ \A x \in T : f[x] \in Nat
    BY FS_Subset
  <2> QED
    BY <2>1, SumTakesOne
<1> HIDE DEF Sum
<1>2. ASSUME B # {}
      PROVE  FALSE
  <2>1. PICK T \in B : \A U \in B : U \subseteq T => U = T
    <3>1. B \in SUBSET SUBSET S
      OBVIOUS
    <3> HIDE DEF B
    <3> QED
      BY <1>2, <3>1, OneIsInnermost
  <2>2. PICK y \in T : Sum(T) # f[y] + Sum(T \ {y})
    OBVIOUS
  <2>3. T \in SUBSET S /\ T # {}
    BY <2>2
  <2>4. PICK z \in T : Sum(T) = f[z] + Sum(T \ {z})
    BY <1>1, <2>3
  <2>5. y # z
    BY <2>2, <2>4
  <2>6. T \ {z} \in SUBSET S /\ T \ {y} \in SUBSET S /\ T \ {z} \notin B /\ T \ {y} \notin B
    <3>1. T \ {z} \in SUBSET S /\ T \ {y} \in SUBSET S /\ T \ {z} # T /\ T \ {y} # T
      BY <2>3
    <3> HIDE DEF B
    <3> QED
      BY <2>1, <3>1
  <2>7. PICK W : W = (T \ {z}) \ {y} /\ W = (T \ {y}) \ {z}
    OBVIOUS
  <2>8. Sum(T \ {z}) = f[y] + Sum(W)
    BY <2>5, <2>6, <2>7
  <2>9. Sum(T \ {y}) = f[z] + Sum(W)
    BY <2>5, <2>6, <2>7
  <2>10. f[y] \in Nat /\ f[z] \in Nat /\ Sum(W) \in Nat
    <3>1. y \in S /\ z \in S /\ W \in SUBSET S
      BY <2>3, <2>7
    <3> QED
      BY <1>1, <3>1
  <2>11. PICK sy, sz \in Int : sy = Sum(T \ {y}) /\ sz = Sum(T \ {z})
    BY <2>8, <2>9, <2>10
  <2> HIDE DEF B
  <2> QED
    BY <2>2, <2>4, <2>8, <2>9, <2>10, <2>11
<1>3. S \in SUBSET S /\ S \notin B
  BY <1>2
<1> QED
  BY <1>3 DEF Sum

\* The sums over the subsets of S: over no element zero, and an element more adds its value.
LEMMA SumFacts ==
    ASSUME NEW S, IsFiniteSet(S), NEW f, \A x \in S : f[x] \in Nat
    PROVE  /\ SumFunctionOnSet(f, {}) = 0
           /\ \A T \in SUBSET S :
                 /\ SumFunctionOnSet(f, T) \in Nat
                 /\ \A x \in S : x \notin T =>
                       SumFunctionOnSet(f, T \cup {x}) = f[x] + SumFunctionOnSet(f, T)
<1>1. ASSUME NEW T \in SUBSET S
      PROVE  IsFiniteSet(T) /\ \A x \in T : f[x] \in Nat
  BY FS_Subset
<1>2. SumFunctionOnSet(f, {}) = 0
  <2>1. {} \in SUBSET S
    OBVIOUS
  <2>2. IsFiniteSet({}) /\ \A x \in {} : f[x] \in Nat
    BY <1>1, <2>1
  <2> QED
    BY <2>2, SumTakesOne
<1>3. ASSUME NEW T \in SUBSET S
      PROVE  SumFunctionOnSet(f, T) \in Nat
  BY <1>1, SumTakesOne
<1>4. ASSUME NEW T \in SUBSET S, NEW x \in S, x \notin T
      PROVE  SumFunctionOnSet(f, T \cup {x}) = f[x] + SumFunctionOnSet(f, T)
  <2>1. T \cup {x} \in SUBSET S /\ x \in T \cup {x} /\ (T \cup {x}) \ {x} = T
    BY <1>4
  <2>2. IsFiniteSet(T \cup {x}) /\ \A y \in T \cup {x} : f[y] \in Nat
    BY <1>1, <2>1
  <2>3. SumFunctionOnSet(f, T \cup {x}) = f[x] + SumFunctionOnSet(f, (T \cup {x}) \ {x})
    BY <2>1, <2>2, SumRemove
  <2> QED
    BY <2>1, <2>3
<1> QED
  BY <1>2, <1>3, <1>4

\* Functions with the same values on S have the same sums.
LEMMA SumSame ==
    ASSUME NEW S, IsFiniteSet(S), NEW f, NEW g, \A x \in S : f[x] \in Nat /\ g[x] = f[x]
    PROVE  SumFunctionOnSet(g, S) = SumFunctionOnSet(f, S)
<1> DEFINE G == {T \in SUBSET S : SumFunctionOnSet(g, T) = SumFunctionOnSet(f, T)}
<1>1. \A x \in S : f[x] \in Nat /\ g[x] \in Nat
  OBVIOUS
<1>2. {} \in G
  BY <1>1, SumFacts
<1>3. ASSUME NEW T \in SUBSET S, NEW x \in S, T \in G, x \notin T
      PROVE  T \cup {x} \in G
  <2>1. SumFunctionOnSet(f, T \cup {x}) = f[x] + SumFunctionOnSet(f, T)
    BY <1>1, <1>3, SumFacts
  <2>2. SumFunctionOnSet(g, T \cup {x}) = g[x] + SumFunctionOnSet(g, T)
    BY <1>1, <1>3, SumFacts
  <2> QED
    BY <1>3, <2>1, <2>2
<1>4. \A T \in SUBSET S : T \in G
  <2> HIDE DEF G
  <2> QED
    BY <1>2, <1>3, SubsetInduction
<1> QED
  BY <1>4

\* The sum of two functions' sums.
LEMMA SumPlus ==
    ASSUME NEW S, IsFiniteSet(S), NEW f, NEW g, NEW h,
           \A x \in S : f[x] \in Nat /\ g[x] \in Nat /\ h[x] = f[x] + g[x]
    PROVE  SumFunctionOnSet(h, S) = SumFunctionOnSet(f, S) + SumFunctionOnSet(g, S)
<1> DEFINE G == {T \in SUBSET S :
                    SumFunctionOnSet(h, T) = SumFunctionOnSet(f, T) + SumFunctionOnSet(g, T)}
<1>1. \A x \in S : f[x] \in Nat /\ g[x] \in Nat /\ h[x] \in Nat
  OBVIOUS
<1>2. {} \in G
  BY <1>1, SumFacts
<1>3. ASSUME NEW T \in SUBSET S, NEW x \in S, T \in G, x \notin T
      PROVE  T \cup {x} \in G
  <2>1. /\ SumFunctionOnSet(f, T \cup {x}) = f[x] + SumFunctionOnSet(f, T)
        /\ SumFunctionOnSet(f, T) \in Nat
    BY <1>1, <1>3, SumFacts
  <2>2. /\ SumFunctionOnSet(g, T \cup {x}) = g[x] + SumFunctionOnSet(g, T)
        /\ SumFunctionOnSet(g, T) \in Nat
    BY <1>1, <1>3, SumFacts
  <2>3. SumFunctionOnSet(h, T \cup {x}) = h[x] + SumFunctionOnSet(h, T)
    BY <1>1, <1>3, SumFacts
  <2>4. h[x] = f[x] + g[x] /\ f[x] \in Nat /\ g[x] \in Nat
    OBVIOUS
  <2> QED
    BY <1>3, <2>1, <2>2, <2>3, <2>4
<1>4. \A T \in SUBSET S : T \in G
  <2> HIDE DEF G
  <2> QED
    BY <1>2, <1>3, SubsetInduction
<1> QED
  BY <1>4

\* Where every value is zero, so is the sum.
LEMMA SumZero ==
    ASSUME NEW S, IsFiniteSet(S), NEW f, \A x \in S : f[x] = 0
    PROVE  SumFunctionOnSet(f, S) = 0
<1> DEFINE G == {T \in SUBSET S : SumFunctionOnSet(f, T) = 0}
<1>1. \A x \in S : f[x] \in Nat
  OBVIOUS
<1>2. {} \in G
  BY <1>1, SumFacts
<1>3. ASSUME NEW T \in SUBSET S, NEW x \in S, T \in G, x \notin T
      PROVE  T \cup {x} \in G
  BY <1>1, <1>3, SumFacts
<1>4. \A T \in SUBSET S : T \in G
  <2> HIDE DEF G
  <2> QED
    BY <1>2, <1>3, SubsetInduction
<1> QED
  BY <1>4

\* A value that is k greater makes the sum k greater.
LEMMA SumBump ==
    ASSUME NEW S, IsFiniteSet(S), NEW f, NEW g, NEW y \in S, NEW k \in Nat,
           \A x \in S : f[x] \in Nat, \A x \in S : g[x] = IF x = y THEN f[x] + k ELSE f[x]
    PROVE  SumFunctionOnSet(g, S) = SumFunctionOnSet(f, S) + k
<1> DEFINE R == S \ {y}
<1>1. IsFiniteSet(R) /\ \A x \in R : f[x] \in Nat /\ g[x] = f[x]
  BY FS_Subset
<1>2. SumFunctionOnSet(g, R) = SumFunctionOnSet(f, R)
  <2> HIDE DEF R
  <2> QED
    BY <1>1, SumSame
<1>3. SumFunctionOnSet(f, S) = f[y] + SumFunctionOnSet(f, R)
  BY SumRemove
<1>4. \A x \in S : g[x] \in Nat
  OBVIOUS
<1>5. SumFunctionOnSet(g, S) = g[y] + SumFunctionOnSet(g, R)
  BY <1>4, SumRemove
<1>6. SumFunctionOnSet(f, R) \in Nat /\ f[y] \in Nat /\ g[y] = f[y] + k
  <2>1. \A x \in R : f[x] \in Nat
    BY <1>1
  <2> HIDE DEF R
  <2> QED
    BY <1>1, <2>1, SumTakesOne
<1> QED
  BY <1>2, <1>3, <1>5, <1>6

\* The sum over two sets without a common element is that of their sums.
LEMMA SumSplit ==
    ASSUME NEW S, IsFiniteSet(S), NEW f, \A x \in S : f[x] \in Nat,
           NEW T \in SUBSET S, NEW U \in SUBSET S, T \cap U = {}
    PROVE  SumFunctionOnSet(f, T \cup U) = SumFunctionOnSet(f, T) + SumFunctionOnSet(f, U)
<1> DEFINE G == {V \in SUBSET T :
                    SumFunctionOnSet(f, V \cup U) = SumFunctionOnSet(f, V) + SumFunctionOnSet(f, U)}
<1>1. SumFunctionOnSet(f, {}) = 0 /\ SumFunctionOnSet(f, U) \in Nat
  BY SumFacts
<1>2. {} \in G
  <2>1. {} \cup U = U
    OBVIOUS
  <2> QED
    BY <1>1, <2>1
<1>3. ASSUME NEW V \in SUBSET T, NEW x \in T, V \in G, x \notin V
      PROVE  V \cup {x} \in G
  <2>1. x \in S /\ V \in SUBSET S /\ V \cup U \in SUBSET S /\ x \notin V \cup U /\ V \cup {x} \in SUBSET T
    BY <1>3
  <2>2. /\ SumFunctionOnSet(f, V \cup {x}) = f[x] + SumFunctionOnSet(f, V)
        /\ SumFunctionOnSet(f, V) \in Nat
    BY <1>3, <2>1, SumFacts
  <2>3. PICK W \in SUBSET S : W = V \cup U /\ x \notin W
    BY <2>1
  <2>4. SumFunctionOnSet(f, W \cup {x}) = f[x] + SumFunctionOnSet(f, W)
    <3>1. \A R \in SUBSET S : \A y \in S :
             y \notin R => SumFunctionOnSet(f, R \cup {y}) = f[y] + SumFunctionOnSet(f, R)
      BY SumFacts
    <3> QED
      BY <2>1, <2>3, <3>1
  <2>5. PICK X : X = W \cup {x} /\ X = (V \cup {x}) \cup U
    BY <2>3
  <2>6. SumFunctionOnSet(f, X) = f[x] + SumFunctionOnSet(f, W) /\ f[x] \in Nat
    BY <2>1, <2>4, <2>5
  <2>7. SumFunctionOnSet(f, W) = SumFunctionOnSet(f, V) + SumFunctionOnSet(f, U)
    BY <1>3, <2>3
  <2>8. SumFunctionOnSet(f, X) = SumFunctionOnSet(f, V \cup {x}) + SumFunctionOnSet(f, U)
    BY <1>1, <2>2, <2>6, <2>7
  <2> QED
    BY <2>1, <2>5, <2>8
<1>4. IsFiniteSet(T)
  BY FS_Subset
<1>5. \A V \in SUBSET T : V \in G
  <2> HIDE DEF G
  <2> QED
    BY <1>2, <1>3, <1>4, SubsetInduction
<1> QED
  BY <1>5

\* A function on the naturals may be defined from its value for zero and, for any
\* other number, from its value for the number before.
LEMMA IterationExists ==
    ASSUME NEW Y, NEW base \in Y, NEW F, \A y \in Y : F[y] \in Y
    PROVE  \E it \in [Nat -> Y] : \A n \in Nat : it[n] = IF n = 0 THEN base ELSE F[it[n - 1]]
<1> DEFINE Fits(f, n) == /\ f \in [0 .. n -> Y]
                         /\ \A m \in 0 .. n : f[m] = IF m = 0 THEN base ELSE F[f[m - 1]]
           G  == {n \in Nat : \E f : Fits(f, n)}
           it == [n \in Nat |-> (CHOOSE f : Fits(f, n))[n]]
<1>1. 0 \in G
  <2>1. Fits([m \in 0 .. 0 |-> base], 0)
    OBVIOUS
  <2> HIDE DEF Fits
  <2> QED
    BY <2>1
<1>2. ASSUME NEW n \in Nat, n \in G
      PROVE  n + 1 \in G
  <2>1. PICK f : Fits(f, n)
    BY <1>2
  <2> DEFINE g == [m \in 0 .. n + 1 |-> IF m = n + 1 THEN F[f[n]] ELSE f[m]]
  <2>2. f[n] \in Y /\ F[f[n]] \in Y
    BY <2>1
  <2>3. g \in [0 .. n + 1 -> Y]
    BY <2>1, <2>2
  <2>4. ASSUME NEW m \in 0 .. n + 1
        PROVE  g[m] = IF m = 0 THEN base ELSE F[g[m - 1]]
    <3>1. CASE m = n + 1
      BY <3>1
    <3>2. CASE m # n + 1
      <4>1. m \in 0 .. n /\ (m # 0 => m - 1 \in 0 .. n)
        BY <3>2
      <4>2. f[m] = IF m = 0 THEN base ELSE F[f[m - 1]]
        BY <2>1, <4>1
      <4>3. g[m] = f[m] /\ (m # 0 => g[m - 1] = f[m - 1])
        BY <4>1
      <4> HIDE DEF g
      <4> QED
        BY <4>2, <4>3
    <3> QED
      BY <3>1, <3>2
  <2>5. Fits(g, n + 1)
    <3> HIDE DEF g
    <3> QED
      BY <2>3, <2>4
  <2> HIDE DEF Fits, g
  <2> QED
    BY <2>5
<1>3. \A n \in Nat : \E f : Fits(f, n)
  <2>1. \A n \in Nat : n \in G
    <3> HIDE DEF G
    <3> QED
      BY <1>1, <1>2, NatSetInduction
  <2> HIDE DEF Fits
  <2> QED
    BY <2>1
<1>4. ASSUME NEW n \in Nat, NEW f, NEW g, Fits(f, n), Fits(g, n + 1)
      PROVE  f[n] = g[n]
  <2> DEFINE H == {k \in Nat : k <= n => f[k] = g[k]}
  <2>1. 0 \in H
    BY <1>4
  <2>2. ASSUME NEW k \in Nat, k \in H
        PROVE  k + 1 \in H
    <3>1. SUFFICES ASSUME k + 1 <= n
                   PROVE  f[k + 1] = g[k + 1]
      OBVIOUS
    <3>2. f[k + 1] = F[f[k]] /\ g[k + 1] = F[g[k]]
      BY <1>4, <3>1
    <3> QED
      BY <2>2, <3>1, <3>2
  <2>3. \A k \in Nat : k \in H
    <3> HIDE DEF H
    <3> QED
      BY <2>1, <2>2, NatSetInduction
  <2> QED
    BY <2>3
<1>5. ASSUME NEW n \in Nat
      PROVE  it[n] \in Y /\ it[n] = IF n = 0 THEN base ELSE F[it[n - 1]]
  <2> DEFINE f == CHOOSE f : Fits(f, n)
  <2>1. Fits(f, n) /\ it[n] = f[n]
    <3> HIDE DEF Fits
    <3> QED
      BY <1>3
  <2>2. f[n] \in Y
    BY <2>1
  <2>3. CASE n = 0
    <3> HIDE DEF it, f
    <3> QED
      BY <2>1, <2>2, <2>3
  <2>4. CASE n # 0
    <3> DEFINE g == CHOOSE g : Fits(g, n - 1)
    <3>1. n - 1 \in Nat /\ (n - 1) + 1 = n
      BY <2>4
    <3>2. Fits(g, n - 1) /\ it[n - 1] = g[n - 1]
      <4> HIDE DEF Fits
      <4> QED
        BY <1>3, <3>1
    <3> HIDE DEF f, g
    <3>3. g[n - 1] = f[n - 1]
      <4>1. Fits(f, (n - 1) + 1)
        BY <2>1, <3>1
      <4> HIDE DEF Fits
      <4> QED
        BY <1>4, <3>1, <3>2, <4>1
    <3>4. f[n] = F[f[n - 1]]
      BY <2>1, <2>4
    <3> HIDE DEF it
    <3> QED
      BY <2>1, <2>2, <2>4, <3>2, <3>3, <3>4
  <2> QED
    BY <2>3, <2>4
<1>6. it \in [Nat -> Y]
  <2>1. it = [n \in Nat |-> it[n]]
    OBVIOUS
  <2> HIDE DEF it
  <2> QED
    BY <1>5, <2>1
<1> HIDE DEF it
<1> QED
  BY <1>5, <1>6
=============================================================================
