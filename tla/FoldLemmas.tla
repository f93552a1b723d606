----------------------------- MODULE FoldLemmas -----------------------------
(***************************************************************************)
(* Sums over finite sets and folds over sequences, for the modules that    *)
(* add up rows: what the folds of the community modules compute, by        *)
(* induction.  An induction is stated for a set of numbers or of subsets,  *)
(* the ones the claim holds for.                                           *)
(***************************************************************************)
EXTENDS Integers, FiniteSetsExt, FiniteSetTheorems, WellFoundedInduction, TLAPS

LEMMA NatInductionSet ==
    ASSUME NEW P, 0 \in P, \A n \in Nat : n \in P => n + 1 \in P
    PROVE  \A n \in Nat : n \in P
<1>1. SUFFICES ASSUME NEW B, B = {n \in Nat : n \notin P}, B # {} PROVE FALSE
  OBVIOUS
<1>2. PICK x \in B : \A y \in B : ~(<<y, x>> \in OpToRel(<, Nat))
  BY <1>1, WFMin, NatLessThanWellFounded, Zenon
<1>3. \A y \in B : ~(y < x)
  BY <1>1, <1>2 DEF OpToRel
<1>4. x \in Nat /\ x # 0 /\ x - 1 \in Nat
  BY <1>1
<1>5. x - 1 \in P
  BY <1>1, <1>3, <1>4
<1> QED
  BY <1>1, <1>4, <1>5

\* The sizes of the subsets of a finite set.
LEMMA SubsetSizes ==
    ASSUME NEW D, IsFiniteSet(D), NEW s \in SUBSET D
    PROVE  /\ IsFiniteSet(s) /\ Cardinality(s) \in Nat /\ (Cardinality(s) = 0 <=> s = {})
           /\ \A x \in s : Cardinality(s \ {x}) = Cardinality(s) - 1
BY FS_Subset, FS_CardinalityType, FS_EmptySet, FS_RemoveElement

\* What holds of a set when it holds of the set without any one element.
LEMMA SubsetInduction ==
    ASSUME NEW D, IsFiniteSet(D), NEW F, {} \in F,
           \A s \in SUBSET D : s # {} /\ (\A x \in s : s \ {x} \in F) => s \in F
    PROVE  \A s \in SUBSET D : s \in F
<1> DEFINE P == {n \in Nat : \A s \in SUBSET D : Cardinality(s) = n => s \in F}
<1>1. 0 \in P
  BY SubsetSizes
<1>2. ASSUME NEW n \in Nat, n \in P PROVE n + 1 \in P
  <2>1. ASSUME NEW s \in SUBSET D, Cardinality(s) = n + 1 PROVE s \in F
    <3>1. s # {} /\ \A x \in s : Cardinality(s \ {x}) = Cardinality(s) - 1
      BY <2>1, SubsetSizes
    <3>2. ASSUME NEW x \in s PROVE s \ {x} \in F
      <4>1. Cardinality(s \ {x}) = n
        BY <2>1, <3>1
      <4> QED
        BY <1>2, <4>1
    <3> QED
      BY <3>1, <3>2
  <2> QED
    BY <2>1
<1> HIDE DEF P
<1>3. \A n \in Nat : n \in P
  BY <1>1, <1>2, NatInductionSet
<1>4. ASSUME NEW s \in SUBSET D PROVE s \in F
  <2>1. Cardinality(s) \in Nat
    BY SubsetSizes
  <2> QED
    BY <1>3, <2>1 DEF P
<1> QED
  BY <1>4

LEMMA MaxIs ==
    ASSUME NEW S \in SUBSET Int, IsFiniteSet(S), S # {}
    PROVE  Max(S) \in S /\ \A x \in S : x <= Max(S)
<1> DEFINE F == {s \in SUBSET S : s # {} => \E m \in s : \A x \in s : m >= x}
<1>1. {} \in F
  OBVIOUS
<1>2. ASSUME NEW s \in SUBSET S, s # {}, \A x \in s : s \ {x} \in F PROVE s \in F
  <2>1. PICK y \in s : TRUE
    BY <1>2
  <2>2. CASE s \ {y} = {}
    <3>1. s = {y} /\ y \in Int
      BY <2>1, <2>2
    <3> QED
      BY <3>1
  <2>3. CASE s \ {y} # {}
    <3>1. PICK m \in s \ {y} : \A x \in s \ {y} : m >= x
      BY <1>2, <2>1, <2>3
    <3>2. \A x \in s : x = y \/ m >= x
      BY <3>1
    <3>3. CASE m >= y
      <4>1. \A x \in s : m >= x
        BY <3>2, <3>3
      <4> QED
        BY <3>1, <4>1
    <3>4. CASE ~(m >= y)
      <4>1. \A x \in s : y >= x
        BY <2>1, <3>1, <3>2, <3>4
      <4> QED
        BY <2>1, <4>1
    <3> QED
      BY <3>3, <3>4
  <2> QED
    BY <2>2, <2>3
<1>3. S \in F
  <2> HIDE DEF F
  <2>1. \A s \in SUBSET S : s \in F
    BY <1>1, <1>2, SubsetInduction
  <2> QED
    BY <2>1
<1>4. \E m \in S : \A x \in S : m >= x
  BY <1>3
<1>5. Max(S) \in S /\ \A x \in S : Max(S) >= x
  BY <1>4, Zenon DEF Max
<1>6. PICK m \in S : m = Max(S)
  BY <1>5
<1> QED
  BY <1>5, <1>6

LEMMA MinOfTwo ==
    ASSUME NEW a \in Int, NEW b \in Int
    PROVE  Min({a, b}) = IF a <= b THEN a ELSE b
<1>1. \E m \in {a, b} : \A x \in {a, b} : m =< x
  OBVIOUS
<1>2. Min({a, b}) \in {a, b} /\ \A x \in {a, b} : Min({a, b}) =< x
  BY <1>1, Zenon DEF Min
<1>3. PICK m \in {a, b} : m = Min({a, b})
  BY <1>2
<1> QED
  BY <1>2, <1>3

----------------------------------------------------------------------------
(* A fold over the subsets of D takes the elements out in the order of c.  *)

IsFold(it, D, c, base, G) ==
    \A s \in SUBSET D : it[s] = IF s = {} THEN base ELSE G[<<c[s], it[s \ {c[s]}]>>]

LEMMA FoldExists ==
    ASSUME NEW D, IsFiniteSet(D), NEW V, NEW base \in V, NEW G \in [D \X V -> V],
           NEW c, \A s \in SUBSET D : s # {} => c[s] \in s
    PROVE  \E it \in [SUBSET D -> V] : IsFold(it, D, c, base, G)
<1> DEFINE Sub(n) == {s \in SUBSET D : Cardinality(s) <= n}
           Eqn(it, s) == it[s] = IF s = {} THEN base ELSE G[<<c[s], it[s \ {c[s]}]>>]
           P == {n \in Nat : \E it \in [Sub(n) -> V] : \A s \in Sub(n) : Eqn(it, s)}
<1>0. \A s \in SUBSET D : /\ Cardinality(s) \in Nat /\ (Cardinality(s) = 0 <=> s = {})
                          /\ \A x \in s : Cardinality(s \ {x}) = Cardinality(s) - 1
  BY SubsetSizes
<1>1. 0 \in P
  <2>1. Sub(0) = {{}}
    BY <1>0
  <2>2. [s \in Sub(0) |-> base] \in [Sub(0) -> V] /\ \A s \in Sub(0) : Eqn([t \in Sub(0) |-> base], s)
    BY <2>1
  <2> QED
    BY <2>2
<1>2. ASSUME NEW n \in Nat, n \in P PROVE n + 1 \in P
  <2>1. PICK it \in [Sub(n) -> V] : \A s \in Sub(n) : Eqn(it, s)
    BY <1>2
  <2> DEFINE jt == [s \in Sub(n + 1) |-> IF Cardinality(s) <= n THEN it[s] ELSE G[<<c[s], it[s \ {c[s]}]>>]]
  <2>2. ASSUME NEW s \in Sub(n + 1), ~(Cardinality(s) <= n)
        PROVE  s # {} /\ c[s] \in s /\ s \ {c[s]} \in Sub(n)
    BY <1>0, <2>2
  <2>3. ASSUME NEW s \in Sub(n), s # {} PROVE c[s] \in s /\ s \ {c[s]} \in Sub(n)
    BY <1>0, <2>3
  <2>4. ASSUME NEW s \in Sub(n + 1) PROVE jt[s] \in V
    <3>1. CASE Cardinality(s) <= n
      <4>1. s \in Sub(n) /\ jt[s] = it[s]
        BY <3>1
      <4> QED
        BY <4>1
    <3>2. CASE ~(Cardinality(s) <= n)
      <4>1. c[s] \in D /\ it[s \ {c[s]}] \in V
        BY <2>2, <3>2
      <4>2. G[<<c[s], it[s \ {c[s]}]>>] \in V
        BY <4>1
      <4> QED
        BY <3>2, <4>2
    <3> QED
      BY <3>1, <3>2
  <2>5. jt \in [Sub(n + 1) -> V]
    BY <2>4
  <2>6. ASSUME NEW s \in Sub(n + 1) PROVE Eqn(jt, s)
    <3>0. \A t \in Sub(n) : t \in Sub(n + 1) /\ jt[t] = it[t]
      BY <1>0
    <3>1. CASE Cardinality(s) <= n
      <4>1. s \in Sub(n) /\ Eqn(it, s)
        BY <2>1, <3>1
      <4> QED
        BY <2>3, <3>0, <4>1
    <3>2. CASE ~(Cardinality(s) <= n)
      BY <2>2, <3>0, <3>2
    <3> QED
      BY <3>1, <3>2
  <2> HIDE DEF jt, Sub, Eqn
  <2> QED
    BY <2>5, <2>6
<1>3. \A n \in Nat : n \in P
  <2> HIDE DEF P
  <2> QED
    BY <1>1, <1>2, NatInductionSet
<1>4. Sub(Cardinality(D)) = SUBSET D
  BY FS_Subset, FS_CardinalityType
<1>5. PICK it \in [SUBSET D -> V] : \A s \in SUBSET D : Eqn(it, s)
  <2>1. PICK n \in Nat : n = Cardinality(D)
    BY FS_CardinalityType
  <2>2. Sub(n) = SUBSET D
    BY <1>4, <2>1
  <2>3. \E it \in [Sub(n) -> V] : \A s \in Sub(n) : Eqn(it, s)
    BY <1>3
  <2> HIDE DEF Sub, Eqn
  <2> QED
    BY <2>2, <2>3
<1> QED
  BY <1>5 DEF IsFold

----------------------------------------------------------------------------
(* Sums of functions over finite sets.                                     *)

Some(s) == CHOOSE x \in s : TRUE

IsSum(it, f, S) ==
    it = [s \in SUBSET S |-> IF s = {} THEN 0 ELSE f[Some(s)] + it[s \ {Some(s)}]]

LEMMA SumUnfolds ==
    ASSUME NEW f, NEW S
    PROVE  SumFunctionOnSet(f, S) = (CHOOSE it : IsSum(it, f, S))[S]
BY DEF SumFunctionOnSet, FoldFunctionOnSet, MapThenFoldSet, IsSum, Some

Summable(f, S) == IsFiniteSet(S) /\ \A x \in S : f[x] \in Int

LEMMA SummableParts ==
    ASSUME NEW f, NEW S, Summable(f, S), NEW s \in SUBSET S
    PROVE  Summable(f, s)
BY FS_Subset DEF Summable

LEMMA SumExists ==
    ASSUME NEW f, NEW S, Summable(f, S)
    PROVE  \E it : IsSum(it, f, S)
<1> DEFINE G == [p \in S \X Int |-> f[p[1]] + p[2]]
           c == [s \in SUBSET S |-> Some(s)]
<1>1. G \in [S \X Int -> Int]
  BY DEF Summable
<1>2. \A s \in SUBSET S : s # {} => c[s] \in s
  BY DEF Some
<1>3. IsFiniteSet(S) /\ 0 \in Int
  BY DEF Summable
<1> HIDE DEF G, c
<1>4. PICK it \in [SUBSET S -> Int] : IsFold(it, S, c, 0, G)
  BY <1>1, <1>2, <1>3, FoldExists
<1>5. ASSUME NEW s \in SUBSET S
      PROVE  it[s] = IF s = {} THEN 0 ELSE f[Some(s)] + it[s \ {Some(s)}]
  <2>1. CASE s = {}
    BY <1>4, <2>1 DEF IsFold
  <2>2. CASE s # {}
    <3>1. c[s] = Some(s) /\ Some(s) \in S /\ s \ {Some(s)} \in SUBSET S
      BY <1>2, <2>2 DEF c
    <3>2. it[s \ {Some(s)}] \in Int
      BY <3>1
    <3>3. G[<<Some(s), it[s \ {Some(s)}]>>] = f[Some(s)] + it[s \ {Some(s)}]
      BY <3>1, <3>2 DEF G
    <3> QED
      BY <1>4, <2>2, <3>1, <3>3 DEF IsFold
  <2> QED
    BY <2>1, <2>2
<1>6. it = [s \in SUBSET S |-> IF s = {} THEN 0 ELSE f[Some(s)] + it[s \ {Some(s)}]]
  BY <1>5
<1> QED
  BY <1>6 DEF IsSum

\* Two folds agree on a set whose elements have the same values in both.
LEMMA SumsAgree ==
    ASSUME NEW f, NEW S, NEW a, IsSum(a, f, S), NEW g, NEW R, NEW b, IsSum(b, g, R),
           NEW T, IsFiniteSet(T), T \subseteq S, T \subseteq R, \A x \in T : f[x] = g[x]
    PROVE  a[T] = b[T]
<1> DEFINE F == {s \in SUBSET T : a[s] = b[s]}
<1>1. \A s \in SUBSET T : /\ a[s] = IF s = {} THEN 0 ELSE f[Some(s)] + a[s \ {Some(s)}]
                          /\ b[s] = IF s = {} THEN 0 ELSE g[Some(s)] + b[s \ {Some(s)}]
                          /\ s # {} => Some(s) \in s
  BY DEF IsSum, Some
<1>2. {} \in F
  BY <1>1
<1>3. ASSUME NEW s \in SUBSET T, s # {}, \A x \in s : s \ {x} \in F PROVE s \in F
  <2>1. Some(s) \in s /\ f[Some(s)] = g[Some(s)]
    BY <1>1, <1>3
  <2>2. a[s \ {Some(s)}] = b[s \ {Some(s)}]
    BY <1>3, <2>1
  <2> QED
    BY <1>1, <1>3, <2>1, <2>2
<1> HIDE DEF F
<1>4. T \in F
  <2>1. \A s \in SUBSET T : s \in F
    BY <1>2, <1>3, SubsetInduction
  <2> QED
    BY <2>1
<1> QED
  BY <1>4 DEF F

LEMMA SumIs ==
    ASSUME NEW f, NEW S, Summable(f, S)
    PROVE  \E it : IsSum(it, f, S) /\ SumFunctionOnSet(f, S) = it[S]
<1>1. IsSum(CHOOSE it : IsSum(it, f, S), f, S)
  BY SumExists, Zenon
<1> QED
  BY <1>1, SumUnfolds, Zenon

\* Equal values have equal sums.
LEMMA SumSame ==
    ASSUME NEW f, NEW g, NEW S, Summable(f, S), \A x \in S : f[x] = g[x]
    PROVE  SumFunctionOnSet(f, S) = SumFunctionOnSet(g, S)
<1>1. Summable(g, S) /\ IsFiniteSet(S)
  BY DEF Summable
<1>2. PICK a : IsSum(a, f, S) /\ SumFunctionOnSet(f, S) = a[S]
  BY SumIs
<1>3. PICK b : IsSum(b, g, S) /\ SumFunctionOnSet(g, S) = b[S]
  BY <1>1, SumIs
<1> QED
  BY <1>1, <1>2, <1>3, SumsAgree

LEMMA SumEmpty ==
    ASSUME NEW f
    PROVE  SumFunctionOnSet(f, {}) = 0
<1>1. Summable(f, {})
  BY FS_EmptySet DEF Summable
<1> QED
  BY <1>1, SumIs DEF IsSum

LEMMA SumFirst ==
    ASSUME NEW f, NEW S, Summable(f, S), S # {}
    PROVE  SumFunctionOnSet(f, S) = f[Some(S)] + SumFunctionOnSet(f, S \ {Some(S)})
<1> DEFINE R == S \ {Some(S)}
<1>1. PICK a : IsSum(a, f, S) /\ SumFunctionOnSet(f, S) = a[S]
  BY SumIs
<1>2. Summable(f, R) /\ IsFiniteSet(R) /\ R \subseteq S
  BY SummableParts DEF Summable
<1>3. PICK b : IsSum(b, f, R) /\ SumFunctionOnSet(f, R) = b[R]
  BY <1>2, SumIs
<1>4. a[R] = b[R]
  <2> HIDE DEF R
  <2> QED
    BY <1>1, <1>2, <1>3, SumsAgree
<1>5. a[S] = f[Some(S)] + a[R]
  BY <1>1 DEF IsSum
<1> QED
  BY <1>1, <1>3, <1>4, <1>5

LEMMA SumType ==
    ASSUME NEW f, NEW S, Summable(f, S)
    PROVE  SumFunctionOnSet(f, S) \in Int
<1> DEFINE F == {s \in SUBSET S : SumFunctionOnSet(f, s) \in Int}
<1>1. {} \in F
  BY SumEmpty
<1>2. ASSUME NEW s \in SUBSET S, s # {}, \A x \in s : s \ {x} \in F PROVE s \in F
  <2>1. Some(s) \in s
    BY <1>2 DEF Some
  <2>2. SumFunctionOnSet(f, s \ {Some(s)}) \in Int /\ f[Some(s)] \in Int
    BY <1>2, <2>1 DEF Summable
  <2>3. SumFunctionOnSet(f, s) = f[Some(s)] + SumFunctionOnSet(f, s \ {Some(s)})
    BY <1>2, SummableParts, SumFirst
  <2> QED
    BY <2>2, <2>3
<1>3. IsFiniteSet(S)
  BY DEF Summable
<1> HIDE DEF F
<1>4. S \in F
  BY <1>1, <1>2, <1>3, SubsetInduction
<1> QED
  BY <1>4 DEF F

\* Any element may be taken out first.
LEMMA SumTakeOut ==
    ASSUME NEW f, NEW S, Summable(f, S), NEW x \in S
    PROVE  SumFunctionOnSet(f, S) = f[x] + SumFunctionOnSet(f, S \ {x})
<1> DEFINE Sum(s) == SumFunctionOnSet(f, s)
           F == {s \in SUBSET S : \A y \in s : Sum(s) = f[y] + Sum(s \ {y})}
<1>1. \A s \in SUBSET S : Summable(f, s)
  BY SummableParts
<1>2. {} \in F
  OBVIOUS
<1>3. ASSUME NEW s \in SUBSET S, s # {}, \A y \in s : s \ {y} \in F PROVE s \in F
  <2>1. ASSUME NEW y \in s PROVE Sum(s) = f[y] + Sum(s \ {y})
    <3>1. PICK z : z = Some(s)
      OBVIOUS
    <3>2. z \in s /\ Sum(s) = f[z] + Sum(s \ {z})
      BY <1>1, <3>1, SumFirst DEF Some
    <3>3. CASE z = y
      BY <3>2, <3>3
    <3>4. CASE z # y
      <4>3. Sum(s \ {z}) = f[y] + Sum((s \ {z}) \ {y})
        BY <1>3, <3>2, <3>4
      <4>4. Sum(s \ {y}) = f[z] + Sum((s \ {y}) \ {z})
        BY <1>3, <3>2, <3>4
      <4>5. (s \ {y}) \ {z} = (s \ {z}) \ {y}
        OBVIOUS
      <4>6. PICK t \in Int : t = Sum((s \ {z}) \ {y})
        BY <1>1, SumType
      <4>7. f[y] \in Int /\ f[z] \in Int
        BY <3>2 DEF Summable
      <4>8. Sum(s) = f[z] + (f[y] + t) /\ Sum(s \ {y}) = f[z] + t
        BY <3>2, <4>3, <4>4, <4>5, <4>6
      <4> QED
        BY <4>6, <4>7, <4>8
    <3> QED
      BY <3>3, <3>4
  <2> QED
    BY <2>1
<1>4. IsFiniteSet(S)
  BY DEF Summable
<1> HIDE DEF F
<1>5. S \in F
  BY <1>2, <1>3, <1>4, SubsetInduction
<1> QED
  BY <1>5 DEF F

\* One more element.
LEMMA SumInsert ==
    ASSUME NEW f, NEW S, Summable(f, S), NEW x, x \notin S, f[x] \in Int
    PROVE  SumFunctionOnSet(f, S \cup {x}) = SumFunctionOnSet(f, S) + f[x]
<1>1. Summable(f, S \cup {x})
  BY FS_AddElement DEF Summable
<1>2. (S \cup {x}) \ {x} = S
  OBVIOUS
<1>3. PICK t \in Int : t = SumFunctionOnSet(f, S)
  BY SumType
<1>4. SumFunctionOnSet(f, (S \cup {x}) \ {x}) = t
  BY <1>2, <1>3
<1>5. SumFunctionOnSet(f, S \cup {x}) = f[x] + SumFunctionOnSet(f, (S \cup {x}) \ {x})
  BY <1>1, SumTakeOut
<1>6. SumFunctionOnSet(f, S \cup {x}) = f[x] + t
  BY <1>4, <1>5
<1> QED
  BY <1>3, <1>6

\* One value changes.
LEMMA SumChange ==
    ASSUME NEW f, NEW g, NEW S, Summable(f, S), NEW x \in S, g[x] \in Int,
           \A y \in S \ {x} : g[y] = f[y]
    PROVE  SumFunctionOnSet(g, S) = SumFunctionOnSet(f, S) + (g[x] - f[x])
<1>1. Summable(g, S)
  BY DEF Summable
<1>2. SumFunctionOnSet(g, S \ {x}) = SumFunctionOnSet(f, S \ {x})
  BY SummableParts, SumSame
<1>3. f[x] \in Int /\ SumFunctionOnSet(f, S \ {x}) \in Int
  BY SummableParts, SumType DEF Summable
<1>4. SumFunctionOnSet(g, S) = g[x] + SumFunctionOnSet(g, S \ {x})
  BY <1>1, SumTakeOut
<1>5. SumFunctionOnSet(f, S) = f[x] + SumFunctionOnSet(f, S \ {x})
  BY SumTakeOut
<1> QED
  BY <1>2, <1>3, <1>4, <1>5

\* A part of the set is taken out.
LEMMA SumSplit ==
    ASSUME NEW f, NEW S, Summable(f, S), NEW T \in SUBSET S
    PROVE  SumFunctionOnSet(f, S) = SumFunctionOnSet(f, T) + SumFunctionOnSet(f, S \ T)
<1> DEFINE Sum(s) == SumFunctionOnSet(f, s)
           F == {s \in SUBSET S : Sum(S) = Sum(s) + Sum(S \ s)}
<1>1. \A s \in SUBSET S : Summable(f, s) /\ Sum(s) \in Int
  BY SummableParts, SumType
<1>2. {} \in F
  <2>1. S \ {} = S /\ Sum({}) = 0
    BY SumEmpty
  <2> QED
    BY <1>1, <2>1
<1>3. ASSUME NEW s \in SUBSET S, s # {}, \A x \in s : s \ {x} \in F PROVE s \in F
  <2>1. PICK x \in s : TRUE
    BY <1>3
  <2>2. (S \ (s \ {x})) \ {x} = S \ s
    BY <2>1
  <2>3. PICK v \in Int, a \in Int, b \in Int, k \in Int :
          v = f[x] /\ a = Sum(s \ {x}) /\ b = Sum(S \ s) /\ k = Sum(S \ (s \ {x}))
    BY <1>1, <2>1 DEF Summable
  <2>4. Sum(S) = a + k
    BY <1>3, <2>1, <2>3
  <2>5. Sum(s) = v + a
    BY <1>1, <2>1, <2>3, SumTakeOut
  <2>6. k = v + b
    <3>1. Sum(S \ (s \ {x})) = f[x] + Sum((S \ (s \ {x})) \ {x})
      BY <1>1, <2>1, SumTakeOut
    <3>2. Sum((S \ (s \ {x})) \ {x}) = b
      BY <2>2, <2>3
    <3> QED
      BY <2>3, <3>1, <3>2
  <2>7. Sum(S) = Sum(s) + Sum(S \ s)
    BY <2>3, <2>4, <2>5, <2>6
  <2> QED
    BY <2>7
<1>4. IsFiniteSet(S)
  BY DEF Summable
<1> HIDE DEF F
<1>5. T \in F
  <2>1. \A s \in SUBSET S : s \in F
    BY <1>2, <1>3, <1>4, SubsetInduction
  <2> QED
    BY <2>1
<1> QED
  BY <1>5 DEF F

\* A sum of numbers up to m that are not negative.
LEMMA SumBounds ==
    ASSUME NEW f, NEW S, IsFiniteSet(S), NEW m \in Nat, \A x \in S : f[x] \in 0..m
    PROVE  /\ SumFunctionOnSet(f, S) \in Nat
           /\ SumFunctionOnSet(f, S) <= Cardinality(S) * m
<1> DEFINE Sum(s) == SumFunctionOnSet(f, s)
           F == {s \in SUBSET S : Sum(s) \in Nat /\ Sum(s) <= Cardinality(s) * m}
<1>1. Summable(f, S)
  BY DEF Summable
<1>2. {} \in F
  BY SumEmpty, FS_EmptySet
<1>3. ASSUME NEW s \in SUBSET S, s # {}, \A x \in s : s \ {x} \in F PROVE s \in F
  <2>1. PICK x \in s : TRUE
    BY <1>3
  <2>2. Sum(s) = f[x] + Sum(s \ {x})
    BY <1>1, <2>1, SummableParts, SumTakeOut
  <2>3. PICK a \in 0..m, b \in Nat, k \in Nat :
          /\ a = f[x] /\ b = Sum(s \ {x}) /\ k = Cardinality(s) /\ Cardinality(s \ {x}) = k - 1
          /\ b <= (k - 1) * m
    BY <1>3, <2>1, SubsetSizes
  <2>4. a + b <= k * m
    BY <2>3
  <2>5. Sum(s) = a + b /\ Cardinality(s) = k
    BY <2>2, <2>3
  <2> QED
    BY <2>3, <2>4, <2>5
<1> HIDE DEF F
<1>4. S \in F
  <2>1. \A s \in SUBSET S : s \in F
    BY <1>2, <1>3, SubsetInduction
  <2> QED
    BY <2>1
<1> QED
  BY <1>4 DEF F

----------------------------------------------------------------------------
(* A fold over a sequence runs through its indices in their order.         *)

LEMMA IndexSets ==
    ASSUME NEW m \in Nat, NEW s \in SUBSET (1..m), s # {}
    PROVE  Max(s) \in s
<1>1. IsFiniteSet(1..m)
  BY FS_Interval
<1>2. IsFiniteSet(s)
  BY <1>1, FS_Subset
<1>3. s \in SUBSET Int
  OBVIOUS
<1> QED
  BY <1>2, <1>3, MaxIs

\* The last index of a prefix is the largest.
LEMMA PrefixSets ==
    ASSUME NEW m \in Nat, NEW i \in 1..m
    PROVE  /\ (1..i) \in SUBSET (1..m) /\ 1..i # {}
           /\ Max(1..i) = i
           /\ (1..i) \ {i} = 1..(i - 1)
           /\ 1..i = (1..(i - 1)) \cup {i}
<1>1. (1..i) \in SUBSET Int /\ IsFiniteSet(1..i) /\ i \in 1..i
  BY FS_Interval
<1>2. Max(1..i) \in 1..i /\ i <= Max(1..i)
  BY <1>1, MaxIs
<1>4. Max(1..i) = i
  <2>1. PICK k \in 1..i : k = Max(1..i) /\ i <= k
    BY <1>2
  <2> QED
    BY <2>1
<1>5. (1..i) \in SUBSET (1..m) /\ 1..i # {}
  <2>1. \A j \in 1..i : j \in 1..m
    OBVIOUS
  <2> QED
    BY <1>1, <2>1
<1>6. (1..i) \ {i} = 1..(i - 1)
  OBVIOUS
<1>7. 1..i = (1..(i - 1)) \cup {i}
  OBVIOUS
<1>8. Max(1..i) = i /\ (1..i) \ {i} = 1..(i - 1)
  BY <1>4, <1>6
<1>9. (1..i) \in SUBSET (1..m) /\ 1..i # {} /\ 1..i = (1..(i - 1)) \cup {i}
  BY <1>5, <1>7
<1> QED
  BY <1>8, <1>9

IsLoop(it, m, base, G) ==
    \A s \in SUBSET (1..m) : it[s] = IF s = {} THEN base ELSE G[<<Max(s), it[s \ {Max(s)}]>>]

LEMMA LoopExists ==
    ASSUME NEW m \in Nat, NEW V, NEW base \in V, NEW G \in [(1..m) \X V -> V]
    PROVE  \E it \in [SUBSET (1..m) -> V] : IsLoop(it, m, base, G)
<1> DEFINE c == [s \in SUBSET (1..m) |-> Max(s)]
<1>1. IsFiniteSet(1..m)
  BY FS_Interval
<1>2. \A s \in SUBSET (1..m) : c[s] = Max(s) /\ (s # {} => c[s] \in s)
  BY IndexSets
<1> HIDE DEF c
<1>3. PICK it \in [SUBSET (1..m) -> V] : IsFold(it, 1..m, c, base, G)
  BY <1>1, <1>2, FoldExists
<1>4. ASSUME NEW s \in SUBSET (1..m)
      PROVE  it[s] = IF s = {} THEN base ELSE G[<<Max(s), it[s \ {Max(s)}]>>]
  <2>1. it[s] = IF s = {} THEN base ELSE G[<<c[s], it[s \ {c[s]}]>>]
    BY <1>3 DEF IsFold
  <2>2. c[s] = Max(s)
    BY <1>2
  <2> QED
    BY <2>1, <2>2
<1> QED
  BY <1>4 DEF IsLoop

\* A loop holds something before its first step and after each of them.
Runs(jt, m, base, h) ==
    \A s \in SUBSET (1..m) : jt[s] = IF s = {} THEN base ELSE h[<<Max(s), s \ {Max(s)}>>]

Ran(at, jt, m, base, h) ==
    /\ at[0] = base /\ at[m] = jt[1..m]
    /\ \A i \in 1..m : \E s \in SUBSET (1..m) : at[i] = h[<<i, s>>] /\ at[i - 1] = jt[s]

LEMMA LoopRuns ==
    ASSUME NEW m \in Nat, NEW jt, NEW base, NEW h, Runs(jt, m, base, h)
    PROVE  \E at : Ran(at, jt, m, base, h)
<1>1. PICK at : at = [i \in 0..m |-> jt[1..i]]
  OBVIOUS
<1>2. at[0] = base
  <2>1. 1..0 = {} /\ 0 \in 0..m
    OBVIOUS
  <2>2. at[0] = jt[{}]
    BY <1>1, <2>1
  <2>3. jt[{}] = base
    BY DEF Runs
  <2> QED
    BY <2>2, <2>3
<1>3. ASSUME NEW i \in 1..m
      PROVE  \E s \in SUBSET (1..m) : at[i] = h[<<i, s>>] /\ at[i - 1] = jt[s]
  <2>1. PICK s : s = 1..(i - 1)
    OBVIOUS
  <2>2. Max(1..i) = i /\ (1..i) \ {i} = s /\ (1..i) \in SUBSET (1..m) /\ 1..i # {}
    BY <2>1, PrefixSets
  <2>3. jt[1..i] = h[<<i, s>>]
    BY <2>2 DEF Runs
  <2>4. i \in 0..m /\ i - 1 \in 0..m
    OBVIOUS
  <2>5. s \in SUBSET (1..m)
    BY <2>2
  <2> QED
    BY <1>1, <2>1, <2>3, <2>4, <2>5
<1>4. at[m] = jt[1..m]
  BY <1>1
<1> QED
  BY <1>2, <1>3, <1>4 DEF Ran

\* What holds before a loop of m steps and is kept by each holds after it.
LEMMA LoopInduction ==
    ASSUME NEW m \in Nat, NEW P, 0 \in P, \A i \in 1..m : i - 1 \in P => i \in P
    PROVE  m \in P
<1> DEFINE R == {n \in Nat : n <= m => n \in P}
<1>1. 0 \in R
  OBVIOUS
<1>2. ASSUME NEW n \in Nat, n \in R PROVE n + 1 \in R
  <2>1. CASE n + 1 <= m
    <3>1. n + 1 \in 1..m /\ (n + 1) - 1 = n /\ n \in P
      BY <1>2, <2>1
    <3>2. n + 1 \in P
      BY <3>1
    <3> QED
      BY <3>2
  <2>2. CASE ~(n + 1 <= m)
    BY <2>2
  <2> QED
    BY <2>1, <2>2
<1> HIDE DEF R
<1>3. m \in R
  BY <1>1, <1>2, NatInductionSet
<1> QED
  BY <1>3 DEF R
====
