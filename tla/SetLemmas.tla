----------------------------- MODULE SetLemmas ------------------------------
(***************************************************************************)
(* Facts about finite sets and sums over them that the proofs of several   *)
(* components need.  Induction over a finite set is the principle of the   *)
(* least counterexample: among the sets that lack a property there is one  *)
(* with the fewest elements.                                               *)
(***************************************************************************)
EXTENDS FiniteSetTheorems, WellFoundedInduction, FiniteSetsExt, Functions, TLAPS

-----------------------------------------------------------------------------
(* Least counterexamples.                                                  *)

\* A set of natural numbers has a least one.
LEMMA LeastNatural ==
  ASSUME NEW N \in SUBSET Nat, N # {}
  PROVE  \E n \in N : \A m \in N : n <= m
<1>1. PICK n \in N : \A m \in N : ~(<<m, n>> \in OpToRel(<, Nat))
  BY NatLessThanWellFounded, WFMin
<1>2. \A m \in N : ~(m < n)
  BY <1>1 DEF OpToRel
<1> QED
  BY <1>2

\* A subset of S is good when it is good with any one element taken off: then S is.
LEMMA SetInduction ==
  ASSUME NEW S, IsFiniteSet(S), NEW Good,
         \A T \in SUBSET S : (\A x \in T : T \ {x} \in Good) => T \in Good
  PROVE  S \in Good
<1> DEFINE Bad == {T \in SUBSET S : T \notin Good}
           Sizes == {Cardinality(T) : T \in Bad}
<1> SUFFICES ASSUME S \notin Good PROVE FALSE
  OBVIOUS
<1>1. \A T \in SUBSET S : IsFiniteSet(T) /\ Cardinality(T) \in Nat
  BY FS_Subset, FS_CardinalityType
<1>2. Sizes \in SUBSET Nat /\ Sizes # {}
  BY <1>1
<1>3. PICK T \in Bad : \A U \in Bad : Cardinality(T) <= Cardinality(U)
  <2>1. PICK n \in Sizes : \A m \in Sizes : n <= m
    BY <1>2, LeastNatural
  <2> QED
    BY <2>1
<1>4. PICK x \in T : T \ {x} \notin Good
  <2>1. T \in SUBSET S /\ T \notin Good
    BY <1>3
  <2> QED
    BY <2>1
<1>5. T \ {x} \in Bad
  BY <1>4
<1>6. Cardinality(T \ {x}) = Cardinality(T) - 1 /\ Cardinality(T) \in Nat
  BY <1>1, <1>3, <1>4, FS_RemoveElement
<1> QED
  BY <1>3, <1>5, <1>6

-----------------------------------------------------------------------------
(* Least and greatest numbers of finite sets.                              *)

\* A finite set of numbers has a greatest one.
LEMMA GreatestExists ==
  ASSUME NEW S \in SUBSET Int, IsFiniteSet(S), S # {}
  PROVE  \E m \in S : \A x \in S : m >= x
<1> DEFINE Has(T) == \E m \in T : \A x \in T : m >= x
           Good == {T \in SUBSET S : T = {} \/ Has(T)}
<1>1. ASSUME NEW T \in SUBSET S, \A x \in T : T \ {x} \in Good, T # {} PROVE Has(T)
  <2>1. PICK y \in T : TRUE
    BY <1>1
  <2> DEFINE R == T \ {y}
  <2>2. CASE R = {}
    <3>1. \A x \in T : y >= x
      BY <2>1, <2>2
    <3> QED
      BY <2>1, <3>1
  <2>3. CASE R # {}
    <3>1. PICK m \in R : \A x \in R : m >= x
      BY <1>1, <2>1, <2>3
    <3>2. m \in Int /\ y \in Int /\ m \in T /\ \A x \in T : x \in Int /\ (x = y \/ x \in R)
      BY <2>1
    <3>3. CASE m >= y
      <4>1. \A x \in T : m >= x
        BY <3>1, <3>2, <3>3
      <4> QED
        BY <3>2, <4>1
    <3>4. CASE y >= m
      <4>1. \A x \in T : y >= x
        BY <3>1, <3>2, <3>4
      <4> QED
        BY <2>1, <4>1
    <3> QED
      BY <3>2, <3>3, <3>4
  <2> QED
    BY <2>2, <2>3
<1>2. S \in Good
  <2>1. \A T \in SUBSET S : (\A x \in T : T \ {x} \in Good) => T \in Good
    BY <1>1
  <2> HIDE DEF Good
  <2> QED
    BY <2>1, SetInduction
<1> QED
  BY <1>2

\* The greatest element.
LEMMA MaxIs ==
  ASSUME NEW S \in SUBSET Int, IsFiniteSet(S), S # {}
  PROVE  Max(S) \in S /\ \A x \in S : x <= Max(S)
BY GreatestExists DEF Max

\* The values of a function on a finite set are finitely many.
LEMMA ImageIsFinite ==
  ASSUME NEW S, IsFiniteSet(S), NEW f, DOMAIN f = S
  PROVE  IsFiniteSet({f[x] : x \in S})
<1> DEFINE T == {f[x] : x \in S}
           g == [x \in S |-> f[x]]
<1>1. g \in Surjection(S, T)
  BY DEF Surjection
<1> HIDE DEF g
<1>2. IsFiniteSet(T)
  BY <1>1, FS_Surjection
<1> QED
  BY <1>2

\* The least element is minus the greatest one of the negated numbers.
LEMMA MinIs ==
  ASSUME NEW S \in SUBSET Int, IsFiniteSet(S), S # {}
  PROVE  Min(S) \in S /\ \A x \in S : Min(S) <= x
<1> DEFINE N == {-x : x \in S}
<1> DEFINE f == [x \in S |-> -x]
<1>1. N \in SUBSET Int /\ IsFiniteSet(N) /\ N # {}
  <2>1. DOMAIN f = S /\ {f[x] : x \in S} = N
    OBVIOUS
  <2>2. IsFiniteSet(N)
    <3> HIDE DEF f, N
    <3>1. IsFiniteSet({f[x] : x \in S})
      BY <2>1, ImageIsFinite
    <3> QED
      BY <2>1, <3>1
  <2>3. N \in SUBSET Int
    <3>1. \A x \in S : -x \in Int
      OBVIOUS
    <3> QED
      BY <3>1
  <2>4. N # {}
    <3>1. PICK x \in S : TRUE
      OBVIOUS
    <3>2. -x \in N
      OBVIOUS
    <3> QED
      BY <3>2
  <2> HIDE DEF f, N
  <2> QED
    BY <2>2, <2>3, <2>4
<1>2. PICK m \in N : \A x \in N : m >= x
  BY <1>1, GreatestExists
<1>3. PICK y \in S : m = -y
  BY <1>2
<1>4. \A x \in S : y <= x
  BY <1>2, <1>3
<1> QED
  BY <1>3, <1>4 DEF Min

-----------------------------------------------------------------------------
(* The fold behind SumFunctionOnSet: it takes elements off a set in the    *)
(* order of CHOOSE.                                                        *)

\* The element it takes off first.
FoldPick(s) == CHOOSE x \in s : TRUE

\* The equation of the fold, on a set D of sets.
SumFold(f, D, g) == g = [s \in D |-> IF s = {} THEN 0 ELSE f[FoldPick(s)] + g[s \ {FoldPick(s)}]]

\* A sum is the value of such a fold.
LEMMA SumIsFold ==
  ASSUME NEW f, NEW S
  PROVE  SumFunctionOnSet(f, S) = (CHOOSE g : SumFold(f, SUBSET S, g))[S]
BY DEF SumFunctionOnSet, FoldFunctionOnSet, MapThenFoldSet, SumFold, FoldPick

\* It is an element.
LEMMA PickIs == \A s : s # {} => FoldPick(s) \in s
BY DEF FoldPick

\* The equation of the fold has a solution: a least size without one has a solution for the
\* sets one smaller, which gives one.
LEMMA FoldExists ==
  ASSUME NEW f, NEW S, IsFiniteSet(S)
  PROVE  \E g : SumFold(f, SUBSET S, g)
<1> DEFINE Small(n) == {s \in SUBSET S : Cardinality(s) < n}
           Bad == {n \in Nat : ~\E g : SumFold(f, Small(n), g)}
<1>1. \A s \in SUBSET S : IsFiniteSet(s) /\ Cardinality(s) \in Nat
  BY FS_Subset, FS_CardinalityType
<1>2. \A s \in SUBSET S : s # {} => /\ s \ {FoldPick(s)} \in SUBSET S
                                    /\ Cardinality(s \ {FoldPick(s)}) = Cardinality(s) - 1
  <2> SUFFICES ASSUME NEW s \in SUBSET S, s # {}
               PROVE  Cardinality(s \ {FoldPick(s)}) = Cardinality(s) - 1
    OBVIOUS
  <2>1. FoldPick(s) \in s
    BY PickIs
  <2> QED
    BY <1>1, <2>1, FS_RemoveElement
<1>3. Bad = {}
  <2> SUFFICES ASSUME Bad # {} PROVE FALSE
    OBVIOUS
  <2>1. PICK n \in Bad : \A m \in Bad : n <= m
    <3> HIDE DEF Bad
    <3>1. Bad \in SUBSET Nat
      BY DEF Bad
    <3> QED
      BY <3>1, LeastNatural
  <2>2. n \in Nat
    BY <2>1
  <2>3. n # 0
    <3>1. Small(0) = {}
      BY <1>1
    <3>2. SumFold(f, {}, [s \in {} |-> 0])
      BY DEF SumFold
    <3> QED
      BY <3>1, <3>2, <2>1
  <2>4. n - 1 \in Nat /\ ~(n <= n - 1)
    BY <2>2, <2>3
  <2>5. PICK g : SumFold(f, Small(n - 1), g)
    BY <2>1, <2>4
  <2> DEFINE Next(s) == IF s = {} THEN 0 ELSE f[FoldPick(s)] + g[s \ {FoldPick(s)}]
             h == [s \in Small(n) |-> Next(s)]
  <2>6. ASSUME NEW s \in Small(n), s # {} PROVE h[s \ {FoldPick(s)}] = g[s \ {FoldPick(s)}]
    <3> DEFINE r == s \ {FoldPick(s)}
    <3>1. r \in Small(n - 1) /\ r \in Small(n)
      BY <2>6, <1>1, <1>2, <2>2
    <3>2. g[r] = Next(r)
      BY <3>1, <2>5 DEF SumFold
    <3> QED
      BY <3>1, <3>2
  <2>7. SumFold(f, Small(n), h)
    <3>1. \A s \in Small(n) : h[s] = IF s = {} THEN 0 ELSE f[FoldPick(s)] + h[s \ {FoldPick(s)}]
      BY <2>6
    <3> HIDE DEF h
    <3>2. h = [s \in Small(n) |-> h[s]]
      BY DEF h
    <3> QED
      BY <3>1, <3>2 DEF SumFold
  <2> QED
    BY <2>1, <2>7
<1>4. Cardinality(S) + 1 \in Nat /\ Small(Cardinality(S) + 1) = SUBSET S
  <2>1. \A s \in SUBSET S : Cardinality(s) <= Cardinality(S)
    BY FS_Subset
  <2> QED
    BY <1>1, <2>1
<1> QED
  BY <1>3, <1>4

\* Its solutions for two sets of sets agree where both have a value.
LEMMA FoldUnique ==
  ASSUME NEW f, NEW S, IsFiniteSet(S), NEW T \in SUBSET S
  PROVE  \A g, h : SumFold(f, SUBSET S, g) /\ SumFold(f, SUBSET T, h) => g[T] = h[T]
<1> SUFFICES ASSUME NEW g, NEW h, SumFold(f, SUBSET S, g), SumFold(f, SUBSET T, h)
             PROVE  g[T] = h[T]
  OBVIOUS
<1> DEFINE Good == {U \in SUBSET T : g[U] = h[U]}
<1>1. \A U \in SUBSET T : /\ g[U] = IF U = {} THEN 0 ELSE f[FoldPick(U)] + g[U \ {FoldPick(U)}]
                          /\ h[U] = IF U = {} THEN 0 ELSE f[FoldPick(U)] + h[U \ {FoldPick(U)}]
  <2>1. \A U \in SUBSET S : g[U] = IF U = {} THEN 0 ELSE f[FoldPick(U)] + g[U \ {FoldPick(U)}]
    BY DEF SumFold
  <2>2. \A U \in SUBSET T : h[U] = IF U = {} THEN 0 ELSE f[FoldPick(U)] + h[U \ {FoldPick(U)}]
    BY DEF SumFold
  <2> QED
    BY <2>1, <2>2
<1>2. ASSUME NEW U \in SUBSET T, \A x \in U : U \ {x} \in Good PROVE U \in Good
  <2>1. U # {} => FoldPick(U) \in U
    BY PickIs
  <2> QED
    BY <1>1, <1>2, <2>1
<1>3. IsFiniteSet(T)
  BY FS_Subset
<1>4. T \in Good
  <2> HIDE DEF Good
  <2> QED
    BY <1>2, <1>3, SetInduction
<1> QED
  BY <1>4

\* The empty sum.
LEMMA SumEmpty ==
  ASSUME NEW f
  PROVE  SumFunctionOnSet(f, {}) = 0
<1> DEFINE g == CHOOSE g : SumFold(f, SUBSET {}, g)
<1>1. SumFold(f, SUBSET {}, g)
  BY FoldExists, FS_EmptySet
<1>2. SumFunctionOnSet(f, {}) = g[{}]
  BY SumIsFold
<1> HIDE DEF g
<1> QED
  BY <1>1, <1>2 DEF SumFold

\* A sum is the element taken off and the sum of the rest.
LEMMA SumUnfolds ==
  ASSUME NEW f, NEW S, IsFiniteSet(S), S # {}
  PROVE  SumFunctionOnSet(f, S) = f[FoldPick(S)] + SumFunctionOnSet(f, S \ {FoldPick(S)})
<1> DEFINE R == S \ {FoldPick(S)}
           g == CHOOSE g : SumFold(f, SUBSET S, g)
           h == CHOOSE h : SumFold(f, SUBSET R, h)
<1>1. SumFold(f, SUBSET S, g)
  BY FoldExists
<1>2. IsFiniteSet(R) /\ R \in SUBSET S
  BY FS_Subset
<1>3. SumFold(f, SUBSET R, h)
  BY <1>2, FoldExists
<1>4. SumFunctionOnSet(f, S) = g[S] /\ SumFunctionOnSet(f, R) = h[R]
  BY SumIsFold
<1> HIDE DEF g, h, R
<1>5. g[R] = h[R]
  <2>1. \A a, b : SumFold(f, SUBSET S, a) /\ SumFold(f, SUBSET R, b) => a[R] = b[R]
    BY <1>2, FoldUnique
  <2> QED
    BY <1>1, <1>3, <2>1
<1>6. g[S] = f[FoldPick(S)] + g[R]
  BY <1>1 DEF SumFold, R
<1> QED
  BY <1>4, <1>5, <1>6 DEF R

-----------------------------------------------------------------------------
(* Sums of integers over finite sets.                                      *)

\* A sum of integers is one.
LEMMA SumOnType ==
  ASSUME NEW S, IsFiniteSet(S), NEW f, \A x \in S : f[x] \in Int
  PROVE  SumFunctionOnSet(f, S) \in Int
<1> DEFINE Good == {T \in SUBSET S : SumFunctionOnSet(f, T) \in Int}
<1>1. ASSUME NEW T \in SUBSET S, \A x \in T : T \ {x} \in Good PROVE T \in Good
  <2>1. IsFiniteSet(T)
    BY FS_Subset
  <2>2. CASE T = {}
    BY <2>2, SumEmpty
  <2>3. CASE T # {}
    <3>1. FoldPick(T) \in T
      BY <2>3, PickIs
    <3>2. SumFunctionOnSet(f, T) = f[FoldPick(T)] + SumFunctionOnSet(f, T \ {FoldPick(T)})
      BY <2>1, <2>3, SumUnfolds
    <3>3. f[FoldPick(T)] \in Int /\ SumFunctionOnSet(f, T \ {FoldPick(T)}) \in Int
      BY <1>1, <3>1
    <3> QED
      BY <3>2, <3>3
  <2> QED
    BY <2>2, <2>3
<1>2. S \in Good
  <2> HIDE DEF Good
  <2> QED
    BY <1>1, SetInduction
<1> QED
  BY <1>2

\* Any element can be the first, not only the one CHOOSE takes.
LEMMA SumOnTakesOff ==
  ASSUME NEW S, IsFiniteSet(S), NEW f, \A x \in S : f[x] \in Int, NEW y \in S
  PROVE  SumFunctionOnSet(f, S) = f[y] + SumFunctionOnSet(f, S \ {y})
<1> DEFINE Sum(T) == SumFunctionOnSet(f, T)
           Good == {T \in SUBSET S : \A x \in T : Sum(T) = f[x] + Sum(T \ {x})}
<1>1. \A T \in SUBSET S : IsFiniteSet(T) /\ Sum(T) \in Int
  <2> SUFFICES ASSUME NEW T \in SUBSET S PROVE IsFiniteSet(T) /\ Sum(T) \in Int
    OBVIOUS
  <2>1. IsFiniteSet(T)
    BY FS_Subset
  <2> QED
    BY <2>1, SumOnType
<1>2. \A T \in SUBSET S : T # {} => Sum(T) = f[FoldPick(T)] + Sum(T \ {FoldPick(T)})
  BY <1>1, SumUnfolds
<1> HIDE DEF Sum
<1>3. ASSUME NEW T \in SUBSET S, \A x \in T : T \ {x} \in Good, NEW x \in T
      PROVE  Sum(T) = f[x] + Sum(T \ {x})
  <2> DEFINE p == FoldPick(T)
             R == (T \ {p}) \ {x}
  <2>1. p \in T /\ Sum(T) = f[p] + Sum(T \ {p})
    BY <1>2, PickIs
  <2> HIDE DEF p
  <2>2. CASE x = p
    BY <2>1, <2>2
  <2>3. CASE x # p
    <3>1. Sum(T \ {p}) = f[x] + Sum(R)
      BY <1>3, <2>1, <2>3
    <3>2. Sum(T \ {x}) = f[p] + Sum(R)
      <4>1. (T \ {x}) \ {p} = R
        OBVIOUS
      <4> QED
        BY <1>3, <2>1, <2>3, <4>1
    <3>3. f[p] \in Int /\ f[x] \in Int /\ Sum(R) \in Int
      BY <1>1, <2>1
    <3> HIDE DEF R
    <3> QED
      BY <2>1, <3>1, <3>2, <3>3
  <2> QED
    BY <2>2, <2>3
<1>4. S \in Good
  <2>1. ASSUME NEW T \in SUBSET S, \A x \in T : T \ {x} \in Good PROVE T \in Good
    BY <1>3, <2>1
  <2> HIDE DEF Good
  <2> QED
    BY <2>1, SetInduction
<1> QED
  BY <1>4 DEF Sum

\* Sums of functions that agree on the set.
LEMMA SumOnCongruent ==
  ASSUME NEW S, IsFiniteSet(S), NEW f, NEW g, \A x \in S : f[x] = g[x]
  PROVE  SumFunctionOnSet(f, S) = SumFunctionOnSet(g, S)
<1> DEFINE Good == {T \in SUBSET S : SumFunctionOnSet(f, T) = SumFunctionOnSet(g, T)}
<1>1. ASSUME NEW T \in SUBSET S, \A x \in T : T \ {x} \in Good PROVE T \in Good
  <2>1. IsFiniteSet(T)
    BY FS_Subset
  <2>2. CASE T = {}
    BY <2>2, SumEmpty
  <2>3. CASE T # {}
    <3>1. FoldPick(T) \in T
      BY <2>3, PickIs
    <3>2. /\ SumFunctionOnSet(f, T) = f[FoldPick(T)] + SumFunctionOnSet(f, T \ {FoldPick(T)})
          /\ SumFunctionOnSet(g, T) = g[FoldPick(T)] + SumFunctionOnSet(g, T \ {FoldPick(T)})
      BY <2>1, <2>3, SumUnfolds
    <3> QED
      BY <1>1, <3>1, <3>2
  <2> QED
    BY <2>2, <2>3
<1>2. S \in Good
  <2> HIDE DEF Good
  <2> QED
    BY <1>1, SetInduction
<1> QED
  BY <1>2

\* The sum of a pointwise sum.
LEMMA SumOnAdds ==
  ASSUME NEW S, IsFiniteSet(S), NEW f, NEW g, NEW h,
         \A x \in S : f[x] \in Int /\ g[x] \in Int /\ h[x] = f[x] + g[x]
  PROVE  SumFunctionOnSet(h, S) = SumFunctionOnSet(f, S) + SumFunctionOnSet(g, S)
<1> DEFINE Sum(k, T) == SumFunctionOnSet(k, T)
           Good == {T \in SUBSET S : Sum(h, T) = Sum(f, T) + Sum(g, T)}
<1>1. ASSUME NEW T \in SUBSET S, \A x \in T : T \ {x} \in Good PROVE T \in Good
  <2>1. IsFiniteSet(T) /\ IsFiniteSet(T \ {FoldPick(T)})
    BY FS_Subset
  <2>2. CASE T = {}
    BY <2>2, SumEmpty
  <2>3. CASE T # {}
    <3> DEFINE p == FoldPick(T)
               R == T \ {p}
    <3>1. p \in T
      BY <2>3, PickIs
    <3>2. \A k : Sum(k, T) = k[p] + Sum(k, R)
      BY <2>1, <2>3, SumUnfolds
    <3>3. f[p] \in Int /\ g[p] \in Int /\ h[p] = f[p] + g[p]
      BY <3>1
    <3>4. Sum(f, R) \in Int /\ Sum(g, R) \in Int
      <4>1. R \in SUBSET S /\ \A x \in R : f[x] \in Int /\ g[x] \in Int
        OBVIOUS
      <4> HIDE DEF R
      <4> QED
        BY <2>1, <4>1, SumOnType DEF R
    <3>5. Sum(h, R) = Sum(f, R) + Sum(g, R)
      BY <1>1, <3>1
    <3>6. /\ Sum(f, T) = f[p] + Sum(f, R) /\ Sum(g, T) = g[p] + Sum(g, R)
          /\ Sum(h, T) = h[p] + Sum(h, R)
      BY <3>2
    <3> HIDE DEF Sum, p, R
    <3>7. Sum(h, T) = Sum(f, T) + Sum(g, T)
      BY <3>3, <3>4, <3>5, <3>6
    <3> QED
      BY <3>7
  <2> QED
    BY <2>2, <2>3
<1>2. S \in Good
  <2> HIDE DEF Good
  <2> QED
    BY <1>1, SetInduction
<1> QED
  BY <1>2

\* The sum over the union of two sets that have nothing in common.
LEMMA SumOnUnion ==
  ASSUME NEW S, IsFiniteSet(S), NEW T, IsFiniteSet(T), S \cap T = {},
         NEW f, \A x \in S \cup T : f[x] \in Int
  PROVE  SumFunctionOnSet(f, S \cup T) = SumFunctionOnSet(f, S) + SumFunctionOnSet(f, T)
<1> DEFINE Sum(U) == SumFunctionOnSet(f, U)
           Good == {U \in SUBSET S : Sum(U \cup T) = Sum(U) + Sum(T)}
<1>1. \A U \in SUBSET (S \cup T) : IsFiniteSet(U) /\ Sum(U) \in Int
  <2> SUFFICES ASSUME NEW U \in SUBSET (S \cup T) PROVE IsFiniteSet(U) /\ Sum(U) \in Int
    OBVIOUS
  <2>1. IsFiniteSet(U)
    BY FS_Subset, FS_Union
  <2> QED
    BY <2>1, SumOnType
<1>2. \A U \in SUBSET (S \cup T) : \A y \in U : Sum(U) = f[y] + Sum(U \ {y})
  BY <1>1, SumOnTakesOff
<1>3. Sum({}) = 0
  BY SumEmpty
<1> HIDE DEF Sum
<1>4. ASSUME NEW U \in SUBSET S, \A x \in U : U \ {x} \in Good PROVE U \in Good
  <2>1. CASE U = {}
    <3>1. U \cup T = T
      BY <2>1
    <3> QED
      BY <1>1, <1>3, <2>1, <3>1
  <2>2. CASE U # {}
    <3>1. PICK y \in U : TRUE
      BY <2>2
    <3>2. (U \cup T) \ {y} = (U \ {y}) \cup T
      OBVIOUS
    <3>3. Sum(U \cup T) = f[y] + Sum((U \ {y}) \cup T) /\ Sum(U) = f[y] + Sum(U \ {y})
      BY <1>2, <3>1, <3>2
    <3>4. Sum((U \ {y}) \cup T) = Sum(U \ {y}) + Sum(T)
      BY <1>4, <3>1
    <3>5. f[y] \in Int /\ Sum(U \ {y}) \in Int /\ Sum(T) \in Int
      BY <1>1, <3>1
    <3>6. Sum(U \cup T) = Sum(U) + Sum(T)
      BY <3>3, <3>4, <3>5
    <3> QED
      BY <3>6
  <2> QED
    BY <2>1, <2>2
<1>5. S \in Good
  <2> HIDE DEF Good
  <2> QED
    BY <1>4, SetInduction
<1> QED
  BY <1>5 DEF Sum

\* The sum of a function that is zero on the set.
LEMMA SumOnZero ==
  ASSUME NEW S, IsFiniteSet(S), NEW f, \A x \in S : f[x] = 0
  PROVE  SumFunctionOnSet(f, S) = 0
<1> DEFINE s == SumFunctionOnSet(f, S)
<1>1. s \in Int
  BY SumOnType
<1>2. s = s + s
  BY SumOnAdds
<1> HIDE DEF s
<1>3. s = 0
  BY <1>1, <1>2
<1> QED
  BY <1>3 DEF s

-----------------------------------------------------------------------------
(* The same of a function over its domain.                                 *)

LEMMA SumIsOn ==
  ASSUME NEW f
  PROVE  SumFunction(f) = SumFunctionOnSet(f, DOMAIN f)
BY DEF SumFunction

LEMMA SumType ==
  ASSUME NEW S, IsFiniteSet(S), NEW f, DOMAIN f = S, \A x \in S : f[x] \in Int
  PROVE  SumFunction(f) \in Int
BY SumIsOn, SumOnType

LEMMA SumNat ==
  ASSUME NEW S, IsFiniteSet(S), NEW f, DOMAIN f = S, \A x \in S : f[x] \in Nat
  PROVE  SumFunction(f) \in Nat
<1> DEFINE Good == {T \in SUBSET S : SumFunctionOnSet(f, T) \in Nat}
<1>1. ASSUME NEW T \in SUBSET S, \A x \in T : T \ {x} \in Good PROVE T \in Good
  <2>1. IsFiniteSet(T)
    BY FS_Subset
  <2>2. CASE T = {}
    BY <2>2, SumEmpty
  <2>3. CASE T # {}
    <3>1. FoldPick(T) \in T
      BY <2>3, PickIs
    <3>2. SumFunctionOnSet(f, T) = f[FoldPick(T)] + SumFunctionOnSet(f, T \ {FoldPick(T)})
      BY <2>1, <2>3, SumUnfolds
    <3>3. f[FoldPick(T)] \in Nat /\ SumFunctionOnSet(f, T \ {FoldPick(T)}) \in Nat
      BY <1>1, <3>1
    <3> QED
      BY <3>2, <3>3
  <2> QED
    BY <2>2, <2>3
<1>2. S \in Good
  <2> HIDE DEF Good
  <2> QED
    BY <1>1, SetInduction
<1> QED
  BY <1>2, SumIsOn

LEMMA SumAdds ==
  ASSUME NEW S, IsFiniteSet(S), NEW f, NEW g, NEW h,
         DOMAIN f = S, DOMAIN g = S, DOMAIN h = S,
         \A x \in S : f[x] \in Int /\ g[x] \in Int /\ h[x] = f[x] + g[x]
  PROVE  SumFunction(h) = SumFunction(f) + SumFunction(g)
BY SumIsOn, SumOnAdds

LEMMA SumZero ==
  ASSUME NEW S, IsFiniteSet(S), NEW f, DOMAIN f = S, \A x \in S : f[x] = 0
  PROVE  SumFunction(f) = 0
BY SumIsOn, SumOnZero

\* f is g on a part of its domain and h on the rest.
Splits(f, g, h) ==
  /\ IsFiniteSet(DOMAIN f)
  /\ DOMAIN g \subseteq DOMAIN f /\ DOMAIN h = DOMAIN f \ DOMAIN g
  /\ \A x \in DOMAIN f : f[x] \in Int
  /\ \A x \in DOMAIN g : g[x] = f[x]
  /\ \A x \in DOMAIN h : h[x] = f[x]

LEMMA SumSplits ==
  ASSUME NEW f, NEW g, NEW h, Splits(f, g, h)
  PROVE  SumFunction(f) = SumFunction(g) + SumFunction(h)
<1> DEFINE S == DOMAIN f
           T == DOMAIN g
<1>0. /\ IsFiniteSet(S) /\ T \in SUBSET S /\ DOMAIN h = S \ T
      /\ \A x \in S : f[x] \in Int
      /\ \A x \in T : g[x] = f[x]
      /\ \A x \in S \ T : h[x] = f[x]
      /\ DOMAIN f = S /\ DOMAIN g = T
  BY DEF Splits
<1> HIDE DEF S, T
<1>1. IsFiniteSet(T) /\ IsFiniteSet(S \ T)
  BY <1>0, FS_Subset
<1>2. T \cap (S \ T) = {} /\ T \cup (S \ T) = S
  BY <1>0
<1>3. SumFunctionOnSet(f, S) = SumFunctionOnSet(f, T) + SumFunctionOnSet(f, S \ T)
  <2> DEFINE R == S \ T
  <2>1. /\ IsFiniteSet(R) /\ T \cap R = {} /\ T \cup R = S
        /\ \A x \in T \cup R : f[x] \in Int
    BY <1>0, <1>1, <1>2
  <2>2. SumFunctionOnSet(f, T \cup R) = SumFunctionOnSet(f, T) + SumFunctionOnSet(f, R)
    <3> HIDE DEF R
    <3> QED
      BY <1>1, <2>1, SumOnUnion
  <2> QED
    BY <2>1, <2>2
<1>4. SumFunctionOnSet(g, T) = SumFunctionOnSet(f, T)
  BY <1>0, <1>1, SumOnCongruent
<1>5. SumFunctionOnSet(h, S \ T) = SumFunctionOnSet(f, S \ T)
  <2> DEFINE R == S \ T
  <2>1. IsFiniteSet(R) /\ \A x \in R : h[x] = f[x]
    BY <1>0, <1>1
  <2>2. SumFunctionOnSet(h, R) = SumFunctionOnSet(f, R)
    <3> HIDE DEF R
    <3> QED
      BY <2>1, SumOnCongruent
  <2> QED
    BY <2>2
<1> QED
  BY <1>0, <1>3, <1>4, <1>5, SumIsOn

\* One element that changes.
LEMMA SumChanges ==
  ASSUME NEW S, IsFiniteSet(S), NEW t \in S, NEW f, NEW g, DOMAIN f = S, DOMAIN g = S,
         \A x \in S : f[x] \in Int /\ g[x] \in Int,
         \A x \in S \ {t} : f[x] = g[x]
  PROVE  SumFunction(g) = SumFunction(f) + g[t] - f[t]
<1> DEFINE R == S \ {t}
<1>1. IsFiniteSet(R)
  BY FS_Subset
<1>2. /\ SumFunctionOnSet(g, S) = g[t] + SumFunctionOnSet(g, R)
      /\ SumFunctionOnSet(f, S) = f[t] + SumFunctionOnSet(f, R)
  BY SumOnTakesOff
<1>3. SumFunctionOnSet(f, R) = SumFunctionOnSet(g, R)
  <2>1. \A x \in R : f[x] = g[x]
    OBVIOUS
  <2> HIDE DEF R
  <2> QED
    BY <1>1, <2>1, SumOnCongruent
<1>4. SumFunctionOnSet(f, R) \in Int
  <2>1. \A x \in R : f[x] \in Int
    OBVIOUS
  <2> HIDE DEF R
  <2> QED
    BY <1>1, <2>1, SumOnType
<1>5. f[t] \in Int /\ g[t] \in Int
  OBVIOUS
<1> HIDE DEF R
<1> QED
  BY <1>2, <1>3, <1>4, <1>5, SumIsOn
=============================================================================
