---------------------------- MODULE TotalsProofs ----------------------------
(***************************************************************************)
(* What a sum of amounts does: lemmas about Total, for functions with any *)
(* finite domain.  The fold takes the elements in the order CHOOSE gives;  *)
(* that the order does not matter is what the lemmas come down to.         *)
(***************************************************************************)
EXTENDS Totals, FiniteSetTheorems, NaturalsInduction, TLAPS

\* The sums over every subset of a domain, taken the way FoldFunction does.
IsSum(f, g) ==
    g = [s \in SUBSET DOMAIN f |->
            IF s = {} THEN 0
            ELSE LET x == CHOOSE x \in s : TRUE IN f[x] + g[s \ {x}]]

LEMMA TotalUnfolds ==
  ASSUME NEW f
  PROVE  Total(f) = LET g == CHOOSE g : IsSum(f, g) IN g[DOMAIN f]
  BY DEF Total, FoldFunction, FoldFunctionOnSet, MapThenFoldSet, IsSum

\* A set of numbers has a least one.
LEMMA LeastNat ==
  ASSUME NEW B \in SUBSET Nat, B # {}
  PROVE  \E y \in B : \A z \in B : y <= z
<1> DEFINE R == {p \in Nat \X Nat : p[1] < p[2]}
<1>1. R = OpToRel(<, Nat)
  BY DEF OpToRel
<1>2. IsWellFoundedOn(R, Nat)
  BY <1>1, NatLessThanWellFounded
<1>3. \A y, z \in Nat : <<z, y>> \notin R => y <= z
  OBVIOUS
<1> HIDE DEF R
<1>4. \E y \in B : \A z \in B : <<z, y>> \notin R
  BY <1>2, WFMin
<1> QED BY <1>3, <1>4

\* A set of finite subsets that grows with each element has all of them.
LEMMA SetInduction ==
  ASSUME NEW S, IsFiniteSet(S), NEW Good,
         {} \in Good,
         \A T \in SUBSET S : T # {} /\ (\A x \in T : T \ {x} \in Good) => T \in Good
  PROVE  SUBSET S \subseteq Good
<1>1. SUFFICES ASSUME NEW T \in SUBSET S, T \notin Good PROVE FALSE
  OBVIOUS
<1> DEFINE Sizes == {n \in Nat : \E U \in SUBSET S : U \notin Good /\ Cardinality(U) = n}
<1>2. \A U \in SUBSET S : IsFiniteSet(U) /\ Cardinality(U) \in Nat
  BY FS_Subset, FS_CardinalityType
<1>3. Cardinality(T) \in Sizes
  BY <1>1, <1>2
<1>4. PICK n \in Sizes : \A k \in Sizes : n <= k
  <2>1. Sizes \in SUBSET Nat /\ Sizes # {}
    BY <1>3
  <2> HIDE DEF Sizes
  <2> QED BY <2>1, LeastNat
<1>5. PICK U \in SUBSET S : U \notin Good /\ Cardinality(U) = n
  BY <1>4
<1>6. \A x \in U : U \ {x} \in Good
  <2>1. SUFFICES ASSUME NEW x \in U, U \ {x} \notin Good PROVE FALSE
    OBVIOUS
  <2>2. Cardinality(U \ {x}) = n - 1 /\ n \in Nat /\ n - 1 \in Nat
    <3>1. Cardinality(U \ {x}) = Cardinality(U) - 1
      BY <1>2, FS_RemoveElement
    <3>2. Cardinality(U \ {x}) \in Nat /\ Cardinality(U) \in Nat
      BY <1>2
    <3> QED BY <3>1, <3>2, <1>5
  <2>3. n - 1 \in Sizes
    BY <2>1, <2>2
  <2> QED BY <2>2, <2>3, <1>4
<1> QED BY <1>5, <1>6

\* The step of the recursion.
Step(f, g, s) ==
    IF s = {} THEN 0 ELSE LET x == CHOOSE x \in s : TRUE IN f[x] + g[s \ {x}]

LEMMA StepReads ==
  ASSUME NEW f, NEW g, NEW h, NEW s, \A x \in s : g[s \ {x}] = h[s \ {x}]
  PROVE  Step(f, g, s) = Step(f, h, s)
<1>1. CASE s = {}
  BY <1>1 DEF Step
<1>2. CASE s # {}
  <2> DEFINE y == CHOOSE x \in s : TRUE
  <2>1. y \in s
    BY <1>2
  <2>2. Step(f, g, s) = f[y] + g[s \ {y}] /\ Step(f, h, s) = f[y] + h[s \ {y}]
    BY <1>2 DEF Step
  <2> HIDE DEF y
  <2> QED BY <2>1, <2>2
<1> QED BY <1>1, <1>2

LEMMA IsSumStep ==
  ASSUME NEW f, NEW g
  PROVE  IsSum(f, g) <=> g = [s \in SUBSET DOMAIN f |-> Step(f, g, s)]
  BY DEF IsSum, Step

LEMMA StepType ==
  ASSUME NEW S, NEW f \in [S -> Int], NEW s \in SUBSET S, NEW g,
         \A x \in s : g[s \ {x}] \in Int
  PROVE  Step(f, g, s) \in Int
<1>1. CASE s = {}
  BY <1>1 DEF Step
<1>2. CASE s # {}
  <2>1. PICK x \in s : x = CHOOSE y \in s : TRUE
    BY <1>2
  <2>2. Step(f, g, s) = f[x] + g[s \ {x}]
    BY <1>2, <2>1 DEF Step
  <2>3. f[x] \in Int /\ g[s \ {x}] \in Int
    OBVIOUS
  <2> QED BY <2>2, <2>3
<1> QED BY <1>1, <1>2

\* The sums over the subsets exist: a function that is right up to some size is
\* corrected for the next one.
LEMMA SumExists ==
  ASSUME NEW S, IsFiniteSet(S), NEW f \in [S -> Int]
  PROVE  \E g \in [SUBSET S -> Int] : IsSum(f, g)
<1> DEFINE RightUpTo(g, n) ==
      \A s \in SUBSET S : Cardinality(s) <= n => g[s] = Step(f, g, s)
<1> DEFINE Sizes == {n \in Nat : ~ \E g \in [SUBSET S -> Int] : RightUpTo(g, n)}
<1>1. \A s \in SUBSET S : IsFiniteSet(s) /\ Cardinality(s) \in Nat /\ Cardinality(s) <= Cardinality(S)
  BY FS_Subset, FS_CardinalityType
<1>2. \A s \in SUBSET S : \A x \in s : Cardinality(s \ {x}) = Cardinality(s) - 1
  BY <1>1, FS_RemoveElement
<1>3. 0 \notin Sizes
  <2> DEFINE z == [s \in SUBSET S |-> 0]
  <2>1. z \in [SUBSET S -> Int]
    OBVIOUS
  <2>2. \A s \in SUBSET S : Cardinality(s) <= 0 => s = {}
    BY <1>1, FS_EmptySet
  <2>3. RightUpTo(z, 0)
    BY <2>2 DEF Step
  <2> QED BY <2>1, <2>3
<1>4. \A n \in Nat : n \notin Sizes => n + 1 \notin Sizes
  <2>1. SUFFICES ASSUME NEW n \in Nat, NEW g \in [SUBSET S -> Int], RightUpTo(g, n)
                 PROVE  n + 1 \notin Sizes
    OBVIOUS
  <2> DEFINE h == [s \in SUBSET S |-> IF Cardinality(s) <= n THEN g[s] ELSE Step(f, g, s)]
  <2>2. h \in [SUBSET S -> Int]
    <3>1. \A s \in SUBSET S : \A x \in s : g[s \ {x}] \in Int
      OBVIOUS
    <3>2. \A s \in SUBSET S : Step(f, g, s) \in Int
      BY <3>1, StepType
    <3>3. \A s \in SUBSET S : g[s] \in Int
      OBVIOUS
    <3> QED BY <3>2, <3>3
  <2>3. \A s \in SUBSET S : h[s] = Step(f, g, s) \/ Cardinality(s) > n + 1
    BY <2>1, <1>1
  <2>4. ASSUME NEW s \in SUBSET S, Cardinality(s) <= n + 1
        PROVE  h[s] = Step(f, h, s)
    <3>1. \A x \in s : Cardinality(s \ {x}) <= n /\ s \ {x} \in SUBSET S
      BY <1>1, <1>2, <2>4
    <3>2. \A x \in s : h[s \ {x}] = g[s \ {x}]
      BY <3>1
    <3> HIDE DEF h
    <3>3. Step(f, h, s) = Step(f, g, s)
      BY <3>2, StepReads
    <3>4. ~ (Cardinality(s) > n + 1)
      BY <1>1, <2>4
    <3> QED BY <2>3, <3>3, <3>4
  <2>5. RightUpTo(h, n + 1)
    BY <2>4
  <2> QED BY <2>2, <2>5
<1>5. Cardinality(S) \in Nat
  BY FS_CardinalityType
<1> HIDE DEF Sizes
<1>6. Sizes = {}
  <2>1. SUFFICES ASSUME Sizes # {} PROVE FALSE
    OBVIOUS
  <2>2. Sizes \in SUBSET Nat
    BY DEF Sizes
  <2>3. PICK n \in Sizes : \A k \in Sizes : n <= k
    BY <2>1, <2>2, LeastNat
  <2>4. n # 0 /\ n \in Nat /\ n - 1 \in Nat
    BY <1>3, <2>2
  <2>5. n - 1 \notin Sizes
    BY <2>3, <2>4
  <2>6. n - 1 + 1 \notin Sizes
    BY <1>4, <2>4, <2>5
  <2> QED BY <2>4, <2>6
<1>7. PICK g \in [SUBSET S -> Int] : RightUpTo(g, Cardinality(S))
  BY <1>5, <1>6 DEF Sizes
<1>8. \A s \in SUBSET S : g[s] = Step(f, g, s)
  BY <1>1, <1>7
<1>9. g = [s \in SUBSET S |-> Step(f, g, s)]
  <2>1. g = [s \in SUBSET S |-> g[s]]
    OBVIOUS
  <2> QED BY <1>8, <2>1
<1>10. DOMAIN f = S
  OBVIOUS
<1> QED BY <1>9, <1>10, IsSumStep

LEMMA SumType ==
  ASSUME NEW S, IsFiniteSet(S), NEW f \in [S -> Int], NEW g, IsSum(f, g)
  PROVE  g \in [SUBSET S -> Int]
<1> DEFINE Good == {T \in SUBSET S : g[T] \in Int}
<1>1. g = [s \in SUBSET S |-> Step(f, g, s)]
  BY IsSumStep
<1>2. \A s \in SUBSET S : g[s] = Step(f, g, s)
  BY <1>1
<1>3. {} \in Good
  <2>1. Step(f, g, {}) = 0
    BY DEF Step
  <2> QED BY <1>2, <2>1
<1>4. ASSUME NEW T \in SUBSET S, T # {}, \A x \in T : T \ {x} \in Good
      PROVE  T \in Good
  <2>1. \A x \in T : g[T \ {x}] \in Int
    BY <1>4
  <2>2. Step(f, g, T) \in Int
    BY <2>1, StepType
  <2> QED BY <1>2, <2>2
<1> HIDE DEF Good
<1>5. SUBSET S \subseteq Good
  BY <1>3, <1>4, SetInduction
<1>6. \A s \in SUBSET S : g[s] \in Int
  BY <1>5 DEF Good
<1> QED BY <1>1, <1>6

\* Any element may be taken first.
AnyFirst(f, S, g) == \A s \in SUBSET S : \A x \in s : g[s] = f[x] + g[s \ {x}]

LEMMA SumSplits ==
  ASSUME NEW S, IsFiniteSet(S), NEW f \in [S -> Int],
         NEW g, g \in [SUBSET S -> Int], IsSum(f, g)
  PROVE  AnyFirst(f, S, g)
<1> DEFINE Good == {T \in SUBSET S : \A x \in T : g[T] = f[x] + g[T \ {x}]}
<1>1. g = [s \in SUBSET S |-> Step(f, g, s)]
  BY IsSumStep
<1>2. \A s \in SUBSET S : g[s] = Step(f, g, s)
  BY <1>1
<1>3. {} \in Good
  OBVIOUS
<1>4. ASSUME NEW T \in SUBSET S, T # {}, \A x \in T : T \ {x} \in Good
      PROVE  T \in Good
  <2> SUFFICES ASSUME NEW x \in T PROVE g[T] = f[x] + g[T \ {x}]
    OBVIOUS
  <2> DEFINE y == CHOOSE y \in T : TRUE
  <2>1. y \in T /\ g[T] = f[y] + g[T \ {y}]
    BY <1>2, <1>4 DEF Step
  <2> HIDE DEF y
  <2>2. CASE x = y
    BY <2>1, <2>2
  <2>3. CASE x # y
    <3>1. x \in T \ {y} /\ y \in T \ {x}
      BY <2>1, <2>3
    <3>2. g[T \ {y}] = f[x] + g[(T \ {y}) \ {x}]
      BY <1>4, <2>1, <3>1
    <3>3. g[T \ {x}] = f[y] + g[(T \ {x}) \ {y}]
      BY <1>4, <2>1, <3>1
    <3>4. (T \ {x}) \ {y} = (T \ {y}) \ {x}
      OBVIOUS
    <3> DEFINE rest == g[(T \ {y}) \ {x}]
    <3>5. rest \in Int /\ f[x] \in Int /\ f[y] \in Int
      BY <2>1
    <3>6. g[T \ {y}] = f[x] + rest /\ g[T \ {x}] = f[y] + rest
      BY <3>2, <3>3, <3>4
    <3> HIDE DEF rest
    <3> QED BY <2>1, <3>5, <3>6
  <2> QED BY <2>2, <2>3
<1> HIDE DEF Good
<1>5. SUBSET S \subseteq Good
  BY <1>3, <1>4, SetInduction
<1> QED BY <1>5 DEF Good, AnyFirst

\* The one lemma about Total the others use: it is the sum over the whole domain.
Sums(f, S, g) ==
    /\ g \in [SUBSET S -> Int]
    /\ g[{}] = 0
    /\ AnyFirst(f, S, g)

LEMMA TotalIsSum ==
  ASSUME NEW S, IsFiniteSet(S), NEW f \in [S -> Int]
  PROVE  \E g : Sums(f, S, g) /\ Total(f) = g[S]
<1>1. PICK g : IsSum(f, g) /\ Total(f) = g[S]
  <2> DEFINE h == CHOOSE h : IsSum(f, h)
  <2>1. \E k : IsSum(f, k)
    BY SumExists
  <2>2. IsSum(f, h)
    BY <2>1
  <2>3. DOMAIN f = S
    OBVIOUS
  <2>4. Total(f) = h[S]
    BY <2>3, TotalUnfolds
  <2> HIDE DEF h
  <2> QED BY <2>2, <2>4
<1>3. g \in [SUBSET S -> Int]
  BY <1>1, SumType
<1>4. g[{}] = 0
  <2>1. g = [s \in SUBSET S |-> Step(f, g, s)]
    BY <1>1, IsSumStep
  <2>2. \A s \in SUBSET S : g[s] = Step(f, g, s)
    BY <2>1
  <2> QED BY <2>2 DEF Step
<1>5. AnyFirst(f, S, g)
  BY <1>1, <1>3, SumSplits
<1> QED BY <1>1, <1>3, <1>4, <1>5 DEF Sums, AnyFirst

\* Functions that agree on a set have the same sum over it.
LEMMA SumsAgree ==
  ASSUME NEW S, NEW f, NEW g, Sums(f, S, g),
         NEW T, NEW e, NEW h, Sums(e, T, h),
         NEW R \in SUBSET S, R \in SUBSET T, IsFiniteSet(R), \A x \in R : f[x] = e[x]
  PROVE  g[R] = h[R]
<1> DEFINE Good == {U \in SUBSET R : g[U] = h[U]}
<1>1. {} \in Good
  BY DEF Sums, AnyFirst
<1>2. ASSUME NEW U \in SUBSET R, U # {}, \A x \in U : U \ {x} \in Good
      PROVE  U \in Good
  <2>1. PICK x : x \in U
    BY <1>2
  <2>2. g[U] = f[x] + g[U \ {x}] /\ h[U] = e[x] + h[U \ {x}]
    BY <2>1 DEF Sums, AnyFirst
  <2>3. g[U \ {x}] = h[U \ {x}] /\ f[x] = e[x]
    BY <1>2, <2>1
  <2> QED BY <2>2, <2>3
<1> HIDE DEF Good
<1>3. SUBSET R \subseteq Good
  BY <1>1, <1>2, SetInduction
<1> QED BY <1>3 DEF Good

\* A sum of integers is one.
LEMMA TotalType ==
  ASSUME NEW S, IsFiniteSet(S), NEW f \in [S -> Int]
  PROVE  Total(f) \in Int
<1>1. PICK g : Sums(f, S, g) /\ Total(f) = g[S]
  BY TotalIsSum
<1> QED BY <1>1 DEF Sums, AnyFirst

\* One value changes: the sum changes by the difference.
LEMMA TotalChanges ==
  ASSUME NEW S, IsFiniteSet(S), NEW f \in [S -> Int], NEW e \in [S -> Int],
         NEW x \in S, \A y \in S \ {x} : e[y] = f[y]
  PROVE  Total(e) = Total(f) - f[x] + e[x]
<1>1. PICK g : Sums(f, S, g) /\ Total(f) = g[S]
  BY TotalIsSum
<1>2. PICK h : Sums(e, S, h) /\ Total(e) = h[S]
  BY TotalIsSum
<1>3. g[S \ {x}] = h[S \ {x}]
  <2>1. IsFiniteSet(S \ {x})
    BY FS_RemoveElement
  <2> QED BY <1>1, <1>2, <2>1, SumsAgree
<1>4. g[S] = f[x] + g[S \ {x}] /\ h[S] = e[x] + h[S \ {x}]
  BY <1>1, <1>2 DEF Sums, AnyFirst
<1>5. g[S \ {x}] \in Int
  BY <1>1 DEF Sums, AnyFirst
<1> QED BY <1>1, <1>2, <1>3, <1>4, <1>5

\* One value comes in addition.
LEMMA TotalGrows ==
  ASSUME NEW S, IsFiniteSet(S), NEW x, x \notin S, NEW f \in [S -> Int],
         NEW T, x \in T, S \subseteq T, T \subseteq S \cup {x},
         NEW e \in [T -> Int], \A y \in S : e[y] = f[y]
  PROVE  Total(e) = Total(f) + e[x]
<1>1. PICK g : Sums(f, S, g) /\ Total(f) = g[S]
  BY TotalIsSum
<1>2. PICK h : Sums(e, T, h) /\ Total(e) = h[T]
  <2>1. IsFiniteSet(T) /\ T = S \cup {x}
    BY FS_AddElement
  <2> QED BY <2>1, TotalIsSum
<1>3. g[S] = h[S]
  BY <1>1, <1>2, SumsAgree
<1>4. h[T] = e[x] + h[S]
  <2>1. T \ {x} = S /\ x \in T
    OBVIOUS
  <2> QED BY <1>2, <2>1 DEF Sums, AnyFirst
<1>5. g[S] \in Int
  BY <1>1 DEF Sums, AnyFirst
<1> QED BY <1>1, <1>2, <1>3, <1>4, <1>5

\* Nothing is the sum of no or of zero amounts.
LEMMA TotalOfZeros ==
  ASSUME NEW S, IsFiniteSet(S), NEW f \in [S -> Int], \A x \in S : f[x] = 0
  PROVE  Total(f) = 0
<1>1. PICK g : Sums(f, S, g) /\ Total(f) = g[S]
  BY TotalIsSum
<1> DEFINE Good == {T \in SUBSET S : g[T] = 0}
<1>2. {} \in Good
  BY <1>1 DEF Sums, AnyFirst
<1>3. ASSUME NEW T \in SUBSET S, T # {}, \A x \in T : T \ {x} \in Good
      PROVE  T \in Good
  <2>1. PICK x : x \in T
    BY <1>3
  <2>2. g[T] = f[x] + g[T \ {x}] /\ f[x] = 0 /\ g[T \ {x}] = 0
    BY <1>1, <1>3, <2>1 DEF Sums, AnyFirst
  <2> QED BY <2>2
<1> HIDE DEF Good
<1>4. SUBSET S \subseteq Good
  BY <1>2, <1>3, SetInduction
<1> QED BY <1>1, <1>4 DEF Good

\* A sum of natural numbers is one, and none of them is more than the sum.
LEMMA TotalBounds ==
  ASSUME NEW S, IsFiniteSet(S), NEW f \in [S -> Nat]
  PROVE  Total(f) \in Nat /\ \A x \in S : f[x] <= Total(f)
<1>1. PICK g : Sums(f, S, g) /\ Total(f) = g[S]
  BY TotalIsSum
<1> DEFINE Good == {T \in SUBSET S : g[T] \in Nat}
<1>2. {} \in Good
  BY <1>1 DEF Sums, AnyFirst
<1>3. ASSUME NEW T \in SUBSET S, T # {}, \A x \in T : T \ {x} \in Good
      PROVE  T \in Good
  <2>1. PICK x : x \in T
    BY <1>3
  <2>2. g[T] = f[x] + g[T \ {x}] /\ f[x] \in Nat /\ g[T \ {x}] \in Nat
    BY <1>1, <1>3, <2>1 DEF Sums, AnyFirst
  <2> QED BY <2>2
<1> HIDE DEF Good
<1>4. SUBSET S \subseteq Good
  BY <1>2, <1>3, SetInduction
<1>5. \A T \in SUBSET S : g[T] \in Nat
  BY <1>4 DEF Good
<1>6. ASSUME NEW x \in S PROVE f[x] <= Total(f)
  <2>1. g[S] = f[x] + g[S \ {x}] /\ g[S \ {x}] \in Nat /\ f[x] \in Nat
    BY <1>1, <1>5 DEF Sums, AnyFirst
  <2> QED BY <1>1, <2>1
<1> QED BY <1>1, <1>5, <1>6

\* The sum over two parts is the sum of the sums.
LEMMA TotalSplits ==
  ASSUME NEW S, IsFiniteSet(S), NEW T, IsFiniteSet(T), S \cap T = {},
         NEW U, S \subseteq U, T \subseteq U, U \subseteq S \cup T,
         NEW f \in [S -> Int], NEW g \in [T -> Int], NEW h \in [U -> Int],
         \A x \in S : h[x] = f[x], \A x \in T : h[x] = g[x]
  PROVE  Total(h) = Total(f) + Total(g)
<1>1. PICK F : Sums(f, S, F) /\ Total(f) = F[S]
  BY TotalIsSum
<1>2. PICK G : Sums(g, T, G) /\ Total(g) = G[T]
  BY TotalIsSum
<1>3. PICK H : Sums(h, U, H) /\ Total(h) = H[U]
  <2>1. IsFiniteSet(U)
    <3>1. IsFiniteSet(S \cup T)
      BY FS_Union
    <3>2. U = S \cup T
      OBVIOUS
    <3> QED BY <3>1, <3>2
  <2> QED BY <2>1, TotalIsSum
<1> DEFINE Good == {A \in SUBSET T : H[S \cup A] = F[S] + G[A]}
<1>4. H[S] = F[S] /\ F[S] \in Int
  <2>1. H[S] = F[S]
    BY <1>1, <1>3, SumsAgree
  <2> QED BY <1>1, <2>1 DEF Sums
<1>5. {} \in Good
  <2>1. S \cup {} = S /\ G[{}] = 0
    BY <1>2 DEF Sums
  <2> QED BY <1>4, <2>1
<1>6. ASSUME NEW A \in SUBSET T, A # {}, \A x \in A : A \ {x} \in Good
      PROVE  A \in Good
  <2>1. PICK x : x \in A
    BY <1>6
  <2>2. (S \cup A) \ {x} = S \cup (A \ {x}) /\ x \in S \cup A /\ S \cup A \in SUBSET U
    BY <2>1
  <2>3. H[S \cup A] = h[x] + H[S \cup (A \ {x})]
    <3> DEFINE B == S \cup A
    <3>1. B \in SUBSET U /\ x \in B /\ B \ {x} = S \cup (A \ {x})
      BY <2>2
    <3> HIDE DEF B
    <3>2. H[B] = h[x] + H[B \ {x}]
      BY <1>3, <3>1 DEF Sums, AnyFirst
    <3> QED BY <3>1, <3>2 DEF B
  <2>4. G[A] = g[x] + G[A \ {x}]
    BY <1>2, <2>1 DEF Sums, AnyFirst
  <2>5. H[S \cup (A \ {x})] = F[S] + G[A \ {x}]
    BY <1>6, <2>1
  <2>6. g[x] \in Int /\ h[x] = g[x] /\ G[A \ {x}] \in Int
    BY <1>2, <2>1 DEF Sums
  <2> DEFINE a == G[A \ {x}]
  <2>7. H[S \cup A] = F[S] + G[A]
    <3>1. H[S \cup A] = g[x] + (F[S] + a) /\ G[A] = g[x] + a /\ a \in Int
      BY <2>3, <2>4, <2>5, <2>6
    <3> HIDE DEF a
    <3> QED BY <1>4, <2>6, <3>1
  <2> QED BY <2>7
<1> HIDE DEF Good
<1>7. T \in Good
  BY <1>5, <1>6, SetInduction
<1>8. S \cup T = U
  OBVIOUS
<1> QED BY <1>1, <1>2, <1>3, <1>7, <1>8 DEF Good

\* What can be counted off against some of the amounts is not more than all of them.
LEMMA TotalInjects ==
  ASSUME NEW R, IsFiniteSet(R), NEW f \in [R -> Nat],
         NEW D, IsFiniteSet(D), NEW g \in [D -> Nat],
         NEW e \in [D -> R], IsInjective(e), \A x \in D : g[x] = f[e[x]]
  PROVE  Total(g) <= Total(f)
<1> DEFINE Image(A) == {e[x] : x \in A}
<1>1. PICK F : Sums(f, R, F) /\ Total(f) = F[R]
  BY TotalIsSum
<1>2. PICK G : Sums(g, D, G) /\ Total(g) = G[D]
  BY TotalIsSum
<1> DEFINE Good == {A \in SUBSET D : G[A] = F[Image(A)]}
<1>3. {} \in Good
  <2>1. Image({}) = {}
    OBVIOUS
  <2> QED BY <1>1, <1>2, <2>1 DEF Sums
<1>4. ASSUME NEW A \in SUBSET D, A # {}, \A x \in A : A \ {x} \in Good
      PROVE  A \in Good
  <2>1. PICK x : x \in A
    BY <1>4
  <2>2. Image(A) \ {e[x]} = Image(A \ {x})
    BY <2>1 DEF IsInjective
  <2>3. e[x] \in Image(A) /\ Image(A) \in SUBSET R
    BY <2>1
  <2>4. F[Image(A)] = f[e[x]] + F[Image(A) \ {e[x]}]
    <3> HIDE DEF Image
    <3> QED BY <1>1, <2>3 DEF Sums, AnyFirst
  <2>5. G[A] = g[x] + G[A \ {x}]
    BY <1>2, <2>1 DEF Sums, AnyFirst
  <2>6. G[A \ {x}] = F[Image(A \ {x})] /\ g[x] = f[e[x]]
    BY <1>4, <2>1
  <2>7. G[A] = F[Image(A)]
    <3> HIDE DEF Image
    <3> QED BY <2>2, <2>4, <2>5, <2>6
  <2> QED BY <2>7
<1>5. G[D] = F[Image(D)]
  <2> HIDE DEF Good
  <2>1. D \in Good
    BY <1>3, <1>4, SetInduction
  <2> QED BY <2>1 DEF Good
<1> DEFINE I == Image(D)
           J == R \ I
           More == {A \in SUBSET J : F[I] <= F[I \cup A]}
<1>6. I \in SUBSET R /\ J \in SUBSET R /\ I \cap J = {} /\ I \cup J = R /\ IsFiniteSet(J)
  <2>1. I \in SUBSET R
    OBVIOUS
  <2> HIDE DEF I
  <2> QED BY <2>1, FS_Difference
<1> HIDE DEF I, J
<1>7. F[I] \in Int
  BY <1>1, <1>6 DEF Sums
<1>8. {} \in More
  <2>1. I \cup {} = I
    OBVIOUS
  <2> QED BY <1>7, <2>1
<1>9. ASSUME NEW A \in SUBSET J, A # {}, \A x \in A : A \ {x} \in More
      PROVE  A \in More
  <2>1. PICK x : x \in A
    BY <1>9
  <2>2. (I \cup A) \ {x} = I \cup (A \ {x}) /\ x \in I \cup A /\ I \cup A \in SUBSET R /\ x \in R
    BY <1>6, <2>1
  <2>3. F[I \cup A] = f[x] + F[I \cup (A \ {x})]
    <3> DEFINE B == I \cup A
    <3>1. B \in SUBSET R /\ x \in B /\ B \ {x} = I \cup (A \ {x})
      BY <2>2
    <3> HIDE DEF B
    <3>2. F[B] = f[x] + F[B \ {x}]
      BY <1>1, <3>1 DEF Sums, AnyFirst
    <3> QED BY <3>1, <3>2 DEF B
  <2>4. F[I] <= F[I \cup (A \ {x})]
    BY <1>9, <2>1
  <2>5. f[x] \in Nat /\ F[I \cup (A \ {x})] \in Int
    BY <1>1, <1>6, <2>2 DEF Sums
  <2>6. F[I] <= F[I \cup A]
    BY <1>7, <2>3, <2>4, <2>5
  <2> QED BY <2>6
<1>10. J \in More
  <2> HIDE DEF More
  <2> QED BY <1>6, <1>8, <1>9, SetInduction
<1> QED BY <1>1, <1>2, <1>5, <1>6, <1>10 DEF I
=============================================================================
