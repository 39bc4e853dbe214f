---------------------------- MODULE MarketProofs ----------------------------
(***************************************************************************)
(* Theorems about Market: the books of both contracts, for any users,      *)
(* amounts, ratios, prices and bounds.                                     *)
(***************************************************************************)
EXTENDS Market, TotalsProofs, SequenceTheorems

-----------------------------------------------------------------------------
\* Arithmetic: truncating division, and products compared.

LEMMA DivFacts ==
  ASSUME NEW a \in Nat, NEW b \in Nat \ {0}
  PROVE  /\ a \div b \in Nat
         /\ b * (a \div b) <= a
         /\ a < b * (a \div b) + b
  OBVIOUS

LEMMA ProductType ==
  ASSUME NEW a \in Nat, NEW b \in Nat
  PROVE  a * b \in Nat
  OBVIOUS

LEMMA ProductMonotone ==
  ASSUME NEW a \in Int, NEW b \in Int, a <= b, NEW c \in Nat
  PROVE  a * c <= b * c /\ c * a <= c * b
  OBVIOUS

\* A square of a mean is no less than the product.
LEMMA SquareOfMean ==
  ASSUME NEW a \in Int, NEW b \in Int
  PROVE  (a + b) * (a + b) >= 4 * (a * b)
<1>1. (a - b) * (a - b) >= 0
  <2> DEFINE d == a - b
  <2>1. d \in Int
    OBVIOUS
  <2> HIDE DEF d
  <2>2. d * d >= 0
    BY <2>1
  <2> QED BY <2>2 DEF d
<1>2. (a - b) * (a - b) = (a + b) * (a + b) - 4 * (a * b)
  OBVIOUS
<1> QED BY <1>1, <1>2

-----------------------------------------------------------------------------
\* The loop of sqrt.

\* What the loop starts from and keeps: a value not below the root.
NotBelowRoot(y, z) == (z + 1) * (z + 1) > y

IsRoot(y, r) == r * r <= y /\ y < (r + 1) * (r + 1)

Mean(y, z) == (y \div z + z) \div 2

LEMMA MeanStays ==
  ASSUME NEW y \in Nat, NEW z \in 1 .. y
  PROVE  Mean(y, z) \in 1 .. y
<1> DEFINE q == y \div z
<1>1. q \in Nat /\ z * q <= y /\ y < z * q + z
  BY DivFacts
<1>2. Mean(y, z) = (q + z) \div 2
  BY DEF Mean
<1> HIDE DEF q
<1>3. q >= 1
  <2>1. SUFFICES ASSUME q = 0 PROVE FALSE
    BY <1>1
  <2>2. z * q = 0
    BY <2>1
  <2> QED BY <1>1, <2>2
<1>4. q <= z * q
  BY <1>1, ProductMonotone
<1>5. q <= y
  BY <1>1, <1>4
<1> QED BY <1>1, <1>2, <1>3, <1>5

LEMMA MeanNotBelow ==
  ASSUME NEW y \in Nat, NEW z \in 1 .. y
  PROVE  NotBelowRoot(y, Mean(y, z))
<1> DEFINE q == y \div z
           m == Mean(y, z)
<1>1. q \in Nat /\ z * q <= y /\ y < z * q + z
  BY DivFacts
<1>2. m = (q + z) \div 2
  BY DEF Mean
<1>3. m \in Nat
  BY MeanStays
<1> HIDE DEF q, m
<1>4. 2 * (m + 1) >= (q + 1) + z
  BY <1>1, <1>2
<1>5. ((q + 1) + z) * ((q + 1) + z) >= 4 * ((q + 1) * z)
  BY <1>1, SquareOfMean
<1>6. (q + 1) * z = z * q + z
  BY <1>1
<1> DEFINE s == (q + 1) + z
           t == 2 * (m + 1)
<1>7. s \in Nat /\ t \in Nat /\ s <= t
  BY <1>1, <1>3, <1>4
<1>8. t * t = 4 * ((m + 1) * (m + 1))
  BY <1>3
<1>9. s * s > 4 * y
  BY <1>1, <1>5, <1>6
<1> HIDE DEF s, t
<1>10. s * s <= s * t /\ s * t <= t * t
  BY <1>7, ProductMonotone
<1>11. 4 * ((m + 1) * (m + 1)) > 4 * y
  <2>1. s * s \in Nat /\ s * t \in Nat /\ t * t \in Nat
    BY <1>7
  <2> QED BY <1>8, <1>9, <1>10, <2>1
<1>12. (m + 1) * (m + 1) \in Nat
  BY <1>3
<1>13. (m + 1) * (m + 1) > y
  BY <1>11, <1>12
<1> QED BY <1>13 DEF NotBelowRoot, m

\* One turn of the loop, the rest of it being g.
Turn(y, g, z) == IF Mean(y, z) < z THEN g[Mean(y, z)] ELSE z

IsLoop(y, g) == g = [z \in 1 .. y |-> Turn(y, g, z)]

LEMMA sqrtUnfolds ==
  ASSUME NEW y
  PROVE  Exchange!sqrt(y) =
           LET L == CHOOSE g : IsLoop(y, g)
           IN  IF y > 3 THEN L[y \div 2 + 1] ELSE IF y # 0 THEN 1 ELSE 0
  BY DEF Exchange!sqrt, IsLoop, Turn, Mean

\* The rest of the loop is asked for smaller values only, so it exists.
LEMMA LoopExists ==
  ASSUME NEW y \in Nat
  PROVE  \E g : IsLoop(y, g)
<1> DEFINE RightUpTo(g, n) == \A z \in 1 .. y : z <= n => g[z] = Turn(y, g, z)
           Bad == {n \in Nat : ~ \E g : RightUpTo(g, n)}
<1>1. 0 \notin Bad
  OBVIOUS
<1>2. ASSUME NEW n \in Nat, n \notin Bad
      PROVE  n + 1 \notin Bad
  <2>1. PICK g : RightUpTo(g, n)
    BY <1>2
  <2> DEFINE h == [z \in 1 .. y |-> IF z <= n THEN g[z] ELSE Turn(y, g, z)]
  <2>2. ASSUME NEW z \in 1 .. y, z <= n + 1
        PROVE  h[z] = Turn(y, h, z)
    <3> HIDE DEF Mean
    <3>1. h[z] = Turn(y, g, z)
      BY <2>1
    <3>2. CASE Mean(y, z) < z
      <4>1. Mean(y, z) \in 1 .. y
        BY MeanStays
      <4>2. Mean(y, z) <= n
        BY <2>2, <3>2, <4>1
      <4>3. h[Mean(y, z)] = g[Mean(y, z)]
        BY <4>1, <4>2
      <4> QED BY <3>1, <4>3 DEF Turn
    <3>3. CASE ~ (Mean(y, z) < z)
      BY <3>1, <3>3 DEF Turn
    <3> QED BY <3>2, <3>3
  <2> HIDE DEF h
  <2>3. RightUpTo(h, n + 1)
    BY <2>2
  <2> QED BY <2>3
<1>3. Bad = {}
  <2> HIDE DEF Bad
  <2>1. SUFFICES ASSUME Bad # {} PROVE FALSE
    OBVIOUS
  <2>2. Bad \in SUBSET Nat
    BY DEF Bad
  <2>3. PICK n \in Bad : \A k \in Bad : n <= k
    BY <2>1, <2>2, LeastNat
  <2>4. n # 0 /\ n \in Nat /\ n - 1 \in Nat
    BY <1>1, <2>2
  <2>5. n - 1 \notin Bad
    BY <2>3, <2>4
  <2>6. n - 1 + 1 \notin Bad
    BY <1>2, <2>4, <2>5
  <2> QED BY <2>4, <2>6
<1>4. PICK g : RightUpTo(g, y)
  BY <1>3
<1> DEFINE h == [z \in 1 .. y |-> g[z]]
<1>5. ASSUME NEW z \in 1 .. y
      PROVE  g[z] = Turn(y, h, z)
  <2>1. g[z] = Turn(y, g, z)
    BY <1>4
  <2>2. h[Mean(y, z)] = g[Mean(y, z)]
    BY MeanStays
  <2> QED BY <2>1, <2>2 DEF Turn
<1>6. h = [z \in 1 .. y |-> Turn(y, h, z)]
  BY <1>5
<1> HIDE DEF h
<1> QED BY <1>6 DEF IsLoop

\* From any value not below the root, the loop ends at the root.
LEMMA LoopFindsRoot ==
  ASSUME NEW y \in Nat, NEW g, IsLoop(y, g),
         NEW z \in 1 .. y, NotBelowRoot(y, z)
  PROVE  g[z] \in Nat /\ IsRoot(y, g[z])
<1> DEFINE Bad == {n \in 1 .. y : NotBelowRoot(y, n) /\ ~ (g[n] \in Nat /\ IsRoot(y, g[n]))}
<1>1. SUFFICES ASSUME Bad # {} PROVE FALSE
  OBVIOUS
<1>2. Bad \in SUBSET Nat
  OBVIOUS
<1> HIDE DEF Bad
<1>3. PICK n \in Bad : \A k \in Bad : n <= k
  BY <1>1, <1>2, LeastNat
<1> DEFINE m == Mean(y, n)
<1>4. n \in 1 .. y /\ NotBelowRoot(y, n)
  BY DEF Bad
<1>5. m \in 1 .. y /\ NotBelowRoot(y, m)
  BY <1>4, MeanStays, MeanNotBelow
<1>6. g[n] = IF m < n THEN g[m] ELSE n
  BY <1>4 DEF IsLoop, Turn
<1>7. CASE m < n
  <2>1. m \notin Bad
    BY <1>3, <1>4, <1>5, <1>7
  <2>2. g[m] \in Nat /\ IsRoot(y, g[m])
    BY <1>5, <2>1 DEF Bad
  <2> QED BY <1>3, <1>6, <1>7, <2>2 DEF Bad
<1>8. CASE ~ (m < n)
  <2> DEFINE q == y \div n
  <2>2. q \in Nat /\ n * q <= y
    BY <1>4, DivFacts
  <2>3. m = (q + n) \div 2
    BY DEF Mean
  <2> HIDE DEF q, m
  <2>4. n <= q
    BY <1>4, <1>5, <1>8, <2>2, <2>3
  <2>5. n * n <= n * q
    BY <1>4, <2>2, <2>4, ProductMonotone
  <2>6. IsRoot(y, n)
    <3>1. n * n \in Nat /\ n * q \in Nat /\ (n + 1) * (n + 1) \in Nat
      BY <1>4, <2>2
    <3>2. n * n <= y
      BY <2>2, <2>5, <3>1
    <3> QED BY <1>4, <3>1, <3>2 DEF IsRoot, NotBelowRoot
  <2> QED BY <1>3, <1>4, <1>6, <1>8, <2>6 DEF Bad
<1> QED BY <1>7, <1>8

\* sqrt is the square root rounded down.
LEMMA sqrtIsRoot ==
  ASSUME NEW y \in Nat
  PROVE  Exchange!sqrt(y) \in Nat /\ IsRoot(y, Exchange!sqrt(y))
<1>1. CASE y <= 3
  <2>1. y \in {0, 1, 2, 3}
    BY <1>1
  <2>2. Exchange!sqrt(y) = IF y # 0 THEN 1 ELSE 0
    <3>1. ~ (y > 3)
      BY <1>1
    <3> DEFINE L == CHOOSE g : IsLoop(y, g)
    <3>2. Exchange!sqrt(y) = IF y > 3 THEN L[y \div 2 + 1] ELSE IF y # 0 THEN 1 ELSE 0
      BY sqrtUnfolds
    <3> HIDE DEF L
    <3> QED BY <3>1, <3>2
  <2> QED BY <2>1, <2>2 DEF IsRoot
<1>2. CASE y > 3
  <2> DEFINE x == y \div 2 + 1
  <2>1. PICK g : IsLoop(y, g) /\ Exchange!sqrt(y) = g[x]
    <3> DEFINE L == CHOOSE g : IsLoop(y, g)
    <3>1. IsLoop(y, L)
      BY LoopExists
    <3>2. Exchange!sqrt(y) = L[x]
      BY <1>2, sqrtUnfolds
    <3> HIDE DEF L, x
    <3> QED BY <3>1, <3>2
  <2>2. x \in 1 .. y /\ 2 * x > y
    BY <1>2
  <2> HIDE DEF x
  <2>3. NotBelowRoot(y, x)
    <3>1. (x + 1) * (x + 1) = x * x + 2 * x + 1
      BY <2>2
    <3>2. x * x \in Nat
      BY <2>2
    <3> QED BY <2>2, <3>1, <3>2 DEF NotBelowRoot
  <2> QED BY <2>1, <2>2, <2>3, LoopFindsRoot
<1> QED BY <1>1, <1>2

-----------------------------------------------------------------------------
\* Balances and positions.

LEMMA MoveFacts ==
  ASSUME NEW S, IsFiniteSet(S), NEW b \in [S -> Nat], NEW x \in S, NEW y \in S, x # y,
         NEW n \in Nat, n <= b[x]
  PROVE  /\ Move(b, x, y, n) \in [S -> Nat]
         /\ Move(b, x, y, n)[x] = b[x] - n /\ Move(b, x, y, n)[y] = b[y] + n
         /\ \A z \in S \ {x, y} : Move(b, x, y, n)[z] = b[z]
         /\ Total(Move(b, x, y, n)) = Total(b)
<1> DEFINE m == Move(b, x, y, n)
           c == [b EXCEPT ![x] = b[x] - n]
<1>1. /\ m \in [S -> Nat]
      /\ m[x] = b[x] - n /\ m[y] = b[y] + n
      /\ \A z \in S \ {x, y} : m[z] = b[z]
  BY DEF Move
<1>2. c \in [S -> Nat] /\ c[x] = b[x] - n /\ \A z \in S \ {x} : c[z] = b[z]
  OBVIOUS
<1> HIDE DEF m, c
<1>3. b \in [S -> Int] /\ c \in [S -> Int] /\ m \in [S -> Int]
  BY <1>1, <1>2
<1>4. Total(c) = Total(b) - b[x] + c[x]
  BY <1>2, <1>3, TotalChanges
<1>5. \A z \in S \ {y} : m[z] = c[z]
  BY <1>1, <1>2
<1>6. Total(m) = Total(c) - c[y] + m[y]
  BY <1>3, <1>5, TotalChanges
<1>7. Total(b) \in Int /\ b[x] \in Int /\ b[y] \in Int
  BY <1>3, TotalType
<1>8. Total(m) = Total(b)
  BY <1>1, <1>2, <1>4, <1>6, <1>7
<1> QED BY <1>1, <1>8 DEF m

LEMMA CreateFacts ==
  ASSUME NEW S, IsFiniteSet(S), NEW b \in [S -> Nat], NEW x \in S, NEW n \in Nat
  PROVE  /\ Create(b, x, n) \in [S -> Nat]
         /\ \A z \in S \ {x} : Create(b, x, n)[z] = b[z]
         /\ Total(Create(b, x, n)) = Total(b) + n
<1> DEFINE m == Create(b, x, n)
<1>1. m \in [S -> Nat] /\ m[x] = b[x] + n /\ \A z \in S \ {x} : m[z] = b[z]
  BY DEF Create
<1> HIDE DEF m
<1>2. b \in [S -> Int] /\ m \in [S -> Int]
  BY <1>1
<1>3. Total(m) = Total(b) - b[x] + m[x]
  BY <1>1, <1>2, TotalChanges
<1>4. Total(b) \in Int
  BY <1>2, TotalType
<1>5. Total(m) = Total(b) + n
  BY <1>1, <1>3, <1>4
<1> QED BY <1>1, <1>5 DEF m

LEMMA DestroyFacts ==
  ASSUME NEW S, IsFiniteSet(S), NEW b \in [S -> Nat], NEW x \in S, NEW n \in Nat, n <= b[x]
  PROVE  /\ Destroy(b, x, n) \in [S -> Nat]
         /\ \A z \in S \ {x} : Destroy(b, x, n)[z] = b[z]
         /\ Total(Destroy(b, x, n)) = Total(b) - n
<1> DEFINE m == Destroy(b, x, n)
<1>1. m \in [S -> Nat] /\ m[x] = b[x] - n /\ \A z \in S \ {x} : m[z] = b[z]
  BY DEF Destroy
<1> HIDE DEF m
<1>2. b \in [S -> Int] /\ m \in [S -> Int]
  BY <1>1
<1>3. Total(m) = Total(b) - b[x] + m[x]
  BY <1>1, <1>2, TotalChanges
<1>4. Total(b) \in Int
  BY <1>2, TotalType
<1>5. Total(m) = Total(b) - n
  BY <1>1, <1>3, <1>4
<1> QED BY <1>1, <1>5 DEF m

Position  == [owner : Users \cup {NoOne}, collateralAmount : Nat, assetAmount : Nat]
Owed(p)   == Total([i \in DOMAIN p |-> p[i].assetAmount])
Backing(p) == Total([i \in DOMAIN p |-> p[i].collateralAmount])

LEMMA PositionType ==
  ASSUME NEW p \in Seq(Position)
  PROVE  /\ Len(p) \in Nat /\ DOMAIN p = 1 .. Len(p) /\ IsFiniteSet(DOMAIN p)
         /\ \A i \in DOMAIN p : /\ p[i] \in Position /\ p[i].owner \in Users \cup {NoOne}
                                /\ p[i].collateralAmount \in Nat /\ p[i].assetAmount \in Nat
         /\ Owed(p) \in Int /\ Backing(p) \in Int
<1>1. Len(p) \in Nat /\ DOMAIN p = 1 .. Len(p) /\ IsFiniteSet(DOMAIN p)
  BY FS_Interval
<1>2. ASSUME NEW i \in DOMAIN p
      PROVE  /\ p[i] \in Position /\ p[i].owner \in Users \cup {NoOne}
             /\ p[i].collateralAmount \in Nat /\ p[i].assetAmount \in Nat
  <2>1. p[i] \in Position
    OBVIOUS
  <2> QED BY <2>1 DEF Position
<1>3. Owed(p) \in Int
  <2> DEFINE f == [i \in DOMAIN p |-> p[i].assetAmount]
  <2>1. f \in [DOMAIN p -> Int]
    BY <1>2
  <2> HIDE DEF f
  <2>2. Total(f) \in Int
    BY <1>1, <2>1, TotalType
  <2> QED BY <2>2 DEF f, Owed
<1>4. Backing(p) \in Int
  <2> DEFINE f == [i \in DOMAIN p |-> p[i].collateralAmount]
  <2>1. f \in [DOMAIN p -> Int]
    BY <1>2
  <2> HIDE DEF f
  <2>2. Total(f) \in Int
    BY <1>1, <2>1, TotalType
  <2> QED BY <2>2 DEF f, Backing
<1> QED BY <1>1, <1>2, <1>3, <1>4

\* One position changes.
LEMMA PositionChanges ==
  ASSUME NEW p \in Seq(Position), NEW i \in DOMAIN p, NEW q \in Seq(Position),
         DOMAIN q = DOMAIN p, \A j \in DOMAIN p \ {i} : q[j] = p[j]
  PROVE  /\ Owed(q) = Owed(p) - p[i].assetAmount + q[i].assetAmount
         /\ Backing(q) = Backing(p) - p[i].collateralAmount + q[i].collateralAmount
<1>1. IsFiniteSet(DOMAIN p)
  BY PositionType
<1>2. \A j \in DOMAIN p : /\ p[j].collateralAmount \in Nat /\ p[j].assetAmount \in Nat
                          /\ q[j].collateralAmount \in Nat /\ q[j].assetAmount \in Nat
  BY PositionType
<1>3. Owed(q) = Owed(p) - p[i].assetAmount + q[i].assetAmount
  <2> DEFINE f == [j \in DOMAIN p |-> p[j].assetAmount]
             e == [j \in DOMAIN p |-> q[j].assetAmount]
  <2>1. f \in [DOMAIN p -> Int] /\ e \in [DOMAIN p -> Int]
    BY <1>2
  <2>2. /\ f[i] = p[i].assetAmount /\ e[i] = q[i].assetAmount
        /\ \A j \in DOMAIN p \ {i} : e[j] = f[j]
    OBVIOUS
  <2>3. Owed(p) = Total(f) /\ Owed(q) = Total(e)
    BY DEF Owed
  <2> DEFINE D == DOMAIN p
  <2>5. /\ IsFiniteSet(D) /\ f \in [D -> Int] /\ e \in [D -> Int]
        /\ i \in D /\ \A j \in D \ {i} : e[j] = f[j]
    BY <1>1, <2>1, <2>2
  <2> HIDE DEF f, e, D
  <2>4. Total(e) = Total(f) - f[i] + e[i]
    BY <2>5, TotalChanges
  <2> QED BY <2>2, <2>3, <2>4
<1>4. Backing(q) = Backing(p) - p[i].collateralAmount + q[i].collateralAmount
  <2> DEFINE f == [j \in DOMAIN p |-> p[j].collateralAmount]
             e == [j \in DOMAIN p |-> q[j].collateralAmount]
  <2>1. f \in [DOMAIN p -> Int] /\ e \in [DOMAIN p -> Int]
    BY <1>2
  <2>2. /\ f[i] = p[i].collateralAmount /\ e[i] = q[i].collateralAmount
        /\ \A j \in DOMAIN p \ {i} : e[j] = f[j]
    OBVIOUS
  <2>3. Backing(p) = Total(f) /\ Backing(q) = Total(e)
    BY DEF Backing
  <2> DEFINE D == DOMAIN p
  <2>5. /\ IsFiniteSet(D) /\ f \in [D -> Int] /\ e \in [D -> Int]
        /\ i \in D /\ \A j \in D \ {i} : e[j] = f[j]
    BY <1>1, <2>1, <2>2
  <2> HIDE DEF f, e, D
  <2>4. Total(e) = Total(f) - f[i] + e[i]
    BY <2>5, TotalChanges
  <2> QED BY <2>2, <2>3, <2>4
<1> QED BY <1>3, <1>4

\* A position is added.
LEMMA PositionAdded ==
  ASSUME NEW p \in Seq(Position), NEW r \in Position
  PROVE  /\ Owed(Append(p, r)) = Owed(p) + r.assetAmount
         /\ Backing(Append(p, r)) = Backing(p) + r.collateralAmount
<1> DEFINE q == Append(p, r)
           k == Len(p) + 1
<1>1. q \in Seq(Position) /\ Len(p) \in Nat /\ Len(q) = k /\ q[k] = r /\ DOMAIN p = 1 .. Len(p)
      /\ \A j \in DOMAIN p : q[j] = p[j]
  OBVIOUS
<1>2. k \notin DOMAIN p /\ DOMAIN q = DOMAIN p \cup {k}
  BY <1>1
<1> HIDE DEF q, k
<1>3. IsFiniteSet(DOMAIN p)
  BY PositionType
<1>4. /\ \A j \in DOMAIN p : p[j].collateralAmount \in Nat /\ p[j].assetAmount \in Nat
      /\ \A j \in DOMAIN q : q[j].collateralAmount \in Nat /\ q[j].assetAmount \in Nat
  BY <1>1, PositionType
<1>5. Owed(q) = Owed(p) + r.assetAmount
  <2> DEFINE f == [j \in DOMAIN p |-> p[j].assetAmount]
             e == [j \in DOMAIN q |-> q[j].assetAmount]
  <2>1. f \in [DOMAIN p -> Int] /\ e \in [DOMAIN p \cup {k} -> Int]
    BY <1>2, <1>4
  <2>2. e[k] = r.assetAmount /\ \A j \in DOMAIN p : e[j] = f[j]
    BY <1>1, <1>2
  <2>3. Owed(p) = Total(f) /\ Owed(q) = Total(e)
    BY DEF Owed
  <2> DEFINE D == DOMAIN p
             T == D \cup {k}
  <2>5. /\ IsFiniteSet(D) /\ f \in [D -> Int] /\ e \in [T -> Int]
        /\ k \notin D /\ k \in T /\ D \subseteq T /\ T \subseteq D \cup {k} /\ \A j \in D : e[j] = f[j]
    BY <1>2, <1>3, <2>1, <2>2
  <2> HIDE DEF f, e, D, T
  <2>4. Total(e) = Total(f) + e[k]
    BY <2>5, TotalGrows
  <2> QED BY <2>2, <2>3, <2>4
<1>6. Backing(q) = Backing(p) + r.collateralAmount
  <2> DEFINE f == [j \in DOMAIN p |-> p[j].collateralAmount]
             e == [j \in DOMAIN q |-> q[j].collateralAmount]
  <2>1. f \in [DOMAIN p -> Int] /\ e \in [DOMAIN p \cup {k} -> Int]
    BY <1>2, <1>4
  <2>2. e[k] = r.collateralAmount /\ \A j \in DOMAIN p : e[j] = f[j]
    BY <1>1, <1>2
  <2>3. Backing(p) = Total(f) /\ Backing(q) = Total(e)
    BY DEF Backing
  <2> DEFINE D == DOMAIN p
             T == D \cup {k}
  <2>5. /\ IsFiniteSet(D) /\ f \in [D -> Int] /\ e \in [T -> Int]
        /\ k \notin D /\ k \in T /\ D \subseteq T /\ T \subseteq D \cup {k} /\ \A j \in D : e[j] = f[j]
    BY <1>2, <1>3, <2>1, <2>2
  <2> HIDE DEF f, e, D, T
  <2>4. Total(e) = Total(f) + e[k]
    BY <2>5, TotalGrows
  <2> QED BY <2>2, <2>3, <2>4
<1> QED BY <1>5, <1>6 DEF q

-----------------------------------------------------------------------------
\* The calls of Mint.

\* Positions are opened once the asset is registered.
OpenedAtRatio == positions # << >> => registered = MinRatio

MintInv == TypeOK /\ SupplyIsDebt /\ UnitRatioKept /\ CollateralHeld /\ OpenedAtRatio
           /\ given \in Nat

\* The ratio of one position, as UnitRatioKept asks for it.
Keeps(r) == Price >= Unit /\ r.assetAmount > 0 => r.collateralAmount >= MinRatio * r.assetAmount

LEMMA ConstantTypes ==
  /\ IsFiniteSet(Accounts) /\ Vault \in Accounts /\ Vault \notin Users
  /\ \A u \in Users : u \in Accounts /\ u # Vault
  /\ NoOne \notin Users
  /\ Unit \in Nat \ {0} /\ Price \in Nat \ {0} /\ MinRatio \in Nat \ {0}
  /\ \A ratio \in Ratios : ratio \in Nat \ {0}
  /\ \A amount \in Amounts : amount \in Nat
  /\ Funds \in Nat
  BY MintAssumption

LEMMA TypeOKIsTyped ==
  TypeOK <=> /\ eusd \in [Accounts -> Nat] /\ asset \in [Accounts -> Nat]
             /\ registered \in {0, MinRatio} /\ positions \in Seq(Position)
             /\ mispaid \in BOOLEAN
  BY DEF TypeOK, Position

LEMMA BooksOfPositions == Debts = Owed(positions) /\ Collateral = Backing(positions)
  BY DEF Debts, Collateral, Owed, Backing

LEMMA RatioKeptAlways == UnitRatioKept <=> \A i \in DOMAIN positions : Keeps(positions[i])
  BY DEF UnitRatioKept, Keeps

\* A position that passes the check keeps its ratio.
LEMMA RatioHoldsKeeps ==
  ASSUME NEW r \in Position, RatioHolds(r.collateralAmount, r.assetAmount),
         registered = MinRatio
  PROVE  Keeps(r)
<1> DEFINE c == r.collateralAmount
           d == r.assetAmount
           q == c \div d
<1>1. c \in Nat /\ d \in Nat /\ MinRatio \in Nat
  BY ConstantTypes DEF Position
<1>2. d > 0 /\ q >= MinRatio
  BY DEF RatioHolds
<1> HIDE DEF c, d
<1>3. q \in Nat /\ d * q <= c
  BY <1>1, <1>2, DivFacts
<1> HIDE DEF q
<1>4. MinRatio * d <= q * d
  BY <1>1, <1>2, <1>3, ProductMonotone
<1>5. q * d = d * q /\ q * d \in Nat /\ MinRatio * d \in Nat
  BY <1>1, <1>3
<1>6. c >= MinRatio * d
  BY <1>1, <1>3, <1>4, <1>5
<1> QED BY <1>6 DEF Keeps, c, d

\* A new position starts with its ratio, at a price of at least one unit.
LEMMA MintedKeeps ==
  ASSUME NEW amount \in Nat, NEW ratio \in Nat \ {0}, ratio >= MinRatio
  PROVE  /\ getMintAmount(amount, ratio) \in Nat
         /\ Price >= Unit => amount >= MinRatio * getMintAmount(amount, ratio)
<1> DEFINE v == amount * Unit
           q == v \div Price
           m == q \div ratio
<1>1. getMintAmount(amount, ratio) = m
  BY DEF getMintAmount
<1>2. Unit \in Nat /\ Price \in Nat \ {0} /\ MinRatio \in Nat
  BY ConstantTypes
<1>3. v \in Nat
  BY <1>2
<1>4. q \in Nat /\ Price * q <= v
  <2> HIDE DEF v
  <2> QED BY <1>2, <1>3, DivFacts
<1>5. m \in Nat /\ ratio * m <= q
  <2> HIDE DEF q
  <2> QED BY <1>4, DivFacts
<1> HIDE DEF m
<1>6. ASSUME Price >= Unit PROVE q <= amount
  <2>1. SUFFICES ASSUME q >= amount + 1 PROVE FALSE
    BY <1>4
  <2>2. amount * Unit <= amount * Price
    BY <1>2, <1>6, ProductMonotone
  <2> HIDE DEF q
  <2>3. (amount + 1) * Price <= q * Price
    BY <1>2, <1>4, <2>1, ProductMonotone
  <2>4. (amount + 1) * Price = amount * Price + Price /\ q * Price = Price * q
    BY <1>2, <1>4
  <2>5. amount * Price \in Nat /\ q * Price \in Nat
    BY <1>2, <1>4
  <2> QED BY <1>2, <1>3, <1>4, <2>2, <2>3, <2>4, <2>5
<1> HIDE DEF q
<1>7. MinRatio * m <= ratio * m
  BY <1>2, <1>5, ProductMonotone
<1>8. MinRatio * m \in Nat /\ ratio * m \in Nat
  BY <1>2, <1>5
<1>9. Price >= Unit => amount >= MinRatio * m
  BY <1>4, <1>5, <1>6, <1>7, <1>8
<1> QED BY <1>1, <1>5, <1>9

\* What a call that changes one position owes the books.
LEMMA PositionStep ==
  ASSUME MintInv, NEW i \in DOMAIN positions, NEW r \in Position, Keeps(r),
         positions' = [positions EXCEPT ![i] = r], registered' = registered,
         eusd' \in [Accounts -> Nat], asset' \in [Accounts -> Nat], mispaid' \in BOOLEAN,
         Total(asset') = Total(asset) + r.assetAmount - positions[i].assetAmount,
         given' = given,
         ~ mispaid' => /\ ~ mispaid
                       /\ eusd'[Vault] =
                              eusd[Vault] + r.collateralAmount - positions[i].collateralAmount
  PROVE  MintInv'
<1> DEFINE p == positions
           q == positions'
<1>1. /\ p \in Seq(Position) /\ q \in Seq(Position) /\ DOMAIN q = DOMAIN p /\ q[i] = r
      /\ \A j \in DOMAIN p \ {i} : q[j] = p[j]
  BY TypeOKIsTyped DEF MintInv
<1>2. /\ Owed(q) = Owed(p) - p[i].assetAmount + r.assetAmount
      /\ Backing(q) = Backing(p) - p[i].collateralAmount + r.collateralAmount
  <2> HIDE DEF p, q
  <2>1. i \in DOMAIN p
    BY DEF p
  <2> QED BY <1>1, <2>1, PositionChanges
<1>3. /\ Owed(p) \in Int /\ Backing(p) \in Int /\ p[i].assetAmount \in Nat /\ p[i].collateralAmount \in Nat
      /\ r.assetAmount \in Nat /\ r.collateralAmount \in Nat
  BY <1>1, PositionType DEF Position
<1>4. /\ Total(asset) = Owed(p) /\ (mispaid \/ eusd[Vault] = Backing(p) + given)
      /\ given \in Nat
  BY BooksOfPositions DEF MintInv, SupplyIsDebt, CollateralHeld
<1>5. Total(asset') = Owed(q)
  BY <1>2, <1>3, <1>4
<1>11. ASSUME ~ mispaid' PROVE eusd'[Vault] = Backing(q) + given'
  BY <1>2, <1>3, <1>4, <1>11
<1>6. Debts' = Owed(q) /\ Collateral' = Backing(q)
  BY DEF Debts, Collateral, Owed, Backing
<1>7. TypeOK'
  BY <1>1 DEF TypeOK, MintInv, Position
<1>8. SupplyIsDebt' /\ CollateralHeld'
  BY <1>5, <1>6, <1>11 DEF SupplyIsDebt, CollateralHeld
<1>9. UnitRatioKept'
  <2>1. \A j \in DOMAIN p : Keeps(p[j])
    BY RatioKeptAlways DEF MintInv
  <2>2. \A j \in DOMAIN q : Keeps(q[j])
    BY <1>1, <2>1
  <2> QED BY <2>2 DEF UnitRatioKept, Keeps
<1>10. OpenedAtRatio'
  <2>1. p # << >>
    BY <1>1, PositionType, EmptySeq
  <2> QED BY <2>1 DEF MintInv, OpenedAtRatio
<1> QED BY <1>4, <1>7, <1>8, <1>9, <1>10 DEF MintInv

LEMMA registerAssetStep ==
  ASSUME MintInv, registerAsset, given' = given
  PROVE  MintInv' /\ asset' = asset
<1>1. registered' = MinRatio /\ UNCHANGED <<eusd, asset, positions, mispaid>>
  BY DEF registerAsset
<1> QED BY <1>1 DEF MintInv, TypeOK, SupplyIsDebt, UnitRatioKept, CollateralHeld, OpenedAtRatio, Debts,
                    Collateral

LEMMA openPositionStep ==
  ASSUME MintInv, NEW u \in Users, NEW amount \in Amounts, NEW ratio \in Ratios,
         openPosition(u, amount, ratio), given' = given
  PROVE  MintInv' /\ \A a \in Accounts \ Users : asset'[a] = asset[a]
<1> DEFINE minted == getMintAmount(amount, ratio)
           r == [owner |-> u, collateralAmount |-> amount, assetAmount |-> minted]
           p == positions
           q == positions'
<1>1. /\ registered # 0 /\ ratio >= registered /\ eusd[u] >= amount
      /\ eusd' = Move(eusd, u, Vault, amount) /\ asset' = Create(asset, u, minted)
      /\ q = Append(p, r) /\ UNCHANGED <<registered, mispaid>>
  BY DEF openPosition
<1>2. /\ amount \in Nat /\ ratio \in Nat \ {0} /\ u \in Accounts /\ Vault \in Accounts /\ u # Vault
      /\ IsFiniteSet(Accounts) /\ MinRatio \in Nat
  BY ConstantTypes
<1>3. /\ eusd \in [Accounts -> Nat] /\ asset \in [Accounts -> Nat] /\ p \in Seq(Position)
      /\ registered \in {0, MinRatio} /\ mispaid \in BOOLEAN /\ given \in Nat
  BY TypeOKIsTyped DEF MintInv
<1>4. registered = MinRatio /\ ratio >= MinRatio
  BY <1>1, <1>3
<1>5. minted \in Nat /\ (Price >= Unit => amount >= MinRatio * minted)
  BY <1>2, <1>4, MintedKeeps
<1> HIDE DEF minted
<1>6. r \in Position /\ r.collateralAmount = amount /\ r.assetAmount = minted
  BY <1>2, <1>5 DEF Position
<1>7. Keeps(r)
  BY <1>5, <1>6 DEF Keeps
<1> HIDE DEF r
<1>8. /\ eusd' \in [Accounts -> Nat] /\ eusd'[Vault] = eusd[Vault] + amount
      /\ asset' \in [Accounts -> Nat] /\ Total(asset') = Total(asset) + minted
      /\ \A a \in Accounts \ {u} : asset'[a] = asset[a]
  <2>1. amount <= eusd[u]
    BY <1>1, <1>2, <1>3
  <2>2. /\ Move(eusd, u, Vault, amount) \in [Accounts -> Nat]
        /\ Move(eusd, u, Vault, amount)[Vault] = eusd[Vault] + amount
    <3>1. eusd \in [Accounts -> Nat] /\ amount \in Nat /\ IsFiniteSet(Accounts)
          /\ u \in Accounts /\ Vault \in Accounts /\ u # Vault
      BY <1>2, <1>3
    <3> QED BY <2>1, <3>1, MoveFacts
  <2>3. /\ Create(asset, u, minted) \in [Accounts -> Nat]
        /\ \A z \in Accounts \ {u} : Create(asset, u, minted)[z] = asset[z]
        /\ Total(Create(asset, u, minted)) = Total(asset) + minted
    <3>1. asset \in [Accounts -> Nat] /\ u \in Accounts /\ minted \in Nat /\ IsFiniteSet(Accounts)
      BY <1>2, <1>3, <1>5
    <3> QED BY <3>1, CreateFacts
  <2> QED BY <1>1, <2>2, <2>3
<1>9. /\ Owed(q) = Owed(p) + minted /\ Backing(q) = Backing(p) + amount
  <2>1. /\ Owed(Append(p, r)) = Owed(p) + r.assetAmount
        /\ Backing(Append(p, r)) = Backing(p) + r.collateralAmount
    <3> HIDE DEF p
    <3> QED BY <1>3, <1>6, PositionAdded
  <2> QED BY <1>1, <1>6, <2>1
<1>10. Owed(p) \in Int /\ Backing(p) \in Int /\ eusd[Vault] \in Nat
  BY <1>2, <1>3, PositionType
<1>11. Total(asset) = Owed(p) /\ (mispaid \/ eusd[Vault] = Backing(p) + given)
  BY BooksOfPositions DEF MintInv, SupplyIsDebt, CollateralHeld
<1>12. Total(asset') = Owed(q) /\ (mispaid' \/ eusd'[Vault] = Backing(q) + given')
  <2>1. Total(asset') = Owed(q)
    BY <1>8, <1>9, <1>11
  <2>2. ASSUME ~ mispaid' PROVE eusd'[Vault] = Backing(q) + given'
    BY <1>1, <1>2, <1>3, <1>8, <1>9, <1>10, <1>11, <2>2
  <2> QED BY <2>1, <2>2
<1>13. Debts' = Owed(q) /\ Collateral' = Backing(q)
  BY DEF Debts, Collateral, Owed, Backing
<1>14. /\ q \in Seq(Position) /\ \A j \in DOMAIN q : q[j] = r \/ (j \in DOMAIN p /\ q[j] = p[j])
  BY <1>1, <1>3, <1>6
<1>15. TypeOK'
  BY <1>1, <1>3, <1>8, <1>14 DEF TypeOK, Position
<1>16. SupplyIsDebt' /\ CollateralHeld'
  BY <1>12, <1>13 DEF SupplyIsDebt, CollateralHeld
<1>17. UnitRatioKept'
  <2>1. \A j \in DOMAIN p : Keeps(p[j])
    BY RatioKeptAlways DEF MintInv
  <2>2. \A j \in DOMAIN q : Keeps(q[j])
    BY <1>7, <1>14, <2>1
  <2> QED BY <2>2 DEF UnitRatioKept, Keeps
<1>18. OpenedAtRatio'
  BY <1>1, <1>4 DEF OpenedAtRatio
<1>19. \A a \in Accounts \ Users : asset'[a] = asset[a]
  BY <1>8
<1> QED BY <1>3, <1>15, <1>16, <1>17, <1>18, <1>19 DEF MintInv

\* What the calls on a position start from.
LEMMA PositionFacts ==
  ASSUME MintInv, NEW i \in DOMAIN positions
  PROVE  /\ registered = MinRatio /\ MinRatio \in Nat
         /\ positions \in Seq(Position) /\ positions[i] \in Position
         /\ positions[i].owner \in Users \cup {NoOne}
         /\ positions[i].collateralAmount \in Nat /\ positions[i].assetAmount \in Nat
         /\ positions[i] = [owner |-> positions[i].owner,
                            collateralAmount |-> positions[i].collateralAmount,
                            assetAmount |-> positions[i].assetAmount]
         /\ Keeps(positions[i])
         /\ eusd \in [Accounts -> Nat] /\ asset \in [Accounts -> Nat] /\ mispaid \in BOOLEAN
         /\ eusd[Vault] \in Nat
         /\ Total(asset) \in Int
<1>1. /\ eusd \in [Accounts -> Nat] /\ asset \in [Accounts -> Nat] /\ positions \in Seq(Position)
      /\ mispaid \in BOOLEAN /\ MinRatio \in Nat /\ IsFiniteSet(Accounts) /\ Vault \in Accounts
  BY TypeOKIsTyped, ConstantTypes DEF MintInv
<1>2. positions # << >>
  BY <1>1, EmptySeq
<1>3. registered = MinRatio
  BY <1>2 DEF MintInv, OpenedAtRatio
<1>4. positions[i] \in Position
  BY <1>1
<1>5. Total(asset) \in Int
  <2>1. asset \in [Accounts -> Int]
    BY <1>1
  <2> QED BY <1>1, <2>1, TotalType
<1>6. Keeps(positions[i])
  BY RatioKeptAlways DEF MintInv
<1> QED BY <1>1, <1>3, <1>4, <1>5, <1>6 DEF Position

LEMMA closePositionStep ==
  ASSUME MintInv, NEW u \in Users, NEW i \in DOMAIN positions, closePosition(u, i),
         given' = given
  PROVE  MintInv' /\ \A a \in Accounts \ Users : asset'[a] = asset[a]
<1> DEFINE c == positions[i].collateralAmount
           d == positions[i].assetAmount
<1>1. /\ asset[u] >= d /\ eusd[Vault] >= c
      /\ asset' = Destroy(asset, u, d) /\ eusd' = Move(eusd, Vault, u, c)
      /\ positions' = [positions EXCEPT ![i] = Deleted] /\ UNCHANGED <<registered, mispaid>>
  BY DEF closePosition
<1>2. c \in Nat /\ d \in Nat /\ eusd \in [Accounts -> Nat] /\ asset \in [Accounts -> Nat]
      /\ mispaid \in BOOLEAN /\ Total(asset) \in Int
  BY PositionFacts
<1>3. u \in Accounts /\ Vault \in Accounts /\ u # Vault /\ IsFiniteSet(Accounts)
  BY ConstantTypes
<1>4. Deleted \in Position /\ Deleted.collateralAmount = 0 /\ Deleted.assetAmount = 0
  BY DEF Deleted, Position
<1>5. Keeps(Deleted)
  BY <1>4 DEF Keeps
<1> HIDE DEF c, d
<1>6. /\ eusd' \in [Accounts -> Nat] /\ eusd'[Vault] = eusd[Vault] - c
      /\ asset' \in [Accounts -> Nat] /\ Total(asset') = Total(asset) - d
      /\ \A a \in Accounts \ {u} : asset'[a] = asset[a]
  <2>1. c <= eusd[Vault] /\ d <= asset[u]
    BY <1>1, <1>2, <1>3
  <2>2. /\ Move(eusd, Vault, u, c) \in [Accounts -> Nat]
        /\ Move(eusd, Vault, u, c)[Vault] = eusd[Vault] - c
    BY <1>2, <1>3, <2>1, MoveFacts
  <2>3. /\ Destroy(asset, u, d) \in [Accounts -> Nat]
        /\ \A z \in Accounts \ {u} : Destroy(asset, u, d)[z] = asset[z]
        /\ Total(Destroy(asset, u, d)) = Total(asset) - d
    BY <1>2, <1>3, <2>1, DestroyFacts
  <2> QED BY <1>1, <2>2, <2>3
<1>7. /\ Total(asset') = Total(asset) + Deleted.assetAmount - d
      /\ eusd'[Vault] = eusd[Vault] + Deleted.collateralAmount - c
  <2>1. eusd[Vault] \in Nat
    BY <1>2, <1>3
  <2> QED BY <1>1, <1>2, <1>4, <1>6, <2>1
<1>8. MintInv'
  BY <1>1, <1>2, <1>4, <1>5, <1>6, <1>7, PositionStep DEF c, d
<1> QED BY <1>6, <1>8

LEMMA FieldChanges ==
  ASSUME NEW p, NEW i, NEW v
  PROVE  /\ [p EXCEPT ![i].collateralAmount = v] = [p EXCEPT ![i] = [p[i] EXCEPT !.collateralAmount = v]]
         /\ [p EXCEPT ![i].assetAmount = v] = [p EXCEPT ![i] = [p[i] EXCEPT !.assetAmount = v]]
  OBVIOUS

LEMMA RecordChanges ==
  ASSUME NEW o, NEW c, NEW d, NEW v, NEW p,
         p = [owner |-> o, collateralAmount |-> c, assetAmount |-> d]
  PROVE  /\ [p EXCEPT !.collateralAmount = v] = [owner |-> o, collateralAmount |-> v, assetAmount |-> d]
         /\ [p EXCEPT !.assetAmount = v] = [owner |-> o, collateralAmount |-> c, assetAmount |-> v]
  OBVIOUS

LEMMA depositStep ==
  ASSUME MintInv, NEW u \in Users, NEW i \in DOMAIN positions, NEW amount \in Amounts,
         deposit(u, i, amount), given' = given
  PROVE  MintInv' /\ asset' = asset
<1> DEFINE c == positions[i].collateralAmount
           d == positions[i].assetAmount
           r == [owner |-> positions[i].owner, collateralAmount |-> c + amount, assetAmount |-> d]
<1>1. /\ eusd[u] >= amount /\ eusd' = Move(eusd, u, Vault, amount)
      /\ positions' = [positions EXCEPT ![i].collateralAmount = c + amount]
      /\ UNCHANGED <<asset, registered, mispaid>>
  BY DEF deposit
<1>2. /\ c \in Nat /\ d \in Nat /\ eusd \in [Accounts -> Nat] /\ asset \in [Accounts -> Nat]
      /\ mispaid \in BOOLEAN /\ Total(asset) \in Int /\ eusd[Vault] \in Nat /\ MinRatio \in Nat
      /\ positions[i].owner \in Users \cup {NoOne} /\ positions \in Seq(Position)
      /\ positions[i] = [owner |-> positions[i].owner, collateralAmount |-> c, assetAmount |-> d]
  BY PositionFacts
<1>3. u \in Accounts /\ Vault \in Accounts /\ u # Vault /\ IsFiniteSet(Accounts) /\ amount \in Nat
  BY ConstantTypes
<1>4. r \in Position /\ r.collateralAmount = c + amount /\ r.assetAmount = d
  BY <1>2, <1>3 DEF Position
<1>5. Keeps(r)
  <2>1. Keeps(positions[i])
    BY PositionFacts
  <2>2. MinRatio * d \in Nat
    BY <1>2
  <2> QED BY <1>2, <1>3, <1>4, <2>1, <2>2 DEF Keeps
<1>6. positions' = [positions EXCEPT ![i] = r]
  <2> DEFINE v == c + amount
             p == positions[i]
  <2>1. positions' = [positions EXCEPT ![i].collateralAmount = v]
    BY <1>1
  <2>2. p = [owner |-> p.owner, collateralAmount |-> c, assetAmount |-> d]
    BY <1>2
  <2> HIDE DEF c, d, v
  <2>3. positions' = [positions EXCEPT ![i] = [positions[i] EXCEPT !.collateralAmount = v]]
    BY <2>1, FieldChanges
  <2>4. r = [owner |-> p.owner, collateralAmount |-> v, assetAmount |-> d]
    BY DEF v
  <2> HIDE DEF p, r
  <2>5. [p EXCEPT !.collateralAmount = v] = [owner |-> p.owner, collateralAmount |-> v, assetAmount |-> d]
    BY <2>2, RecordChanges
  <2>6. [p EXCEPT !.collateralAmount = v] = r
    BY <2>4, <2>5
  <2> QED BY <2>3, <2>6 DEF p
<1> HIDE DEF c, d, r
<1>7. eusd' \in [Accounts -> Nat] /\ eusd'[Vault] = eusd[Vault] + amount
  <2>1. amount <= eusd[u]
    BY <1>1, <1>2, <1>3
  <2>2. /\ Move(eusd, u, Vault, amount) \in [Accounts -> Nat]
        /\ Move(eusd, u, Vault, amount)[Vault] = eusd[Vault] + amount
    BY <1>2, <1>3, <2>1, MoveFacts
  <2> QED BY <1>1, <2>2
<1>8. /\ Total(asset') = Total(asset) + r.assetAmount - d
      /\ eusd'[Vault] = eusd[Vault] + r.collateralAmount - c
  BY <1>1, <1>2, <1>3, <1>4, <1>7
<1>9. MintInv'
  BY <1>1, <1>2, <1>4, <1>5, <1>6, <1>7, <1>8, PositionStep DEF c, d
<1> QED BY <1>1, <1>9

LEMMA withdrawStep ==
  ASSUME MintInv, NEW u \in Users, NEW i \in DOMAIN positions, NEW amount \in Amounts,
         withdraw(u, i, amount), given' = given
  PROVE  MintInv' /\ asset' = asset
<1> DEFINE c == positions[i].collateralAmount
           d == positions[i].assetAmount
           left == c - amount
           r == [owner |-> positions[i].owner, collateralAmount |-> left, assetAmount |-> d]
<1>1. /\ left >= 0 /\ RatioHolds(left, d)
      /\ eusd[Vault] >= left /\ eusd' = Move(eusd, Vault, u, left)
      /\ positions' = [positions EXCEPT ![i].collateralAmount = left]
      /\ UNCHANGED <<asset, registered>>
  BY DEF withdraw
<1>11. mispaid' = (mispaid \/ left # amount)
  BY DEF withdraw
<1>2. /\ c \in Nat /\ d \in Nat /\ eusd \in [Accounts -> Nat] /\ asset \in [Accounts -> Nat]
      /\ mispaid \in BOOLEAN /\ Total(asset) \in Int /\ eusd[Vault] \in Nat /\ registered = MinRatio
      /\ positions[i].owner \in Users \cup {NoOne} /\ positions \in Seq(Position)
      /\ positions[i] = [owner |-> positions[i].owner, collateralAmount |-> c, assetAmount |-> d]
  BY PositionFacts
<1>3. u \in Accounts /\ Vault \in Accounts /\ u # Vault /\ IsFiniteSet(Accounts) /\ amount \in Nat
  BY ConstantTypes
<1>4. left \in Nat /\ c = left + amount
  BY <1>1, <1>2, <1>3
<1>5. r \in Position /\ r.collateralAmount = left /\ r.assetAmount = d
  BY <1>2, <1>4 DEF Position
<1>6. positions' = [positions EXCEPT ![i] = r]
  <2> DEFINE v == left
             p == positions[i]
  <2>1. positions' = [positions EXCEPT ![i].collateralAmount = v]
    BY <1>1
  <2>2. p = [owner |-> p.owner, collateralAmount |-> c, assetAmount |-> d]
    BY <1>2
  <2> HIDE DEF c, d, left, v
  <2>3. positions' = [positions EXCEPT ![i] = [positions[i] EXCEPT !.collateralAmount = v]]
    BY <2>1, FieldChanges
  <2>4. r = [owner |-> p.owner, collateralAmount |-> v, assetAmount |-> d]
    BY DEF v
  <2> HIDE DEF p, r
  <2>5. [p EXCEPT !.collateralAmount = v] = [owner |-> p.owner, collateralAmount |-> v, assetAmount |-> d]
    BY <2>2, RecordChanges
  <2>6. [p EXCEPT !.collateralAmount = v] = r
    BY <2>4, <2>5
  <2> QED BY <2>3, <2>6 DEF p
<1> HIDE DEF c, d, r, left
<1>7. Keeps(r)
  BY <1>1, <1>2, <1>5, RatioHoldsKeeps
<1>8. eusd' \in [Accounts -> Nat] /\ eusd'[Vault] = eusd[Vault] - left
  <2>1. left <= eusd[Vault]
    BY <1>1, <1>2, <1>4
  <2>2. /\ Move(eusd, Vault, u, left) \in [Accounts -> Nat]
        /\ Move(eusd, Vault, u, left)[Vault] = eusd[Vault] - left
    <3>1. /\ IsFiniteSet(Accounts) /\ eusd \in [Accounts -> Nat] /\ Vault \in Accounts
          /\ u \in Accounts /\ Vault # u /\ left \in Nat /\ left <= eusd[Vault]
      BY <1>2, <1>3, <1>4, <2>1
    <3> QED BY <3>1, MoveFacts
  <2> QED BY <1>1, <2>2
<1>9. /\ mispaid' \in BOOLEAN
      /\ Total(asset') = Total(asset) + r.assetAmount - d
      /\ ~ mispaid' => ~ mispaid /\ eusd'[Vault] = eusd[Vault] + r.collateralAmount - c
  <2>1. mispaid' \in BOOLEAN /\ (~ mispaid' => ~ mispaid /\ left = amount)
    BY <1>2, <1>11
  <2>2. Total(asset') = Total(asset) + r.assetAmount - d
    BY <1>1, <1>2, <1>5
  <2>3. left = amount => eusd'[Vault] = eusd[Vault] + left - c
    BY <1>2, <1>3, <1>4, <1>8
  <2> QED BY <1>5, <2>1, <2>2, <2>3
<1>10. MintInv'
  BY <1>1, <1>2, <1>5, <1>6, <1>7, <1>8, <1>9, PositionStep DEF c, d
<1> QED BY <1>1, <1>10

LEMMA mintStep ==
  ASSUME MintInv, NEW u \in Users, NEW i \in DOMAIN positions, NEW amount \in Amounts,
         mint(u, i, amount), given' = given
  PROVE  MintInv' /\ \A a \in Accounts \ Users : asset'[a] = asset[a]
<1> DEFINE c == positions[i].collateralAmount
           d == positions[i].assetAmount
           r == [owner |-> positions[i].owner, collateralAmount |-> c, assetAmount |-> d + amount]
<1>1. /\ RatioHolds(c, d + amount) /\ asset' = Create(asset, u, amount)
      /\ positions' = [positions EXCEPT ![i].assetAmount = d + amount]
      /\ UNCHANGED <<eusd, registered, mispaid>>
  BY DEF mint
<1>2. /\ c \in Nat /\ d \in Nat /\ eusd \in [Accounts -> Nat] /\ asset \in [Accounts -> Nat]
      /\ mispaid \in BOOLEAN /\ Total(asset) \in Int /\ eusd[Vault] \in Nat /\ registered = MinRatio
      /\ positions[i].owner \in Users \cup {NoOne} /\ positions \in Seq(Position)
      /\ positions[i] = [owner |-> positions[i].owner, collateralAmount |-> c, assetAmount |-> d]
  BY PositionFacts
<1>3. u \in Accounts /\ IsFiniteSet(Accounts) /\ amount \in Nat
  BY ConstantTypes
<1>4. r \in Position /\ r.collateralAmount = c /\ r.assetAmount = d + amount
  BY <1>2, <1>3 DEF Position
<1>5. positions' = [positions EXCEPT ![i] = r]
  <2> DEFINE v == d + amount
             p == positions[i]
  <2>1. positions' = [positions EXCEPT ![i].assetAmount = v]
    BY <1>1
  <2>2. p = [owner |-> p.owner, collateralAmount |-> c, assetAmount |-> d]
    BY <1>2
  <2> HIDE DEF c, d, v
  <2>3. positions' = [positions EXCEPT ![i] = [positions[i] EXCEPT !.assetAmount = v]]
    BY <2>1, FieldChanges
  <2>4. r = [owner |-> p.owner, collateralAmount |-> c, assetAmount |-> v]
    BY DEF v
  <2> HIDE DEF p, r
  <2>5. [p EXCEPT !.assetAmount = v] = [owner |-> p.owner, collateralAmount |-> c, assetAmount |-> v]
    BY <2>2, RecordChanges
  <2>6. [p EXCEPT !.assetAmount = v] = r
    BY <2>4, <2>5
  <2> QED BY <2>3, <2>6 DEF p
<1> HIDE DEF c, d, r
<1>6. Keeps(r)
  BY <1>1, <1>2, <1>4, RatioHoldsKeeps
<1>7. /\ asset' \in [Accounts -> Nat] /\ Total(asset') = Total(asset) + amount
      /\ \A a \in Accounts \ {u} : asset'[a] = asset[a]
  <2>1. asset \in [Accounts -> Nat] /\ u \in Accounts /\ amount \in Nat /\ IsFiniteSet(Accounts)
    BY <1>2, <1>3
  <2>2. /\ Create(asset, u, amount) \in [Accounts -> Nat]
        /\ \A z \in Accounts \ {u} : Create(asset, u, amount)[z] = asset[z]
        /\ Total(Create(asset, u, amount)) = Total(asset) + amount
    BY <2>1, CreateFacts
  <2> QED BY <1>1, <2>2
<1>8. /\ Total(asset') = Total(asset) + r.assetAmount - d
      /\ eusd'[Vault] = eusd[Vault] + r.collateralAmount - c
  BY <1>1, <1>2, <1>3, <1>4, <1>7
<1>9. MintInv'
  BY <1>1, <1>2, <1>4, <1>5, <1>6, <1>7, <1>8, PositionStep DEF c, d
<1> QED BY <1>7, <1>9

LEMMA burnStep ==
  ASSUME MintInv, NEW u \in Users, NEW i \in DOMAIN positions, NEW amount \in Amounts,
         burn(u, i, amount), given' = given
  PROVE  MintInv' /\ \A a \in Accounts \ Users : asset'[a] = asset[a]
<1> DEFINE c == positions[i].collateralAmount
           d == positions[i].assetAmount
           left == d - amount
           r == [owner |-> positions[i].owner, collateralAmount |-> c, assetAmount |-> left]
<1>1. /\ d >= amount /\ asset[u] >= amount /\ asset' = Destroy(asset, u, amount)
      /\ positions' = [positions EXCEPT ![i].assetAmount = left]
      /\ UNCHANGED <<eusd, registered, mispaid>>
  BY DEF burn
<1>2. /\ c \in Nat /\ d \in Nat /\ eusd \in [Accounts -> Nat] /\ asset \in [Accounts -> Nat]
      /\ mispaid \in BOOLEAN /\ Total(asset) \in Int /\ eusd[Vault] \in Nat /\ MinRatio \in Nat
      /\ positions[i].owner \in Users \cup {NoOne} /\ positions \in Seq(Position)
      /\ positions[i] = [owner |-> positions[i].owner, collateralAmount |-> c, assetAmount |-> d]
  BY PositionFacts
<1>3. u \in Accounts /\ IsFiniteSet(Accounts) /\ amount \in Nat
  BY ConstantTypes
<1>4. left \in Nat /\ d = left + amount
  BY <1>1, <1>2, <1>3
<1>5. r \in Position /\ r.collateralAmount = c /\ r.assetAmount = left
  BY <1>2, <1>4 DEF Position
<1>6. positions' = [positions EXCEPT ![i] = r]
  <2> DEFINE v == left
             p == positions[i]
  <2>1. positions' = [positions EXCEPT ![i].assetAmount = v]
    BY <1>1
  <2>2. p = [owner |-> p.owner, collateralAmount |-> c, assetAmount |-> d]
    BY <1>2
  <2> HIDE DEF c, d, left, v
  <2>3. positions' = [positions EXCEPT ![i] = [positions[i] EXCEPT !.assetAmount = v]]
    BY <2>1, FieldChanges
  <2>4. r = [owner |-> p.owner, collateralAmount |-> c, assetAmount |-> v]
    BY DEF v
  <2> HIDE DEF p, r
  <2>5. [p EXCEPT !.assetAmount = v] = [owner |-> p.owner, collateralAmount |-> c, assetAmount |-> v]
    BY <2>2, RecordChanges
  <2>6. [p EXCEPT !.assetAmount = v] = r
    BY <2>4, <2>5
  <2> QED BY <2>3, <2>6 DEF p
<1>7. Price >= Unit /\ d > 0 => c >= MinRatio * d
  BY PositionFacts DEF Keeps
<1> HIDE DEF c, d, r, left
<1>8. Keeps(r)
  <2>1. MinRatio * left <= MinRatio * d /\ MinRatio * left \in Nat /\ MinRatio * d \in Nat
    <3>1. left \in Nat /\ d \in Nat /\ left <= d /\ MinRatio \in Nat
      BY <1>2, <1>3, <1>4
    <3> QED BY <3>1, ProductMonotone
  <2>2. left > 0 => d > 0
    BY <1>3, <1>4
  <2> QED BY <1>2, <1>5, <1>7, <2>1, <2>2 DEF Keeps
<1>9. /\ asset' \in [Accounts -> Nat] /\ Total(asset') = Total(asset) - amount
      /\ \A a \in Accounts \ {u} : asset'[a] = asset[a]
  <2>1. /\ asset \in [Accounts -> Nat] /\ u \in Accounts /\ amount \in Nat /\ IsFiniteSet(Accounts)
        /\ amount <= asset[u]
    BY <1>1, <1>2, <1>3
  <2>2. /\ Destroy(asset, u, amount) \in [Accounts -> Nat]
        /\ \A z \in Accounts \ {u} : Destroy(asset, u, amount)[z] = asset[z]
        /\ Total(Destroy(asset, u, amount)) = Total(asset) - amount
    BY <2>1, DestroyFacts
  <2> QED BY <1>1, <2>2
<1>10. /\ Total(asset') = Total(asset) + r.assetAmount - d
       /\ eusd'[Vault] = eusd[Vault] + r.collateralAmount - c
  <2>1. Total(asset') = Total(asset) + left - d
    <3>1. Total(asset) \in Int /\ amount \in Nat /\ left \in Nat /\ d = left + amount
      BY <1>2, <1>3, <1>4
    <3> HIDE DEF Total
    <3> QED BY <1>9, <3>1
  <2>2. eusd'[Vault] = eusd[Vault] + c - c
    <3>1. eusd[Vault] \in Nat /\ c \in Nat
      BY <1>2
    <3> QED BY <1>1, <3>1
  <2> QED BY <1>5, <2>1, <2>2
<1>11. MintInv'
  BY <1>1, <1>2, <1>5, <1>6, <1>8, <1>9, <1>10, PositionStep DEF c, d
<1> QED BY <1>9, <1>11

\* A call of Mint leaves what nobody but a user holds alone: the pool's tokens.
LEMMA MintStep ==
  ASSUME MintInv, Next, given' = given
  PROVE  MintInv' /\ \A a \in Accounts \ Users : asset'[a] = asset[a]
  BY registerAssetStep, openPositionStep, closePositionStep, depositStep, withdrawStep,
     mintStep, burnStep DEF Next

-----------------------------------------------------------------------------
\* The calls of Swap.

\* A pool without reserves has no shares, so that init may overwrite them.
EmptyPool == reserve0 = 0 /\ reserve1 = 0 => totalShares = 0

PoolInv == /\ other \in [Accounts -> Nat]
           /\ Exchange!PoolTypeOK /\ ReservesHeld /\ Exchange!SharesAddUp /\ EmptyPool
           /\ given0 \in Nat /\ given1 \in Nat

\* What is said of every step.
Fair == Exchange!FirstShares /\ Exchange!NotDiluted /\ Exchange!ProductKept

LEMMA MarketTypes ==
  /\ IsFiniteSet(Accounts) /\ IsFiniteSet(Users) /\ Owner \in Users
  /\ Pool \in Accounts /\ Pool \notin Users /\ Pool # Vault
  /\ \A u \in Users : u \in Accounts /\ u # Pool
  /\ \A amount \in Amounts : amount \in Nat
  /\ Others \in Nat
  BY MintAssumption, MarketAssumption, FS_Subset

LEMMA Cancels ==
  ASSUME NEW c \in Nat \ {0}, NEW a \in Int, NEW b \in Int, c * a <= c * b
  PROVE  a <= b
<1>1. SUFFICES ASSUME b + 1 <= a PROVE FALSE
  OBVIOUS
<1>2. c * (b + 1) <= c * a
  BY <1>1, ProductMonotone
<1>3. c * (b + 1) = c * b + c
  OBVIOUS
<1>4. c * a \in Int /\ c * b \in Int
  OBVIOUS
<1> QED BY <1>2, <1>3, <1>4

LEMMA ProportionFacts ==
  ASSUME NEW total \in Nat, NEW part \in Nat, NEW whole \in Nat \ {0}
  PROVE  /\ Exchange!Proportion(total, part, whole) \in Nat
         /\ whole * Exchange!Proportion(total, part, whole) <= total * part
         /\ total * part < whole * Exchange!Proportion(total, part, whole) + whole
<1> DEFINE p == total * part
<1>1. p \in Nat
  BY ProductType
<1>2. Exchange!Proportion(total, part, whole) = p \div whole
  BY DEF Exchange!Proportion
<1> HIDE DEF p
<1>3. p \div whole \in Nat /\ whole * (p \div whole) <= p /\ p < whole * (p \div whole) + whole
  BY <1>1, DivFacts
<1> QED BY <1>2, <1>3 DEF p

\* What a trade leaves of the reserve it takes from: the product divided by the other
\* reserve and the amount less the fee.
LEMMA ReturnFacts ==
  ASSUME NEW from \in Nat, NEW to \in Nat, NEW amount \in Nat,
         from + Exchange!Exchanged(amount) > 0
  PROVE  \E left \in Nat :
            /\ left <= to /\ Exchange!Return(from, to, amount) = to - left
            /\ (from + amount) * left + (from + amount) >= from * to
<1> DEFINE e == Exchange!Exchanged(amount)
           d == from + e
           p == from * to
           left == p \div d
<1>1. e \in Nat /\ e <= amount
  BY DEF Exchange!Exchanged
<1>2. Exchange!Return(from, to, amount) = to - left
  BY DEF Exchange!Return
<1> HIDE DEF e
<1>3. d \in Nat \ {0} /\ p \in Nat /\ from <= d /\ d <= from + amount
  BY <1>1 DEF e
<1>4. p <= d * to
  BY <1>3, ProductMonotone
<1> HIDE DEF d, p
<1>5. left \in Nat /\ d * left <= p /\ p < d * left + d
  BY <1>3, DivFacts
<1> HIDE DEF left
<1>6. left <= to
  <2>1. d * left \in Int /\ d * to \in Int
    BY <1>3, <1>5
  <2>2. d * left <= d * to
    BY <1>3, <1>4, <1>5, <2>1
  <2> QED BY <1>3, <1>5, <2>2, Cancels
<1>7. (from + amount) * left + (from + amount) >= p
  <2> DEFINE f == from + amount
  <2>1. f \in Nat /\ d <= f
    BY <1>3
  <2> HIDE DEF f
  <2>2. d * left <= f * left
    BY <1>3, <1>5, <2>1, ProductMonotone
  <2>3. d * left \in Nat /\ f * left \in Nat
    BY <1>3, <1>5, <2>1
  <2>4. f * left + f >= p
    BY <1>3, <1>5, <2>1, <2>2, <2>3
  <2> QED BY <2>4 DEF f
<1> QED BY <1>2, <1>5, <1>6, <1>7 DEF p

LEMMA SameTotal ==
  ASSUME NEW f
  PROVE  Exchange!Total(f) = Total(f)
<1>1. Exchange!Total(f) = LET g == CHOOSE g : IsSum(f, g) IN g[DOMAIN f]
  BY DEF Exchange!Total, Exchange!FoldFunction, Exchange!FoldFunctionOnSet,
         Exchange!MapThenFoldSet, IsSum
<1> QED BY <1>1, TotalUnfolds

\* What the calls of the pool start from.
LEMMA PoolFacts ==
  ASSUME PoolInv, asset \in [Accounts -> Nat]
  PROVE  /\ other \in [Accounts -> Nat]
         /\ reserve0 \in Nat /\ reserve1 \in Nat /\ totalShares \in Nat /\ shares \in [Users -> Nat]
         /\ asset[Pool] = reserve0 + given0 /\ other[Pool] = reserve1 + given1
         /\ Total(shares) = totalShares
         /\ EmptyPool
         /\ given0 \in Nat /\ given1 \in Nat
  BY SameTotal DEF PoolInv, Exchange!PoolTypeOK, ReservesHeld, Exchange!SharesAddUp

LEMMA PoolSettles ==
  ASSUME other' \in [Accounts -> Nat], reserve0' \in Nat, reserve1' \in Nat,
         totalShares' \in Nat, shares' \in [Users -> Nat],
         given0' \in Nat, given1' \in Nat,
         asset'[Pool] = reserve0' + given0', other'[Pool] = reserve1' + given1',
         Total(shares') = totalShares',
         reserve0' = 0 /\ reserve1' = 0 => totalShares' = 0
  PROVE  PoolInv'
  BY SameTotal DEF PoolInv, Exchange!PoolTypeOK, ReservesHeld, Exchange!SharesAddUp, EmptyPool

LEMMA token0To1Step ==
  ASSUME PoolInv, asset \in [Accounts -> Nat], NEW u \in Users, NEW amount \in Amounts,
         Exchange!token0To1(u, amount), UNCHANGED gifts
  PROVE  /\ PoolInv' /\ asset' \in [Accounts -> Nat] /\ Total(asset') = Total(asset)
         /\ Fair
<1> DEFINE back == Exchange!Return(reserve0, reserve1, amount)
<1>1. /\ reserve0 + Exchange!Exchanged(amount) > 0 /\ asset[u] >= amount /\ other[Pool] >= back
      /\ asset' = Move(asset, u, Pool, amount) /\ other' = Move(other, Pool, u, back)
      /\ reserve0' = reserve0 + amount /\ reserve1' = reserve1 - back
      /\ shares' = shares /\ totalShares' = totalShares
  BY DEF Exchange!token0To1, Exchange!Move, Move
<1>2. /\ other \in [Accounts -> Nat]
      /\ reserve0 \in Nat /\ reserve1 \in Nat /\ totalShares \in Nat /\ shares \in [Users -> Nat]
      /\ asset[Pool] = reserve0 + given0 /\ other[Pool] = reserve1 + given1
      /\ Total(shares) = totalShares /\ EmptyPool
      /\ given0 \in Nat /\ given1 \in Nat /\ given0' = given0 /\ given1' = given1
  BY PoolFacts DEF gifts
<1>3. /\ u \in Accounts /\ Pool \in Accounts /\ u # Pool /\ IsFiniteSet(Accounts) /\ amount \in Nat
  BY MarketTypes
<1>4. PICK left \in Nat :
         /\ left <= reserve1 /\ back = reserve1 - left
         /\ (reserve0 + amount) * left + (reserve0 + amount) >= reserve0 * reserve1
  BY <1>1, <1>2, <1>3, ReturnFacts
<1> HIDE DEF back
<1>5. back \in Nat /\ reserve1' = left /\ reserve0' \in Nat
  BY <1>1, <1>2, <1>3, <1>4
<1>6. /\ asset' \in [Accounts -> Nat] /\ asset'[Pool] = reserve0' + given0' /\ Total(asset') = Total(asset)
  <2>1. amount <= asset[u]
    BY <1>1, <1>2, <1>3
  <2>2. /\ Move(asset, u, Pool, amount) \in [Accounts -> Nat]
        /\ Move(asset, u, Pool, amount)[Pool] = asset[Pool] + amount
        /\ Total(Move(asset, u, Pool, amount)) = Total(asset)
    BY <1>2, <1>3, <2>1, MoveFacts
  <2> QED BY <1>1, <1>2, <1>3, <1>4, <1>5, <2>2
<1>7. /\ other' \in [Accounts -> Nat] /\ other'[Pool] = reserve1' + given1' /\ Total(other') = Total(other)
  <2>1. back <= other[Pool]
    BY <1>1, <1>2, <1>3, <1>5
  <2>2. /\ Move(other, Pool, u, back) \in [Accounts -> Nat]
        /\ Move(other, Pool, u, back)[Pool] = other[Pool] - back
        /\ Total(Move(other, Pool, u, back)) = Total(other)
    BY <1>2, <1>3, <1>5, <2>1, MoveFacts
  <2> QED BY <1>1, <1>2, <1>3, <1>4, <1>5, <2>2
\* Some token comes in or was there, for Exchanged(0) is 0.
<1>8. ~ (reserve0' = 0)
  <2>1. SUFFICES ASSUME reserve0 = 0, amount = 0 PROVE FALSE
    BY <1>1, <1>2, <1>3
  <2>2. Exchange!Exchanged(0) = 0
    BY DEF Exchange!Exchanged
  <2> QED BY <1>1, <2>1, <2>2
<1>9. PoolInv'
  BY <1>1, <1>2, <1>4, <1>5, <1>6, <1>7, <1>8, PoolSettles
<1>10. Exchange!FirstShares /\ Exchange!NotDiluted
  BY <1>1, <1>2 DEF Exchange!FirstShares, Exchange!NotDiluted
<1>11. Exchange!ProductKept
  <2>1. reserve0' * reserve1' + reserve0' >= reserve0 * reserve1
    BY <1>1, <1>4, <1>5
  <2>2. reserve0 * reserve1 = reserve0 * reserve1 /\ reserve0' * reserve1' = reserve0' * reserve1'
    BY <1>2, <1>4, <1>5
  <2>3. reserve0' * reserve1' + reserve0' >= reserve0 * reserve1
    BY <2>1, <2>2
  <2> QED BY <2>3 DEF Exchange!ProductKept
<1> QED BY <1>6, <1>7, <1>9, <1>10, <1>11 DEF Fair

LEMMA token1To0Step ==
  ASSUME PoolInv, asset \in [Accounts -> Nat], NEW u \in Users, NEW amount \in Amounts,
         Exchange!token1To0(u, amount), UNCHANGED gifts
  PROVE  /\ PoolInv' /\ asset' \in [Accounts -> Nat] /\ Total(asset') = Total(asset)
         /\ Fair
<1> DEFINE back == Exchange!Return(reserve1, reserve0, amount)
<1>1. /\ reserve1 + Exchange!Exchanged(amount) > 0 /\ other[u] >= amount /\ asset[Pool] >= back
      /\ other' = Move(other, u, Pool, amount) /\ asset' = Move(asset, Pool, u, back)
      /\ reserve1' = reserve1 + amount /\ reserve0' = reserve0 - back
      /\ shares' = shares /\ totalShares' = totalShares
  BY DEF Exchange!token1To0, Exchange!Move, Move
<1>2. /\ other \in [Accounts -> Nat]
      /\ reserve0 \in Nat /\ reserve1 \in Nat /\ totalShares \in Nat /\ shares \in [Users -> Nat]
      /\ asset[Pool] = reserve0 + given0 /\ other[Pool] = reserve1 + given1
      /\ Total(shares) = totalShares /\ EmptyPool
      /\ given0 \in Nat /\ given1 \in Nat /\ given0' = given0 /\ given1' = given1
  BY PoolFacts DEF gifts
<1>3. /\ u \in Accounts /\ Pool \in Accounts /\ u # Pool /\ IsFiniteSet(Accounts) /\ amount \in Nat
  BY MarketTypes
<1>4. PICK left \in Nat :
         /\ left <= reserve0 /\ back = reserve0 - left
         /\ (reserve1 + amount) * left + (reserve1 + amount) >= reserve1 * reserve0
  BY <1>1, <1>2, <1>3, ReturnFacts
<1> HIDE DEF back
<1>5. back \in Nat /\ reserve0' = left /\ reserve1' \in Nat
  BY <1>1, <1>2, <1>3, <1>4
<1>6. /\ other' \in [Accounts -> Nat] /\ other'[Pool] = reserve1' + given1' /\ Total(other') = Total(other)
  <2>1. amount <= other[u]
    BY <1>1, <1>2, <1>3
  <2>2. /\ Move(other, u, Pool, amount) \in [Accounts -> Nat]
        /\ Move(other, u, Pool, amount)[Pool] = other[Pool] + amount
        /\ Total(Move(other, u, Pool, amount)) = Total(other)
    BY <1>2, <1>3, <2>1, MoveFacts
  <2> QED BY <1>1, <1>2, <1>3, <1>4, <1>5, <2>2
<1>7. /\ asset' \in [Accounts -> Nat] /\ asset'[Pool] = reserve0' + given0' /\ Total(asset') = Total(asset)
  <2>1. back <= asset[Pool]
    BY <1>1, <1>2, <1>3, <1>5
  <2>2. /\ Move(asset, Pool, u, back) \in [Accounts -> Nat]
        /\ Move(asset, Pool, u, back)[Pool] = asset[Pool] - back
        /\ Total(Move(asset, Pool, u, back)) = Total(asset)
    BY <1>2, <1>3, <1>5, <2>1, MoveFacts
  <2> QED BY <1>1, <1>2, <1>3, <1>4, <1>5, <2>2
\* Some token comes in or was there, for Exchanged(0) is 0.
<1>8. ~ (reserve1' = 0)
  <2>1. SUFFICES ASSUME reserve1 = 0, amount = 0 PROVE FALSE
    BY <1>1, <1>2, <1>3
  <2>2. Exchange!Exchanged(0) = 0
    BY DEF Exchange!Exchanged
  <2> QED BY <1>1, <2>1, <2>2
<1>9. PoolInv'
  BY <1>1, <1>2, <1>4, <1>5, <1>6, <1>7, <1>8, PoolSettles
<1>10. Exchange!FirstShares /\ Exchange!NotDiluted
  BY <1>1, <1>2 DEF Exchange!FirstShares, Exchange!NotDiluted
<1>11. Exchange!ProductKept
  <2>1. reserve1' * reserve0' + reserve1' >= reserve1 * reserve0
    BY <1>1, <1>4, <1>5
  <2>2. reserve1 * reserve0 = reserve0 * reserve1 /\ reserve1' * reserve0' = reserve0' * reserve1'
    BY <1>2, <1>4, <1>5
  <2>3. reserve0' * reserve1' + reserve1' >= reserve0 * reserve1
    BY <2>1, <2>2
  <2> QED BY <2>3 DEF Exchange!ProductKept
<1> QED BY <1>6, <1>7, <1>9, <1>10, <1>11 DEF Fair

LEMMA initStep ==
  ASSUME PoolInv, asset \in [Accounts -> Nat], NEW amount0 \in Amounts, NEW amount1 \in Amounts,
         Exchange!init(amount0, amount1), UNCHANGED gifts
  PROVE  /\ PoolInv' /\ asset' \in [Accounts -> Nat] /\ Total(asset') = Total(asset)
         /\ Fair
<1> DEFINE y == amount0 * amount1
           root == Exchange!sqrt(y)
<1>1. /\ reserve0 = 0 /\ reserve1 = 0 /\ amount0 > 0 /\ amount1 > 0
      /\ asset[Owner] >= amount0 /\ other[Owner] >= amount1
      /\ asset' = Move(asset, Owner, Pool, amount0) /\ other' = Move(other, Owner, Pool, amount1)
      /\ reserve0' = amount0 /\ reserve1' = amount1
      /\ totalShares' = root /\ shares' = [shares EXCEPT ![Owner] = root]
  BY DEF Exchange!init, Exchange!Move, Move
<1>2. /\ other \in [Accounts -> Nat]
      /\ totalShares \in Nat /\ shares \in [Users -> Nat]
      /\ asset[Pool] = reserve0 + given0 /\ other[Pool] = reserve1 + given1
      /\ Total(shares) = totalShares /\ totalShares = 0
      /\ given0 \in Nat /\ given1 \in Nat /\ given0' = given0 /\ given1' = given1
  BY <1>1, PoolFacts DEF EmptyPool, gifts
<1>3. /\ Owner \in Users /\ Owner \in Accounts /\ Pool \in Accounts /\ Owner # Pool
      /\ IsFiniteSet(Accounts) /\ IsFiniteSet(Users) /\ amount0 \in Nat /\ amount1 \in Nat
  BY MarketTypes
<1>4. y \in Nat
  BY <1>3, ProductType
<1>5. y = reserve0' * reserve1'
  BY <1>1
<1> HIDE DEF y
<1>6. root \in Nat /\ root * root <= y /\ y < (root + 1) * (root + 1)
  BY <1>4, sqrtIsRoot DEF IsRoot
<1> HIDE DEF root
<1>7. /\ asset' \in [Accounts -> Nat] /\ asset'[Pool] = reserve0' + given0' /\ Total(asset') = Total(asset)
  <2>1. amount0 <= asset[Owner]
    BY <1>1, <1>2, <1>3
  <2>2. /\ Move(asset, Owner, Pool, amount0) \in [Accounts -> Nat]
        /\ Move(asset, Owner, Pool, amount0)[Pool] = asset[Pool] + amount0
        /\ Total(Move(asset, Owner, Pool, amount0)) = Total(asset)
    BY <1>2, <1>3, <2>1, MoveFacts
  <2> QED BY <1>1, <1>2, <1>3, <2>2
<1>8. /\ other' \in [Accounts -> Nat] /\ other'[Pool] = reserve1' + given1'
  <2>1. amount1 <= other[Owner]
    BY <1>1, <1>2, <1>3
  <2>2. /\ Move(other, Owner, Pool, amount1) \in [Accounts -> Nat]
        /\ Move(other, Owner, Pool, amount1)[Pool] = other[Pool] + amount1
    BY <1>2, <1>3, <2>1, MoveFacts
  <2> QED BY <1>1, <1>2, <1>3, <2>2
\* The shares overwritten are none.
<1>9. shares' \in [Users -> Nat] /\ Total(shares') = totalShares'
  <2>1. shares[Owner] \in Nat /\ shares[Owner] <= Total(shares)
    BY <1>2, <1>3, TotalBounds
  <2>2. shares[Owner] = 0
    BY <1>2, <2>1
  <2>3. /\ shares \in [Users -> Int] /\ shares' \in [Users -> Int] /\ shares'[Owner] = root
        /\ \A v \in Users \ {Owner} : shares'[v] = shares[v]
    BY <1>1, <1>2, <1>3, <1>6
  <2>4. Total(shares') = Total(shares) - shares[Owner] + shares'[Owner]
    BY <1>3, <2>3, TotalChanges
  <2>5. shares' \in [Users -> Nat]
    BY <1>1, <1>2, <1>3, <1>6
  <2> QED BY <1>1, <1>2, <1>6, <2>2, <2>3, <2>4, <2>5
<1>10. PoolInv'
  <2>1. reserve0' \in Nat /\ reserve1' \in Nat /\ totalShares' \in Nat /\ reserve0' # 0
    BY <1>1, <1>3, <1>6
  <2> QED BY <1>2, <1>7, <1>8, <1>9, <2>1, PoolSettles
<1>11. Exchange!FirstShares
  BY <1>1, <1>5, <1>6 DEF Exchange!FirstShares
<1>12. Exchange!NotDiluted
  <2>1. /\ reserve0' * totalShares = 0 /\ reserve0 * totalShares' = 0
        /\ (reserve1' + 1) * totalShares = 0 /\ reserve1 * totalShares' = 0
    BY <1>1, <1>2, <1>3, <1>6
  <2> QED BY <2>1 DEF Exchange!NotDiluted
<1>13. Exchange!ProductKept
  <2>1. reserve0 * reserve1 = 0
    BY <1>1
  <2>2. reserve0' * reserve1' + reserve0' >= 0
    BY <1>1, <1>3, <1>4, <1>5
  <2> QED BY <2>1, <2>2 DEF Exchange!ProductKept
<1> QED BY <1>7, <1>10, <1>11, <1>12, <1>13 DEF Fair

LEMMA addLiquidityStep ==
  ASSUME PoolInv, asset \in [Accounts -> Nat], NEW u \in Users, NEW amount \in Amounts,
         Exchange!addLiquidity(u, amount), UNCHANGED gifts
  PROVE  /\ PoolInv' /\ asset' \in [Accounts -> Nat] /\ Total(asset') = Total(asset)
         /\ Fair
<1> DEFINE new == Exchange!Proportion(totalShares, amount, reserve0)
<1>1. /\ reserve0 > 0 /\ amount = Exchange!Proportion(reserve1, amount, reserve0)
      /\ asset[u] >= amount /\ other[u] >= amount
      /\ asset' = Move(asset, u, Pool, amount) /\ other' = Move(other, u, Pool, amount)
      /\ reserve0' = reserve0 + amount /\ reserve1' = reserve1 + amount
      /\ totalShares' = totalShares + new /\ shares' = [shares EXCEPT ![u] = @ + new]
  BY DEF Exchange!addLiquidity, Exchange!Move, Move
<1>2. /\ other \in [Accounts -> Nat]
      /\ reserve0 \in Nat /\ reserve1 \in Nat /\ totalShares \in Nat /\ shares \in [Users -> Nat]
      /\ asset[Pool] = reserve0 + given0 /\ other[Pool] = reserve1 + given1
      /\ Total(shares) = totalShares
      /\ given0 \in Nat /\ given1 \in Nat /\ given0' = given0 /\ given1' = given1
  BY PoolFacts DEF gifts
<1>3. /\ u \in Accounts /\ Pool \in Accounts /\ u # Pool
      /\ IsFiniteSet(Accounts) /\ IsFiniteSet(Users) /\ amount \in Nat
  BY MarketTypes
<1>4. new \in Nat /\ reserve0 * new <= totalShares * amount
  <2>1. totalShares \in Nat /\ amount \in Nat /\ reserve0 \in Nat \ {0}
    BY <1>1, <1>2, <1>3
  <2> QED BY <2>1, ProportionFacts
<1>5. reserve1 * amount < reserve0 * amount + reserve0
  <2> DEFINE q == Exchange!Proportion(reserve1, amount, reserve0)
  <2>1. reserve1 * amount < reserve0 * q + reserve0
    <3>1. reserve1 \in Nat /\ amount \in Nat /\ reserve0 \in Nat \ {0}
      BY <1>1, <1>2, <1>3
    <3> QED BY <3>1, ProportionFacts
  <2>2. q = amount
    BY <1>1
  <2> HIDE DEF q
  <2> QED BY <2>1, <2>2
<1> HIDE DEF new
<1>6. /\ asset' \in [Accounts -> Nat] /\ asset'[Pool] = reserve0' + given0' /\ Total(asset') = Total(asset)
  <2>1. amount <= asset[u]
    BY <1>1, <1>2, <1>3
  <2>2. /\ Move(asset, u, Pool, amount) \in [Accounts -> Nat]
        /\ Move(asset, u, Pool, amount)[Pool] = asset[Pool] + amount
        /\ Total(Move(asset, u, Pool, amount)) = Total(asset)
    BY <1>2, <1>3, <2>1, MoveFacts
  <2> QED BY <1>1, <1>2, <1>3, <2>2
<1>7. /\ other' \in [Accounts -> Nat] /\ other'[Pool] = reserve1' + given1'
  <2>1. amount <= other[u]
    BY <1>1, <1>2, <1>3
  <2>2. /\ Move(other, u, Pool, amount) \in [Accounts -> Nat]
        /\ Move(other, u, Pool, amount)[Pool] = other[Pool] + amount
    BY <1>2, <1>3, <2>1, MoveFacts
  <2> QED BY <1>1, <1>2, <1>3, <2>2
<1>8. shares' \in [Users -> Nat] /\ Total(shares') = totalShares'
  <2>1. /\ shares' \in [Users -> Nat] /\ shares'[u] = shares[u] + new /\ shares[u] \in Nat
        /\ \A v \in Users \ {u} : shares'[v] = shares[v]
    BY <1>1, <1>2, <1>4
  <2>2. shares \in [Users -> Int] /\ shares' \in [Users -> Int]
    BY <1>2, <2>1
  <2>3. Total(shares') = Total(shares) - shares[u] + shares'[u]
    BY <1>3, <2>1, <2>2, TotalChanges
  <2> QED BY <1>1, <1>2, <1>4, <2>1, <2>3
<1>9. PoolInv'
  <2>1. reserve0' \in Nat /\ reserve1' \in Nat /\ totalShares' \in Nat /\ reserve0' # 0
    BY <1>1, <1>2, <1>3, <1>4
  <2> QED BY <1>2, <1>6, <1>7, <1>8, <2>1, PoolSettles
<1> DEFINE r0 == reserve0
           r1 == reserve1
           t  == totalShares
           a  == amount
<1>10. /\ r0 \in Nat \ {0} /\ r1 \in Nat /\ t \in Nat /\ a \in Nat /\ new \in Nat
       /\ r0 * new <= t * a /\ r1 * a < r0 * a + r0
  BY <1>1, <1>2, <1>3, <1>4, <1>5
<1>11. reserve0' = r0 + a /\ reserve1' = r1 + a /\ totalShares' = t + new
  BY <1>1
<1>12. Exchange!FirstShares
  <2>1. SUFFICES ASSUME t = 0, new > 0 PROVE FALSE
    BY <1>10, <1>11 DEF Exchange!FirstShares
  <2> HIDE DEF r0, r1, t, a
  <2>2. t * a = 0
    BY <1>10, <2>1
  <2>3. r0 * 1 <= r0 * new
    BY <1>10, <2>1, ProductMonotone
  <2>4. r0 * new \in Nat /\ r0 * 1 = r0
    BY <1>10
  <2> QED BY <1>10, <2>2, <2>3, <2>4
<1>13. Exchange!NotDiluted
  <2> HIDE DEF r0, r1, t, a
  <2>1. (r0 + a) * t >= r0 * (t + new)
    <3>1. (r0 + a) * t = r0 * t + t * a /\ r0 * (t + new) = r0 * t + r0 * new
      BY <1>10
    <3>2. r0 * t \in Nat /\ t * a \in Nat /\ r0 * new \in Nat
      BY <1>10
    <3> QED BY <1>10, <3>1, <3>2
  <2>2. r1 * new <= t * (a + 1)
    <3>1. r1 * (r0 * new) <= r1 * (t * a)
      <4>1. r0 * new \in Nat /\ t * a \in Nat
        BY <1>10
      <4> QED BY <1>10, <4>1, ProductMonotone
    <3>2. t * (r1 * a) <= t * (r0 * a + r0)
      <4>1. r1 * a \in Nat /\ r0 * a + r0 \in Nat
        BY <1>10
      <4>2. r1 * a <= r0 * a + r0
        BY <1>10, <4>1
      <4> QED BY <1>10, <4>1, <4>2, ProductMonotone
    <3>3. /\ r1 * (t * a) = t * (r1 * a) /\ r1 * (r0 * new) = r0 * (r1 * new)
          /\ t * (r0 * a + r0) = r0 * (t * (a + 1))
      BY <1>10
    <3>4. r1 * new \in Nat /\ t * (a + 1) \in Nat
      BY <1>10
    <3>5. r0 * (r1 * new) \in Nat /\ t * (r1 * a) \in Nat /\ r0 * (t * (a + 1)) \in Nat
      BY <1>10
    <3>6. r0 * (r1 * new) <= r0 * (t * (a + 1))
      BY <3>1, <3>2, <3>3, <3>5
    <3> QED BY <1>10, <3>4, <3>6, Cancels
  <2>3. (r1 + a + 1) * t >= r1 * (t + new)
    <3>1. (r1 + a + 1) * t = r1 * t + t * (a + 1) /\ r1 * (t + new) = r1 * t + r1 * new
      BY <1>10
    <3>2. r1 * t \in Nat /\ t * (a + 1) \in Nat /\ r1 * new \in Nat
      BY <1>10
    <3> QED BY <2>2, <3>1, <3>2
  <2> QED BY <1>11, <2>1, <2>3 DEF Exchange!NotDiluted, r0, r1, t
<1>14. Exchange!ProductKept
  <2> HIDE DEF r0, r1, t, a
  <2>1. (r0 + a) * (r1 + a) = r0 * r1 + a * (r0 + r1 + a)
    BY <1>10
  <2>2. r0 * r1 \in Nat /\ a * (r0 + r1 + a) \in Nat /\ r0 + a \in Nat
    BY <1>10
  <2>3. reserve0' * reserve1' + reserve0' >= r0 * r1
    BY <1>11, <2>1, <2>2
  <2> QED BY <2>3 DEF Exchange!ProductKept, r0, r1
<1> QED BY <1>6, <1>9, <1>12, <1>13, <1>14 DEF Fair

\* The last share takes the last unit of a reserve, no earlier one does.
LEMMA LastShare ==
  ASSUME NEW r \in Nat \ {0}, NEW t \in Nat, NEW part \in Nat, part <= t,
         t * r <= r * part
  PROVE  part = t
<1>1. r * t = t * r
  OBVIOUS
<1>2. t <= part
  BY <1>1, Cancels
<1> QED BY <1>2

LEMMA removeLiquidityStep ==
  ASSUME PoolInv, asset \in [Accounts -> Nat], NEW u \in Users, NEW part \in Amounts,
         Exchange!removeLiquidity(u, part), UNCHANGED gifts
  PROVE  /\ PoolInv' /\ asset' \in [Accounts -> Nat] /\ Total(asset') = Total(asset)
         /\ Fair
<1> DEFINE amount0 == Exchange!Proportion(reserve0, part, totalShares)
           amount1 == Exchange!Proportion(reserve1, part, totalShares)
<1>1. /\ shares[u] >= part /\ totalShares >= part /\ totalShares > 0
      /\ amount0 <= reserve0 /\ amount1 <= reserve1
      /\ asset[Pool] >= amount0 /\ other[Pool] >= amount1
      /\ asset' = Move(asset, Pool, u, amount0) /\ other' = Move(other, Pool, u, amount1)
      /\ reserve0' = reserve0 - amount0 /\ reserve1' = reserve1 - amount1
      /\ totalShares' = totalShares - part /\ shares' = [shares EXCEPT ![u] = @ - part]
  BY DEF Exchange!removeLiquidity, Exchange!Move, Move
<1>2. /\ other \in [Accounts -> Nat]
      /\ reserve0 \in Nat /\ reserve1 \in Nat /\ totalShares \in Nat /\ shares \in [Users -> Nat]
      /\ asset[Pool] = reserve0 + given0 /\ other[Pool] = reserve1 + given1
      /\ Total(shares) = totalShares /\ EmptyPool
      /\ given0 \in Nat /\ given1 \in Nat /\ given0' = given0 /\ given1' = given1
  BY PoolFacts DEF gifts
<1>3. /\ u \in Accounts /\ Pool \in Accounts /\ u # Pool
      /\ IsFiniteSet(Accounts) /\ IsFiniteSet(Users) /\ part \in Nat
  BY MarketTypes
<1>4. /\ amount0 \in Nat /\ totalShares * amount0 <= reserve0 * part
      /\ amount1 \in Nat /\ totalShares * amount1 <= reserve1 * part
  <2>1. reserve0 \in Nat /\ reserve1 \in Nat /\ part \in Nat /\ totalShares \in Nat \ {0}
    BY <1>1, <1>2, <1>3
  <2> QED BY <2>1, ProportionFacts
<1> HIDE DEF amount0, amount1
<1>5. /\ asset' \in [Accounts -> Nat] /\ asset'[Pool] = reserve0' + given0' /\ Total(asset') = Total(asset)
  <2>1. amount0 <= asset[Pool]
    BY <1>1, <1>2
  <2>2. /\ Move(asset, Pool, u, amount0) \in [Accounts -> Nat]
        /\ Move(asset, Pool, u, amount0)[Pool] = asset[Pool] - amount0
        /\ Total(Move(asset, Pool, u, amount0)) = Total(asset)
    BY <1>2, <1>3, <1>4, <2>1, MoveFacts
  <2> QED BY <1>1, <1>2, <1>3, <1>4, <2>2
<1>6. /\ other' \in [Accounts -> Nat] /\ other'[Pool] = reserve1' + given1'
  <2>1. amount1 <= other[Pool]
    BY <1>1, <1>2
  <2>2. /\ Move(other, Pool, u, amount1) \in [Accounts -> Nat]
        /\ Move(other, Pool, u, amount1)[Pool] = other[Pool] - amount1
    BY <1>2, <1>3, <1>4, <2>1, MoveFacts
  <2> QED BY <1>1, <1>2, <1>3, <1>4, <2>2
<1>7. shares' \in [Users -> Nat] /\ Total(shares') = totalShares'
  <2>1. shares[u] \in Nat /\ shares[u] - part \in Nat
    BY <1>1, <1>2, <1>3
  <2>2. /\ shares' \in [Users -> Nat] /\ shares'[u] = shares[u] - part
        /\ \A v \in Users \ {u} : shares'[v] = shares[v]
    BY <1>1, <1>2, <2>1
  <2>3. shares \in [Users -> Int] /\ shares' \in [Users -> Int]
    BY <1>2, <2>2
  <2>4. Total(shares') = Total(shares) - shares[u] + shares'[u]
    BY <1>3, <2>2, <2>3, TotalChanges
  <2> QED BY <1>1, <1>2, <1>3, <2>1, <2>2, <2>4
<1> DEFINE r0 == reserve0
           r1 == reserve1
           t  == totalShares
<1>8. /\ r0 \in Nat /\ r1 \in Nat /\ t \in Nat \ {0} /\ part \in Nat /\ part <= t
      /\ amount0 \in Nat /\ amount1 \in Nat /\ amount0 <= r0 /\ amount1 <= r1
      /\ t * amount0 <= r0 * part /\ t * amount1 <= r1 * part
  BY <1>1, <1>2, <1>3, <1>4
<1>9. reserve0' = r0 - amount0 /\ reserve1' = r1 - amount1 /\ totalShares' = t - part
  BY <1>1
<1>10. ASSUME reserve0' = 0, reserve1' = 0 PROVE totalShares' = 0
  <2>1. r0 # 0 \/ r1 # 0
    BY <1>1, <1>2 DEF EmptyPool
  <2> HIDE DEF r0, r1, t
  <2>2. amount0 = r0 /\ amount1 = r1
    BY <1>8, <1>9, <1>10
  <2>3. part = t
    BY <1>8, <2>1, <2>2, LastShare
  <2> QED BY <1>8, <1>9, <2>3
<1>11. PoolInv'
  <2>1. reserve0' \in Nat /\ reserve1' \in Nat /\ totalShares' \in Nat
    BY <1>8, <1>9
  <2> QED BY <1>2, <1>5, <1>6, <1>7, <1>10, <2>1, PoolSettles
<1>12. Exchange!FirstShares
  BY <1>8 DEF Exchange!FirstShares
<1>13. Exchange!NotDiluted
  <2> HIDE DEF r0, r1, t
  <2>1. (r0 - amount0) * t >= r0 * (t - part)
    <3>1. (r0 - amount0) * t = r0 * t - t * amount0 /\ r0 * (t - part) = r0 * t - r0 * part
      BY <1>8
    <3>2. r0 * t \in Nat /\ t * amount0 \in Nat /\ r0 * part \in Nat
      BY <1>8
    <3> QED BY <1>8, <3>1, <3>2
  <2>2. (r1 - amount1 + 1) * t >= r1 * (t - part)
    <3>1. (r1 - amount1 + 1) * t = r1 * t - t * amount1 + t /\ r1 * (t - part) = r1 * t - r1 * part
      BY <1>8
    <3>2. r1 * t \in Nat /\ t * amount1 \in Nat /\ r1 * part \in Nat
      BY <1>8
    <3> QED BY <1>8, <3>1, <3>2
  <2> QED BY <1>9, <2>1, <2>2 DEF Exchange!NotDiluted, r0, r1, t
<1>14. Exchange!ProductKept
  <2>1. SUFFICES ASSUME totalShares' = t
                 PROVE  reserve0' * reserve1' + reserve0' >= r0 * r1
    BY DEF Exchange!ProductKept
  <2> HIDE DEF r0, r1, t
  <2>2. part = 0
    BY <1>8, <1>9, <2>1
  <2>3. r0 * part = 0 /\ r1 * part = 0
    BY <1>8, <2>2
  <2>4. t * amount0 <= t * 0 /\ t * amount1 <= t * 0
    BY <1>8, <2>3
  <2>5. amount0 = 0 /\ amount1 = 0
    BY <1>8, <2>4, Cancels
  <2>6. r0 * r1 \in Nat /\ reserve0' = r0 /\ reserve1' = r1
    BY <1>8, <1>9, <2>5
  <2> QED BY <1>8, <2>6
<1> QED BY <1>5, <1>11, <1>12, <1>13, <1>14 DEF Fair

LEMMA SwapStep ==
  ASSUME PoolInv, asset \in [Accounts -> Nat], Exchange!Next, UNCHANGED gifts
  PROVE  /\ PoolInv' /\ asset' \in [Accounts -> Nat] /\ Total(asset') = Total(asset)
         /\ Fair
  BY initStep, addLiquidityStep, removeLiquidityStep, token0To1Step, token1To0Step
     DEF Exchange!Next

-----------------------------------------------------------------------------
\* Both contracts.

Inv == MintInv /\ PoolInv

LEMMA InvInit ==
  ASSUME MarketInit
  PROVE  Inv
<1>1. /\ eusd = [a \in Accounts |-> IF a \in Users THEN Funds ELSE 0]
      /\ asset = [a \in Accounts |-> 0] /\ registered = 0 /\ positions = << >> /\ mispaid = FALSE
      /\ other = [a \in Accounts |-> IF a \in Users THEN Others ELSE 0]
      /\ reserve0 = 0 /\ reserve1 = 0 /\ shares = [u \in Users |-> 0] /\ totalShares = 0
      /\ given = 0 /\ given0 = 0 /\ given1 = 0
  BY DEF MarketInit, Init, Exchange!PoolInit
<1>2. /\ IsFiniteSet(Accounts) /\ IsFiniteSet(Users) /\ Pool \in Accounts /\ Pool \notin Users
      /\ Vault \in Accounts /\ Vault \notin Users /\ Funds \in Nat /\ Others \in Nat
  BY MarketTypes, ConstantTypes
<1>3. /\ eusd \in [Accounts -> Nat] /\ asset \in [Accounts -> Nat] /\ other \in [Accounts -> Nat]
      /\ shares \in [Users -> Nat] /\ asset[Pool] = 0 /\ other[Pool] = 0 /\ eusd[Vault] = 0
  BY <1>1, <1>2
<1>4. Total(asset) = 0 /\ Total(shares) = 0
  <2>1. /\ asset \in [Accounts -> Int] /\ \A a \in Accounts : asset[a] = 0
        /\ shares \in [Users -> Int] /\ \A u \in Users : shares[u] = 0
    BY <1>1
  <2> QED BY <1>2, <2>1, TotalOfZeros
<1>5. positions \in Seq(Position) /\ DOMAIN positions = {}
  BY <1>1
<1>6. Owed(positions) = 0 /\ Backing(positions) = 0
  <2> DEFINE f == [i \in DOMAIN positions |-> positions[i].assetAmount]
             e == [i \in DOMAIN positions |-> positions[i].collateralAmount]
  <2>1. f \in [{} -> Int] /\ e \in [{} -> Int] /\ \A x \in {} : f[x] = 0 /\ e[x] = 0
    BY <1>5
  <2>2. Owed(positions) = Total(f) /\ Backing(positions) = Total(e)
    BY DEF Owed, Backing
  <2> HIDE DEF f, e
  <2>3. Total(f) = 0 /\ Total(e) = 0
    BY <2>1, FS_EmptySet, TotalOfZeros
  <2> QED BY <2>2, <2>3
<1>7. TypeOK
  BY <1>1, <1>3, <1>5, TypeOKIsTyped
<1>8. SupplyIsDebt /\ CollateralHeld
  BY <1>1, <1>3, <1>4, <1>6, BooksOfPositions DEF SupplyIsDebt, CollateralHeld
<1>9. UnitRatioKept /\ OpenedAtRatio
  BY <1>1, <1>5 DEF UnitRatioKept, OpenedAtRatio
<1>10. PoolInv
  BY <1>1, <1>3, <1>4, SameTotal
     DEF PoolInv, Exchange!PoolTypeOK, ReservesHeld, Exchange!SharesAddUp, EmptyPool
<1> QED BY <1>1, <1>7, <1>8, <1>9, <1>10 DEF Inv, MintInv

\* A transaction that leaves the pool alone.
LEMMA NoCallFair ==
  ASSUME PoolInv, asset \in [Accounts -> Nat], reserve0' = reserve0, reserve1' = reserve1,
         totalShares' = totalShares
  PROVE  Fair
<1>1. reserve0 \in Nat /\ reserve1 \in Nat /\ totalShares \in Nat
  BY PoolFacts
<1>2. Exchange!FirstShares /\ Exchange!NotDiluted
  BY <1>1 DEF Exchange!FirstShares, Exchange!NotDiluted
<1>3. reserve0' * reserve1' + reserve0' >= reserve0 * reserve1
  <2>1. reserve0 * reserve1 \in Nat
    BY <1>1
  <2> QED BY <1>1, <2>1
<1> QED BY <1>2, <1>3 DEF Fair, Exchange!ProductKept

\* What a transfer does to the account of a contract.
LEMMA SentFacts ==
  ASSUME NEW b \in [Accounts -> Nat], NEW u \in Users, NEW to \in Accounts, NEW n \in Nat,
         NEW contract \in Accounts, contract \notin Users, u # to, n <= b[u]
  PROVE  /\ Move(b, u, to, n) \in [Accounts -> Nat]
         /\ Move(b, u, to, n)[contract] = b[contract] + Sent(to, contract, n)
         /\ Total(Move(b, u, to, n)) = Total(b)
         /\ Sent(to, contract, n) \in Nat
<1>1. IsFiniteSet(Accounts) /\ u \in Accounts /\ contract # u
  BY ConstantTypes
<1>2. /\ Move(b, u, to, n) \in [Accounts -> Nat]
      /\ Move(b, u, to, n)[to] = b[to] + n
      /\ \A z \in Accounts \ {u, to} : Move(b, u, to, n)[z] = b[z]
      /\ Total(Move(b, u, to, n)) = Total(b)
  BY <1>1, MoveFacts
<1> QED BY <1>1, <1>2 DEF Sent

\* A user sends tokens: what a contract gets is counted as given.
LEMMA transferStep ==
  ASSUME Inv, NEW u \in Users, NEW to \in Accounts, NEW n \in Sends, u # to,
         transfer(u, to, n)
  PROVE  Inv' /\ Fair
<1>1. /\ eusd \in [Accounts -> Nat] /\ asset \in [Accounts -> Nat] /\ other \in [Accounts -> Nat]
      /\ MintInv /\ PoolInv /\ given \in Nat /\ n \in Nat /\ u \in Accounts
  BY ConstantTypes, MarketAssumption DEF Inv, MintInv, PoolInv, TypeOK
<1>2. /\ Vault \in Accounts /\ Vault \notin Users /\ Pool \in Accounts /\ Pool \notin Users
  BY ConstantTypes, MarketTypes
<1>3. /\ reserve0 \in Nat /\ reserve1 \in Nat /\ totalShares \in Nat /\ shares \in [Users -> Nat]
      /\ asset[Pool] = reserve0 + given0 /\ other[Pool] = reserve1 + given1
      /\ Total(shares) = totalShares /\ EmptyPool /\ given0 \in Nat /\ given1 \in Nat
  BY <1>1, PoolFacts
<1>4. /\ UNCHANGED <<registered, positions, mispaid>>
      /\ reserve0' = reserve0 /\ reserve1' = reserve1 /\ shares' = shares /\ totalShares' = totalShares
  BY DEF transfer, pool
<1>5. Fair
  BY <1>1, <1>4, NoCallFair
<1>6. CASE /\ eusd[u] >= n /\ eusd' = Move(eusd, u, to, n)
           /\ given' = given + Sent(to, Vault, n) /\ UNCHANGED <<asset, other, given0, given1>>
  <2>1. n <= eusd[u]
    BY <1>1, <1>6
  <2>2. /\ eusd' \in [Accounts -> Nat] /\ eusd'[Vault] = eusd[Vault] + Sent(to, Vault, n)
        /\ Sent(to, Vault, n) \in Nat
    BY <1>1, <1>2, <1>6, <2>1, SentFacts
  <2>3. Collateral \in Int /\ eusd[Vault] \in Nat /\ Collateral' = Collateral
    <3>1. Backing(positions) \in Int
      BY <1>1, TypeOKIsTyped, PositionType DEF MintInv
    <3> QED BY <1>1, <1>2, <1>4, <3>1, BooksOfPositions DEF Collateral
  <2>4. given' \in Nat /\ CollateralHeld'
    BY <1>1, <1>4, <1>6, <2>2, <2>3 DEF MintInv, CollateralHeld
  <2>5. MintInv'
    BY <1>1, <1>4, <1>6, <2>2, <2>4
       DEF MintInv, TypeOK, SupplyIsDebt, UnitRatioKept, OpenedAtRatio, Debts
  <2>6. PoolInv'
    BY <1>1, <1>3, <1>4, <1>6, PoolSettles DEF EmptyPool
  <2> QED BY <1>5, <2>5, <2>6 DEF Inv
<1>7. CASE /\ asset[u] >= n /\ asset' = Move(asset, u, to, n)
           /\ given0' = given0 + Sent(to, Pool, n) /\ UNCHANGED <<eusd, other, given, given1>>
  <2>1. n <= asset[u]
    BY <1>1, <1>7
  <2>2. /\ asset' \in [Accounts -> Nat] /\ asset'[Pool] = asset[Pool] + Sent(to, Pool, n)
        /\ Sent(to, Pool, n) \in Nat /\ Total(asset') = Total(asset)
    BY <1>1, <1>2, <1>7, <2>1, SentFacts
  <2>3. MintInv'
    BY <1>1, <1>4, <1>7, <2>2
       DEF MintInv, TypeOK, SupplyIsDebt, UnitRatioKept, CollateralHeld, OpenedAtRatio, Debts, Collateral
  <2>4. given0' \in Nat /\ asset'[Pool] = reserve0' + given0'
    BY <1>3, <1>4, <1>7, <2>2
  <2>5. PoolInv'
    BY <1>1, <1>3, <1>4, <1>7, <2>4, PoolSettles DEF EmptyPool
  <2> QED BY <1>5, <2>3, <2>5 DEF Inv
<1>8. CASE /\ other[u] >= n /\ other' = Move(other, u, to, n)
           /\ given1' = given1 + Sent(to, Pool, n) /\ UNCHANGED <<eusd, asset, given, given0>>
  <2>1. n <= other[u]
    BY <1>1, <1>8
  <2>2. /\ other' \in [Accounts -> Nat] /\ other'[Pool] = other[Pool] + Sent(to, Pool, n)
        /\ Sent(to, Pool, n) \in Nat
    BY <1>1, <1>2, <1>8, <2>1, SentFacts
  <2>3. MintInv'
    BY <1>1, <1>4, <1>8
       DEF MintInv, TypeOK, SupplyIsDebt, UnitRatioKept, CollateralHeld, OpenedAtRatio, Debts, Collateral
  <2>4. given1' \in Nat /\ other'[Pool] = reserve1' + given1'
    BY <1>3, <1>4, <1>8, <2>2
  <2>5. PoolInv'
    BY <1>1, <1>3, <1>4, <1>8, <2>2, <2>4, PoolSettles DEF EmptyPool
  <2> QED BY <1>5, <2>3, <2>5 DEF Inv
<1> QED BY <1>6, <1>7, <1>8 DEF transfer

\* A call of one contract keeps the books of the other.
LEMMA InvNext ==
  ASSUME Inv, MarketNext
  PROVE  Inv' /\ Fair
<1>1. asset \in [Accounts -> Nat] /\ MintInv /\ PoolInv
  BY DEF Inv, MintInv, TypeOK
<1>2. CASE Next /\ UNCHANGED <<other, pool, gifts>>
  <2>1. MintInv' /\ \A a \in Accounts \ Users : asset'[a] = asset[a]
    <3>1. given' = given
      BY <1>2 DEF gifts
    <3> QED BY <1>1, <1>2, <3>1, MintStep
  <2>2. asset'[Pool] = asset[Pool]
    BY <2>1, MarketTypes
  <2>3. /\ other' = other /\ reserve0' = reserve0 /\ reserve1' = reserve1
        /\ shares' = shares /\ totalShares' = totalShares
        /\ given0' = given0 /\ given1' = given1
    BY <1>2 DEF pool, gifts
  <2>4. /\ reserve0 \in Nat /\ reserve1 \in Nat /\ totalShares \in Nat
        /\ other \in [Accounts -> Nat] /\ shares \in [Users -> Nat]
        /\ asset[Pool] = reserve0 + given0 /\ other[Pool] = reserve1 + given1 /\ Total(shares) = totalShares /\ EmptyPool
        /\ given0 \in Nat /\ given1 \in Nat
    BY <1>1, PoolFacts
  <2>5. PoolInv'
    BY <2>2, <2>3, <2>4, PoolSettles DEF EmptyPool
  <2>6. Fair
    BY <1>1, <2>3, NoCallFair
  <2> QED BY <2>1, <2>5, <2>6 DEF Inv
<1>3. CASE Exchange!Next /\ UNCHANGED <<debt, gifts>>
  <2>1. /\ PoolInv' /\ asset' \in [Accounts -> Nat] /\ Total(asset') = Total(asset)
        /\ Fair
    <3>1. UNCHANGED gifts
      BY <1>3
    <3> QED BY <1>1, <1>3, <3>1, SwapStep
  <2>2. UNCHANGED <<eusd, registered, positions, mispaid, given>>
    BY <1>3 DEF debt, gifts
  <2>3. MintInv'
    BY <1>1, <2>1, <2>2 DEF MintInv, TypeOK, SupplyIsDebt, UnitRatioKept, CollateralHeld, OpenedAtRatio,
                            Debts, Collateral
  <2> QED BY <2>1, <2>3 DEF Inv
<1>4. ASSUME NEW u \in Users, NEW to \in Accounts, NEW n \in Sends, u # to, transfer(u, to, n)
      PROVE  Inv' /\ Fair
  BY <1>4, transferStep
<1> QED BY <1>2, <1>3, <1>4 DEF MarketNext

LEMMA InvStutters ==
  ASSUME Inv, UNCHANGED all
  PROVE  Inv'
<1>1. UNCHANGED <<eusd, asset, registered, positions, mispaid, other>>
      /\ UNCHANGED <<reserve0, reserve1, shares, totalShares>>
      /\ UNCHANGED <<given, given0, given1>>
  BY DEF all, pool, gifts
<1>2. MintInv'
  BY <1>1 DEF Inv, MintInv, TypeOK, SupplyIsDebt, UnitRatioKept, CollateralHeld, OpenedAtRatio,
              Debts, Collateral
<1>3. PoolInv'
  <2>1. /\ reserve0 \in Nat /\ reserve1 \in Nat /\ totalShares \in Nat
        /\ other \in [Accounts -> Nat] /\ shares \in [Users -> Nat]
        /\ asset[Pool] = reserve0 + given0 /\ other[Pool] = reserve1 + given1 /\ Total(shares) = totalShares /\ EmptyPool
        /\ given0 \in Nat /\ given1 \in Nat
    BY PoolFacts DEF Inv, MintInv, TypeOK
  <2> QED BY <1>1, <2>1, PoolSettles DEF EmptyPool
<1> QED BY <1>2, <1>3 DEF Inv

LEMMA InvHolds == MarketSpec => []Inv
<1>1. MarketInit => Inv
  BY InvInit
<1>2. Inv /\ [MarketNext]_all => Inv'
  BY InvNext, InvStutters
<1> QED BY <1>1, <1>2, PTL DEF MarketSpec

\* Type invariant of both contracts.
THEOREM TypesHold == MarketSpec => []MarketTypeOK
<1>1. Inv => MarketTypeOK
  BY DEF Inv, MintInv, PoolInv, MarketTypeOK
<1> QED BY <1>1, InvHolds, PTL

\* The asset tokens in circulation are the debts of the positions, through openPosition,
\* closePosition, mint and burn, and wherever Swap moved the tokens in between.
THEOREM DebtsCovered == MarketSpec => []SupplyIsDebt
<1>1. Inv => SupplyIsDebt
  BY DEF Inv, MintInv
<1> QED BY <1>1, InvHolds, PTL

\* No sequence of openPosition, deposit, withdraw, mint and burn leaves a position with debt
\* below the ratio that withdraw and mint check, counted in token units, at a price of at
\* least a unit.  By value it does not hold (the run ratio_by_value).
THEOREM RatiosStay == MarketSpec => []UnitRatioKept
<1>1. Inv => UnitRatioKept
  BY DEF Inv, MintInv
<1> QED BY <1>1, InvHolds, PTL

\* Whatever users send to the contracts besides, Swap holds its reserves and these gifts,
\* and the shares of its providers add up; so does Mint hold the collateral, until a
\* withdrawal pays another amount than it was asked for.
THEOREM BooksStayBalanced == MarketSpec => []BooksBalance
<1>1. Inv => BooksBalance
  BY DEF Inv, MintInv, PoolInv, BooksBalance
<1> QED BY <1>1, InvHolds, PTL

\* The first provider's shares are the square root that sqrt's loop looks for, and
\* addLiquidity and removeLiquidity do not dilute the others.
THEOREM SharesStayFair == MarketSpec => SharesFair
<1>1. Inv /\ [MarketNext]_all => [Exchange!FirstShares /\ Exchange!NotDiluted]_all
  BY InvNext DEF Fair
<1> QED BY <1>1, InvHolds, PTL DEF MarketSpec, SharesFair

\* token0To1 and token1To0 keep the product of the reserves, but for rounding.
THEOREM ProductStays == MarketSpec => ProductKept
<1>1. Inv /\ [MarketNext]_all => [Exchange!ProductKept]_all
  BY InvNext DEF Fair
<1> QED BY <1>1, InvHolds, PTL DEF MarketSpec, ProductKept
=============================================================================
