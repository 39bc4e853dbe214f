---------------------------- MODULE MerkleProofs ----------------------------
(***************************************************************************)
(* The Merkle tree of any data: new() builds the tree of the definition,   *)
(* proof() reads the siblings on the way to the root, and verify() accepts *)
(* them for the leaf at its place and for no other.                        *)
(***************************************************************************)
EXTENDS Merkle, SequenceTheorems, WellFoundedInduction, TLAPS

\* A set of numbers that is not empty has a least one.
LEMMA LeastNat ==
  ASSUME NEW B \in SUBSET Nat, B # {}
  PROVE  \E y \in B : \A z \in B : y <= z
<1> DEFINE R == {ss \in Nat \X Nat : ss[1] < ss[2]}
<1>1. R = OpToRel(<, Nat)
  BY DEF OpToRel
<1>2. IsWellFoundedOn(R, Nat)
  BY <1>1, NatLessThanWellFounded
<1>3. \A y, z \in Nat : <<z, y>> \notin R => y <= z
  OBVIOUS
<1> HIDE DEF R
<1>4. \E y \in B : \A z \in B : <<z, y>> \notin R
  BY <1>2, WFMin
<1> QED BY <1>3, <1>4

\* Induction over the levels, as a statement about a set of numbers.
Climbs(A, n) == n \in Nat /\ 0 \in A /\ \A i \in 0 .. n - 1 : i \in A => i + 1 \in A

LEMMA UpTo ==
  ASSUME NEW n, NEW A, Climbs(A, n)
  PROVE  0 .. n \subseteq A
<1>0. n \in Nat /\ 0 \in A /\ \A i \in 0 .. n - 1 : i \in A => i + 1 \in A
  BY DEF Climbs
<1> SUFFICES ASSUME NEW x \in (0 .. n) \ A PROVE FALSE
  OBVIOUS
<1> DEFINE B == (0 .. n) \ A
<1>1. PICK y \in B : \A z \in B : y <= z
  <2>1. B \in SUBSET Nat /\ B # {}
    BY <1>0
  <2> HIDE DEF B
  <2> QED BY <2>1, LeastNat
<1>2. y \in 1 .. n /\ y - 1 \in 0 .. n - 1
  BY <1>0, <1>1
<1>3. y - 1 \in A
  <2> DEFINE z == y - 1
  <2>1. z \in 0 .. n /\ ~ (y <= z)
    <3> HIDE DEF B
    <3> QED BY <1>0, <1>2
  <2> HIDE DEF z
  <2>2. z \notin B
    BY <1>1, <2>1
  <2> QED BY <2>1, <2>2 DEF z
<1> QED BY <1>0, <1>1, <1>2, <1>3

-----------------------------------------------------------------------------
\* The recursive functions exist: what is defined up to a level has a next value.

LEMMA LevelExists ==
  ASSUME NEW n \in Nat
  PROVE  \E f : f = [h \in 0 .. n |-> IF h = 0 THEN data ELSE Above(f[h - 1])]
<1> DEFINE Is(f, m) == f = [h \in 0 .. m |-> IF h = 0 THEN data ELSE Above(f[h - 1])]
           A == {m \in Nat : \E f : Is(f, m)}
<1>1. 0 \in A
  <2>1. Is([h \in 0 .. 0 |-> data], 0)
    OBVIOUS
  <2> QED BY <2>1
<1>2. ASSUME NEW m \in Nat, m \in A PROVE m + 1 \in A
  <2>1. PICK f : Is(f, m)
    BY <1>2
  <2> DEFINE g == [h \in 0 .. m + 1 |-> IF h <= m THEN f[h] ELSE Above(f[m])]
  <2>2. ASSUME NEW h \in 0 .. m + 1
        PROVE  g[h] = IF h = 0 THEN data ELSE Above(g[h - 1])
    <3>1. CASE h = m + 1
      BY <3>1
    <3>2. CASE h \in 0 .. m
      <4>1. f[h] = IF h = 0 THEN data ELSE Above(f[h - 1])
        BY <2>1, <3>2
      <4> QED BY <3>2, <4>1
    <3> QED BY <3>1, <3>2
  <2>3. g = [h \in 0 .. m + 1 |-> g[h]]
    OBVIOUS
  <2> HIDE DEF g
  <2>4. Is(g, m + 1)
    BY <2>2, <2>3
  <2> QED BY <2>4
<1>3. 0 .. n \subseteq A
  <2>1. \A m \in 0 .. n - 1 : m \in A => m + 1 \in A
    BY <1>2
  <2> HIDE DEF A
  <2>9. Climbs(A, n)
    BY <1>1, <2>1 DEF Climbs
  <2> QED BY <2>9, UpTo
<1>4. n \in A
  BY <1>3
<1>5. \E f : Is(f, n)
  BY <1>4
<1> QED BY <1>5

\* The levels of the definition, one from the other.
LEMMA LevelUnfolds ==
  ASSUME data \in Seq(Leaves)
  PROVE  /\ Level[0] = data
         /\ \A h \in Levels : h # 0 => Level[h] = Above(Level[h - 1])
<1> DEFINE Is(f) == f = [h \in Levels |-> IF h = 0 THEN data ELSE Above(f[h - 1])]
<1>1. \E f : Is(f)
  <2>1. Len(data) \in Nat
    OBVIOUS
  <2> DEFINE n == Len(data)
  <2>2. n \in Nat /\ Levels = 0 .. n
    BY <2>1 DEF Levels
  <2> HIDE DEF n
  <2> QED BY <2>2, LevelExists
<1>2. Is(Level)
  <2>1. Level = CHOOSE f : Is(f)
    BY DEF Level
  <2> QED BY <1>1, <2>1
<1>3. 0 \in Levels
  BY DEF Levels
<1> QED BY <1>2, <1>3

\* start, level_len and div of proof() up to any level.
LEMMA LayoutExists ==
  ASSUME NEW n \in Nat
  PROVE  \E f : f = [l \in 0 .. n |->
                       IF l = 0 THEN [start |-> 0, len |-> count, div |-> 1]
                       ELSE [start |-> f[l - 1].start + f[l - 1].len,
                             len |-> NextLen(f[l - 1].len), div |-> f[l - 1].div * 2]]
<1> DEFINE Base == [start |-> 0, len |-> count, div |-> 1]
           Step(r) == [start |-> r.start + r.len, len |-> NextLen(r.len), div |-> r.div * 2]
           Is(f, m) == f = [l \in 0 .. m |-> IF l = 0 THEN Base ELSE Step(f[l - 1])]
           A == {m \in Nat : \E f : Is(f, m)}
<1>1. \E f : Is(f, n)
  <2> HIDE DEF Base, Step
  <2>1. 0 \in A
    <3>1. Is([l \in 0 .. 0 |-> Base], 0)
      OBVIOUS
    <3> QED BY <3>1
  <2>2. ASSUME NEW m \in Nat, m \in A PROVE m + 1 \in A
    <3>1. PICK f : Is(f, m)
      BY <2>2
    <3> DEFINE g == [l \in 0 .. m + 1 |-> IF l <= m THEN f[l] ELSE Step(f[m])]
    <3>2. ASSUME NEW l \in 0 .. m + 1
          PROVE  g[l] = IF l = 0 THEN Base ELSE Step(g[l - 1])
      <4>1. CASE l = m + 1
        BY <4>1
      <4>2. CASE l \in 0 .. m
        <5>1. f[l] = IF l = 0 THEN Base ELSE Step(f[l - 1])
          BY <3>1, <4>2
        <5> QED BY <4>2, <5>1
      <4> QED BY <4>1, <4>2
    <3>3. g = [l \in 0 .. m + 1 |-> g[l]]
      OBVIOUS
    <3> HIDE DEF g
    <3>4. Is(g, m + 1)
      BY <3>2, <3>3
    <3> QED BY <3>4
  <2>3. 0 .. n \subseteq A
    <3> HIDE DEF A
    <3>9. Climbs(A, n)
      BY <2>1, <2>2 DEF Climbs
    <3> QED BY <3>9, UpTo
  <2> QED BY <2>3
<1> QED BY <1>1

\* What the loop of proof() makes of them from one level to the next.
LEMMA LayoutUnfolds ==
  ASSUME data \in Seq(Leaves)
  PROVE  /\ Layout[0] = [start |-> 0, len |-> count, div |-> 1]
         /\ \A l \in Levels : l # 0 =>
              Layout[l] = [start |-> Layout[l - 1].start + Layout[l - 1].len,
                           len |-> NextLen(Layout[l - 1].len), div |-> Layout[l - 1].div * 2]
<1> DEFINE Is(f) == f = [l \in Levels |->
                       IF l = 0 THEN [start |-> 0, len |-> count, div |-> 1]
                       ELSE [start |-> f[l - 1].start + f[l - 1].len,
                             len |-> NextLen(f[l - 1].len), div |-> f[l - 1].div * 2]]
<1>1. \E f : Is(f)
  <2>1. Len(data) \in Nat
    OBVIOUS
  <2> DEFINE n == Len(data)
  <2>2. n \in Nat /\ Levels = 0 .. n
    BY <2>1 DEF Levels
  <2> HIDE DEF n
  <2> QED BY <2>2, LayoutExists
<1>2. Is(Layout)
  <2>1. Layout = CHOOSE f : Is(f)
    BY DEF Layout
  <2> QED BY <1>1, <2>1
<1>3. 0 \in Levels
  BY DEF Levels
<1> QED BY <1>2, <1>3

\* A place is the half of the one below it, rounded up.
ArePlaces(f, n, index) ==
  f = [h \in 0 .. n |-> IF h = 0 THEN index + 1 ELSE (f[h - 1] + 1) \div 2]

LEMMA PlaceExists ==
  ASSUME NEW n \in Nat, NEW index
  PROVE  \E f : ArePlaces(f, n, index)
<1> DEFINE Half(k) == (k + 1) \div 2
           Is(f, m) == f = [h \in 0 .. m |-> IF h = 0 THEN index + 1 ELSE Half(f[h - 1])]
           A == {m \in Nat : \E f : Is(f, m)}
<1>1. \E f : Is(f, n)
  <2> HIDE DEF Half
  <2>1. 0 \in A
    <3>1. Is([h \in 0 .. 0 |-> index + 1], 0)
      OBVIOUS
    <3> QED BY <3>1
  <2>2. ASSUME NEW m \in Nat, m \in A PROVE m + 1 \in A
    <3>1. PICK f : Is(f, m)
      BY <2>2
    <3> DEFINE g == [h \in 0 .. m + 1 |-> IF h <= m THEN f[h] ELSE Half(f[m])]
    <3>2. ASSUME NEW h \in 0 .. m + 1
          PROVE  g[h] = IF h = 0 THEN index + 1 ELSE Half(g[h - 1])
      <4>1. CASE h = m + 1
        BY <4>1
      <4>2. CASE h \in 0 .. m
        <5>1. f[h] = IF h = 0 THEN index + 1 ELSE Half(f[h - 1])
          BY <3>1, <4>2
        <5> QED BY <4>2, <5>1
      <4> QED BY <4>1, <4>2
    <3>3. g = [h \in 0 .. m + 1 |-> g[h]]
      OBVIOUS
    <3> HIDE DEF g
    <3>4. Is(g, m + 1)
      BY <3>2, <3>3
    <3> QED BY <3>4
  <2>3. 0 .. n \subseteq A
    <3> HIDE DEF A
    <3>9. Climbs(A, n)
      BY <2>1, <2>2 DEF Climbs
    <3> QED BY <3>9, UpTo
  <2> QED BY <2>3
<1> QED BY <1>1 DEF ArePlaces

\* The places on the way of a leaf, one from the other.
LEMMA PlaceUnfolds ==
  ASSUME data \in Seq(Leaves), NEW index
  PROVE  /\ Place(index)[0] = index + 1
         /\ \A h \in Levels : h # 0 => Place(index)[h] = (Place(index)[h - 1] + 1) \div 2
<1> DEFINE Is(f) == f = [h \in Levels |-> IF h = 0 THEN index + 1 ELSE (f[h - 1] + 1) \div 2]
<1>1. \E f : Is(f)
  <2>1. Len(data) \in Nat
    OBVIOUS
  <2> DEFINE n == Len(data)
  <2>2. n \in Nat /\ Levels = 0 .. n
    BY <2>1 DEF Levels
  <2> HIDE DEF n
  <2>3. PICK f : ArePlaces(f, n, index)
    BY <2>2, PlaceExists
  <2>4. Is(f)
    BY <2>2, <2>3 DEF ArePlaces
  <2> QED BY <2>4
<1>2. Is(Place(index))
  <2>1. Place(index) = CHOOSE f : Is(f)
    BY DEF Place
  <2> QED BY <1>1, <2>1
<1>3. 0 \in Levels
  BY DEF Levels
<1> QED BY <1>2, <1>3

\* The hashes and indices on the way that verify() goes.
Start(datum, index) == [hash |-> datum, index |-> index]
IsWay(up, n, datum, path, index) ==
  up = [i \in 0 .. n |-> IF i = 0 THEN Start(datum, index) ELSE PairUp(up[i - 1], path[i])]

\* The way of verify() along any path.
LEMMA WayExists ==
  ASSUME NEW n \in Nat, NEW datum, NEW path, NEW index
  PROVE  \E up : IsWay(up, n, datum, path, index)
<1> DEFINE A == {m \in Nat : \E f : IsWay(f, m, datum, path, index)}
<1>1. 0 \in A
  <2>1. IsWay([i \in 0 .. 0 |-> Start(datum, index)], 0, datum, path, index)
    BY DEF IsWay
  <2> QED BY <2>1
<1>2. ASSUME NEW m \in Nat, m \in A PROVE m + 1 \in A
  <2>1. PICK f : IsWay(f, m, datum, path, index)
    BY <1>2
  <2> DEFINE g == [i \in 0 .. m + 1 |-> IF i <= m THEN f[i] ELSE PairUp(f[m], path[i])]
  <2>2. ASSUME NEW i \in 0 .. m + 1
        PROVE  g[i] = IF i = 0 THEN Start(datum, index) ELSE PairUp(g[i - 1], path[i])
    <3>1. CASE i = m + 1
      BY <3>1
    <3>2. CASE i \in 0 .. m
      <4>1. f[i] = IF i = 0 THEN Start(datum, index) ELSE PairUp(f[i - 1], path[i])
        BY <2>1, <3>2 DEF IsWay
      <4> QED BY <3>2, <4>1
    <3> QED BY <3>1, <3>2
  <2>3. g = [i \in 0 .. m + 1 |-> g[i]]
    OBVIOUS
  <2> HIDE DEF g
  <2>4. IsWay(g, m + 1, datum, path, index)
    BY <2>2, <2>3 DEF IsWay
  <2> QED BY <2>4
<1>3. 0 .. n \subseteq A
  <2> HIDE DEF A
  <2>9. Climbs(A, n)
    BY <1>1, <1>2 DEF Climbs
  <2> QED BY <2>9, UpTo
<1> QED BY <1>3

\* verify() compares the end of the way with the root.
LEMMA verifyUnfolds ==
  ASSUME NEW datum, NEW path, NEW index, Len(path) \in Nat
  PROVE  \E up : /\ IsWay(up, Len(path), datum, path, index)
                 /\ verify(datum, path, index) <=> up[Len(path)].hash = root
<1> DEFINE up == CHOOSE f : IsWay(f, Len(path), datum, path, index)
<1>1. \E f : IsWay(f, Len(path), datum, path, index)
  BY WayExists
<1>2. IsWay(up, Len(path), datum, path, index)
  BY <1>1
<1>3. verify(datum, path, index) <=> up[Len(path)].hash = root
  BY DEF verify, IsWay, Start
<1> QED BY <1>2, <1>3
-----------------------------------------------------------------------------
\* The levels of the definition.

\* Every hash of the tree.
Hashes == UNION {ToSet(Level[h]) : h \in Levels}

\* A level is half as long as the one below, rounded up, and made of its pairs.
LEMMA AboveFacts ==
  ASSUME NEW S, NEW q \in Seq(S)
  PROVE  /\ Above(q) \in Seq(S \X S)
         /\ Len(Above(q)) = (Len(q) + 1) \div 2
         /\ \A k \in 1 .. (Len(q) + 1) \div 2 :
              Above(q)[k] = <<q[2 * k - 1], IF 2 * k <= Len(q) THEN q[2 * k] ELSE q[2 * k - 1]>>
<1> DEFINE n == (Len(q) + 1) \div 2
           a == Above(q)
<1>1. n \in Nat /\ \A k \in 1 .. n : 2 * k - 1 \in 1 .. Len(q)
  OBVIOUS
<1>2. a = [k \in 1 .. n |-> <<q[2 * k - 1], IF 2 * k <= Len(q) THEN q[2 * k] ELSE q[2 * k - 1]>>]
  BY DEF Above, Pair
<1>3. a \in [1 .. n -> S \X S]
  BY <1>1, <1>2
<1> HIDE DEF n
<1>4. a \in Seq(S \X S) /\ Len(a) = n
  BY <1>1, <1>3, LenProperties, SeqDef, ElementOfSeq
<1> QED BY <1>2, <1>4 DEF n

\* A padded level is even, and repeats its last hash if it was not.
LEMMA PaddedFacts ==
  ASSUME NEW S, NEW q \in Seq(S), q # << >>
  PROVE  /\ Padded(q) \in Seq(S) /\ Len(Padded(q)) \in {Len(q), Len(q) + 1}
         /\ Len(Padded(q)) % 2 = 0
         /\ \A k \in 1 .. Len(q) : Padded(q)[k] = q[k]
         /\ Len(Padded(q)) = Len(q) + 1 => Padded(q)[Len(q) + 1] = q[Len(q)]
<1>1. q[Len(q)] \in S /\ Len(q) \in Nat \ {0}
  OBVIOUS
<1>2. CASE Len(q) % 2 = 0
  BY <1>1, <1>2 DEF Padded
<1>3. CASE Len(q) % 2 # 0
  <2> DEFINE p == Append(q, q[Len(q)])
  <2>1. Padded(q) = p
    BY <1>3 DEF Padded, Last
  <2>2. /\ p \in Seq(S) /\ Len(p) = Len(q) + 1 /\ p[Len(q) + 1] = q[Len(q)]
        /\ \A k \in 1 .. Len(q) : p[k] = q[k]
    BY <1>1
  <2> HIDE DEF p
  <2>3. Len(p) % 2 = 0
    BY <1>1, <1>3, <2>2
  <2> QED BY <2>1, <2>2, <2>3
<1> QED BY <1>2, <1>3

\* Each iteration of new() makes a level of the definition.
LEMMA ParentsAreAbove ==
  ASSUME NEW S, NEW q \in Seq(S), q # << >>
  PROVE  Parents(Padded(q)) = Above(q)
<1> DEFINE p == Padded(q)
           n == (Len(q) + 1) \div 2
<1>1. /\ p \in Seq(S) /\ Len(p) \in {Len(q), Len(q) + 1} /\ Len(p) % 2 = 0
      /\ \A k \in 1 .. Len(q) : p[k] = q[k]
      /\ Len(p) = Len(q) + 1 => p[Len(q) + 1] = q[Len(q)]
  BY PaddedFacts
<1> HIDE DEF p
<1>2. Len(p) \div 2 = n /\ Len(q) \in Nat
  BY <1>1
<1>3. ASSUME NEW k \in 1 .. n
      PROVE  /\ p[2 * k - 1] = q[2 * k - 1]
             /\ p[2 * k] = IF 2 * k <= Len(q) THEN q[2 * k] ELSE q[2 * k - 1]
  <2>1. 2 * k - 1 \in 1 .. Len(q)
    BY <1>2
  <2>2. CASE 2 * k <= Len(q)
    BY <1>1, <2>1, <2>2
  <2>3. CASE 2 * k > Len(q)
    <3>1. 2 * k = Len(q) + 1 /\ 2 * k - 1 = Len(q) /\ Len(p) = Len(q) + 1
      <4> DEFINE m == Len(q)
                 r == Len(p)
      <4>1. m \in Nat /\ r \in {m, m + 1} /\ r % 2 = 0 /\ 2 * k - 1 <= m /\ 2 * k > m
        BY <1>1, <1>2, <2>1, <2>3
      <4> HIDE DEF m, r
      <4>2. 2 * k = m + 1 /\ r = m + 1
        BY <4>1
      <4> QED BY <4>1, <4>2 DEF m, r
    <3> QED BY <1>1, <2>1, <2>3, <3>1
  <2> QED BY <1>2, <2>2, <2>3
<1> HIDE DEF n
<1>4. Parents(p) = [k \in 1 .. n |-> Pair(p[2 * k - 1], p[2 * k])]
  BY <1>2 DEF Parents
<1>5. Above(q) = [k \in 1 .. n |->
                    Pair(q[2 * k - 1], IF 2 * k <= Len(q) THEN q[2 * k] ELSE q[2 * k - 1])]
  BY DEF Above, n
<1> QED BY <1>3, <1>4, <1>5 DEF p

\* No level of data is empty, and their lengths halve.
LEMMA LevelFacts ==
  ASSUME data \in Seq(Leaves), data # << >>
  PROVE  \A h \in Levels :
           /\ Level[h] \in Seq(Hashes) /\ Level[h] # << >>
           /\ h # 0 => Len(Level[h]) = (Len(Level[h - 1]) + 1) \div 2
<1> DEFINE n == Len(data)
           Good(h) == \E S : Level[h] \in Seq(S) /\ Level[h] # << >>
           A == {h \in 0 .. n : Good(h)}
<1>1. n \in Nat /\ Levels = 0 .. n
  BY DEF Levels
<1>2. 0 \in A
  BY <1>1, LevelUnfolds
<1>3. ASSUME NEW h \in 0 .. n - 1, Good(h)
      PROVE  Good(h + 1) /\ Len(Level[h + 1]) = (Len(Level[h]) + 1) \div 2
  <2>1. PICK S : Level[h] \in Seq(S) /\ Level[h] # << >>
    BY <1>3
  <2> DEFINE q == Level[h]
  <2>2. Level[h + 1] = Above(q)
    <3>1. h + 1 \in Levels /\ h + 1 # 0 /\ h + 1 - 1 = h
      BY <1>1
    <3> QED BY <3>1, LevelUnfolds
  <2>3. q \in Seq(S) /\ Len(q) \in Nat \ {0}
    BY <2>1
  <2> HIDE DEF q
  <2>4. Above(q) \in Seq(S \X S) /\ Len(Above(q)) = (Len(q) + 1) \div 2
    BY <2>3, AboveFacts
  <2>5. Level[h + 1] \in Seq(S \X S) /\ Level[h + 1] # << >>
    <3> DEFINE a == Above(q)
    <3>1. a \in Seq(S \X S) /\ Len(a) # 0
      BY <2>3, <2>4
    <3> HIDE DEF a
    <3>2. a # << >>
      BY <3>1
    <3> QED BY <2>2, <3>1, <3>2 DEF a
  <2>6. Len(Level[h + 1]) = (Len(Level[h]) + 1) \div 2
    BY <2>2, <2>4 DEF q
  <2> QED BY <2>5, <2>6
<1>4. \A h \in 0 .. n : Good(h)
  <2>1. \A h \in 0 .. n - 1 : h \in A => h + 1 \in A
    <3>1. \A h \in 0 .. n - 1 : Good(h) => Good(h + 1)
      BY <1>3
    <3> HIDE DEF Good
    <3> QED BY <1>1, <3>1
  <2>2. 0 .. n \subseteq A
    <3> HIDE DEF A
    <3>9. Climbs(A, n)
      BY <1>1, <1>2, <2>1 DEF Climbs
    <3> QED BY <3>9, UpTo
  <2> QED BY <2>2
<1>5. ASSUME NEW h \in Levels PROVE Level[h] \in Seq(Hashes) /\ Level[h] # << >>
  <2>1. PICK S : Level[h] \in Seq(S) /\ Level[h] # << >>
    BY <1>1, <1>4
  <2>2. \A k \in 1 .. Len(Level[h]) : Level[h][k] \in Hashes
    BY <2>1 DEF Hashes, ToSet
  <2> QED BY <2>1, <2>2, ElementOfSeq, SeqDef, LenProperties
<1>6. ASSUME NEW h \in Levels, h # 0 PROVE Len(Level[h]) = (Len(Level[h - 1]) + 1) \div 2
  <2>1. h - 1 \in 0 .. n - 1 /\ h - 1 + 1 = h /\ Good(h - 1)
    BY <1>1, <1>4, <1>6
  <2> HIDE DEF Good
  <2>2. Len(Level[h - 1 + 1]) = (Len(Level[h - 1]) + 1) \div 2
    BY <1>3, <2>1
  <2> QED BY <2>1, <2>2
<1> QED BY <1>5, <1>6

-----------------------------------------------------------------------------
\* Where the levels lie in the vector.

\* All levels below h, but for the leaves, have more than one hash.
Reached(h) == \A l \in 1 .. h - 1 : Len(Level[l]) > 1

\* The hashes of a level with its padding, which the root has not.
PaddedWidth(h) == IF h # 0 /\ Len(Level[h]) = 1 THEN 1 ELSE Len(Padded(Level[h]))

\* proof() counts the padded width of every level, and an even start.
LEMMA LayoutFacts ==
  ASSUME data \in Seq(Leaves), data # << >>, count = Len(Padded(data)),
         NEW h \in Levels, Reached(h)
  PROVE  /\ Layout[h].start \in Nat /\ Layout[h].start % 2 = 0
         /\ Layout[h].len = PaddedWidth(h) /\ PaddedWidth(h) \in Nat
<1> DEFINE Good(l) == /\ Layout[l].start \in Nat /\ Layout[l].start % 2 = 0
                      /\ Layout[l].len = PaddedWidth(l) /\ PaddedWidth(l) \in Nat
           A == {l \in 0 .. h : Good(l)}
<1>1. h \in Nat /\ 0 .. h \subseteq Levels
  BY DEF Levels
<1>2. \A l \in Levels : Level[l] \in Seq(Hashes) /\ Level[l] # << >>
  BY LevelFacts
<1>3. 0 \in A
  <2>1. Layout[0] = [start |-> 0, len |-> count, div |-> 1] /\ Level[0] = data
    BY LayoutUnfolds, LevelUnfolds
  <2>2. count \in Nat
    BY PaddedFacts
  <2> QED BY <1>1, <2>1, <2>2 DEF PaddedWidth
<1>4. ASSUME NEW l \in 0 .. h - 1, Good(l) PROVE Good(l + 1)
  <2> DEFINE w == Len(Level[l])
             v == Len(Level[l + 1])
             p == PaddedWidth(l)
  <2>1. l + 1 \in Levels /\ l \in Levels /\ l + 1 # 0 /\ l + 1 - 1 = l
    BY <1>1
  <2>2. /\ Layout[l + 1] = [start |-> Layout[l].start + Layout[l].len,
                            len |-> NextLen(Layout[l].len), div |-> Layout[l].div * 2]
        /\ v = (w + 1) \div 2
    <3> DEFINE k == l + 1
    <3>1. k \in Levels /\ k # 0 /\ k - 1 = l
      BY <2>1
    <3> HIDE DEF k
    <3>2. Layout[k] = [start |-> Layout[k - 1].start + Layout[k - 1].len,
                       len |-> NextLen(Layout[k - 1].len), div |-> Layout[k - 1].div * 2]
      BY <3>1, LayoutUnfolds
    <3>3. Len(Level[k]) = (Len(Level[k - 1]) + 1) \div 2
      BY <3>1, LevelFacts
    <3> QED BY <3>1, <3>2, <3>3 DEF k
  <2>3. w \in Nat \ {0} /\ v \in Nat \ {0}
    BY <1>2, <2>1
  <2>4. p \in {w, w + 1} /\ p % 2 = 0
    <3>1. ~ (l # 0 /\ w = 1)
      <4>1. \A j \in 1 .. h - 1 : Len(Level[j]) > 1
        BY DEF Reached
      <4>2. l # 0 => l \in 1 .. h - 1
        BY <1>1
      <4>3. l # 0 => w > 1
        BY <4>1, <4>2
      <4> HIDE DEF w
      <4> QED BY <4>3
    <3>2. p = Len(Padded(Level[l]))
      BY <3>1 DEF PaddedWidth
    <3>3. Len(Padded(Level[l])) \in {w, w + 1} /\ Len(Padded(Level[l])) % 2 = 0
      BY <1>2, <2>1, PaddedFacts
    <3> QED BY <3>2, <3>3
  <2>5. /\ v = 1 => PaddedWidth(l + 1) = 1
        /\ v # 1 => /\ PaddedWidth(l + 1) \in {v, v + 1} /\ PaddedWidth(l + 1) % 2 = 0
    <3>1. Len(Padded(Level[l + 1])) \in {v, v + 1} /\ Len(Padded(Level[l + 1])) % 2 = 0
      BY <1>2, <2>1, PaddedFacts
    <3> QED BY <2>1, <3>1 DEF PaddedWidth
  <2> DEFINE x == PaddedWidth(l + 1)
  <2>6. NextLen(p) = x /\ x \in Nat
    <3>1. (v = 1 => x = 1) /\ (v # 1 => x \in {v, v + 1} /\ x % 2 = 0)
      BY <2>5
    <3> HIDE DEF w, v, p, x
    <3>2. p \div 2 = v
      BY <2>2, <2>3, <2>4
    <3> QED BY <2>3, <3>1, <3>2 DEF NextLen
  <2>7. /\ Layout[l + 1].start = Layout[l].start + p /\ Layout[l + 1].len = x
    BY <1>4, <2>2, <2>6
  <2>8. Layout[l].start \in Nat /\ Layout[l].start % 2 = 0 /\ p \in Nat
    BY <1>4, <2>3, <2>4
  <2> HIDE DEF w, v, p, x
  <2>9. Layout[l + 1].start \in Nat /\ Layout[l + 1].start % 2 = 0
    <3> DEFINE s == Layout[l].start
    <3>1. s \in Nat /\ s % 2 = 0 /\ p \in Nat /\ p % 2 = 0
      BY <2>4, <2>8
    <3> HIDE DEF s
    <3>2. s + p \in Nat /\ (s + p) % 2 = 0
      BY <3>1
    <3> QED BY <2>7, <3>2 DEF s
  <2> QED BY <2>6, <2>7, <2>9 DEF x
<1>5. 0 .. h \subseteq A
  <2>1. \A l \in 0 .. h - 1 : l \in A => l + 1 \in A
    <3> HIDE DEF Good
    <3> QED BY <1>1, <1>4
  <2> HIDE DEF A
  <2>9. Climbs(A, h)
    BY <1>1, <1>3, <2>1 DEF Climbs
  <2> QED BY <2>9, UpTo
<1> QED BY <1>1, <1>5

\* The vector v holds the levels below h, each with its padding.
Stacked(v, h) ==
  \A l \in 0 .. h - 1 :
    /\ Layout[l].start + PaddedWidth(l) <= Len(v)
    /\ \A k \in 1 .. PaddedWidth(l) : v[Layout[l].start + k] = Padded(Level[l])[k]

\* new() has paired the levels below height, and its queue is the next one.
Growing ==
  /\ height \in Levels /\ Reached(height) /\ Stacked(hashes, height)
  /\ Len(hashes) = Layout[height].start
  /\ Len(Level[height]) + height <= Len(data) + 1
  /\ queue = IF height = 0 THEN Padded(data) ELSE Level[height]

\* The root is on the levels below it.
Finished ==
  /\ height \in Nat /\ Top \in Levels /\ Top # 0 /\ Reached(Top) /\ Stacked(hashes, Top)
  /\ Len(Level[Top]) = 1
  /\ Len(hashes) = Layout[Top].start + 1 /\ hashes[Len(hashes)] = Level[Top][1]

TreeInv ==
  /\ data \in Seq(Leaves)
  /\ IF data = << >> THEN built /\ hashes = << >> /\ height = 0
     ELSE /\ count = Len(Padded(data)) /\ hashes \in Seq(Hashes) /\ built \in BOOLEAN
          /\ built => Finished
          /\ ~built => Growing

\* The tree of the definition depends on the data alone.
LEMMA SameTree ==
  ASSUME UNCHANGED <<data, count>>
  PROVE  /\ Levels' = Levels /\ Level' = Level /\ Layout' = Layout /\ Hashes' = Hashes
<1>1. Levels' = Levels
  BY DEF Levels
<1>2. Level' = Level
  BY <1>1 DEF Level
<1>3. Layout' = Layout
  BY <1>1 DEF Layout
<1> QED BY <1>1, <1>2, <1>3 DEF Hashes

\* The inductive invariant holds before the first level is built.
LEMMA InitTree == ASSUME Init PROVE TreeInv
<1>1. data \in Seq(Leaves)
  <2>1. PICK m \in 0 .. MaxLeaves : data \in [1 .. m -> Leaves]
    BY DEF Init, BoundedSeq, SeqOf
  <2>2. m \in Nat
    BY MerkleAssumption
  <2> QED BY <2>1, <2>2
<1>2. CASE data = << >>
  BY <1>1, <1>2 DEF Init, TreeInv
<1>3. CASE data # << >>
  <2>1. /\ count = Len(Padded(data)) /\ queue = Padded(data) /\ hashes = << >>
        /\ height = 0 /\ built = FALSE
    BY <1>3 DEF Init
  <2>2. Level[0] = data /\ Layout[0].start = 0 /\ 0 \in Levels
    BY <1>1, LevelUnfolds, LayoutUnfolds DEF Levels
  <2>3. Reached(0) /\ Stacked(hashes, 0)
    BY DEF Reached, Stacked
  <2>4. Growing
    <3>1. Len(hashes) = 0 /\ Len(data) \in Nat
      BY <1>1, <2>1
    <3>2. Len(Level[height]) + height <= Len(data) + 1
      BY <2>1, <2>2, <3>1
    <3> QED BY <2>1, <2>2, <2>3, <3>1, <3>2 DEF Growing
  <2>5. hashes \in Seq(Hashes)
    BY <2>1
  <2> QED BY <1>1, <1>3, <2>1, <2>4, <2>5 DEF TreeInv
<1> QED BY <1>2, <1>3

\* What a concatenation holds.
LEMMA ConcatFacts ==
  ASSUME NEW S, NEW s \in Seq(S), NEW t \in Seq(S)
  PROVE  /\ s \o t \in Seq(S) /\ Len(s \o t) = Len(s) + Len(t)
         /\ Len(s) \in Nat /\ Len(t) \in Nat
         /\ \A k \in 1 .. Len(s) : (s \o t)[k] = s[k]
         /\ \A k \in 1 .. Len(t) : (s \o t)[Len(s) + k] = t[k]
  OBVIOUS

\* Levels that are in the vector stay where they are when it is extended.
LEMMA StackedStays ==
  ASSUME data \in Seq(Leaves), data # << >>, count = Len(Padded(data)),
         NEW h \in Levels, Reached(h), NEW v, NEW w, Stacked(v, h),
         Len(v) \in Nat, Len(w) \in Nat, Len(v) <= Len(w), \A k \in 1 .. Len(v) : w[k] = v[k]
  PROVE  Stacked(w, h)
<1> SUFFICES ASSUME NEW l \in 0 .. h - 1
             PROVE  /\ Layout[l].start + PaddedWidth(l) <= Len(w)
                    /\ \A k \in 1 .. PaddedWidth(l) :
                          w[Layout[l].start + k] = Padded(Level[l])[k]
  BY DEF Stacked
<1>1. /\ Layout[l].start + PaddedWidth(l) <= Len(v)
      /\ \A k \in 1 .. PaddedWidth(l) : v[Layout[l].start + k] = Padded(Level[l])[k]
  BY DEF Stacked
<1>2. Layout[l].start \in Nat /\ PaddedWidth(l) \in Nat
  <2>1. l \in Levels /\ Reached(l)
    BY DEF Levels, Reached
  <2> QED BY <2>1, LayoutFacts
<1>3. ASSUME NEW k \in 1 .. PaddedWidth(l)
      PROVE  w[Layout[l].start + k] = Padded(Level[l])[k]
  <2>1. Layout[l].start + k \in 1 .. Len(v)
    <3> DEFINE s == Layout[l].start
               n == PaddedWidth(l)
               m == Len(v)
    <3>1. s \in Nat /\ n \in Nat /\ s + n <= m /\ k \in 1 .. n /\ m \in Nat
      BY <1>1, <1>2
    <3> HIDE DEF s, n, m
    <3>2. s + k \in 1 .. m
      BY <3>1
    <3> QED BY <3>2 DEF s, m
  <2> QED BY <1>1, <2>1
<1>4. Layout[l].start + PaddedWidth(l) <= Len(w)
  BY <1>1, <1>2
<1> QED BY <1>3, <1>4

\* An iteration of the loop in new() adds a level of the definition to the vector.
LEMMA BuildLevelStep == ASSUME TreeInv, BuildLevel PROVE TreeInv'
<1>1. /\ data \in Seq(Leaves) /\ data # << >> /\ count = Len(Padded(data))
      /\ hashes \in Seq(Hashes) /\ Growing
      /\ Len(queue) > 1 /\ UNCHANGED <<data, count, built>> /\ ~built
      /\ hashes' = hashes \o Padded(queue) /\ queue' = Parents(Padded(queue))
      /\ height' = height + 1
  BY DEF TreeInv, BuildLevel
<1> PICK h \in Levels : h = height
  BY <1>1 DEF Growing
<1>2. /\ Reached(h) /\ Stacked(hashes, h) /\ Len(hashes) = Layout[h].start
      /\ Len(Level[h]) + h <= Len(data) + 1
      /\ queue = IF h = 0 THEN Padded(data) ELSE Level[h]
  BY <1>1 DEF Growing
<1>3. Levels = 0 .. Len(data) /\ Len(data) \in Nat \ {0} /\ h \in Nat
  BY <1>1 DEF Levels
<1>4. Level[0] = data /\ Level[h] \in Seq(Hashes) /\ Level[h] # << >>
  BY <1>1, LevelUnfolds, LevelFacts
<1> DEFINE p == Padded(Level[h])
           k == h + 1
<1>5. p \in Seq(Hashes) /\ Len(p) \in {Len(Level[h]), Len(Level[h]) + 1} /\ Len(p) % 2 = 0
  BY <1>4, PaddedFacts
<1>6. Padded(queue) = p
  <2>1. CASE h = 0
    <3>1. queue = p
      BY <1>2, <1>4, <2>1
    <3> QED BY <1>5, <3>1 DEF Padded
  <2>2. CASE h # 0
    BY <1>2, <2>2
  <2> QED BY <2>1, <2>2
<1>7. h # 0 => Len(Level[h]) > 1
  BY <1>1, <1>2
<1>8. k \in Levels /\ k # 0 /\ k - 1 = h
  <2>1. Len(Level[h]) \in Nat
    BY <1>4
  <2> QED BY <1>2, <1>3, <1>7, <2>1
<1>9. Reached(k)
  BY <1>2, <1>3, <1>7 DEF Reached
<1>10. /\ PaddedWidth(h) = Len(p) /\ Layout[h].len = Len(p) /\ Layout[h].start \in Nat
  <2>1. ~ (h # 0 /\ Len(Level[h]) = 1)
    <3> DEFINE w == Len(Level[h])
    <3>1. h # 0 => w > 1
      BY <1>7
    <3> HIDE DEF w
    <3>2. ~ (h # 0 /\ w = 1)
      BY <3>1
    <3> QED BY <3>2 DEF w
  <2>2. PaddedWidth(h) = Len(p)
    BY <2>1 DEF PaddedWidth
  <2>3. Layout[h].len = PaddedWidth(h) /\ Layout[h].start \in Nat
    BY <1>1, <1>2, LayoutFacts
  <2> QED BY <2>2, <2>3
<1> HIDE DEF k
<1>11. Level[k] = Parents(p) /\ Len(Level[k]) = (Len(Level[h]) + 1) \div 2
  <2>1. Level[k] = Above(Level[k - 1]) /\ Len(Level[k]) = (Len(Level[k - 1]) + 1) \div 2
    BY <1>1, <1>8, LevelUnfolds, LevelFacts
  <2>2. Parents(p) = Above(Level[h])
    BY <1>4, ParentsAreAbove
  <2> QED BY <1>8, <2>1, <2>2
<1>12. Layout[k].start = Layout[h].start + Len(p)
  <2>1. Layout[k] = [start |-> Layout[k - 1].start + Layout[k - 1].len,
                     len |-> NextLen(Layout[k - 1].len), div |-> Layout[k - 1].div * 2]
    BY <1>1, <1>8, LayoutUnfolds
  <2>2. Layout[k].start = Layout[k - 1].start + Layout[k - 1].len
    BY <2>1
  <2> QED BY <1>8, <1>10, <2>2
<1>13. /\ hashes' \in Seq(Hashes) /\ Len(hashes') = Len(hashes) + Len(p)
       /\ \A i \in 1 .. Len(hashes) : hashes'[i] = hashes[i]
       /\ \A i \in 1 .. Len(p) : hashes'[Len(hashes) + i] = p[i]
       /\ Len(hashes) \in Nat /\ Len(p) \in Nat
  <2>1. hashes' = hashes \o p
    BY <1>1, <1>6
  <2> HIDE DEF p
  <2> QED BY <1>1, <1>5, <2>1, ConcatFacts
<1>14. Stacked(hashes', k)
  <2>1. Stacked(hashes', h)
    <3> HIDE DEF p
    <3>1. Len(hashes) <= Len(hashes') /\ Len(hashes') \in Nat
      BY <1>13
    <3> QED BY <1>1, <1>2, <1>13, <3>1, StackedStays
  <2>2. /\ Layout[h].start + PaddedWidth(h) <= Len(hashes')
        /\ \A i \in 1 .. PaddedWidth(h) : hashes'[Layout[h].start + i] = Padded(Level[h])[i]
    BY <1>2, <1>10, <1>13
  <2> HIDE DEF p
  <2>3. \A l \in 0 .. k - 1 : l = h \/ l \in 0 .. h - 1
    BY <1>3, <1>8
  <2> QED BY <2>1, <2>2, <2>3 DEF Stacked
<1>15. Len(Level[k]) + k <= Len(data) + 1
  <2> DEFINE w == Len(Level[h])
             v == Len(Level[k])
             n == Len(data)
  <2>1. /\ w \in Nat \ {0} /\ v = (w + 1) \div 2 /\ n \in Nat \ {0} /\ h \in Nat /\ k = h + 1
        /\ w + h <= n + 1 /\ (h # 0 => w > 1) /\ (h = 0 => w = n)
    BY <1>2, <1>3, <1>4, <1>7, <1>11 DEF k
  <2> HIDE DEF w, v, n
  <2>2. v + k <= n + 1
    BY <2>1
  <2> QED BY <2>2 DEF v, n
<1>16. Levels' = Levels /\ Level' = Level /\ Layout' = Layout /\ Hashes' = Hashes
  BY <1>1, SameTree
<1>17. Growing'
  <2>1. queue' = Level[k] /\ height' = k
    BY <1>1, <1>6, <1>11 DEF k
  <2>2. Len(hashes') = Layout[k].start
    BY <1>2, <1>12, <1>13
  <2> HIDE DEF p
  <2>3. Reached(height)'
    BY <1>9, <1>16, <2>1 DEF Reached
  <2>4. Stacked(hashes, height)'
    BY <1>14, <1>16, <2>1 DEF Stacked, PaddedWidth
  <2>5. Len(Level'[k]) + k <= Len(data') + 1
    BY <1>1, <1>15, <1>16
  <2> QED BY <1>8, <1>16, <2>1, <2>2, <2>3, <2>4, <2>5 DEF Growing
<1> QED BY <1>1, <1>13, <1>16, <1>17 DEF TreeInv

\* The end of new() adds the root.
LEMMA BuildRootStep == ASSUME TreeInv, BuildRoot PROVE TreeInv'
<1>1. /\ data \in Seq(Leaves) /\ data # << >> /\ count = Len(Padded(data))
      /\ hashes \in Seq(Hashes) /\ Growing
      /\ Len(queue) = 1 /\ UNCHANGED <<data, count>> /\ built' = TRUE
      /\ hashes' = hashes \o queue /\ height' = height + 1
  BY DEF TreeInv, BuildRoot
<1> PICK h \in Levels : h = height
  BY <1>1 DEF Growing
<1>2. /\ Reached(h) /\ Stacked(hashes, h) /\ Len(hashes) = Layout[h].start
      /\ queue = IF h = 0 THEN Padded(data) ELSE Level[h]
  BY <1>1 DEF Growing
<1>3. h # 0
  <2>1. Len(Padded(data)) % 2 = 0
    BY <1>1, PaddedFacts
  <2>2. Len(Padded(data)) # 1
    <3> DEFINE n == Len(Padded(data))
    <3>1. n % 2 = 0
      BY <2>1
    <3> HIDE DEF n
    <3>2. n # 1
      BY <3>1
    <3> QED BY <3>2 DEF n
  <2> QED BY <1>1, <1>2, <2>2
<1>4. queue = Level[h] /\ Level[h] \in Seq(Hashes)
  BY <1>1, <1>2, <1>3, LevelFacts
<1>5. /\ hashes' \in Seq(Hashes) /\ Len(hashes') = Len(hashes) + 1
      /\ \A i \in 1 .. Len(hashes) : hashes'[i] = hashes[i]
      /\ hashes'[Len(hashes) + 1] = Level[h][1]
      /\ Len(hashes) \in Nat
  <2> DEFINE q == Level[h]
  <2>1. hashes' = hashes \o q /\ q \in Seq(Hashes) /\ Len(q) = 1 /\ hashes \in Seq(Hashes)
    BY <1>1, <1>4
  <2> HIDE DEF q
  <2>2. 1 \in 1 .. Len(q)
    BY <2>1
  <2>3. /\ hashes' \in Seq(Hashes) /\ Len(hashes') = Len(hashes) + Len(q)
        /\ \A i \in 1 .. Len(hashes) : hashes'[i] = hashes[i]
        /\ \A i \in 1 .. Len(q) : hashes'[Len(hashes) + i] = q[i]
        /\ Len(hashes) \in Nat
    <3> DEFINE both == hashes \o q
    <3>1. /\ both \in Seq(Hashes) /\ Len(both) = Len(hashes) + Len(q)
          /\ \A i \in 1 .. Len(hashes) : both[i] = hashes[i]
          /\ \A i \in 1 .. Len(q) : both[Len(hashes) + i] = q[i]
          /\ Len(hashes) \in Nat
      <4>1. q \in Seq(Hashes) /\ hashes \in Seq(Hashes)
        BY <2>1
      <4> QED BY <4>1, ConcatFacts
    <3> HIDE DEF both
    <3>2. hashes' = both
      BY <2>1 DEF both
    <3> QED BY <3>1, <3>2
  <2>4. hashes'[Len(hashes) + 1] = q[1]
    BY <2>2, <2>3
  <2>5. Len(hashes') = Len(hashes) + 1
    BY <2>1, <2>3
  <2>6. hashes'[Len(hashes) + 1] = Level[h][1]
    BY <2>4 DEF q
  <2> QED BY <2>3, <2>5, <2>6
<1>6. Stacked(hashes', h)
  <2>1. Len(hashes) <= Len(hashes') /\ Len(hashes') \in Nat
    BY <1>5
  <2> QED BY <1>1, <1>2, <1>5, <2>1, StackedStays
<1>7. Levels' = Levels /\ Level' = Level /\ Layout' = Layout /\ Hashes' = Hashes
  BY <1>1, SameTree
<1>8. Finished'
  <2>1. h \in Nat /\ height' = h + 1
    BY <1>1 DEF Levels
  <2>2. Top' = h
    BY <2>1 DEF Top
  <2>3. Reached(Top)'
    BY <1>2, <1>7, <2>2 DEF Reached
  <2>4. Stacked(hashes, Top)'
    BY <1>6, <1>7, <2>2 DEF Stacked, PaddedWidth
  <2>5. /\ Len(Level'[h]) = 1
        /\ Len(hashes') = Layout'[h].start + 1 /\ hashes'[Len(hashes')] = Level'[h][1]
    BY <1>1, <1>2, <1>4, <1>5, <1>7
  <2> QED BY <1>3, <1>7, <2>1, <2>2, <2>3, <2>4, <2>5 DEF Finished
<1> QED BY <1>1, <1>5, <1>7, <1>8 DEF TreeInv

\* Every tree of new() is the one of the definition, in all its states.
THEOREM TreeGrows == Spec => []TreeInv
<1>1. Init => TreeInv
  BY InitTree
<1>2. TreeInv /\ [Next]_vars => TreeInv'
  <2> SUFFICES ASSUME TreeInv, [Next]_vars PROVE TreeInv'
    OBVIOUS
  <2>1. CASE BuildLevel
    BY <2>1, BuildLevelStep
  <2>2. CASE BuildRoot
    BY <2>2, BuildRootStep
  <2>3. CASE UNCHANGED vars
    <3>1. UNCHANGED <<data, queue, hashes, height, count, built>>
      BY <2>3 DEF vars
    <3>2. Levels' = Levels /\ Level' = Level /\ Layout' = Layout /\ Hashes' = Hashes
      BY <3>1, SameTree
    <3>3. Top' = Top
      BY <3>1 DEF Top
    <3>4. (Reached(height)' <=> Reached(height)) /\ (Reached(Top)' <=> Reached(Top))
      BY <3>1, <3>2, <3>3 DEF Reached
    <3>5. /\ Stacked(hashes, height)' <=> Stacked(hashes, height)
          /\ Stacked(hashes, Top)' <=> Stacked(hashes, Top)
      BY <3>1, <3>2, <3>3 DEF Stacked, PaddedWidth
    <3>6. Finished' <=> Finished
      BY <3>1, <3>2, <3>3, <3>4, <3>5 DEF Finished
    <3>7. Growing' <=> Growing
      BY <3>1, <3>2, <3>4, <3>5 DEF Growing
    <3> QED BY <3>1, <3>2, <3>6, <3>7 DEF TreeInv
  <2> QED BY <2>1, <2>2, <2>3 DEF Next
<1> QED BY <1>1, <1>2, PTL DEF Spec

-----------------------------------------------------------------------------
\* Where the way of a leaf lies: the arithmetic of proof().

\* A quotient is the one number of times the divisor fits.
LEMMA QuotientIs ==
  ASSUME NEW a \in Nat, NEW b \in Nat \ {0}, NEW c \in Nat, b * c <= a, a < b * c + b
  PROVE  a \div b = c
<1> DEFINE q == a \div b
<1>1. q \in Nat /\ b * q <= a /\ a < b * q + b
  OBVIOUS
<1> HIDE DEF q
<1>2. ~ (q < c)
  <2> SUFFICES ASSUME q < c PROVE FALSE
    OBVIOUS
  <2>1. b * (q + 1) <= b * c
    <3>1. q + 1 <= c
      BY <1>1
    <3> QED BY <1>1, <3>1
  <2>2. b * (q + 1) = b * q + b
    BY <1>1
  <2> QED BY <1>1, <2>1, <2>2
<1>3. ~ (c < q)
  <2> SUFFICES ASSUME c < q PROVE FALSE
    OBVIOUS
  <2>1. b * (c + 1) <= b * q
    <3>1. c + 1 <= q
      BY <1>1
    <3> QED BY <1>1, <3>1
  <2>2. b * (c + 1) = b * c + b
    OBVIOUS
  <2> QED BY <1>1, <2>1, <2>2
<1>4. q = c
  BY <1>1, <1>2, <1>3
<1> QED BY <1>4 DEF q

\* Halving a quotient doubles the divisor.
LEMMA HalfOfQuotient ==
  ASSUME NEW x \in Nat, NEW d \in Nat \ {0}
  PROVE  x \div (d * 2) = (x \div d) \div 2
<1> DEFINE u == x \div d
           v == u \div 2
<1>1. u \in Nat /\ d * u <= x /\ x < d * u + d
  OBVIOUS
<1> HIDE DEF u
<1>2. v \in Nat /\ (u = v + v \/ u = v + v + 1)
  BY <1>1
<1> HIDE DEF v
<1>3. d * v \in Nat /\ (d * u = d * v + d * v \/ d * u = d * v + d * v + d)
  <2>1. d * (v + v) = d * v + d * v /\ d * (v + v + 1) = d * v + d * v + d
    BY <1>2
  <2>2. d * v \in Nat
    BY <1>2
  <2> QED BY <1>2, <2>1, <2>2
<1>4. (d * 2) * v = d * v + d * v
  BY <1>2
<1>5. (d * 2) * v <= x /\ x < (d * 2) * v + d * 2
  BY <1>1, <1>3, <1>4
<1>6. d * 2 \in Nat \ {0}
  OBVIOUS
<1>7. x \div (d * 2) = v
  BY <1>2, <1>5, <1>6, QuotientIs
<1> QED BY <1>7 DEF v, u

\* A level below the root has an even width, and its padding repeats its last hash.
LEMMA WidthFacts ==
  ASSUME data \in Seq(Leaves), data # << >>, Top \in Levels, Reached(Top),
         NEW l \in 0 .. Top - 1
  PROVE  /\ l \in Levels /\ Len(Level[l]) \in Nat \ {0} /\ Level[l] \in Seq(Hashes)
         /\ PaddedWidth(l) \in {Len(Level[l]), Len(Level[l]) + 1} /\ PaddedWidth(l) % 2 = 0
         /\ \A k \in 1 .. Len(Level[l]) : Padded(Level[l])[k] = Level[l][k]
         /\ PaddedWidth(l) = Len(Level[l]) + 1
              => Padded(Level[l])[Len(Level[l]) + 1] = Level[l][Len(Level[l])]
<1>1. l \in Levels /\ Top \in Nat
  BY DEF Levels
<1>2. Level[l] \in Seq(Hashes) /\ Level[l] # << >>
  BY <1>1, LevelFacts
<1>3. ~ (l # 0 /\ Len(Level[l]) = 1)
  <2> DEFINE w == Len(Level[l])
  <2>1. l # 0 => w > 1
    BY <1>1 DEF Reached
  <2> HIDE DEF w
  <2>2. ~ (l # 0 /\ w = 1)
    BY <2>1
  <2> QED BY <2>2 DEF w
<1>4. PaddedWidth(l) = Len(Padded(Level[l]))
  BY <1>3 DEF PaddedWidth
<1>5. Len(Level[l]) \in Nat \ {0}
  BY <1>2
<1> QED BY <1>1, <1>2, <1>4, <1>5, PaddedFacts

\* The place on a level is the quotient that proof() computes, and is on the level.
LEMMA PlaceFacts ==
  ASSUME data \in Seq(Leaves), data # << >>, NEW index \in Indices, NEW h \in Levels
  PROVE  /\ Layout[h].div \in Nat \ {0}
         /\ Place(index)[h] = index \div Layout[h].div + 1
         /\ Place(index)[h] \in 1 .. Len(Level[h])
<1> DEFINE Good(l) == /\ Layout[l].div \in Nat \ {0}
                      /\ Place(index)[l] = index \div Layout[l].div + 1
                      /\ Place(index)[l] \in 1 .. Len(Level[l])
           A == {l \in 0 .. h : Good(l)}
<1>1. h \in Nat /\ 0 .. h \subseteq Levels /\ index \in Nat /\ index + 1 \in 1 .. Len(data)
  BY DEF Levels, Indices
<1>2. 0 \in A
  <2>1. Layout[0].div = 1 /\ Place(index)[0] = index + 1 /\ Level[0] = data
    BY LayoutUnfolds, PlaceUnfolds, LevelUnfolds
  <2>2. index \div 1 = index
    BY <1>1
  <2> QED BY <1>1, <2>1, <2>2
<1>3. ASSUME NEW l \in 0 .. h - 1, Good(l) PROVE Good(l + 1)
  <2> DEFINE k == l + 1
             d == Layout[l].div
             p == Place(index)[l]
             w == Len(Level[l])
             v == Len(Level[k])
  <2>1. k \in Levels /\ k # 0 /\ k - 1 = l /\ l \in Levels
    BY <1>1
  <2> HIDE DEF k
  <2>2. Layout[k].div = d * 2
    <3>1. Layout[k] = [start |-> Layout[k - 1].start + Layout[k - 1].len,
                       len |-> NextLen(Layout[k - 1].len), div |-> Layout[k - 1].div * 2]
      BY <2>1, LayoutUnfolds
    <3>2. Layout[k].div = Layout[k - 1].div * 2
      BY <3>1
    <3> QED BY <2>1, <3>2
  <2>3. Place(index)[k] = (p + 1) \div 2
    <3>1. Place(index)[k] = (Place(index)[k - 1] + 1) \div 2
      BY <2>1, PlaceUnfolds
    <3> QED BY <2>1, <3>1
  <2>4. v = (w + 1) \div 2 /\ w \in Nat
    <3>1. Len(Level[k]) = (Len(Level[k - 1]) + 1) \div 2
      BY <2>1, LevelFacts
    <3>2. Level[l] \in Seq(Hashes)
      BY <2>1, LevelFacts
    <3> QED BY <2>1, <3>1, <3>2
  <2>5. d \in Nat \ {0} /\ p = index \div d + 1 /\ p \in 1 .. w
    BY <1>3
  <2> HIDE DEF d, p, w, v
  <2>6. index \div (d * 2) = (index \div d) \div 2
    BY <1>1, <2>5, HalfOfQuotient
  <2>7. (p + 1) \div 2 = (index \div d) \div 2 + 1
    <3> DEFINE u == index \div d
    <3>1. p = u + 1 /\ u \in Int
      BY <1>1, <2>5
    <3> HIDE DEF u
    <3>2. (p + 1) \div 2 = u \div 2 + 1
      BY <3>1
    <3> QED BY <3>2 DEF u
  <2>8. (p + 1) \div 2 \in 1 .. v
    BY <2>4, <2>5
  <2>9. d * 2 \in Nat \ {0}
    BY <2>5
  <2> QED BY <2>2, <2>3, <2>6, <2>7, <2>8, <2>9 DEF k, v
<1>4. 0 .. h \subseteq A
  <2>1. \A l \in 0 .. h - 1 : l \in A => l + 1 \in A
    <3> HIDE DEF Good
    <3> QED BY <1>1, <1>3
  <2> HIDE DEF A
  <2>9. Climbs(A, h)
    BY <1>1, <1>2, <2>1 DEF Climbs
  <2> QED BY <2>9, UpTo
<1> QED BY <1>1, <1>4

\* The sibling of the k-th hash of a level; the last one may be its own.
SiblingPlace(l, k) == IF k % 2 = 0 THEN k - 1 ELSE IF k < Len(Level[l]) THEN k + 1 ELSE k

\* proof() reads the sibling on each level.
LEMMA SiblingRead ==
  ASSUME TreeInv, built, data # << >>, NEW index \in Indices, NEW l \in 0 .. Top - 1
  PROVE  /\ Sibling(At(index, l)) \in 0 .. Len(hashes) - 1
         /\ hashes[Sibling(At(index, l)) + 1] = Level[l][SiblingPlace(l, Place(index)[l])]
         /\ SiblingPlace(l, Place(index)[l]) \in 1 .. Len(Level[l])
<1>1. /\ data \in Seq(Leaves) /\ count = Len(Padded(data)) /\ hashes \in Seq(Hashes) /\ Finished
  BY DEF TreeInv
<1>2. Top \in Levels /\ Reached(Top) /\ Stacked(hashes, Top)
  BY <1>1 DEF Finished
<1> DEFINE s == Layout[l].start
           k == Place(index)[l]
           n == Len(Level[l])
           w == PaddedWidth(l)
           q == Padded(Level[l])
           i == Sibling(At(index, l))
           m == Len(hashes)
<1>3. /\ l \in Levels /\ n \in Nat \ {0} /\ w \in {n, n + 1} /\ w % 2 = 0
      /\ \A j \in 1 .. n : q[j] = Level[l][j]
      /\ w = n + 1 => q[n + 1] = Level[l][n]
  BY <1>1, <1>2, WidthFacts
<1>4. s \in Nat /\ s % 2 = 0
  <2>1. Reached(l)
    BY <1>2 DEF Reached, Levels
  <2> QED BY <1>1, <1>3, <2>1, LayoutFacts
<1>5. k = index \div Layout[l].div + 1 /\ k \in 1 .. n
  BY <1>1, <1>3, PlaceFacts
<1>6. s + w <= m /\ \A j \in 1 .. w : hashes[s + j] = q[j]
  BY <1>2 DEF Stacked
<1>7. m \in Nat
  BY <1>1
<1>8. At(index, l) = s + (k - 1)
  <2> DEFINE u == index \div Layout[l].div
  <2>1. k = u + 1 /\ At(index, l) = s + u /\ u \in Int
    <3>1. index \in Int /\ Layout[l].div \in Nat \ {0}
      BY <1>1, <1>3, PlaceFacts DEF Indices
    <3>2. u \in Int
      BY <3>1
    <3> QED BY <1>5, <3>2 DEF At
  <2> HIDE DEF u, k, s
  <2> QED BY <2>1
<1>9. i = IF k % 2 = 0 THEN s + k - 2 ELSE s + k
  <2> HIDE DEF s, k
  <2>1. k \in Nat /\ s \in Nat
    BY <1>4, <1>5
  <2>2. (s + (k - 1)) % 2 = 0 <=> k % 2 # 0
    <3>1. s + (k - 1) \in Int /\ k - 1 \in Int
      BY <2>1
    <3>2. (s + (k - 1)) % 2 = (k - 1) % 2
      BY <1>4, <2>1
    <3>3. (k - 1) % 2 = 0 <=> k % 2 # 0
      BY <2>1
    <3> QED BY <3>2, <3>3
  <2> DEFINE a == At(index, l)
  <2>3. i = IF k % 2 = 0 THEN a - 1 ELSE a + 1
    BY <1>8, <2>2 DEF Sibling
  <2>4. a = s + (k - 1)
    BY <1>8
  <2> HIDE DEF a, i
  <2> QED BY <2>1, <2>3, <2>4
<1> DEFINE t == SiblingPlace(l, k)
<1>10. t = IF k % 2 = 0 THEN k - 1 ELSE IF k < n THEN k + 1 ELSE k
  BY DEF SiblingPlace
<1> HIDE DEF s, k, n, w, q, i, m, t
<1>11. CASE k % 2 = 0
  <2>1. i = s + k - 2 /\ t = k - 1 /\ k - 1 \in 1 .. n /\ k - 1 \in 1 .. w
    BY <1>3, <1>5, <1>9, <1>10, <1>11
  <2>2. i + 1 = s + (k - 1) /\ i \in 0 .. m - 1
    <3>1. k \in Int /\ k - 1 >= 1 /\ k - 1 <= w /\ w \in Int
      BY <1>3, <1>5, <2>1
    <3>2. s + (k - 1) <= m /\ s \in Nat /\ m \in Nat
      BY <1>4, <1>6, <1>7, <3>1
    <3> QED BY <2>1, <3>1, <3>2
  <2> QED BY <1>3, <1>6, <2>1, <2>2 DEF i, t, k, n, m
<1>12. CASE k % 2 # 0 /\ k < n
  <2>1. i = s + k /\ t = k + 1 /\ k + 1 \in 1 .. n /\ k + 1 \in 1 .. w
    BY <1>3, <1>5, <1>9, <1>10, <1>12
  <2>2. i + 1 = s + (k + 1) /\ i \in 0 .. m - 1
    <3>1. k \in Int /\ k + 1 \in Int /\ k >= 1 /\ k + 1 <= w /\ w \in Int
      BY <1>3, <1>5, <2>1
    <3>2. s + (k + 1) <= m /\ s \in Nat /\ m \in Nat
      BY <1>4, <1>6, <1>7, <3>1
    <3> QED BY <2>1, <3>1, <3>2
  <2> QED BY <1>3, <1>6, <2>1, <2>2 DEF i, t, k, n, m
<1>13. CASE k % 2 # 0 /\ ~ (k < n)
  <2>1. i = s + k /\ t = k /\ k = n /\ w = n + 1 /\ n + 1 \in 1 .. w
    BY <1>3, <1>5, <1>9, <1>10, <1>13
  <2>2. i + 1 = s + (n + 1) /\ i \in 0 .. m - 1
    <3>1. n \in Int /\ n >= 1 /\ i = s + n /\ s + (n + 1) <= m /\ s \in Nat /\ m \in Nat
      BY <1>3, <1>4, <1>6, <1>7, <2>1
    <3> QED BY <3>1
  <2>3. hashes[i + 1] = Level[l][t] /\ t \in 1 .. n
    BY <1>3, <1>6, <2>1, <2>2
  <2> QED BY <2>2, <2>3 DEF i, t, k, n, m
<1> QED BY <1>11, <1>12, <1>13

\* The proof of a leaf, whole.
LEMMA proofFacts ==
  ASSUME TreeInv, built, data # << >>, NEW index \in Indices
  PROVE  /\ ~ProofPanics(index)
         /\ Len(proof(index)) = Top /\ Top \in Levels /\ Top \in Nat
         /\ \A h \in 1 .. Top :
              /\ proof(index)[h] = Level[h - 1][SiblingPlace(h - 1, Place(index)[h - 1])]
              /\ SiblingPlace(h - 1, Place(index)[h - 1]) \in 1 .. Len(Level[h - 1])
<1>1. hashes \in Seq(Hashes) /\ height \in Nat /\ height - 1 = Top /\ Top \in Levels /\ Top # 0
  BY DEF TreeInv, Finished, Top
<1>2. Top \in Nat
  BY <1>1 DEF Levels
<1>3. ASSUME NEW h \in 1 .. Top
      PROVE  /\ ProofIndices(index)[h] \in 0 .. Len(hashes) - 1
             /\ hashes[ProofIndices(index)[h] + 1]
                  = Level[h - 1][SiblingPlace(h - 1, Place(index)[h - 1])]
             /\ SiblingPlace(h - 1, Place(index)[h - 1]) \in 1 .. Len(Level[h - 1])
  <2> DEFINE l == h - 1
  <2>1. l \in 0 .. Top - 1
    BY <1>2
  <2>2. ProofIndices(index)[h] = Sibling(At(index, l))
    BY <1>1 DEF ProofIndices
  <2> HIDE DEF l
  <2>3. /\ Sibling(At(index, l)) \in 0 .. Len(hashes) - 1
        /\ hashes[Sibling(At(index, l)) + 1] = Level[l][SiblingPlace(l, Place(index)[l])]
        /\ SiblingPlace(l, Place(index)[l]) \in 1 .. Len(Level[l])
    BY <2>1, SiblingRead
  <2> QED BY <2>2, <2>3 DEF l
<1>4. DOMAIN ProofIndices(index) = 1 .. Top
  BY <1>1 DEF ProofIndices
<1>5. ~ProofPanics(index)
  <2>1. Len(hashes) \in Nat /\ height # 0
    BY <1>1, <1>2
  <2>2. ASSUME NEW i \in ToSet(ProofIndices(index)) PROVE ~ (i >= Len(hashes))
    <3>1. PICK h \in 1 .. Top : i = ProofIndices(index)[h]
      BY <1>4 DEF ToSet
    <3>2. i \in 0 .. Len(hashes) - 1
      BY <1>3, <3>1
    <3> QED BY <2>1, <3>2
  <2> QED BY <2>1, <2>2 DEF ProofPanics
<1>6. proof(index) = [h \in 1 .. Top |-> hashes[ProofIndices(index)[h] + 1]]
  BY <1>4 DEF proof
<1>7. Len(proof(index)) = Top
  <2> DEFINE p == proof(index)
  <2>1. p \in [1 .. Top -> Hashes]
    <3>1. ASSUME NEW h \in 1 .. Top PROVE hashes[ProofIndices(index)[h] + 1] \in Hashes
      <4>1. ProofIndices(index)[h] + 1 \in 1 .. Len(hashes)
        <5> DEFINE i == ProofIndices(index)[h]
        <5>1. i \in 0 .. Len(hashes) - 1 /\ Len(hashes) \in Nat
          BY <1>1, <1>3
        <5> HIDE DEF i
        <5>2. i + 1 \in 1 .. Len(hashes)
          BY <5>1
        <5> QED BY <5>2 DEF i
      <4> QED BY <1>1, <4>1
    <3> QED BY <1>6, <3>1
  <2> HIDE DEF p
  <2>2. Len(p) = Top
    BY <1>2, <2>1, LenProperties, SeqDef, ElementOfSeq
  <2> QED BY <2>2 DEF p
<1>8. \A h \in 1 .. Top : proof(index)[h] = Level[h - 1][SiblingPlace(h - 1, Place(index)[h - 1])]
  BY <1>3, <1>6
<1> QED BY <1>1, <1>2, <1>3, <1>5, <1>7, <1>8

\* root() is the one hash of the top level.
LEMMA RootFacts ==
  ASSUME TreeInv, built, data # << >>
  PROVE  Top \in Levels /\ Top # 0 /\ Level[Top] = <<root>> /\ root = Level[Top][1] /\ Reached(Top)
<1>1. /\ data \in Seq(Leaves) /\ hashes \in Seq(Hashes) /\ Top \in Levels /\ Top # 0
      /\ Reached(Top) /\ Len(Level[Top]) = 1 /\ hashes[Len(hashes)] = Level[Top][1]
      /\ count = Len(Padded(data)) /\ Len(hashes) = Layout[Top].start + 1
  BY DEF TreeInv, Finished
<1>2. Level[Top] \in Seq(Hashes)
  BY <1>1, LevelFacts
<1>3. hashes # << >>
  <2>1. Layout[Top].start \in Nat
    BY <1>1, LayoutFacts
  <2>2. Len(hashes) # 0
    BY <1>1, <2>1
  <2> QED BY <2>2
<1>4. root = Level[Top][1]
  BY <1>1, <1>3 DEF root, Last
<1>5. Level[Top] = <<Level[Top][1]>>
  <2> DEFINE q == Level[Top]
  <2>1. q \in Seq(Hashes) /\ Len(q) = 1
    BY <1>1, <1>2
  <2> HIDE DEF q
  <2>2. q = <<q[1]>>
    BY <2>1
  <2> QED BY <2>2 DEF q
<1> QED BY <1>1, <1>4, <1>5

\* A finished tree is the tree of the definition, and proof() reads siblings.
LEMMA VectorIsTreeHolds == ASSUME TreeInv PROVE VectorIsTree
<1> SUFFICES ASSUME built PROVE RootIsTop /\ ProofIsSiblings
  BY DEF VectorIsTree, RootIsTop, ProofIsSiblings
<1>1. CASE data = << >>
  <2>1. hashes = << >> /\ height = 0
    BY <1>1 DEF TreeInv
  <2>2. Indices = {}
    <3>1. Len(data) = 0
      BY <1>1
    <3> QED BY <3>1 DEF Indices
  <2>3. ProofPanics(0)
    BY <2>1 DEF ProofPanics
  <2> QED BY <1>1, <2>1, <2>2, <2>3 DEF RootIsTop, ProofIsSiblings, root
<1>2. CASE data # << >>
  <2>1. RootIsTop
    <3>1. Top \in Levels /\ Top # 0 /\ Level[Top] = <<root>> /\ Reached(Top)
      BY <1>2, RootFacts
    <3>2. Top = 1 \/ Len(Level[Top - 1]) > 1
      <4>1. Top # 1 => Top - 1 \in 1 .. Top - 1
        BY <3>1 DEF Levels
      <4> QED BY <3>1, <4>1 DEF Reached
    <3> QED BY <1>2, <3>1, <3>2 DEF RootIsTop
  <2>2. ASSUME NEW index \in Indices
        PROVE  /\ ~ProofPanics(index)
               /\ Len(proof(index)) = Top
               /\ \A h \in 1 .. Top :
                    LET k == Place(index)[h - 1]
                        q == Level[h - 1]
                    IN  proof(index)[h] = q[IF k % 2 = 0 THEN k - 1
                                            ELSE IF k < Len(q) THEN k + 1 ELSE k]
    BY <1>2, proofFacts DEF SiblingPlace
  <2>3. ProofIsSiblings
    BY <1>2, <2>2 DEF ProofIsSiblings
  <2> QED BY <2>1, <2>3
<1> QED BY <1>1, <1>2

\* new() builds the tree of the definition and proof() reads the siblings of the leaf's
\* way from it, for data of every length (merkle.rs, MerkleTree::new and ::proof).
THEOREM VectorHoldsTree == Spec => []VectorIsTree
<1>1. TreeInv => VectorIsTree
  BY VectorIsTreeHolds
<1> QED BY <1>1, TreeGrows, PTL

-----------------------------------------------------------------------------
\* The way of verify() along a proof.

\* The way of verify(), one level from the other.
LEMMA WayUnfolds ==
  ASSUME NEW n \in Nat, NEW up, NEW datum, NEW path, NEW index, IsWay(up, n, datum, path, index)
  PROVE  /\ up[0].hash = datum /\ up[0].index = index
         /\ \A l \in 0 .. n - 1 : up[l + 1] = PairUp(up[l], path[l + 1])
<1>1. up[0].hash = datum /\ up[0].index = index
  <2>1. up[0] = Start(datum, index)
    BY DEF IsWay
  <2> QED BY <2>1 DEF Start
<1>2. ASSUME NEW l \in 0 .. n - 1 PROVE up[l + 1] = PairUp(up[l], path[l + 1])
  <2> DEFINE k == l + 1
  <2>1. k \in 0 .. n /\ k # 0 /\ k - 1 = l
    OBVIOUS
  <2> HIDE DEF k
  <2>2. up[k] = PairUp(up[k - 1], path[k])
    BY <2>1 DEF IsWay
  <2> QED BY <2>1, <2>2 DEF k
<1> QED BY <1>1, <1>2

\* A step of verify() halves the index and pairs by its parity.
LEMMA PairUpFacts ==
  ASSUME NEW at, NEW h
  PROVE  /\ PairUp(at, h).index = at.index \div 2
         /\ at.index % 2 = 0 => PairUp(at, h).hash = <<at.hash, h>>
         /\ at.index % 2 # 0 => PairUp(at, h).hash = <<h, at.hash>>
  BY DEF PairUp, Pair

\* Its index is the place of the leaf on every level, whatever the proof.
LEMMA WayIndex ==
  ASSUME data \in Seq(Leaves), data # << >>, NEW index \in Indices, NEW n \in Levels,
         NEW up, NEW datum, NEW path, IsWay(up, n, datum, path, index)
  PROVE  \A l \in 0 .. n : up[l].index = Place(index)[l] - 1
<1> DEFINE A == {l \in 0 .. n : up[l].index = Place(index)[l] - 1}
<1>1. n \in Nat /\ 0 .. n \subseteq Levels /\ index \in Nat
  BY DEF Levels, Indices
<1>2. 0 \in A
  <2>1. up[0].index = index
    BY <1>1, WayUnfolds
  <2>2. Place(index)[0] = index + 1
    BY PlaceUnfolds
  <2> QED BY <1>1, <2>1, <2>2
<1>3. ASSUME NEW l \in 0 .. n - 1, up[l].index = Place(index)[l] - 1
      PROVE  up[l + 1].index = Place(index)[l + 1] - 1
  <2> DEFINE k == l + 1
             p == Place(index)[l]
  <2>1. k \in Levels /\ k # 0 /\ k - 1 = l /\ l \in Levels
    BY <1>1
  <2>2. up[k] = PairUp(up[l], path[k])
    BY <1>1, WayUnfolds
  <2> HIDE DEF k
  <2>3. up[k].index = (p - 1) \div 2
    BY <1>3, <2>2, PairUpFacts
  <2>4. Place(index)[k] = (p + 1) \div 2
    <3>1. Place(index)[k] = (Place(index)[k - 1] + 1) \div 2
      BY <2>1, PlaceUnfolds
    <3> QED BY <2>1, <3>1
  <2>5. p \in Nat \ {0}
    BY <2>1, PlaceFacts
  <2> HIDE DEF p
  <2>6. (p - 1) \div 2 = (p + 1) \div 2 - 1
    BY <2>5
  <2> QED BY <2>3, <2>4, <2>6 DEF k
<1>4. 0 .. n \subseteq A
  <2>1. \A l \in 0 .. n - 1 : l \in A => l + 1 \in A
    BY <1>1, <1>3
  <2> HIDE DEF A
  <2>9. Climbs(A, n)
    BY <1>1, <1>2, <2>1 DEF Climbs
  <2> QED BY <2>9, UpTo
<1> QED BY <1>4

\* A hash and its sibling are the two halves of the one above them.
LEMMA PairOnLevel ==
  ASSUME data \in Seq(Leaves), data # << >>, NEW l \in Levels, l + 1 \in Levels,
         NEW k \in 1 .. Len(Level[l])
  PROVE  /\ k % 2 # 0 => Level[l + 1][(k + 1) \div 2]
                           = <<Level[l][k], Level[l][SiblingPlace(l, k)]>>
         /\ k % 2 = 0 => Level[l + 1][(k + 1) \div 2]
                           = <<Level[l][SiblingPlace(l, k)], Level[l][k]>>
<1> DEFINE q == Level[l]
           n == Len(q)
           u == (k + 1) \div 2
<1>1. q \in Seq(Hashes) /\ n \in Nat
  <2>1. q \in Seq(Hashes)
    BY LevelFacts
  <2> HIDE DEF q
  <2> QED BY <2>1
<1>2. Level[l + 1] = Above(q)
  <2> DEFINE j == l + 1
  <2>1. j \in Levels /\ j # 0 /\ j - 1 = l
    BY DEF Levels
  <2> HIDE DEF j
  <2>2. Level[j] = Above(Level[j - 1])
    BY <2>1, LevelUnfolds
  <2> QED BY <2>1, <2>2 DEF j
<1> DEFINE s == SiblingPlace(l, k)
<1>3. s = IF k % 2 = 0 THEN k - 1 ELSE IF k < n THEN k + 1 ELSE k
  BY DEF SiblingPlace
<1> HIDE DEF q, s
<1>4. Above(q)[u] = <<q[2 * u - 1], IF 2 * u <= n THEN q[2 * u] ELSE q[2 * u - 1]>>
  <2>1. u \in 1 .. (n + 1) \div 2
    <3>1. k \in 1 .. n
      BY DEF q
    <3> HIDE DEF n
    <3> QED BY <1>1, <3>1
  <2> HIDE DEF u, n
  <2> QED BY <1>1, <2>1, AboveFacts DEF n
<1>5. k \in 1 .. n
  BY DEF q
<1> HIDE DEF n, u
<1>6. CASE k % 2 # 0
  <2>1. 2 * u - 1 = k /\ 2 * u = k + 1
    BY <1>1, <1>5, <1>6 DEF u
  <2>2. 2 * u <= n <=> k < n
    BY <1>1, <1>5, <2>1
  <2>3. Above(q)[u] = <<q[k], q[s]>>
    BY <1>3, <1>4, <1>6, <2>1, <2>2
  <2> QED BY <1>2, <1>6, <2>3 DEF q, s, u
<1>7. CASE k % 2 = 0
  <2>1. 2 * u - 1 = k - 1 /\ 2 * u = k
    BY <1>1, <1>5, <1>7 DEF u
  <2>2. 2 * u <= n
    BY <1>1, <1>5, <2>1
  <2>3. Above(q)[u] = <<q[s], q[k]>>
    BY <1>3, <1>4, <1>7, <2>1, <2>2
  <2> QED BY <1>2, <1>7, <2>3 DEF q, s, u
<1> QED BY <1>6, <1>7

\* One level of the way, for the leaf of the proof: the hash is that of its place.
LEMMA WayUp ==
  ASSUME data \in Seq(Leaves), data # << >>, NEW index \in Indices,
         NEW l \in Levels, l + 1 \in Levels, NEW at, NEW h,
         at.index = Place(index)[l] - 1, at.hash = Level[l][Place(index)[l]],
         h = Level[l][SiblingPlace(l, Place(index)[l])]
  PROVE  PairUp(at, h).hash = Level[l + 1][Place(index)[l + 1]]
<1> DEFINE k == Place(index)[l]
<1>1. k \in 1 .. Len(Level[l]) /\ k \in Nat
  BY PlaceFacts
<1>2. Place(index)[l + 1] = (k + 1) \div 2
  <2> DEFINE j == l + 1
  <2>1. j \in Levels /\ j # 0 /\ j - 1 = l
    BY DEF Levels
  <2> HIDE DEF j
  <2>2. Place(index)[j] = (Place(index)[j - 1] + 1) \div 2
    BY <2>1, PlaceUnfolds
  <2> QED BY <2>1, <2>2 DEF j
<1> HIDE DEF k
<1>3. at.index = k - 1 /\ at.hash = Level[l][k] /\ h = Level[l][SiblingPlace(l, k)]
  BY DEF k
<1>4. at.index % 2 = 0 <=> k % 2 # 0
  BY <1>1, <1>3
<1>5. CASE k % 2 # 0
  <2>1. PairUp(at, h).hash = <<at.hash, h>>
    BY <1>4, <1>5, PairUpFacts
  <2>2. Level[l + 1][(k + 1) \div 2] = <<Level[l][k], Level[l][SiblingPlace(l, k)]>>
    BY <1>1, <1>5, PairOnLevel
  <2> QED BY <1>2, <1>3, <2>1, <2>2
<1>6. CASE k % 2 = 0
  <2>1. PairUp(at, h).hash = <<h, at.hash>>
    BY <1>4, <1>6, PairUpFacts
  <2>2. Level[l + 1][(k + 1) \div 2] = <<Level[l][SiblingPlace(l, k)], Level[l][k]>>
    BY <1>1, <1>6, PairOnLevel
  <2> QED BY <1>2, <1>3, <2>1, <2>2
<1> QED BY <1>5, <1>6

\* And back: with the hash of the place above, whatever the other half is said to be, the
\* hash is that of its place.
LEMMA WayDown ==
  ASSUME data \in Seq(Leaves), data # << >>, NEW index \in Indices,
         NEW l \in Levels, l + 1 \in Levels, NEW at, NEW h,
         at.index = Place(index)[l] - 1,
         PairUp(at, h).hash = Level[l + 1][Place(index)[l + 1]]
  PROVE  at.hash = Level[l][Place(index)[l]]
<1> DEFINE k == Place(index)[l]
<1>1. k \in 1 .. Len(Level[l]) /\ k \in Nat
  BY PlaceFacts
<1>2. Place(index)[l + 1] = (k + 1) \div 2
  <2> DEFINE j == l + 1
  <2>1. j \in Levels /\ j # 0 /\ j - 1 = l
    BY DEF Levels
  <2> HIDE DEF j
  <2>2. Place(index)[j] = (Place(index)[j - 1] + 1) \div 2
    BY <2>1, PlaceUnfolds
  <2> QED BY <2>1, <2>2 DEF j
<1> HIDE DEF k
<1>3. at.index = k - 1
  BY DEF k
<1>4. at.index % 2 = 0 <=> k % 2 # 0
  BY <1>1, <1>3
<1>5. CASE k % 2 # 0
  <2>1. PairUp(at, h).hash = <<at.hash, h>>
    BY <1>4, <1>5, PairUpFacts
  <2>2. Level[l + 1][(k + 1) \div 2] = <<Level[l][k], Level[l][SiblingPlace(l, k)]>>
    BY <1>1, <1>5, PairOnLevel
  <2>3. <<at.hash, h>> = <<Level[l][k], Level[l][SiblingPlace(l, k)]>>
    BY <1>2, <2>1, <2>2
  <2> QED BY <2>3 DEF k
<1>6. CASE k % 2 = 0
  <2>1. PairUp(at, h).hash = <<h, at.hash>>
    BY <1>4, <1>6, PairUpFacts
  <2>2. Level[l + 1][(k + 1) \div 2] = <<Level[l][SiblingPlace(l, k)], Level[l][k]>>
    BY <1>1, <1>6, PairOnLevel
  <2>3. <<h, at.hash>> = <<Level[l][SiblingPlace(l, k)], Level[l][k]>>
    BY <1>2, <2>1, <2>2
  <2> QED BY <2>3 DEF k
<1> QED BY <1>5, <1>6

\* The proof of a leaf leads from it to the root.
LEMMA LeafVerifies ==
  ASSUME TreeInv, built, data # << >>, NEW index \in Indices
  PROVE  verify(data[index + 1], proof(index), index)
<1>1. /\ data \in Seq(Leaves) /\ Top \in Levels /\ Top \in Nat /\ Len(proof(index)) = Top
      /\ root = Level[Top][1] /\ Len(Level[Top]) = 1
  BY proofFacts, RootFacts DEF TreeInv, Finished
<1> DEFINE path == proof(index)
           datum == data[index + 1]
<1>2. PICK up : /\ IsWay(up, Top, datum, path, index)
                /\ verify(datum, path, index) <=> up[Top].hash = root
  <2> HIDE DEF path, datum
  <2>1. Len(path) = Top
    BY <1>1 DEF path
  <2> QED BY <1>1, <2>1, verifyUnfolds
<1>3. \A h \in 1 .. Top : path[h] = Level[h - 1][SiblingPlace(h - 1, Place(index)[h - 1])]
  BY proofFacts
<1> DEFINE A == {l \in 0 .. Top : up[l].hash = Level[l][Place(index)[l]]}
<1> HIDE DEF path, datum
<1>4. 0 .. Top \subseteq Levels
  BY <1>1 DEF Levels
<1>5. 0 \in A
  <2>1. up[0].hash = datum
    BY <1>1, <1>2, WayUnfolds
  <2>2. Place(index)[0] = index + 1 /\ Level[0] = data
    BY <1>1, PlaceUnfolds, LevelUnfolds
  <2> QED BY <1>1, <2>1, <2>2 DEF datum
<1>6. ASSUME NEW l \in 0 .. Top - 1, l \in A PROVE l + 1 \in A
  <2>1. l \in Levels /\ l + 1 \in Levels /\ l \in 0 .. Top /\ l + 1 \in 0 .. Top
    BY <1>1, <1>4
  <2>2. up[l + 1] = PairUp(up[l], path[l + 1])
    <3>1. Top \in Nat /\ IsWay(up, Top, datum, path, index)
      BY <1>1, <1>2
    <3> QED BY <3>1, WayUnfolds
  <2>3. path[l + 1] = Level[l][SiblingPlace(l, Place(index)[l])]
    <3> DEFINE j == l + 1
    <3>1. j \in 1 .. Top /\ j - 1 = l
      BY <1>1
    <3> HIDE DEF j
    <3>2. path[j] = Level[j - 1][SiblingPlace(j - 1, Place(index)[j - 1])]
      BY <1>3, <3>1
    <3> QED BY <3>1, <3>2 DEF j
  <2>4. up[l].index = Place(index)[l] - 1
    BY <1>1, <1>2, <2>1, WayIndex
  <2>5. up[l].hash = Level[l][Place(index)[l]]
    BY <1>6
  <2>6. PairUp(up[l], path[l + 1]).hash = Level[l + 1][Place(index)[l + 1]]
    BY <1>1, <2>1, <2>3, <2>4, <2>5, WayUp
  <2> QED BY <2>1, <2>2, <2>6
<1>7. 0 .. Top \subseteq A
  <2> HIDE DEF A
  <2>9. Climbs(A, Top)
    BY <1>1, <1>5, <1>6 DEF Climbs
  <2> QED BY <2>9, UpTo
<1>8. up[Top].hash = Level[Top][Place(index)[Top]]
  BY <1>1, <1>7
<1>9. Place(index)[Top] = 1
  <2>1. Place(index)[Top] \in 1 .. Len(Level[Top])
    BY <1>1, PlaceFacts
  <2> QED BY <1>1, <2>1
<1> QED BY <1>1, <1>2, <1>8, <1>9 DEF path, datum

\* No way that ends at the root starts from another leaf than the one at its place.
LEMMA OnlyLeafVerifies ==
  ASSUME TreeInv, built, data # << >>, NEW index \in Indices, NEW other \in Indices,
         NEW leaf, verify(leaf, proof(index), other)
  PROVE  leaf = data[other + 1]
<1>1. /\ data \in Seq(Leaves) /\ Top \in Levels /\ Top \in Nat /\ Len(proof(index)) = Top
      /\ root = Level[Top][1] /\ Len(Level[Top]) = 1
  BY proofFacts, RootFacts DEF TreeInv, Finished
<1> DEFINE path == proof(index)
<1>2. PICK up : IsWay(up, Top, leaf, path, other) /\ up[Top].hash = root
  <2>1. Len(path) = Top /\ verify(leaf, path, other)
    BY <1>1
  <2> HIDE DEF path
  <2> QED BY <1>1, <2>1, verifyUnfolds
<1> HIDE DEF path
<1> DEFINE A == {i \in 0 .. Top : up[Top - i].hash = Level[Top - i][Place(other)[Top - i]]}
<1>3. 0 .. Top \subseteq Levels
  BY <1>1 DEF Levels
<1>4. 0 \in A
  <2>1. Place(other)[Top] = 1
    <3>1. Place(other)[Top] \in 1 .. Len(Level[Top])
      BY <1>1, PlaceFacts
    <3> QED BY <1>1, <3>1
  <2>2. Top - 0 = Top
    BY <1>1
  <2> QED BY <1>1, <1>2, <2>1, <2>2
<1>5. ASSUME NEW i \in 0 .. Top - 1, i \in A PROVE i + 1 \in A
  <2> DEFINE l == Top - (i + 1)
  <2>1. l \in 0 .. Top - 1 /\ l + 1 = Top - i /\ l \in 0 .. Top /\ i + 1 \in 0 .. Top
    BY <1>1
  <2>2. up[Top - i].hash = Level[Top - i][Place(other)[Top - i]]
    BY <1>5
  <2> HIDE DEF l
  <2>3. l \in Levels /\ l + 1 \in Levels
    BY <1>1, <1>3, <2>1
  <2>4. up[l + 1] = PairUp(up[l], path[l + 1])
    <3>1. Top \in Nat /\ IsWay(up, Top, leaf, path, other) /\ l \in 0 .. Top - 1
      BY <1>1, <1>2, <2>1
    <3> QED BY <3>1, WayUnfolds
  <2>5. up[l].index = Place(other)[l] - 1
    BY <1>1, <1>2, <2>1, WayIndex
  <2>6. PairUp(up[l], path[l + 1]).hash = Level[l + 1][Place(other)[l + 1]]
    BY <2>1, <2>2, <2>4
  <2>7. up[l].hash = Level[l][Place(other)[l]]
    BY <1>1, <2>3, <2>5, <2>6, WayDown
  <2> QED BY <2>1, <2>7 DEF l
<1>6. 0 .. Top \subseteq A
  <2> HIDE DEF A
  <2>9. Climbs(A, Top)
    BY <1>1, <1>4, <1>5 DEF Climbs
  <2> QED BY <2>9, UpTo
<1>7. up[0].hash = Level[0][Place(other)[0]]
  <2>1. Top \in A /\ Top - Top = 0
    BY <1>1, <1>6
  <2> QED BY <2>1
<1>8. up[0].hash = leaf
  BY <1>1, <1>2, WayUnfolds
<1>9. Place(other)[0] = other + 1 /\ Level[0] = data
  BY <1>1, PlaceUnfolds, LevelUnfolds
<1> QED BY <1>7, <1>8, <1>9

\* The proof that proof() gives for a leaf is accepted by verify(), and no proof of it makes
\* verify() accept a leaf at a place of the data that holds another one.
THEOREM ProofsAreSound == Spec => []ProofsVerify
<1>1. TreeInv => ProofsVerify
  <2> SUFFICES ASSUME TreeInv, built, NEW index \in Indices
               PROVE  /\ verify(data[index + 1], proof(index), index)
                      /\ \A other \in Indices, leaf \in Leaves :
                           verify(leaf, proof(index), other) => leaf = data[other + 1]
    BY DEF ProofsVerify
  <2>1. data # << >>
    <3>1. Len(data) # 0
      <4>1. index \in 0 .. Len(data) - 1
        BY DEF Indices
      <4> QED BY <4>1
    <3> QED BY <3>1
  <2> QED BY <2>1, LeafVerifies, OnlyLeafVerifies
<1> QED BY <1>1, TreeGrows, PTL
=============================================================================
