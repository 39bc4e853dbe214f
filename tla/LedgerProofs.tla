---------------------------- MODULE LedgerProofs ----------------------------
(***************************************************************************)
(* Theorems about the states of the ledger, for any transactions, blocks   *)
(* and branches.                                                           *)
(***************************************************************************)
EXTENDS Ledger, TotalsProofs, SequenceTheorems

USE DEF Genesis

\* A set of numbers up to n has a greatest one.
LEMMA MaxFacts ==
    ASSUME NEW n \in Nat, NEW S \in SUBSET (0 .. n), S # {}
    PROVE  Max(S) \in S /\ \A y \in S : y <= Max(S)
<1> DEFINE B == {x \in 0 .. n : n - x \in S}
<1>1. B \in SUBSET Nat /\ B # {}
  <2>1. PICK y : y \in S
    OBVIOUS
  <2>2. y \in 0 .. n /\ n - y \in 0 .. n /\ n - (n - y) = y
    BY <2>1
  <2>3. n - y \in B
    BY <2>1, <2>2
  <2>4. B \in SUBSET Nat
    OBVIOUS
  <2> QED BY <2>3, <2>4
<1>2. PICK x \in B : \A z \in B : x <= z
  <2> HIDE DEF B
  <2> QED BY <1>1, LeastNat
<1>3. ASSUME NEW y \in S PROVE n - x >= y
  <2>1. y \in 0 .. n /\ n - y \in 0 .. n /\ n - (n - y) = y
    OBVIOUS
  <2> QED BY <1>2, <2>1
<1>4. n - x \in S
  BY <1>2
<1>5. \E m \in S : \A y \in S : m >= y
  BY <1>3, <1>4
<1>6. Max(S) \in S /\ \A y \in S : Max(S) >= y
  BY <1>5 DEF Max
<1> QED BY <1>6

Touched(tx) == Inputs(tx) \cup OutputCoins(tx)

\* The last transaction that touches a coin.
LEMMA TouchFacts ==
    ASSUME NEW txs, NEW n \in Nat, Len(txs) = n, NEW c
    PROVE  /\ LastTouch(txs, c) \in 0 .. n
           /\ LastTouch(txs, c) # 0 => c \in Touched(txs[LastTouch(txs, c)])
           /\ \A j \in 1 .. n : c \in Touched(txs[j]) => j <= LastTouch(txs, c)
<1> DEFINE I == {i \in 1 .. n : c \in Touched(txs[i])}
<1>1. LastTouch(txs, c) = IF I # {} THEN Max(I) ELSE 0
  BY DEF LastTouch, SelectLastInSeq, Touched
<1>2. CASE I = {}
  BY <1>1, <1>2
<1>3. CASE I # {}
  <2>1. I \in SUBSET (0 .. n)
    OBVIOUS
  <2>2. Max(I) \in I /\ \A y \in I : y <= Max(I)
    <3> HIDE DEF I
    <3> QED BY <1>3, <2>1, MaxFacts
  <2> QED BY <1>1, <1>3, <2>2
<1> QED BY <1>2, <1>3

\* One more transaction: what it touches it touched last.
LEMMA TouchAppended ==
    ASSUME NEW txs \in Seq(Tx), NEW tx \in Tx, NEW c
    PROVE  LastTouch(Append(txs, tx), c)
             = IF c \in Touched(tx) THEN Len(txs) + 1 ELSE LastTouch(txs, c)
<1> DEFINE u == Append(txs, tx)
           n == Len(txs)
<1>1. /\ n \in Nat /\ Len(u) = n + 1 /\ u[n + 1] = tx
      /\ \A i \in 1 .. n : u[i] = txs[i]
  OBVIOUS
<1> HIDE DEF u, n
<1> DEFINE i == LastTouch(u, c)
           k == LastTouch(txs, c)
<1>2. /\ i \in 0 .. n + 1
      /\ i # 0 => c \in Touched(u[i])
      /\ \A j \in 1 .. n + 1 : c \in Touched(u[j]) => j <= i
  BY <1>1, TouchFacts
<1>3. /\ k \in 0 .. n
      /\ k # 0 => c \in Touched(txs[k])
      /\ \A j \in 1 .. n : c \in Touched(txs[j]) => j <= k
  BY <1>1, TouchFacts DEF n
<1> HIDE DEF i, k
<1>4. CASE c \in Touched(tx)
  <2>1. n + 1 <= i
    BY <1>1, <1>2, <1>4
  <2> QED BY <1>1, <1>2, <1>4, <2>1 DEF i, u, n
<1>5. CASE c \notin Touched(tx)
  <2>1. i # n + 1
    BY <1>1, <1>2, <1>5
  <2>2. i \in 0 .. n
    BY <1>1, <1>2, <2>1
  <2>3. i <= k
    BY <1>1, <1>2, <1>3, <2>2
  <2>4. k <= i
    BY <1>1, <1>2, <1>3
  <2>5. i = k
    BY <1>1, <2>2, <2>3, <2>4, <1>3
  <2> QED BY <1>5, <2>5 DEF i, k, u
<1> QED BY <1>4, <1>5

LEMMA UnspentFacts ==
    ASSUME NEW txs \in Seq(Tx), NEW c
    PROVE  c \in UnspentAfter(txs)
             <=> IF LastTouch(txs, c) = 0 THEN c = IcoCoin
                 ELSE c \in OutputCoins(txs[LastTouch(txs, c)])
<1> DEFINE i == LastTouch(txs, c)
           made == {IcoCoin} \cup UNION {OutputCoins(txs[j]) : j \in DOMAIN txs}
<1>1. i \in 0 .. Len(txs) /\ DOMAIN txs = 1 .. Len(txs) /\ Len(txs) \in Nat
  BY TouchFacts
<1>2. c \in UnspentAfter(txs) <=> /\ c \in made
                                  /\ IF i = 0 THEN c = IcoCoin ELSE c \in OutputCoins(txs[i])
  BY DEF UnspentAfter
<1> HIDE DEF i
<1>3. (IF i = 0 THEN c = IcoCoin ELSE c \in OutputCoins(txs[i])) => c \in made
  <2>1. CASE i = 0
    BY <2>1
  <2>2. CASE i # 0
    <3>1. i \in DOMAIN txs
      BY <1>1, <2>2
    <3> QED BY <2>2, <3>1
  <2> QED BY <2>1, <2>2
<1> QED BY <1>2, <1>3 DEF i

\* What a branch leaves is what its last transaction makes of what the others leave.
LEMMA ReplayAppended ==
    ASSUME NEW txs \in Seq(Tx), NEW tx \in Tx
    PROVE  Replay(Append(txs, tx)) = ApplyTx(Replay(txs), tx)
<1> DEFINE u == Append(txs, tx)
           Output(c) == IF LastTouch(txs, c) = 0 THEN ico[c]
                        ELSE OutputAt(txs[LastTouch(txs, c)], c)
           OutputU(c) == IF LastTouch(u, c) = 0 THEN ico[c]
                         ELSE OutputAt(u[LastTouch(u, c)], c)
           D == (UnspentAfter(txs) \ Inputs(tx)) \cup OutputCoins(tx)
<1>1. /\ u \in Seq(Tx) /\ Len(txs) \in Nat /\ Len(u) = Len(txs) + 1 /\ u[Len(txs) + 1] = tx
      /\ \A i \in 1 .. Len(txs) : u[i] = txs[i]
  OBVIOUS
<1>2. Replay(txs) = [c \in UnspentAfter(txs) |-> Output(c)]
  BY DEF Replay
<1>3. Replay(u) = [c \in UnspentAfter(u) |-> OutputU(c)]
  BY DEF Replay
<1> HIDE DEF u
<1>4. ASSUME NEW c PROVE LastTouch(u, c) = IF c \in Touched(tx) THEN Len(txs) + 1
                                           ELSE LastTouch(txs, c)
  BY TouchAppended DEF u
<1>5. ASSUME NEW c PROVE LastTouch(txs, c) \in 0 .. Len(txs)
  BY <1>1, TouchFacts
<1>6. ASSUME NEW c
      PROVE  c \in UnspentAfter(u) <=> c \in D
  <2>1. c \in UnspentAfter(u) <=> IF LastTouch(u, c) = 0 THEN c = IcoCoin
                                  ELSE c \in OutputCoins(u[LastTouch(u, c)])
    BY <1>1, UnspentFacts
  <2>2. c \in UnspentAfter(txs) <=> IF LastTouch(txs, c) = 0 THEN c = IcoCoin
                                    ELSE c \in OutputCoins(txs[LastTouch(txs, c)])
    BY UnspentFacts
  <2>3. CASE c \in Touched(tx)
    <3>1. c \in UnspentAfter(u) <=> c \in OutputCoins(tx)
      BY <1>1, <1>4, <2>1, <2>3
    <3> QED BY <3>1, <2>3 DEF Touched
  <2>4. CASE c \notin Touched(tx)
    <3>1. LastTouch(u, c) = LastTouch(txs, c)
      BY <1>4, <2>4
    <3>2. LastTouch(txs, c) # 0 => u[LastTouch(u, c)] = txs[LastTouch(txs, c)]
      BY <1>1, <1>5, <3>1
    <3>3. c \in UnspentAfter(u) <=> c \in UnspentAfter(txs)
      BY <2>1, <2>2, <3>1, <3>2
    <3> QED BY <3>3, <2>4 DEF Touched
  <2> QED BY <2>3, <2>4
<1>7. UnspentAfter(u) = D
  BY <1>6
<1>8. ASSUME NEW c \in D
      PROVE  OutputU(c) = IF c \in OutputCoins(tx) THEN OutputAt(tx, c) ELSE Output(c)
  <2>1. CASE c \in OutputCoins(tx)
    <3>1. LastTouch(u, c) = Len(txs) + 1 /\ LastTouch(u, c) # 0
      BY <1>1, <1>4, <2>1 DEF Touched
    <3> QED BY <1>1, <2>1, <3>1
  <2>2. CASE c \notin OutputCoins(tx)
    <3>1. c \notin Touched(tx)
      BY <2>2 DEF Touched
    <3>2. LastTouch(u, c) = LastTouch(txs, c)
      BY <1>4, <3>1
    <3>3. LastTouch(txs, c) # 0 => u[LastTouch(u, c)] = txs[LastTouch(txs, c)]
      BY <1>1, <1>5, <3>2
    <3> QED BY <2>2, <3>2, <3>3
  <2> QED BY <2>1, <2>2
<1>9. ApplyTx(Replay(txs), tx)
        = [c \in D |-> IF c \in OutputCoins(tx) THEN OutputAt(tx, c) ELSE Output(c)]
  <2> HIDE DEF Output
  <2>1. DOMAIN Replay(txs) = UnspentAfter(txs)
        /\ \A c \in UnspentAfter(txs) : Replay(txs)[c] = Output(c)
    BY <1>2
  <2> DEFINE R == Replay(txs)
  <2>2. DOMAIN R = UnspentAfter(txs) /\ \A c \in UnspentAfter(txs) : R[c] = Output(c)
    BY <2>1
  <2>3. ApplyTx(R, tx) = [c \in (DOMAIN R \ Inputs(tx)) \cup OutputCoins(tx) |->
                            IF c \in OutputCoins(tx) THEN OutputAt(tx, c) ELSE R[c]]
    BY DEF ApplyTx
  <2> HIDE DEF R
  <2> QED BY <2>2, <2>3 DEF R
<1> HIDE DEF OutputU, Output, D
<1> QED BY <1>3, <1>7, <1>8, <1>9 DEF u

-----------------------------------------------------------------------------
\* What holds of a number whenever it holds of the smaller ones holds of all up to k.
LEMMA UpTo ==
    ASSUME NEW k \in Nat, NEW A, \A m \in 0 .. k : (\A j \in 0 .. m - 1 : j \in A) => m \in A
    PROVE  0 .. k \subseteq A
<1> SUFFICES ASSUME NEW x \in (0 .. k) \ A PROVE FALSE
  OBVIOUS
<1> DEFINE B == (0 .. k) \ A
<1>1. PICK y \in B : \A z \in B : y <= z
  <2>1. B \in SUBSET Nat /\ B # {}
    OBVIOUS
  <2> HIDE DEF B
  <2> QED BY <2>1, LeastNat
<1>2. \A j \in 0 .. y - 1 : j \in A
  BY <1>1
<1> QED BY <1>1, <1>2

\* The states between the transactions of a block.
Between(txs, state, after) ==
    after = [n \in 0 .. Len(txs) |-> IF n = 0 THEN state ELSE ApplyTx(after[n - 1], txs[n])]

LEMMA BetweenExists ==
    ASSUME NEW txs, Len(txs) \in Nat, NEW state
    PROVE  \E after : Between(txs, state, after)
<1> DEFINE First(m, g) == g = [n \in 0 .. m |-> IF n = 0 THEN state ELSE ApplyTx(g[n - 1], txs[n])]
           A == {m \in Nat : \E g : First(m, g)}
<1>1. ASSUME NEW m \in 0 .. Len(txs), \A j \in 0 .. m - 1 : j \in A
      PROVE  m \in A
  <2>1. CASE m = 0
    <3> DEFINE g == [n \in 0 .. 0 |-> state]
    <3>1. First(0, g)
      OBVIOUS
    <3> QED BY <2>1, <3>1
  <2>2. CASE m # 0
    <3>1. m \in Nat /\ m - 1 \in 0 .. m - 1
      BY <2>2
    <3>2. PICK f : First(m - 1, f)
      BY <1>1, <3>1
    <3> DEFINE g == [n \in 0 .. m |-> IF n = m THEN ApplyTx(f[m - 1], txs[m]) ELSE f[n]]
    <3>3. \A n \in 0 .. m - 1 : f[n] = IF n = 0 THEN state ELSE ApplyTx(f[n - 1], txs[n])
      BY <3>2
    <3>4. \A n \in 0 .. m - 1 : g[n] = f[n]
      BY <3>1
    <3>5. g[m] = ApplyTx(f[m - 1], txs[m])
      BY <3>1
    <3> HIDE DEF g
    <3>6. ASSUME NEW n \in 0 .. m
          PROVE  g[n] = IF n = 0 THEN state ELSE ApplyTx(g[n - 1], txs[n])
      <4>1. CASE n = m
        BY <2>2, <3>1, <3>4, <3>5, <4>1
      <4>2. CASE n # m
        <5>1. n \in 0 .. m - 1 /\ (n # 0 => n - 1 \in 0 .. m - 1)
          BY <3>1, <4>2
        <5> QED BY <3>3, <3>4, <5>1
      <4> QED BY <4>1, <4>2
    <3>7. First(m, g)
      <4>1. g = [n \in 0 .. m |-> g[n]]
        BY DEF g
      <4> QED BY <3>6, <4>1
    <3> QED BY <3>1, <3>7
  <2> QED BY <2>1, <2>2
<1> HIDE DEF A
<1>2. 0 .. Len(txs) \subseteq A
  BY <1>1, UpTo
<1>3. Len(txs) \in A
  BY <1>2
<1> QED BY <1>3 DEF A, Between

LEMMA UpdateUnfolds ==
    ASSUME NEW txs, Len(txs) \in Nat, NEW state
    PROVE  \E after : /\ Between(txs, state, after)
                      /\ after[0] = state
                      /\ \A n \in 1 .. Len(txs) : after[n] = ApplyTx(after[n - 1], txs[n])
                      /\ update_state(txs, state) = after[Len(txs)]
<1> DEFINE g == CHOOSE g : Between(txs, state, g)
<1>1. Between(txs, state, g)
  BY BetweenExists
<1>2. update_state(txs, state) = g[Len(txs)]
  BY DEF update_state, Between
<1> HIDE DEF g
<1>3. g[0] = state /\ \A n \in 1 .. Len(txs) : g[n] = ApplyTx(g[n - 1], txs[n])
  BY <1>1 DEF Between
<1> QED BY <1>1, <1>2, <1>3

\* The state of a block from the replay of its parent's branch is the replay of its own.
LEMMA UpdateReplays ==
    ASSUME NEW txs \in Seq(Tx), NEW more \in Seq(Tx)
    PROVE  update_state(more, Replay(txs)) = Replay(txs \o more)
<1> DEFINE n == Len(more)
           upto(k) == txs \o SubSeq(more, 1, k)
<1>1. n \in Nat /\ Len(txs) \in Nat
  OBVIOUS
<1>2. PICK after : /\ after[0] = Replay(txs)
                   /\ \A k \in 1 .. n : after[k] = ApplyTx(after[k - 1], more[k])
                   /\ update_state(more, Replay(txs)) = after[n]
  BY <1>1, UpdateUnfolds
<1> DEFINE A == {k \in 0 .. n : after[k] = Replay(upto(k))}
<1>3. ASSUME NEW k \in 0 .. n, \A j \in 0 .. k - 1 : j \in A
      PROVE  k \in A
  <2>1. CASE k = 0
    <3>1. upto(0) = txs
      OBVIOUS
    <3> QED BY <1>2, <2>1, <3>1
  <2>2. CASE k # 0
    <3>1. k \in 1 .. n /\ k - 1 \in 0 .. k - 1
      BY <1>1, <2>2
    <3>2. after[k - 1] = Replay(upto(k - 1))
      BY <1>3, <3>1
    <3>3. SubSeq(more, 1, k) = Append(SubSeq(more, 1, k - 1), more[k])
      BY <3>1
    <3>4. upto(k - 1) \in Seq(Tx) /\ more[k] \in Tx
      BY <3>1
    <3>5. upto(k) = Append(upto(k - 1), more[k])
      BY <3>1, <3>3
    <3>6. after[k] = ApplyTx(Replay(upto(k - 1)), more[k])
      BY <1>2, <3>1, <3>2
    <3> HIDE DEF upto, n
    <3>7. Replay(upto(k)) = ApplyTx(Replay(upto(k - 1)), more[k])
      BY <3>4, <3>5, ReplayAppended
    <3> QED BY <3>6, <3>7
  <2> QED BY <2>1, <2>2
<1>4. n \in A
  <2> HIDE DEF A, n
  <2>1. 0 .. n \subseteq A
    BY <1>1, <1>3, UpTo
  <2> QED BY <1>1, <2>1
<1>5. upto(n) = txs \o more
  BY <1>1
<1> QED BY <1>2, <1>4, <1>5

-----------------------------------------------------------------------------
\* The transactions of a branch, of any n blocks with these parents and contents.
Branch(n, par, con, b) ==
    LET txs[h \in 0 .. n] == IF h = 0 THEN << >> ELSE txs[par[h]] \o con[h]
    IN  txs[b]

LEMMA HistoryIsBranch ==
    /\ Known = 0 .. Len(parent)
         => \A b \in Known : History(b) = Branch(Len(parent), parent, content, b)
    /\ Known' = 0 .. Len(parent')
         => \A b \in Known' : History(b)' = Branch(Len(parent'), parent', content', b)
  BY DEF History, Branch

\* What a block adds to the branch of its parent.
Extended(g, h, par, con) == IF h = 0 THEN << >> ELSE g[par[h]] \o con[h]

LEMMA ExtendedReads ==
    ASSUME NEW f, NEW g, NEW h, NEW par, NEW con, h # 0 => f[par[h]] = g[par[h]]
    PROVE  Extended(f, h, par, con) = Extended(g, h, par, con)
<1>1. CASE h = 0
  BY <1>1 DEF Extended
<1>2. CASE h # 0
  <2>1. /\ Extended(f, h, par, con) = f[par[h]] \o con[h]
        /\ Extended(g, h, par, con) = g[par[h]] \o con[h]
    BY <1>2, Zenon DEF Extended
  <2>2. f[par[h]] = g[par[h]]
    BY <1>2
  <2> QED BY <2>1, <2>2, Zenon
<1> QED BY <1>1, <1>2

\* Parents come first.
Above(n, par) == \A b \in 1 .. n : par[b] \in 0 .. b - 1

Unfolds(n, par, con) ==
    /\ Branch(n, par, con, 0) = << >>
    /\ \A b \in 1 .. n : Branch(n, par, con, b) = Branch(n, par, con, par[b]) \o con[b]

LEMMA BranchUnfolds ==
    ASSUME NEW n \in Nat, NEW par, NEW con, Above(n, par)
    PROVE  Unfolds(n, par, con)
<1> DEFINE First(m, g) == g = [h \in 0 .. m |-> Extended(g, h, par, con)]
           A == {m \in Nat : \E g : First(m, g)}
<1>1. ASSUME NEW m \in 0 .. n, \A j \in 0 .. m - 1 : j \in A
      PROVE  m \in A
  <2>1. CASE m = 0
    <3> DEFINE g == [h \in 0 .. 0 |-> << >>]
    <3>1. g = [h \in 0 .. 0 |-> Extended(g, h, par, con)]
      BY DEF Extended
    <3>2. First(0, g)
      BY <3>1
    <3> QED BY <2>1, <3>2
  <2>2. CASE m # 0
    <3>1. m \in Nat /\ m - 1 \in 0 .. m - 1 /\ par[m] \in 0 .. m - 1
      BY <2>2 DEF Above
    <3>2. PICK f : First(m - 1, f)
      BY <1>1, <3>1
    <3> DEFINE g == [h \in 0 .. m |-> Extended(f, h, par, con)]
    <3>3. \A h \in 0 .. m - 1 : f[h] = Extended(f, h, par, con)
      BY <3>2
    <3>4. \A h \in 0 .. m - 1 : g[h] = f[h]
      BY <3>1, <3>3
    <3>5. \A h \in 0 .. m : g[h] = Extended(f, h, par, con)
      OBVIOUS
    <3>6. g = [h \in 0 .. m |-> g[h]]
      OBVIOUS
    <3> HIDE DEF g
    <3>7. ASSUME NEW h \in 0 .. m
          PROVE  g[h] = Extended(g, h, par, con)
      <4>1. h # 0 => par[h] \in 0 .. m - 1
        <5>1. h # 0 => h \in 1 .. n /\ h - 1 <= m - 1
          BY <3>1
        <5> QED BY <3>1, <5>1 DEF Above
      <4>2. h # 0 => f[par[h]] = g[par[h]]
        BY <3>4, <4>1
      <4>3. Extended(f, h, par, con) = Extended(g, h, par, con)
        BY <4>2, ExtendedReads
      <4> QED BY <3>5, <4>3
    <3>8. First(m, g)
      BY <3>6, <3>7
    <3> QED BY <3>1, <3>8
  <2> QED BY <2>1, <2>2
<1> HIDE DEF A
<1>2. 0 .. n \subseteq A
  BY <1>1, UpTo
<1>3. \E g : First(n, g)
  <2>1. n \in A
    BY <1>2
  <2> QED BY <2>1 DEF A
<1> DEFINE t == CHOOSE t : First(n, t)
<1>4. First(n, t)
  BY <1>3
<1>5. \A b : Branch(n, par, con, b) = t[b]
  BY Zenon DEF Branch, Extended
<1> HIDE DEF t
<1>6. \A b \in 0 .. n : t[b] = Extended(t, b, par, con)
  BY <1>4
<1>7. t[0] = << >>
  <2>1. 0 \in 0 .. n
    OBVIOUS
  <2> QED BY <1>6, <2>1 DEF Extended
<1>8. ASSUME NEW b \in 1 .. n
      PROVE  Branch(n, par, con, b) = Branch(n, par, con, par[b]) \o con[b]
  <2>1. b \in 0 .. n /\ b # 0
    OBVIOUS
  <2>2. t[b] = Extended(t, b, par, con)
    BY <1>6, <2>1
  <2>3. t[b] = t[par[b]] \o con[b]
    BY <2>1, <2>2, Zenon DEF Extended
  <2> QED BY <1>5, <2>3, Zenon
<1> QED BY <1>5, <1>7, <1>8, Zenon DEF Unfolds

Stays(k, p, c, m, q, d) == \A b \in 0 .. k : Branch(m, q, d, b) = Branch(k, p, c, b)

\* A branch does not depend on the blocks that came later.
LEMMA BranchStays ==
    ASSUME NEW k \in Nat, NEW p, NEW c, Above(k, p), NEW m \in Nat, k <= m, NEW q, NEW d, Above(m, q),
           \A b \in 1 .. k : q[b] = p[b] /\ d[b] = c[b]
    PROVE  Stays(k, p, c, m, q, d)
<1> DEFINE P(b) == Branch(m, q, d, b)
           Q(b) == Branch(k, p, c, b)
           A == {b \in 0 .. k : P(b) = Q(b)}
<1>1. P(0) = << >> /\ \A b \in 1 .. m : P(b) = P(q[b]) \o d[b]
  <2>1. Unfolds(m, q, d)
    BY BranchUnfolds
  <2> QED BY <2>1, Zenon DEF Unfolds
<1>2. Q(0) = << >> /\ \A b \in 1 .. k : Q(b) = Q(p[b]) \o c[b]
  <2>1. Unfolds(k, p, c)
    BY BranchUnfolds
  <2> QED BY <2>1, Zenon DEF Unfolds
<1> HIDE DEF P, Q
<1>3. ASSUME NEW b \in 0 .. k, \A j \in 0 .. b - 1 : j \in A
      PROVE  b \in A
  <2>1. CASE b = 0
    BY <1>1, <1>2, <2>1
  <2>2. CASE b # 0
    <3>1. b \in 1 .. k /\ b \in 1 .. m /\ p[b] \in 0 .. b - 1
      BY <2>2 DEF Above
    <3>2. P(b) = P(p[b]) \o c[b] /\ Q(b) = Q(p[b]) \o c[b]
      BY <1>1, <1>2, <3>1
    <3> QED BY <1>3, <3>1, <3>2
  <2> QED BY <2>1, <2>2
<1>4. 0 .. k \subseteq A
  <2> HIDE DEF A
  <2> QED BY <1>3, UpTo
<1> QED BY <1>4 DEF P, Q, Stays

\* A branch is a sequence of transactions.
LEMMA BranchType ==
    ASSUME NEW n \in Nat, NEW par, NEW con,
           Above(n, par), \A b \in 1 .. n : con[b] \in Seq(Tx)
    PROVE  \A b \in 0 .. n : Branch(n, par, con, b) \in Seq(Tx)
<1> DEFINE P(b) == Branch(n, par, con, b)
           A == {b \in 0 .. n : P(b) \in Seq(Tx)}
<1>1. P(0) = << >> /\ \A b \in 1 .. n : P(b) = P(par[b]) \o con[b]
  <2>1. Unfolds(n, par, con)
    BY BranchUnfolds
  <2> QED BY <2>1, Zenon DEF Unfolds
<1> HIDE DEF P
<1>2. ASSUME NEW b \in 0 .. n, \A j \in 0 .. b - 1 : j \in A
      PROVE  b \in A
  <2>1. CASE b = 0
    <3>1. << >> \in Seq(Tx)
      OBVIOUS
    <3>2. P(b) \in Seq(Tx)
      BY <1>1, <2>1, <3>1, Zenon
    <3> QED BY <3>2
  <2>2. CASE b # 0
    <3>1. b \in 1 .. n /\ par[b] \in 0 .. b - 1 /\ con[b] \in Seq(Tx)
      BY <2>2 DEF Above
    <3>2. P(par[b]) \in Seq(Tx)
      BY <1>2, <3>1
    <3>3. P(b) = P(par[b]) \o con[b]
      BY <1>1, <3>1, Zenon
    <3>4. \A x, y \in Seq(Tx) : x \o y \in Seq(Tx)
      OBVIOUS
    <3>5. P(b) \in Seq(Tx)
      BY <3>1, <3>2, <3>3, <3>4, Zenon
    <3> QED BY <3>5
  <2> QED BY <2>1, <2>2
<1>3. 0 .. n \subseteq A
  <2> HIDE DEF A
  <2> QED BY <1>2, UpTo
<1> QED BY <1>3 DEF P

-----------------------------------------------------------------------------
LEMMA TxFacts ==
    /\ MaxValue \in Nat /\ IcoValue \in 0 .. MaxValue
    /\ \A tx \in Tx : /\ Len(tx.input) \in Nat /\ DOMAIN tx.input = 1 .. Len(tx.input)
                      /\ Len(tx.output) \in Nat /\ DOMAIN tx.output = 1 .. Len(tx.output)
                      /\ \A i \in 1 .. Len(tx.output) : tx.output[i].value \in 0 .. MaxValue
<1>1. ASSUME NEW tx \in Tx
      PROVE  /\ Len(tx.input) \in Nat /\ DOMAIN tx.input = 1 .. Len(tx.input)
             /\ Len(tx.output) \in Nat /\ DOMAIN tx.output = 1 .. Len(tx.output)
             /\ \A i \in 1 .. Len(tx.output) : tx.output[i].value \in 0 .. MaxValue
  <2>1. /\ tx.input \in Seq(ToSet(tx.input)) /\ tx.output \in Seq(ToSet(tx.output))
        /\ \A i \in DOMAIN tx.output : tx.output[i].value \in 0 .. MaxValue
    BY LedgerAssumption
  <2> QED BY <2>1
<1> QED BY <1>1, LedgerAssumption

LEMMA ContentsAreTxs == \A txs \in Contents : txs \in Seq(Tx) /\ Len(txs) \in Nat
<1>1. ASSUME NEW txs \in Contents PROVE txs \in Seq(Tx)
  <2>1. PICK m \in 0 .. MaxTxs : txs \in [1 .. m -> Tx]
    BY DEF Contents, BoundedSeq, SeqOf
  <2>2. m \in Nat
    BY <2>1, LedgerAssumption
  <2> QED BY <2>1, <2>2
<1> QED BY <1>1

\* The coin of an output holds one of the outputs that share it.
LEMMA OutputFacts ==
    ASSUME NEW tx \in Tx, NEW c \in OutputCoins(tx)
    PROVE  \E i \in 1 .. Len(tx.output) : OutputAt(tx, c) = tx.output[i] /\ OutputCoin(tx, i) = c
<1> DEFINE n == Len(tx.output)
           s == [i \in DOMAIN tx.output |-> OutputCoin(tx, i)]
           I == {i \in 1 .. n : OutputCoin(tx, i) = c}
<1>1. n \in Nat /\ DOMAIN tx.output = 1 .. n
  BY TxFacts
<1>2. Len(s) = n /\ \A i \in 1 .. n : s[i] = OutputCoin(tx, i)
  BY <1>1
<1>3. I # {} /\ I \in SUBSET (0 .. n)
  BY <1>1 DEF OutputCoins
<1>4. OutputAt(tx, c) = tx.output[Max(I)]
  <2>1. OutputAt(tx, c) = tx.output[SelectLastInSeq(s, LAMBDA d : d = c)]
    BY DEF OutputAt
  <2>2. {i \in 1 .. Len(s) : s[i] = c} = I
    BY <1>2
  <2> HIDE DEF s
  <2>3. SelectLastInSeq(s, LAMBDA d : d = c)
          = IF {i \in 1 .. Len(s) : s[i] = c} # {} THEN Max({i \in 1 .. Len(s) : s[i] = c}) ELSE 0
    BY DEF SelectLastInSeq
  <2> HIDE DEF I
  <2> QED BY <1>3, <2>1, <2>2, <2>3
<1> HIDE DEF I, n
<1>5. Max(I) \in I
  BY <1>1, <1>3, MaxFacts
<1> QED BY <1>4, <1>5 DEF I, n

LEMMA OutputCoinsFinite ==
    ASSUME NEW tx \in Tx
    PROVE  IsFiniteSet(OutputCoins(tx))
<1>1. IsFiniteSet(1 .. Len(tx.output)) /\ DOMAIN tx.output = 1 .. Len(tx.output)
  BY TxFacts, FS_Interval
<1> DEFINE S == 1 .. Len(tx.output)
           f == [i \in S |-> OutputCoin(tx, i)]
<1>2. OutputCoins(tx) = {OutputCoin(tx, i) : i \in S}
  BY <1>1 DEF OutputCoins
<1>3. f \in Surjection(S, OutputCoins(tx))
  <2> HIDE DEF S
  <2> QED BY <1>2 DEF Surjection
<1> HIDE DEF S, f
<1> QED BY <1>1, <1>3, FS_Surjection DEF S

\* A state holds finitely many coins, each of them a u32.
StateOK(state) ==
    /\ IsFiniteSet(DOMAIN state)
    /\ \A c \in DOMAIN state : state[c].value \in 0 .. MaxValue

LEMMA ApplyKeeps ==
    ASSUME NEW state, StateOK(state), NEW tx \in Tx
    PROVE  StateOK(ApplyTx(state, tx))
<1> DEFINE D == (DOMAIN state \ Inputs(tx)) \cup OutputCoins(tx)
<1>1. ApplyTx(state, tx)
        = [c \in D |-> IF c \in OutputCoins(tx) THEN OutputAt(tx, c) ELSE state[c]]
  BY DEF ApplyTx
<1>2. IsFiniteSet(D)
  <2>1. IsFiniteSet(DOMAIN state \ Inputs(tx))
    BY FS_Difference DEF StateOK
  <2> QED BY <2>1, OutputCoinsFinite, FS_Union
<1>3. ASSUME NEW c \in D
      PROVE  (IF c \in OutputCoins(tx) THEN OutputAt(tx, c) ELSE state[c]).value \in 0 .. MaxValue
  <2>1. CASE c \in OutputCoins(tx)
    BY <2>1, OutputFacts, TxFacts
  <2>2. CASE c \notin OutputCoins(tx)
    BY <2>2 DEF StateOK
  <2> QED BY <2>1, <2>2
<1> HIDE DEF D
<1> QED BY <1>1, <1>2, <1>3 DEF StateOK

LEMMA UpdateKeeps ==
    ASSUME NEW state, StateOK(state), NEW txs \in Seq(Tx)
    PROVE  StateOK(update_state(txs, state))
<1>1. PICK after : /\ after[0] = state
                   /\ \A k \in 1 .. Len(txs) : after[k] = ApplyTx(after[k - 1], txs[k])
                   /\ update_state(txs, state) = after[Len(txs)]
  BY UpdateUnfolds
<1> DEFINE A == {k \in 0 .. Len(txs) : StateOK(after[k])}
<1>2. ASSUME NEW k \in 0 .. Len(txs), \A j \in 0 .. k - 1 : j \in A
      PROVE  k \in A
  <2>1. CASE k = 0
    BY <1>1, <2>1
  <2>2. CASE k # 0
    <3>1. k \in 1 .. Len(txs) /\ k - 1 \in 0 .. k - 1 /\ txs[k] \in Tx
      BY <2>2
    <3>2. StateOK(after[k - 1])
      BY <1>2, <3>1
    <3>3. StateOK(ApplyTx(after[k - 1], txs[k]))
      BY <3>1, <3>2, ApplyKeeps
    <3>4. StateOK(after[k])
      BY <1>1, <3>1, <3>3
    <3> QED BY <3>4
  <2> QED BY <2>1, <2>2
<1>3. Len(txs) \in A
  <2> HIDE DEF A
  <2>1. Len(txs) \in Nat
    OBVIOUS
  <2>2. 0 .. Len(txs) \subseteq A
    BY <1>2, <2>1, UpTo
  <2> QED BY <2>1, <2>2
<1> QED BY <1>1, <1>3

-----------------------------------------------------------------------------
\* The blocks, each above its parent, and what each state holds.
BlocksTyped ==
    /\ parent \in Seq(Nat) /\ content \in Seq(Contents) /\ Len(content) = Len(parent)
    /\ Above(Len(parent), parent)
    /\ Known = 0 .. Len(parent) /\ block_state_map = [h \in Known |-> block_state_map[h]]
    /\ halted \in BOOLEAN

StatesOK == \A h \in Known : StateOK(block_state_map[h])

\* The verified blocks are those whose transactions are good in the state of their parent.
VerifiedAreGood ==
    /\ verified \subseteq 1 .. Len(parent)
    /\ \A b \in verified : verify_block(content[b], block_state_map[parent[b]])

Inv == BlocksTyped /\ StatesOK /\ VerifiedAreGood /\ StateIsReplay

LEMMA BlockFacts ==
    ASSUME BlocksTyped
    PROVE  /\ Len(parent) \in Nat
           /\ History(0) = << >>
           /\ \A b \in 1 .. Len(parent) :
                /\ b \in Known /\ parent[b] \in Known /\ parent[b] \in 0 .. b - 1
                /\ content[b] \in Contents /\ content[b] \in Seq(Tx)
                /\ History(b) = History(parent[b]) \o content[b]
           /\ \A h \in Known : History(h) \in Seq(Tx)
<1>1. Len(parent) \in Nat /\ Known = 0 .. Len(parent)
  BY DEF BlocksTyped
<1>2. \A b \in 1 .. Len(parent) : /\ b \in Known /\ parent[b] \in Known /\ parent[b] \in 0 .. b - 1
                                  /\ content[b] \in Contents
  BY <1>1 DEF BlocksTyped, Above
<1>0. Above(Len(parent), parent)
  BY DEF BlocksTyped
<1>3. \A b \in 1 .. Len(parent) : content[b] \in Seq(Tx)
  BY <1>2, ContentsAreTxs
<1>4. \A b \in Known : History(b) = Branch(Len(parent), parent, content, b)
  BY <1>1, HistoryIsBranch
<1>5. /\ Branch(Len(parent), parent, content, 0) = << >>
      /\ \A b \in 1 .. Len(parent) : Branch(Len(parent), parent, content, b)
           = Branch(Len(parent), parent, content, parent[b]) \o content[b]
  <2>1. Unfolds(Len(parent), parent, content)
    BY <1>1, <1>0, BranchUnfolds
  <2> QED BY <2>1, Zenon DEF Unfolds
<1>6. \A b \in 0 .. Len(parent) : Branch(Len(parent), parent, content, b) \in Seq(Tx)
  BY <1>1, <1>0, <1>3, BranchType
<1>7. History(0) = << >>
  BY <1>1, <1>4, <1>5
<1>8. ASSUME NEW b \in 1 .. Len(parent)
      PROVE  History(b) = History(parent[b]) \o content[b]
  <2>1. /\ History(b) = Branch(Len(parent), parent, content, b)
        /\ History(parent[b]) = Branch(Len(parent), parent, content, parent[b])
    BY <1>2, <1>4
  <2>2. Branch(Len(parent), parent, content, b)
          = Branch(Len(parent), parent, content, parent[b]) \o content[b]
    BY <1>5, Zenon
  <2> QED BY <2>1, <2>2, Zenon
<1>9. \A h \in Known : History(h) \in Seq(Tx)
  BY <1>1, <1>4, <1>6
<1> QED BY <1>1, <1>2, <1>3, <1>7, <1>8, <1>9

\* A state is what update_state makes of its parent's.
LEMMA StateFromParent ==
    ASSUME BlocksTyped, StateIsReplay, NEW b \in 1 .. Len(parent)
    PROVE  block_state_map[b] = update_state(content[b], block_state_map[parent[b]])
<1>1. /\ b \in Known /\ parent[b] \in Known
      /\ content[b] \in Seq(Tx) /\ History(parent[b]) \in Seq(Tx)
      /\ History(b) = History(parent[b]) \o content[b]
  BY BlockFacts
<1>2. block_state_map[b] = Replay(History(b))
      /\ block_state_map[parent[b]] = Replay(History(parent[b]))
  BY <1>1 DEF StateIsReplay
<1>3. update_state(content[b], Replay(History(parent[b])))
        = Replay(History(parent[b]) \o content[b])
  BY <1>1, UpdateReplays
<1> QED BY <1>1, <1>2, <1>3, Zenon

LEMMA InitInv ==
    ASSUME Init
    PROVE  Inv
<1>1. /\ parent = << >> /\ content = << >> /\ verified = {} /\ halted = FALSE
      /\ Known = {0} /\ block_state_map[0] = ico
      /\ block_state_map = [h \in {0} |-> ico]
  BY DEF Init, Known
<1>2. BlocksTyped
  <2>1. << >> \in Seq(Nat) /\ << >> \in Seq(Contents) /\ Len(<< >>) = 0 /\ 0 .. 0 = {0}
    OBVIOUS
  <2>2. \A b \in 1 .. 0 : FALSE
    OBVIOUS
  <2>3. block_state_map = [h \in Known |-> block_state_map[h]]
    BY <1>1
  <2> QED BY <1>1, <2>1, <2>2, <2>3 DEF BlocksTyped, Above
<1>3. StateOK(ico)
  <2>1. DOMAIN ico = {IcoCoin} /\ ico[IcoCoin].value = IcoValue
    BY DEF ico
  <2>2. IsFiniteSet({IcoCoin})
    BY FS_Singleton
  <2>3. IcoValue \in 0 .. MaxValue
    BY TxFacts
  <2> QED BY <2>1, <2>2, <2>3 DEF StateOK
<1>4. StatesOK
  BY <1>1, <1>3 DEF StatesOK
<1>5. VerifiedAreGood
  BY <1>1 DEF VerifiedAreGood
<1>6. Replay(<< >>) = ico
  <2>1. ASSUME NEW c PROVE LastTouch(<< >>, c) = 0
    <3>1. Len(<< >>) = 0 /\ 0 \in Nat
      OBVIOUS
    <3> QED BY <3>1, TouchFacts
  <2>2. << >> \in Seq(Tx)
    OBVIOUS
  <2>3. ASSUME NEW c PROVE c \in UnspentAfter(<< >>) <=> c = IcoCoin
    <3>1. LastTouch(<< >>, c) = 0
      BY <2>1
    <3> QED BY <2>2, <3>1, UnspentFacts, Zenon
  <2>4. UnspentAfter(<< >>) = {IcoCoin}
    BY <2>3
  <2>5. Replay(<< >>) = [c \in {IcoCoin} |-> ico[c]]
    BY <2>1, <2>4 DEF Replay
  <2> QED BY <2>5 DEF ico
<1>7. StateIsReplay
  BY <1>1, <1>2, <1>6, BlockFacts DEF StateIsReplay
<1> QED BY <1>2, <1>4, <1>5, <1>7 DEF Inv

\* A new block gets a state, and all others keep theirs.
LEMMA RecordStep ==
    ASSUME Inv, NEW p \in Known, NEW txs \in Contents, Record(p, txs),
           \/ verified' = verified
           \/ /\ verified' = verified \cup {Len(parent) + 1}
              /\ verify_block(txs, block_state_map[p])
    PROVE  Inv'
<1> PICK n : n = Len(parent)
  OBVIOUS
<1> PICK b : b = n + 1
  OBVIOUS
<1>1. /\ n \in Nat /\ Known = 0 .. n /\ p \in 0 .. n /\ b \in Nat /\ b = n + 1
      /\ txs \in Seq(Tx)
  BY ContentsAreTxs DEF Inv, BlocksTyped
<1>2. /\ parent' = Append(parent, p) /\ content' = Append(content, txs) /\ halted' = halted
      /\ block_state_map' = [h \in Known \cup {b} |->
                                IF h = b THEN update_state(txs, block_state_map[p])
                                ELSE block_state_map[h]]
  BY DEF Record, ParentState
<1>3. /\ Len(parent') = b /\ Len(content') = b
      /\ parent'[b] = p /\ content'[b] = txs
      /\ \A h \in 1 .. n : parent'[h] = parent[h] /\ content'[h] = content[h]
      /\ parent' \in Seq(Nat) /\ content' \in Seq(Contents)
  BY <1>1, <1>2 DEF Inv, BlocksTyped
<1>4. /\ Known' = 0 .. b
      /\ block_state_map'[b] = update_state(txs, block_state_map[p])
      /\ \A h \in Known : block_state_map'[h] = block_state_map[h]
  BY <1>1, <1>2 DEF Known
<1>5. BlocksTyped'
  <2>1. Above(b, parent')
    <3>1. \A h \in 1 .. b : h = b \/ h \in 1 .. n
      BY <1>1
    <3>2. b - 1 = n
      BY <1>1
    <3>3. \A h \in 1 .. n : parent[h] \in 0 .. h - 1
      BY DEF Inv, BlocksTyped, Above
    <3> QED BY <1>1, <1>3, <3>1, <3>2, <3>3 DEF Above
  <2>2. halted' \in BOOLEAN
    BY <1>2 DEF Inv, BlocksTyped
  <2>3. block_state_map' = [h \in Known' |-> block_state_map'[h]]
    BY <1>2 DEF Known
  <2> QED BY <1>3, <1>4, <2>1, <2>2, <2>3 DEF BlocksTyped
<1>6. StatesOK'
  <2>1. StateOK(block_state_map[p])
    BY DEF Inv, StatesOK
  <2>2. StateOK(update_state(txs, block_state_map[p]))
    BY <1>1, <2>1, UpdateKeeps
  <2>3. \A h \in Known' : h = b \/ h \in Known
    BY <1>1, <1>4
  <2>4. ASSUME NEW h \in Known' PROVE StateOK(block_state_map'[h])
    BY <1>4, <2>2, <2>3 DEF Inv, StatesOK
  <2> QED BY <2>4 DEF StatesOK, StateOK
<1>7. VerifiedAreGood'
  <2>1. ASSUME NEW v \in verified
        PROVE  v \in 1 .. b /\ verify_block(content'[v], block_state_map'[parent'[v]])
    <3>1. v \in 1 .. n /\ verify_block(content[v], block_state_map[parent[v]])
      BY DEF Inv, VerifiedAreGood
    <3>2. parent[v] \in Known
      BY <3>1, BlockFacts DEF Inv
    <3>3. content'[v] = content[v] /\ parent'[v] = parent[v]
          /\ block_state_map'[parent[v]] = block_state_map[parent[v]]
      BY <1>3, <1>4, <3>1, <3>2
    <3> QED BY <1>1, <3>1, <3>3
  <2>2. CASE verified' = verified
    BY <1>3, <2>1, <2>2 DEF VerifiedAreGood
  <2>3. CASE verified' = verified \cup {b} /\ verify_block(txs, block_state_map[p])
    BY <1>1, <1>3, <1>4, <2>1, <2>3 DEF VerifiedAreGood
  <2> QED BY <2>2, <2>3
<1>8. ASSUME NEW h \in Known PROVE History(h)' = History(h)
  <2>1. /\ History(h)' = Branch(b, parent', content', h)
        /\ History(h) = Branch(n, parent, content, h)
    <3>1. h \in Known'
      BY <1>1, <1>4
    <3> QED BY <1>1, <1>3, <1>4, <3>1, HistoryIsBranch
  <2>2. n \in Nat /\ b \in Nat /\ n <= b
    BY <1>1
  <2>5. Above(n, parent)
    BY <1>1 DEF Inv, BlocksTyped
  <2>6. Above(b, parent')
    BY <1>3, <1>5 DEF BlocksTyped
  <2>3. \A g \in 1 .. n : parent'[g] = parent[g] /\ content'[g] = content[g]
    BY <1>3
  <2>4. Stays(n, parent, content, b, parent', content')
    BY <2>2, <2>3, <2>5, <2>6, BranchStays
  <2> QED BY <1>1, <2>1, <2>4 DEF Stays
<1>9. History(b)' = History(p) \o txs
  <2>1. Branch(b, parent', content', b) = Branch(b, parent', content', p) \o txs
    <3>1. b \in Nat /\ b \in 1 .. b /\ Above(b, parent')
      BY <1>1, <1>3, <1>5 DEF BlocksTyped
    <3>2. Unfolds(b, parent', content')
      BY <3>1, BranchUnfolds
    <3>3. Branch(b, parent', content', b) = Branch(b, parent', content', parent'[b]) \o content'[b]
      BY <3>1, <3>2, Zenon DEF Unfolds
    <3>4. parent'[b] = p /\ content'[b] = txs
      BY <1>3
    <3> QED BY <3>3, <3>4, Zenon
  <2>2. /\ History(b)' = Branch(b, parent', content', b)
        /\ History(p)' = Branch(b, parent', content', p)
    <3>1. b \in Known' /\ p \in Known'
      BY <1>1, <1>4
    <3> QED BY <1>3, <1>4, <3>1, HistoryIsBranch
  <2>3. History(p)' = History(p)
    BY <1>8
  <2> QED BY <2>1, <2>2, <2>3, Zenon
<1>10. StateIsReplay'
  <2>1. block_state_map'[b] = Replay(History(b)')
    <3>1. block_state_map[p] = Replay(History(p)) /\ History(p) \in Seq(Tx)
      BY BlockFacts DEF Inv, StateIsReplay
    <3>2. update_state(txs, Replay(History(p))) = Replay(History(p) \o txs)
      BY <1>1, <3>1, UpdateReplays
    <3> QED BY <1>4, <1>9, <3>1, <3>2, Zenon
  <2>2. ASSUME NEW h \in Known PROVE block_state_map'[h] = Replay(History(h)')
    BY <1>4, <1>8 DEF Inv, StateIsReplay
  <2>3. \A h \in Known' : h = b \/ h \in Known
    BY <1>1, <1>4
  <2> QED BY <2>1, <2>2, <2>3 DEF StateIsReplay
<1> QED BY <1>5, <1>6, <1>7, <1>10 DEF Inv

LEMMA SameInv ==
    ASSUME Inv, UNCHANGED <<parent, content, block_state_map, verified>>, halted' \in BOOLEAN
    PROVE  Inv'
<1>1. BlocksTyped'
  BY DEF Inv, BlocksTyped, Known
<1>2. StatesOK' /\ VerifiedAreGood'
  BY DEF Inv, StatesOK, VerifiedAreGood, Known
<1>3. ASSUME NEW h \in Known' PROVE block_state_map'[h] = Replay(History(h)')
  <2>1. h \in Known
    BY DEF Known
  <2>2. /\ History(h)' = Branch(Len(parent'), parent', content', h)
        /\ History(h) = Branch(Len(parent), parent, content, h)
    <3>1. Known = 0 .. Len(parent) /\ Known' = 0 .. Len(parent')
      BY <1>1 DEF Inv, BlocksTyped
    <3> QED BY <2>1, <3>1, HistoryIsBranch
  <2>3. History(h)' = History(h)
    BY <2>2
  <2> QED BY <2>1, <2>3 DEF Inv, StateIsReplay
<1>4. StateIsReplay'
  BY <1>3 DEF StateIsReplay
<1> QED BY <1>1, <1>2, <1>4 DEF Inv

\* The miner's last own block, or genesis, has a state.
LEMMA LastOwnKnown ==
    ASSUME BlocksTyped
    PROVE  LastOwn \in Known
<1> DEFINE S == {0} \cup (DOMAIN parent \ verified)
           n == Len(parent)
<1>1. n \in Nat /\ Known = 0 .. n /\ S \in SUBSET (0 .. n) /\ S # {}
  BY DEF BlocksTyped
<1>2. LastOwn = Max(S)
  BY DEF LastOwn
<1> HIDE DEF S, n
<1> QED BY <1>1, <1>2, MaxFacts

LEMMA NextInv ==
    ASSUME Inv, [Next]_vars
    PROVE  Inv'
<1>1. ASSUME NEW p \in Known, NEW txs \in Contents, PeerBlock(p, txs)
      PROVE  Inv'
  <2>1. /\ Record(p, txs) /\ verified' = verified \cup {Len(parent) + 1}
        /\ verify_block(txs, block_state_map[p])
    BY <1>1 DEF PeerBlock, ParentState
  <2> QED BY <2>1, RecordStep
<1>2. ASSUME NEW p \in Known, NEW txs \in Contents, PeerBlockPanics(p, txs)
      PROVE  Inv'
  BY <1>2, SameInv DEF PeerBlockPanics
<1>3. ASSUME NEW b \in verified, PeerBlockAgain(b)
      PROVE  Inv'
  <2>1. b \in 1 .. Len(parent) /\ b \in Known
    BY BlockFacts DEF Inv, VerifiedAreGood
  <2>2. block_state_map[b] = update_state(content[b], block_state_map[parent[b]])
    BY <2>1, StateFromParent DEF Inv
  <2>3. block_state_map' = [block_state_map EXCEPT ![b] = block_state_map[b]]
    BY <1>3, <2>2 DEF PeerBlockAgain, ParentState
  <2>4. block_state_map' = block_state_map
    BY <2>1, <2>3 DEF Inv, BlocksTyped, Known
  <2>5. halted \in BOOLEAN
    BY DEF Inv, BlocksTyped
  <2> QED BY <1>3, <2>4, <2>5, SameInv DEF PeerBlockAgain
<1>4. ASSUME NEW txs \in Contents, OwnBlock(txs)
      PROVE  Inv'
  <2>1. Record(LastOwn, txs) /\ verified' = verified
    BY <1>4 DEF OwnBlock
  <2>2. LastOwn \in Known
    BY LastOwnKnown DEF Inv
  <2> QED BY <2>1, <2>2, RecordStep
<1>5. CASE UNCHANGED vars
  <2>1. halted' \in BOOLEAN
    BY <1>5 DEF vars, Inv, BlocksTyped
  <2> QED BY <1>5, <2>1, SameInv DEF vars
<1> QED BY <1>1, <1>2, <1>3, <1>4, <1>5 DEF Next

LEMMA InvHolds == Spec => []Inv
<1>1. Init => Inv
  BY InitInv
<1>2. Inv /\ [Next]_vars => Inv'
  BY NextInv
<1> QED BY <1>1, <1>2, PTL DEF Spec

\* The values of all coins stay u32s, and each block's parent has a state.
THEOREM TypesHold == Spec => []TypeOK
<1>1. Inv => TypeOK
  <2> SUFFICES ASSUME Inv PROVE TypeOK
    OBVIOUS
  <2>1. parent \in Seq(Known)
    <3>1. parent \in Seq(Nat) /\ \A b \in 1 .. Len(parent) : parent[b] \in Known
      BY BlockFacts DEF Inv, BlocksTyped
    <3> QED BY <3>1
  <2>2. \A h \in Known : \A c \in DOMAIN block_state_map[h] :
          block_state_map[h][c].value \in 0 .. MaxValue
    BY DEF Inv, StatesOK, StateOK
  <2> QED BY <2>1, <2>2 DEF TypeOK, Inv, BlocksTyped, VerifiedAreGood
<1> QED BY <1>1, InvHolds, PTL

\* The state of a block is the replay of its branch alone, whatever else arrived, in which
\* order and how often.
THEOREM StatesAreReplays == Spec => []StateIsReplay
<1>1. Inv => StateIsReplay
  BY DEF Inv
<1> QED BY <1>1, InvHolds, PTL

\* A transaction that verifies spends only coins that are in the state.
LEMMA VerifiedInputs ==
    ASSUME NEW tx \in Tx, NEW state, verify_tx(tx, state)
    PROVE  Inputs(tx) \subseteq DOMAIN state
<1> DEFINE n == Len(tx.input)
           I == {i \in 1 .. Len(tx.input) : ~Spendable(tx.input[i], tx.key, state)}
<1>1. n \in Nat /\ DOMAIN tx.input = 1 .. n
  BY TxFacts
<1>2. GoodInputs(tx, state) = IF (IF I # {} THEN Min(I) ELSE 0) = 0 THEN n
                              ELSE (IF I # {} THEN Min(I) ELSE 0) - 1
  BY DEF GoodInputs, SelectInSeq
<1>3. GoodInputs(tx, state) = n
  BY DEF verify_tx, AllGood
<1>4. I = {}
  <2>1. SUFFICES ASSUME I # {} PROVE FALSE
    OBVIOUS
  <2>2. I \in SUBSET Nat
    OBVIOUS
  <2>3. I \in SUBSET (1 .. n)
    OBVIOUS
  <2> HIDE DEF I
  <2>4. \E y \in I : \A z \in I : y <= z
    BY <2>1, <2>2, LeastNat
  <2>5. Min(I) \in I
    BY <2>4 DEF Min
  <2>6. Min(I) \in 1 .. n
    BY <2>3, <2>5
  <2> HIDE DEF n
  <2> QED BY <1>1, <1>2, <1>3, <2>1, <2>6
<1>5. \A i \in 1 .. n : tx.input[i] \in DOMAIN state
  BY <1>4 DEF Spendable
<1> QED BY <1>1, <1>5 DEF Inputs, ToSet

\* A verified block spends only what its own branch left unspent.
THEOREM NothingSpentTwice == Spec => []NoDoubleSpend
<1>1. Inv => NoDoubleSpend
  <2> SUFFICES ASSUME Inv, NEW b \in verified, NEW i \in DOMAIN content[b], NEW c \in Inputs(content[b][i])
               PROVE  c \in UnspentAfter(History(parent[b]))
    BY DEF NoDoubleSpend
  <2>1. b \in 1 .. Len(parent) /\ verify_block(content[b], block_state_map[parent[b]])
    BY DEF Inv, VerifiedAreGood
  <2>2. parent[b] \in Known /\ content[b] \in Seq(Tx)
    BY <2>1, BlockFacts DEF Inv
  <2>3. content[b][i] \in Tx /\ verify_tx(content[b][i], block_state_map[parent[b]])
    BY <2>1, <2>2 DEF verify_block
  <2>4. c \in DOMAIN block_state_map[parent[b]]
    BY <2>3, VerifiedInputs
  <2>5. block_state_map[parent[b]] = Replay(History(parent[b]))
    BY <2>2 DEF Inv, StateIsReplay
  <2>6. DOMAIN Replay(History(parent[b])) = UnspentAfter(History(parent[b]))
    BY DEF Replay
  <2> QED BY <2>4, <2>5, <2>6
<1> QED BY <1>1, InvHolds, PTL

-----------------------------------------------------------------------------
LEMMA FirstAreFinite == \A k \in Nat : IsFiniteSet(1 .. k)
<1> SUFFICES ASSUME NEW k \in Nat PROVE IsFiniteSet(1 .. k)
  OBVIOUS
<1>1. 1 \in Int /\ k \in Int
  OBVIOUS
<1> QED BY <1>1, FS_Interval

\* The values of some coins of a state.
Worth(state, C) == Total([c \in C |-> state[c].value])

LEMMA WorthType ==
    ASSUME NEW state, StateOK(state), NEW C \in SUBSET DOMAIN state
    PROVE  /\ IsFiniteSet(C)
           /\ [c \in C |-> state[c].value] \in [C -> Nat]
           /\ Worth(state, C) \in Nat
<1>1. IsFiniteSet(C)
  BY FS_Subset DEF StateOK
<1>2. \A c \in C : state[c].value \in Nat
  BY TxFacts DEF StateOK
<1> DEFINE f == [c \in C |-> state[c].value]
<1>3. f \in [C -> Nat]
  BY <1>2
<1>4. Worth(state, C) = Total(f)
  BY DEF Worth
<1> HIDE DEF f
<1>5. Total(f) \in Nat
  BY <1>1, <1>3, TotalBounds
<1> QED BY <1>1, <1>3, <1>4, <1>5 DEF f

LEMMA WorthSplits ==
    ASSUME NEW state, StateOK(state), NEW B \in SUBSET DOMAIN state, NEW C \in SUBSET DOMAIN state,
           B \cap C = {}, NEW U, U = B \cup C
    PROVE  Worth(state, U) = Worth(state, B) + Worth(state, C)
<1> DEFINE f == [c \in B |-> state[c].value]
           g == [c \in C |-> state[c].value]
           h == [c \in U |-> state[c].value]
<1>1. /\ IsFiniteSet(B) /\ f \in [B -> Nat]
      /\ IsFiniteSet(C) /\ g \in [C -> Nat]
      /\ h \in [U -> Nat]
  <2>1. U \in SUBSET DOMAIN state
    OBVIOUS
  <2> QED BY <2>1, WorthType
<1>2. \A c \in B : h[c] = f[c]
  OBVIOUS
<1>3. \A c \in C : h[c] = g[c]
  OBVIOUS
<1>4. Worth(state, U) = Total(h) /\ Worth(state, B) = Total(f) /\ Worth(state, C) = Total(g)
  BY DEF Worth
<1> HIDE DEF f, g, h
<1>5. f \in [B -> Int] /\ g \in [C -> Int] /\ h \in [U -> Int]
  BY <1>1
<1>6. Total(h) = Total(f) + Total(g)
  BY <1>1, <1>2, <1>3, <1>5, TotalSplits
<1> QED BY <1>4, <1>6

LEMMA WorthGrows ==
    ASSUME NEW s, StateOK(s), NEW B \in SUBSET DOMAIN s,
           NEW t, StateOK(t), NEW C \in SUBSET DOMAIN t,
           B \subseteq C, \A c \in B : s[c] = t[c]
    PROVE  Worth(s, B) <= Worth(t, C)
<1> DEFINE g == [c \in B |-> s[c].value]
           f == [c \in C |-> t[c].value]
           e == [c \in B |-> c]
<1>1. IsFiniteSet(B) /\ g \in [B -> Nat] /\ IsFiniteSet(C) /\ f \in [C -> Nat]
  BY WorthType
<1>2. e \in [B -> C] /\ IsInjective(e)
  BY DEF IsInjective
<1>3. \A c \in B : g[c] = f[e[c]]
  OBVIOUS
<1>4. Worth(s, B) = Total(g) /\ Worth(t, C) = Total(f)
  BY DEF Worth
<1> HIDE DEF e, f, g
<1>5. Total(g) <= Total(f)
  BY <1>1, <1>2, <1>3, TotalInjects
<1> QED BY <1>4, <1>5

\* The coins a transaction makes are worth no more than its outputs: of the outputs that
\* share a coin only one stays.
LEMMA OutputsWorth ==
    ASSUME NEW tx \in Tx, NEW s, StateOK(s), OutputCoins(tx) \subseteq DOMAIN s,
           \A c \in OutputCoins(tx) : s[c] = OutputAt(tx, c)
    PROVE  TotalOutput(tx) \in Nat /\ Worth(s, OutputCoins(tx)) <= TotalOutput(tx)
<1> DEFINE n == Len(tx.output)
           C == OutputCoins(tx)
           Pick(c) == CHOOSE i \in 1 .. n : OutputAt(tx, c) = tx.output[i] /\ OutputCoin(tx, i) = c
           f == [i \in 1 .. n |-> tx.output[i].value]
           g == [c \in C |-> s[c].value]
           e == [c \in C |-> Pick(c)]
<1>1. n \in Nat /\ IsFiniteSet(1 .. n) /\ f \in [1 .. n -> Nat]
  <2>1. n \in Nat
    BY TxFacts
  <2>2. \A i \in 1 .. n : tx.output[i].value \in Nat
    BY TxFacts
  <2> QED BY <2>1, <2>2, FirstAreFinite
<1>2. IsFiniteSet(C) /\ g \in [C -> Nat] /\ Worth(s, C) = Total(g)
  BY WorthType DEF Worth
<1>3. ASSUME NEW c \in C
      PROVE  Pick(c) \in 1 .. n /\ OutputAt(tx, c) = tx.output[Pick(c)] /\ OutputCoin(tx, Pick(c)) = c
  <2>1. \E i \in 1 .. n : OutputAt(tx, c) = tx.output[i] /\ OutputCoin(tx, i) = c
    BY OutputFacts
  <2> QED BY <2>1
<1> HIDE DEF Pick
<1>4. e \in [C -> 1 .. n] /\ \A c \in C : e[c] = Pick(c)
  BY <1>3
<1>5. IsInjective(e)
  <2> SUFFICES ASSUME NEW c \in C, NEW d \in C, e[c] = e[d] PROVE c = d
    BY <1>4 DEF IsInjective
  <2>1. Pick(c) = Pick(d)
    BY <1>4
  <2> QED BY <1>3, <2>1
<1>6. \A c \in C : g[c] = f[e[c]]
  <2> SUFFICES ASSUME NEW c \in C PROVE g[c] = f[e[c]]
    OBVIOUS
  <2>1. g[c] = OutputAt(tx, c).value
    OBVIOUS
  <2>2. f[e[c]] = tx.output[Pick(c)].value
    BY <1>3, <1>4
  <2> QED BY <1>3, <2>1, <2>2
<1>7. TotalOutput(tx) = Total(f)
  BY DEF TotalOutput, SumValues
<1> HIDE DEF C, e, f, g
<1>8. Total(g) <= Total(f)
  BY <1>1, <1>2, <1>4, <1>5, <1>6, TotalInjects
<1>9. Total(f) \in Nat
  BY <1>1, TotalBounds
<1> QED BY <1>2, <1>7, <1>8, <1>9 DEF C

\* What verify_tx adds up is what the inputs hold, if none is named twice.
LEMMA InputsWorth ==
    ASSUME NEW tx \in Tx, NEW state, StateOK(state), verify_tx(tx, state), IsInjective(tx.input)
    PROVE  /\ TotalInput(tx, state) \in Nat
           /\ TotalInput(tx, state) <= Worth(state, Inputs(tx))
           /\ TotalOutput(tx) <= TotalInput(tx, state)
<1> DEFINE n == Len(tx.input)
           C == Inputs(tx)
           g == [i \in 1 .. n |-> state[tx.input[i]].value]
           f == [c \in C |-> state[c].value]
           e == tx.input
<1>1. n \in Nat /\ DOMAIN e = 1 .. n /\ IsFiniteSet(1 .. n)
  BY TxFacts, FirstAreFinite
<1>2. C \subseteq DOMAIN state
  BY VerifiedInputs
<1>3. IsFiniteSet(C) /\ f \in [C -> Nat] /\ Worth(state, C) = Total(f)
  BY <1>2, WorthType DEF Worth
<1>4. e \in [1 .. n -> C] /\ \A i \in 1 .. n : e[i] \in C
  <2>1. tx.input \in Seq(ToSet(tx.input))
    BY LedgerAssumption
  <2> QED BY <1>1, <2>1 DEF Inputs, ToSet
<1>5. \A i \in 1 .. n : g[i] = f[e[i]]
  BY <1>4
<1>6. g \in [1 .. n -> Nat]
  BY <1>3, <1>4
<1>7. TotalInput(tx, state) = Total(g)
  <2>1. GoodInputs(tx, state) = n
    BY DEF verify_tx, AllGood
  <2> QED BY <2>1 DEF TotalInput, SumValues
<1>8. TotalInput(tx, state) >= TotalOutput(tx)
  BY DEF verify_tx
<1> HIDE DEF C, e, f, g, n
<1>9. IsInjective(e)
  BY DEF e
<1>10. Total(g) <= Total(f)
  BY <1>1, <1>3, <1>4, <1>5, <1>6, <1>9, TotalInjects
<1>11. Total(g) \in Nat
  BY <1>1, <1>6, TotalBounds
<1>12. TotalOutput(tx) <= TotalInput(tx, state)
  <2> DEFINE h == [i \in 1 .. Len(tx.output) |-> tx.output[i].value]
  <2>1. IsFiniteSet(1 .. Len(tx.output)) /\ h \in [1 .. Len(tx.output) -> Nat]
    <3>1. Len(tx.output) \in Nat /\ \A i \in 1 .. Len(tx.output) : tx.output[i].value \in Nat
      BY TxFacts
    <3> QED BY <3>1, FirstAreFinite
  <2>2. TotalOutput(tx) = Total(h)
    BY DEF TotalOutput, SumValues
  <2> HIDE DEF h
  <2>3. TotalOutput(tx) \in Nat
    BY <2>1, <2>2, TotalBounds
  <2> QED BY <1>7, <1>8, <1>11, <2>3
<1> QED BY <1>3, <1>7, <1>10, <1>11, <1>12 DEF C

\* Between the transactions of a block: coins that came with the block are worth at most
\* the inputs so far, all others are as before the block and not among these inputs.
Balanced(s, state, new, spent) ==
    /\ StateOK(s) /\ new \subseteq DOMAIN s /\ spent \subseteq DOMAIN state
    /\ \A c \in DOMAIN s \ new : c \in DOMAIN state \ spent /\ s[c] = state[c]
    /\ Worth(s, new) <= Worth(state, spent)

LEMMA ApplyBalances ==
    ASSUME NEW state, StateOK(state), NEW s, NEW new, NEW spent, Balanced(s, state, new, spent),
           NEW tx \in Tx, verify_tx(tx, state), IsInjective(tx.input), Inputs(tx) \cap spent = {}
    PROVE  Balanced(ApplyTx(s, tx), state, (new \ Inputs(tx)) \cup OutputCoins(tx), spent \cup Inputs(tx))
<1> DEFINE I == Inputs(tx)
           O == OutputCoins(tx)
           t == ApplyTx(s, tx)
           kept == new \ (I \cup O)
           come == (new \ I) \cup O
<1>1. /\ DOMAIN t = (DOMAIN s \ I) \cup O
      /\ \A c \in O : t[c] = OutputAt(tx, c)
      /\ \A c \in DOMAIN t \ O : t[c] = s[c]
  BY DEF ApplyTx
<1>2. StateOK(t)
  BY ApplyKeeps DEF Balanced
<1>3. I \subseteq DOMAIN state
  BY VerifiedInputs
<1> HIDE DEF I, O, t
<1>4. /\ new \subseteq DOMAIN s /\ spent \subseteq DOMAIN state /\ StateOK(s)
      /\ \A c \in DOMAIN s \ new : c \in DOMAIN state \ spent /\ s[c] = state[c]
      /\ Worth(s, new) <= Worth(state, spent)
  BY DEF Balanced
<1>5. kept \subseteq DOMAIN t /\ O \subseteq DOMAIN t /\ kept \cap O = {} /\ come = kept \cup O
      /\ come \subseteq DOMAIN t /\ kept \subseteq new /\ \A c \in kept : t[c] = s[c]
  BY <1>1, <1>4
<1>6. \A c \in DOMAIN t \ come : c \in DOMAIN state \ (spent \cup I) /\ t[c] = state[c]
  BY <1>1, <1>4
<1> HIDE DEF kept, come
<1>7. Worth(t, come) = Worth(t, kept) + Worth(t, O)
  BY <1>2, <1>5, WorthSplits
<1>8. Worth(t, kept) <= Worth(s, new)
  BY <1>2, <1>4, <1>5, WorthGrows
<1>9. TotalOutput(tx) \in Nat /\ Worth(t, O) <= TotalOutput(tx)
  <2>1. O \subseteq DOMAIN t /\ \A c \in O : t[c] = OutputAt(tx, c)
    BY <1>1, <1>5
  <2> QED BY <1>2, <2>1, OutputsWorth DEF O
<1>10. /\ TotalInput(tx, state) \in Nat
       /\ TotalOutput(tx) <= TotalInput(tx, state)
       /\ TotalInput(tx, state) <= Worth(state, I)
  BY InputsWorth DEF I
<1>11. Worth(state, spent \cup I) = Worth(state, spent) + Worth(state, I)
  <2>1. spent \cap I = {}
    BY DEF I
  <2> QED BY <1>3, <1>4, <2>1, WorthSplits
<1>12. /\ Worth(t, kept) \in Nat /\ Worth(t, O) \in Nat /\ Worth(s, new) \in Nat
       /\ Worth(state, spent) \in Nat /\ Worth(state, I) \in Nat
  BY <1>2, <1>3, <1>4, <1>5, WorthType
<1>13. Worth(t, come) <= Worth(state, spent \cup I)
  <2> DEFINE a == Worth(t, kept)
             b == Worth(t, O)
             c == Worth(s, new)
             d == Worth(state, spent)
             i == TotalInput(tx, state)
             o == TotalOutput(tx)
             w == Worth(state, I)
  <2>1. {a, b, c, d, i, o, w} \subseteq Nat
    BY <1>9, <1>10, <1>12
  <2>2. a <= c /\ c <= d /\ b <= o /\ o <= i /\ i <= w
    BY <1>4, <1>8, <1>9, <1>10
  <2> HIDE DEF a, b, c, d, i, o, w
  <2>3. a + b <= d + w
    BY <2>1, <2>2
  <2> QED BY <1>7, <1>11, <2>3 DEF a, b, d, w
<1>14. spent \cup I \subseteq DOMAIN state
  BY <1>3, <1>4
<1>15. Balanced(t, state, come, spent \cup I)
  BY <1>2, <1>5, <1>6, <1>13, <1>14 DEF Balanced
<1> QED BY <1>15 DEF t, come, I, O

LEMMA UpdateBalances ==
    ASSUME NEW state, StateOK(state), NEW txs \in Seq(Tx), verify_block(txs, state), ConflictFree(txs)
    PROVE  \E new, spent : Balanced(update_state(txs, state), state, new, spent)
<1> DEFINE n == Len(txs)
           Spent(k) == UNION {Inputs(txs[i]) : i \in 1 .. k}
<1>1. PICK after : /\ after[0] = state
                   /\ \A k \in 1 .. Len(txs) : after[k] = ApplyTx(after[k - 1], txs[k])
                   /\ update_state(txs, state) = after[Len(txs)]
  BY UpdateUnfolds
<1> DEFINE A == {k \in 0 .. n : \E new : Balanced(after[k], state, new, Spent(k))}
<1>2. n \in Nat /\ DOMAIN txs = 1 .. n
  OBVIOUS
<1>3. ASSUME NEW k \in 0 .. n, \A j \in 0 .. k - 1 : j \in A
      PROVE  k \in A
  <2>1. CASE k = 0
    <3>1. Spent(0) = {}
      OBVIOUS
    <3>2. Worth(state, {}) \in Nat
      BY WorthType
    <3>3. Balanced(state, state, {}, {})
      BY <3>2 DEF Balanced
    <3> QED BY <1>1, <2>1, <3>1, <3>3
  <2>2. CASE k # 0
    <3>1. k \in 1 .. n /\ k - 1 \in 0 .. k - 1 /\ txs[k] \in Tx
      BY <1>2, <2>2
    <3>2. PICK new : Balanced(after[k - 1], state, new, Spent(k - 1))
      BY <1>3, <3>1
    <3>3. Inputs(txs[k]) \cap Spent(k - 1) = {}
      <4>1. \A i \in 1 .. k - 1 : Inputs(txs[k]) \cap Inputs(txs[i]) = {}
        BY <1>2, <3>1 DEF ConflictFree
      <4> QED BY <4>1
    <3>4. Spent(k) = Spent(k - 1) \cup Inputs(txs[k])
      <4>1. \A i \in 1 .. k : i = k \/ i \in 1 .. k - 1
        BY <3>1
      <4>2. \A i \in 1 .. k - 1 : i \in 1 .. k
        BY <3>1
      <4>3. k \in 1 .. k
        BY <3>1
      <4> QED BY <4>1, <4>2, <4>3
    <3>5. verify_tx(txs[k], state) /\ IsInjective(txs[k].input)
      BY <1>2, <3>1 DEF verify_block, ConflictFree
    <3> DEFINE before == Spent(k - 1)
               come == (new \ Inputs(txs[k])) \cup OutputCoins(txs[k])
    <3>6. Balanced(after[k - 1], state, new, before) /\ Inputs(txs[k]) \cap before = {}
      BY <3>2, <3>3
    <3> HIDE DEF before
    <3>7. Balanced(ApplyTx(after[k - 1], txs[k]), state, come, before \cup Inputs(txs[k]))
      BY <3>1, <3>5, <3>6, ApplyBalances
    <3>8. after[k] = ApplyTx(after[k - 1], txs[k])
      BY <1>1, <3>1
    <3> HIDE DEF come
    <3>9. Balanced(after[k], state, come, Spent(k))
      BY <3>4, <3>7, <3>8 DEF before
    <3> QED BY <3>9
  <2> QED BY <2>1, <2>2
<1>4. n \in A
  <2> HIDE DEF A, n
  <2>1. 0 .. n \subseteq A
    BY <1>2, <1>3, UpTo
  <2> QED BY <1>2, <2>1
<1> QED BY <1>1, <1>4

LEMMA BalancedGains ==
    ASSUME NEW state, StateOK(state), NEW s, NEW new, NEW spent, Balanced(s, state, new, spent)
    PROVE  Money(s) <= Money(state)
<1> DEFINE old == DOMAIN s \ new
           rest == DOMAIN state \ spent
<1>1. /\ StateOK(s) /\ new \subseteq DOMAIN s /\ spent \subseteq DOMAIN state
      /\ old \subseteq rest /\ \A c \in old : s[c] = state[c]
      /\ Worth(s, new) <= Worth(state, spent)
  BY DEF Balanced
<1>2. Money(s) = Worth(s, DOMAIN s) /\ Money(state) = Worth(state, DOMAIN state)
  BY DEF Money, Worth
<1>3. /\ old \subseteq DOMAIN s /\ old \cap new = {} /\ DOMAIN s = old \cup new
      /\ rest \subseteq DOMAIN state /\ rest \cap spent = {} /\ DOMAIN state = rest \cup spent
  BY <1>1
<1> HIDE DEF old, rest
<1>4. Worth(s, DOMAIN s) = Worth(s, old) + Worth(s, new)
  BY <1>1, <1>3, WorthSplits
<1>5. Worth(state, DOMAIN state) = Worth(state, rest) + Worth(state, spent)
  BY <1>1, <1>3, WorthSplits
<1>6. Worth(s, old) <= Worth(state, rest)
  BY <1>1, <1>3, WorthGrows
<1>7. /\ Worth(s, old) \in Nat /\ Worth(s, new) \in Nat
      /\ Worth(state, rest) \in Nat /\ Worth(state, spent) \in Nat
  BY <1>1, <1>3, WorthType
<1> QED BY <1>1, <1>2, <1>4, <1>5, <1>6, <1>7

\* A verified block in which no coin is spent twice leaves no more money than it found.
THEOREM NoMoneyMade == Spec => []NoInflation
<1>1. Inv => NoInflation
  <2> SUFFICES ASSUME Inv, NEW b \in verified, ConflictFree(content[b])
               PROVE  Money(block_state_map[b]) <= Money(block_state_map[parent[b]])
    BY DEF NoInflation
  <2>1. b \in 1 .. Len(parent) /\ verify_block(content[b], block_state_map[parent[b]])
    BY DEF Inv, VerifiedAreGood
  <2>2. parent[b] \in Known /\ content[b] \in Seq(Tx)
    BY <2>1, BlockFacts DEF Inv
  <2>3. StateOK(block_state_map[parent[b]])
    BY <2>2 DEF Inv, StatesOK
  <2>4. block_state_map[b] = update_state(content[b], block_state_map[parent[b]])
    BY <2>1, StateFromParent DEF Inv
  <2>5. PICK new, spent : Balanced(block_state_map[b], block_state_map[parent[b]], new, spent)
    BY <2>1, <2>2, <2>3, <2>4, UpdateBalances
  <2> QED BY <2>3, <2>5, BalancedGains
<1> QED BY <1>1, InvHolds, PTL
=============================================================================
