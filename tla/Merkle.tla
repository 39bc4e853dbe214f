------------------------------- MODULE Merkle -------------------------------
(***************************************************************************)
(* The Merkle tree of src/src/types/merkle.rs: new() builds it level by     *)
(* level into one vector of hashes, proof() reads the sibling hashes back   *)
(* by index arithmetic, verify() folds them up to the root.  SHA256 is an   *)
(* injective pairing, so trees are equal when their hashes are.             *)
(***************************************************************************)
EXTENDS Integers, SequencesExt

CONSTANTS Leaves,       \* hashes of the data: 1-tuples, apart from all pairs
          MaxLeaves     \* bound of the model: length of the data

ASSUME MerkleAssumption == MaxLeaves \in Nat

VARIABLES data,         \* hashes of the data given to new()
          queue,        \* the level that is being paired
          hashes,       \* all levels so far, leaves first
          height, count,
          built

vars == <<data, queue, hashes, height, count, built>>

Pair(left, right) == <<left, right>>
Default           == << >>                  \* H256::default()

Padded(q)  == IF Len(q) % 2 = 0 THEN q ELSE Append(q, Last(q))
Parents(q) == [k \in 1 .. Len(q) \div 2 |-> Pair(q[2 * k - 1], q[2 * k])]

\* Empty data gives the empty tree at once; an odd number of leaves is padded, a
\* single one too.
Init ==
    /\ data \in BoundedSeq(Leaves, MaxLeaves)
    /\ queue = Padded(data)
    /\ count = Len(queue)
    /\ hashes = << >>
    /\ height = 0
    /\ built = (data = << >>)

\* One iteration of the loop over the levels.
BuildLevel ==
    LET level == Padded(queue) IN
    /\ ~built /\ Len(queue) > 1
    /\ hashes' = hashes \o level
    /\ queue' = Parents(level)
    /\ height' = height + 1
    /\ UNCHANGED <<data, count, built>>

BuildRoot ==
    /\ ~built /\ Len(queue) = 1
    /\ hashes' = hashes \o queue
    /\ queue' = << >>
    /\ height' = height + 1
    /\ built' = TRUE
    /\ UNCHANGED <<data, count>>

Next == BuildLevel \/ BuildRoot
Spec == Init /\ [][Next]_vars

root == IF hashes = << >> THEN Default ELSE Last(hashes)

\* Faulty variant: the padding of the inner levels forgotten.
NextLenUnpadded(len) == len \div 2
NextLen(len) == LET half == len \div 2
                IN  IF half % 2 # 0 /\ half # 1 THEN half + 1 ELSE half

\* No tree has more levels above its leaves than it has leaves.
Levels == 0 .. Len(data)

\* start, level_len and div as the loop of proof() has them on each level.
Layout[level \in Levels] ==
    IF level = 0 THEN [start |-> 0, len |-> count, div |-> 1]
    ELSE LET below == Layout[level - 1]
         IN  [start |-> below.start + below.len, len |-> NextLen(below.len),
              div |-> below.div * 2]

\* Where proof() is on a level, and the hash it reads there, as indices (from 0) into
\* the vector.
At(index, level) == Layout[level].start + index \div Layout[level].div
Sibling(i)       == IF i % 2 = 0 THEN i + 1 ELSE i - 1
ProofIndices(index) == [level \in 1 .. height - 1 |-> Sibling(At(index, level - 1))]

\* height - 1 underflows, or a read is out of bounds.
ProofPanics(index) ==
    height = 0 \/ \E i \in ToSet(ProofIndices(index)) : i >= Len(hashes)

proof(index) == [k \in DOMAIN ProofIndices(index) |-> hashes[ProofIndices(index)[k] + 1]]

\* Faulty variant: the index not halved on the way up.
PairUpSameIndex(at, h) ==
    [hash  |-> IF at.index % 2 = 0 THEN Pair(at.hash, h) ELSE Pair(h, at.hash),
     index |-> at.index]
PairUp(at, h) ==
    [hash  |-> IF at.index % 2 = 0 THEN Pair(at.hash, h) ELSE Pair(h, at.hash),
     index |-> at.index \div 2]

\* The hash along the path to the root; leaf_size is not looked at.
verify(datum, path, index) ==
    LET up[i \in 0 .. Len(path)] ==
            IF i = 0 THEN [hash |-> datum, index |-> index] ELSE PairUp(up[i - 1], path[i])
    IN  up[Len(path)].hash = root
-----------------------------------------------------------------------------
\* The tree as the course defines it: level 0 are the leaves, and each level pairs
\* the nodes of the one below, its last one with itself if their number is odd.
Above(q) == [k \in 1 .. (Len(q) + 1) \div 2 |->
                Pair(q[2 * k - 1], IF 2 * k <= Len(q) THEN q[2 * k] ELSE q[2 * k - 1])]
Level[h \in Levels] == IF h = 0 THEN data ELSE Above(Level[h - 1])

\* The places, from 1, on the way from a leaf to the root.
Place(index) ==
    LET place[h \in Levels] == IF h = 0 THEN index + 1 ELSE (place[h - 1] + 1) \div 2
    IN  place

Indices == 0 .. Len(data) - 1
Top     == height - 1

\* The root is that of the tree of the definition, at the least height with room
\* for the leaves (one leaf is paired with itself), and the empty tree has none.
RootIsTop ==
    built => IF data = << >> THEN root = Default /\ height = 0
             ELSE /\ Top \in Levels
                  /\ Level[Top] = <<root>>
                  /\ Top = 1 \/ Len(Level[Top - 1]) > 1

\* The vector holds the levels one after the other, each padded, so that what
\* proof() finds by arithmetic is the sibling.  It panics for the empty tree only.
ProofIsSiblings ==
    built => /\ data = << >> => ProofPanics(0)
             /\ \A index \in Indices :
                  /\ ~ProofPanics(index)
                  /\ Len(proof(index)) = Top
                  /\ \A h \in 1 .. Top :
                       LET k == Place(index)[h - 1]
                           q == Level[h - 1]
                       IN  proof(index)[h] = q[IF k % 2 = 0 THEN k - 1
                                               ELSE IF k < Len(q) THEN k + 1 ELSE k]

\* new() and proof() agree on one tree, and it is the tree of the definition.
VectorIsTree == RootIsTop /\ ProofIsSiblings

\* verify accepts the proof of every leaf, and with it no leaf at a place of the data
\* that holds another one.
ProofsVerify ==
    built => \A index \in Indices :
                /\ verify(data[index + 1], proof(index), index)
                /\ \A other \in Indices, leaf \in Leaves :
                     verify(leaf, proof(index), other) => leaf = data[other + 1]
=============================================================================
