-------------------------- MODULE BlockchainProofs --------------------------
(***************************************************************************)
(* Safety of the orphan search of Blockchain.tla, for any number of blocks, *)
(* any block tree and any set of blocks short of proof of work.            *)
(***************************************************************************)
EXTENDS Blockchain, FiniteSetTheorems, TLAPS

\* While a search runs, every buffered block whose parent is in the chain is
\* either adopted already or will be: its parent is still queued.
SearchCovers ==
    \A c \in buffer_map : parent[c] \in chain_map =>
        parent[c] \in hash_queue \/ c \in block_to_remove

\* Buffered blocks that are in the chain too are those adopted by the search.
AdoptedAreMarked ==
    /\ block_to_remove \subseteq chain_map
    /\ \A c \in buffer_map : c \in chain_map => c \in block_to_remove

\* Between inserts the locals are gone.
IdleIsClean == pc = "idle" => hash_queue = {} /\ block_to_remove = {}

IInv ==
    /\ TypeOK
    /\ ParentClosed
    /\ LengthIsDepth
    /\ SearchCovers
    /\ AdoptedAreMarked
    /\ IdleIsClean

USE DEF Genesis, Block, Hash, EnoughWork, LongerThanTip, LengthAfter,
        Dequeue, Remaining

-----------------------------------------------------------------------------
\* The new tree of one node satisfies the invariant.
LEMMA InitIInv == ASSUME Init PROVE IInv
<1>1. TypeOK
  BY BlocksAssumption DEF Init, TypeOK
<1>2. ParentClosed /\ LengthIsDepth
  BY DEF Init, ParentClosed, LengthIsDepth
<1>3. SearchCovers /\ AdoptedAreMarked /\ IdleIsClean
  BY DEF Init, SearchCovers, AdoptedAreMarked, IdleIsClean
<1> QED BY <1>1, <1>2, <1>3 DEF IInv

\* Buffering an orphan: it is outside the chain because its parent is.
LEMMA OrphanIInv ==
    ASSUME IInv, NEW b \in Block, InsertOrphan(b)
    PROVE  IInv'
<1> USE DEF InsertOrphan, headers, locals, IInv
<1>1. b \notin chain_map
  BY DEF ParentClosed
<1>2. TypeOK'
  BY DEF TypeOK
<1>3. ParentClosed' /\ LengthIsDepth'
  BY DEF ParentClosed, LengthIsDepth
<1>4. SearchCovers'
  BY DEF SearchCovers
<1>5. AdoptedAreMarked'
  BY <1>1 DEF AdoptedAreMarked
<1>6. IdleIsClean'
  BY DEF IdleIsClean
<1> QED BY <1>2, <1>3, <1>4, <1>5, <1>6

\* Attaching a block: it was not buffered (nothing adoptable is, between
\* inserts) and it is no one's parent unless it was in the chain already.
LEMMA AttachIInv ==
    ASSUME IInv, NEW b \in Block, InsertAttach(b)
    PROVE  IInv'
<1> USE DEF InsertAttach, headers, IInv
<1>1. b \notin buffer_map
  BY DEF SearchCovers, IdleIsClean
<1>2. length_map[parent[b]] \in Nat /\ parent[b] \in Int /\ parent[b] < b
  BY DEF TypeOK
<1>3. b \in chain_map => length_map[b] = length_map[parent[b]] + 1
  BY DEF LengthIsDepth
<1>4. TypeOK'
  <2>1. /\ parent' = parent /\ pow' = pow /\ buffer_map' = buffer_map /\ adopted' = adopted
        /\ chain_map' = chain_map \cup {b} /\ tip' \in chain_map \cup {b} /\ pc' = "bfs"
        /\ hash' = b /\ hash_queue' = {b} /\ block_to_remove' = {}
    BY DEF TypeOK
  <2>2. length_map' \in [chain_map \cup {b} -> Nat]
    <3>1. LengthAfter(parent[b]) \in Nat
      BY <1>2 DEF LengthAfter
    <3>2. length_map \in [chain_map -> Nat]
      BY DEF TypeOK
    <3> QED BY <3>1, <3>2
  <2>3. b \in Hash
    BY DEF TypeOK, Hash
  <2> QED BY <2>1, <2>2, <2>3 DEF TypeOK
<1>5. ParentClosed'
  BY DEF ParentClosed, TypeOK
<1>6. LengthIsDepth'
  <2>1. \A h \in chain_map : length_map'[h] = length_map[h]
    BY <1>3 DEF TypeOK
  <2>2. length_map'[b] = length_map'[parent[b]] + 1
    BY <2>1
  <2>3. \A h \in chain_map \ {Genesis} : parent[h] \in chain_map
    BY DEF ParentClosed
  <2> QED BY <2>1, <2>2, <2>3 DEF LengthIsDepth, ParentClosed, TypeOK
<1>7. SearchCovers'
  BY DEF SearchCovers, IdleIsClean
<1>8. AdoptedAreMarked'
  BY <1>1 DEF AdoptedAreMarked, IdleIsClean
<1>9. IdleIsClean'
  BY DEF IdleIsClean
<1> QED BY <1>4, <1>5, <1>6, <1>7, <1>8, <1>9

\* A round of the search: children leave the front for the queue.
LEMMA StepIInv ==
    ASSUME IInv, NEW p \in Hash, BfsStep(p)
    PROVE  IInv'
<1> USE DEF BfsStep, headers, IInv
<1>1. p \in chain_map /\ length_map[p] \in Nat
  BY DEF TypeOK
<1>2. \A c \in Children(p) : c \in buffer_map /\ c \in Block /\ parent[c] = p
  BY DEF Children, TypeOK
<1>3. TypeOK'
  <2>1. length_map' \in [chain_map' -> Nat]
    <3>1. length_map[p] + 1 \in Nat
      BY <1>1
    <3>2. \A h \in chain_map : length_map[h] \in Nat
      BY DEF TypeOK
    <3> QED BY <3>1, <3>2
  <2>2. chain_map' \subseteq Hash /\ hash_queue' \subseteq chain_map'
    <3>1. Children(p) \subseteq Hash
      BY <1>2
    <3>2. chain_map \subseteq Hash /\ hash_queue \subseteq chain_map
      BY DEF TypeOK
    <3> QED BY <3>1, <3>2
  <2>3. block_to_remove' \subseteq buffer_map'
    BY <1>2 DEF TypeOK
  <2>4. tip' \in chain_map' /\ hash' \in chain_map'
    BY DEF TypeOK
  <2> QED BY <2>1, <2>2, <2>3, <2>4 DEF TypeOK
<1>4. ParentClosed'
  BY <1>1, <1>2 DEF ParentClosed
<1>5. LengthIsDepth'
  \* a child that is in the chain already keeps the length it has
  <2>1. \A c \in Children(p) : c \in chain_map => length_map[c] = length_map[p] + 1
    BY <1>2 DEF LengthIsDepth
  <2>2. \A h \in chain_map : length_map'[h] = length_map[h]
    BY <2>1 DEF TypeOK
  <2>3. \A c \in Children(p) : length_map'[c] = length_map[p] + 1
    OBVIOUS
  <2>4. \A h \in chain_map \ {Genesis} : parent[h] \in chain_map
    BY DEF ParentClosed
  <2>5. Genesis \in chain_map
    BY DEF ParentClosed
  <2> QED BY <1>1, <1>2, <2>2, <2>3, <2>4, <2>5 DEF LengthIsDepth
<1>6. SearchCovers'
  <2> SUFFICES ASSUME NEW c \in buffer_map, parent[c] \in chain_map'
               PROVE  parent[c] \in hash_queue' \/ c \in block_to_remove'
    BY DEF SearchCovers
  <2>1. CASE parent[c] = p
    BY <2>1 DEF Children
  <2>2. CASE parent[c] # p
    BY <2>2 DEF SearchCovers
  <2> QED BY <2>1, <2>2
<1>7. AdoptedAreMarked'
  BY DEF AdoptedAreMarked
<1>8. IdleIsClean'
  BY DEF IdleIsClean
<1> QED BY <1>3, <1>4, <1>5, <1>6, <1>7, <1>8

\* Cleaning the buffer: exactly the blocks that are in the chain leave it.
LEMMA DoneIInv == ASSUME IInv, BfsDone PROVE IInv'
<1> USE DEF BfsDone, headers, IInv
<1>1. TypeOK'
  BY DEF TypeOK, ParentClosed
<1>2. ParentClosed' /\ LengthIsDepth'
  BY DEF ParentClosed, LengthIsDepth
<1>3. SearchCovers' /\ AdoptedAreMarked' /\ IdleIsClean'
  BY DEF SearchCovers, AdoptedAreMarked, IdleIsClean
<1> QED BY <1>1, <1>2, <1>3

LEMMA StutterIInv == ASSUME IInv, UNCHANGED vars PROVE IInv'
  BY DEF IInv, vars, TypeOK, ParentClosed, LengthIsDepth, SearchCovers,
         AdoptedAreMarked, IdleIsClean

LEMMA NextIInv == ASSUME IInv, [Next]_vars PROVE IInv'
<1>1. ASSUME NEW b \in Block, InsertOrphan(b) PROVE IInv'
  BY <1>1, OrphanIInv
<1>2. ASSUME NEW b \in Block, InsertAttach(b) PROVE IInv'
  BY <1>2, AttachIInv
<1>3. ASSUME NEW p \in Hash, BfsStep(p) PROVE IInv'
  BY <1>3, StepIInv
<1>4. CASE BfsDone
  BY <1>4, DoneIInv
<1>5. CASE UNCHANGED vars
  BY <1>5, StutterIInv
<1> QED BY <1>1, <1>2, <1>3, <1>4, <1>5 DEF Next, Search

LEMMA Inductive == Spec => []IInv
  BY InitIInv, NextIInv, PTL DEF Spec

-----------------------------------------------------------------------------
\* The fields of the struct and the locals of insert keep their types; tip, hash
\* and the queued hashes are always in the chain, so no lookup panics.
THEOREM TypeCorrect == Spec => []TypeOK
  BY Inductive, PTL DEF IInv

\* The chain is closed under parents: all_blocks_in_longest_chain reaches genesis.
THEOREM ChainIsClosed == Spec => []ParentClosed
  BY Inductive, PTL DEF IInv

\* length_map is the depth of every block in the tree, also for adopted orphans.
THEOREM LengthsAreDepths == Spec => []LengthIsDepth
  BY Inductive, PTL DEF IInv

\* When insert returns no buffered block could be attached.
THEOREM NoOrphanStranded == Spec => []NoStrandedOrphan
<1>1. IInv => NoStrandedOrphan
  BY DEF IInv, SearchCovers, AdoptedAreMarked, IdleIsClean, NoStrandedOrphan
<1> QED BY <1>1, Inductive, PTL

\* No step loses a block insert has taken.
THEOREM BlocksAreKept == Spec => NoBlockLost
<1>1. ASSUME IInv, [Next]_vars
      PROVE  [chain_map \cup buffer_map \subseteq chain_map' \cup buffer_map']_vars
  BY <1>1 DEF Next, Search, InsertOrphan, InsertAttach, BfsStep, BfsDone, Children,
              IInv, AdoptedAreMarked
<1> QED BY <1>1, Inductive, PTL DEF Spec, NoBlockLost

-----------------------------------------------------------------------------
\* Until a search adopts a block the tip is a longest chain even while one runs.
Dominates == \A h \in chain_map : length_map[h] <= length_map[tip]
UntilAdopted == adopted = {} => Dominates

OInv == IInv /\ UntilAdopted

Grows == (tip' # tip /\ adopted' = {}) => length_map'[tip'] > length_map[tip]

LEMMA InitOInv == ASSUME Init PROVE OInv
<1>1. Dominates
  BY DEF Init, Dominates
<1> QED BY <1>1, InitIInv DEF OInv, UntilAdopted

\* The attached block is the only one whose length can pass the tip's.
LEMMA AttachOInv ==
    ASSUME OInv, NEW b \in Block, InsertAttach(b)
    PROVE  OInv' /\ Grows
<1> USE DEF InsertAttach, OInv
<1>1. IInv'
  BY AttachIInv
<1>2. /\ length_map \in [chain_map -> Nat] /\ tip \in chain_map
      /\ length_map[parent[b]] \in Nat
  BY DEF IInv, TypeOK
<1>3. \A h \in chain_map : length_map'[h] = length_map[h]
  BY <1>2 DEF IInv, LengthIsDepth
<1>4. length_map'[b] = length_map[parent[b]] + 1
  OBVIOUS
<1>5. UntilAdopted' /\ Grows
  <2> SUFFICES ASSUME adopted = {} PROVE Dominates' /\ Grows
    BY DEF UntilAdopted, Grows
  <2>1. Dominates
    BY DEF UntilAdopted
  <2> QED BY <1>2, <1>3, <1>4, <2>1 DEF Dominates, Grows
<1> QED BY <1>1, <1>5

\* A round that adopts nothing leaves lengths and tip alone.
LEMMA StepOInv ==
    ASSUME OInv, NEW p \in Hash, BfsStep(p)
    PROVE  OInv' /\ Grows
<1> USE DEF BfsStep, OInv
<1>1. IInv'
  BY StepIInv
<1>2. UntilAdopted' /\ Grows
  <2> SUFFICES ASSUME adopted' = {} PROVE Dominates' /\ Grows
    BY DEF UntilAdopted, Grows
  <2>1. adopted = {} /\ Children(p) = {}
    OBVIOUS
  <2>2. Dominates
    BY <2>1 DEF UntilAdopted
  <2>3. chain_map' = chain_map /\ tip' = tip
    BY <2>1
  <2>4. \A h \in chain_map : length_map'[h] = length_map[h]
    BY <2>1
  <2>5. tip \in chain_map
    BY DEF IInv, TypeOK
  <2> QED BY <2>2, <2>3, <2>4, <2>5 DEF Dominates, Grows
<1> QED BY <1>1, <1>2

LEMMA NextOInv ==
    ASSUME OInv, [Next]_vars
    PROVE  OInv' /\ [Grows]_vars
<1>1. ASSUME NEW b \in Block, InsertAttach(b) PROVE OInv' /\ Grows
  BY <1>1, AttachOInv
<1>2. ASSUME NEW p \in Hash, BfsStep(p) PROVE OInv' /\ Grows
  BY <1>2, StepOInv
<1>3. ASSUME NEW b \in Block, InsertOrphan(b) PROVE OInv' /\ Grows
  BY <1>3, OrphanIInv
     DEF OInv, InsertOrphan, UntilAdopted, Dominates, Grows, headers
<1>4. CASE BfsDone
  BY <1>4, DoneIInv DEF OInv, BfsDone, UntilAdopted, Dominates, Grows, headers
<1>5. CASE UNCHANGED vars
  BY <1>5, StutterIInv DEF OInv, vars, UntilAdopted, Dominates
<1> QED BY <1>1, <1>2, <1>3, <1>4, <1>5 DEF Next, Search

LEMMA OInductive == Spec => []OInv
  BY InitOInv, NextOInv, PTL DEF Spec

\* Until a search adopts a block, insert keeps tip a longest chain of the tree.
THEOREM TipStaysLongest == Spec => []TipIsLongest
<1>1. OInv => TipIsLongest
  BY DEF OInv, UntilAdopted, Dominates, TipIsLongest
<1> QED BY <1>1, OInductive, PTL

\* Until a search adopts a block, the tip never moves to a chain that is not
\* strictly longer.
THEOREM TipMovesToLonger == Spec => TipOnlyGrows
  BY OInductive, NextOInv, PTL DEF Spec, TipOnlyGrows, Grows
-----------------------------------------------------------------------------
(***************************************************************************)
(* Refinement: the search, step by step, computes what BlockTree's Insert  *)
(* says in one.  Buffering an orphan is an Insert of its own; attaching a  *)
(* block and the rounds of the search are stutters (the abstract struct    *)
(* is the one saved when the insert began), and the end of the search is   *)
(* the Insert of the block it began with.                                  *)
(***************************************************************************)

\* The block being inserted and the blocks its insert will adopt.
Family == {hash} \cup Adopted(hash, before.buffer_map \ {hash}, parent)

\* The depth insert gives a member of the family, counted along the family.
FamilyDepth(h) ==
    before.length_map[parent[hash]] + Cardinality(Lineage(h, Family, parent))

\* The part of the family that has joined the chain so far.
Joined == {hash} \cup block_to_remove

\* The struct and the block that the running insert started from.
StartedFrom ==
    /\ hash \in pow /\ hash \notin buffer_map
    /\ before = [chain_map |-> before.chain_map, tip |-> before.tip,
                 length_map |-> before.length_map, buffer_map |-> buffer_map]
    /\ parent[hash] \in before.chain_map
    /\ before.tip \in before.chain_map
    /\ before.length_map \in [before.chain_map -> Nat]
    /\ \A c \in buffer_map : c \notin before.chain_map /\ parent[c] \notin before.chain_map

\* What the search has done to it since.
SoFar ==
    /\ chain_map = before.chain_map \cup Joined
    /\ hash_queue \subseteq Joined
    /\ Joined \subseteq Family
    /\ \A h \in before.chain_map : length_map[h] = before.length_map[h]
    /\ \A h \in Joined : length_map[h] = FamilyDepth(h)
    /\ tip = IF \E h \in Joined : length_map[h] > before.length_map[before.tip]
             THEN hash ELSE before.tip

RInv == IInv /\ (pc = "bfs" => hash \in Block /\ StartedFrom /\ SoFar)

\* Adopted blocks: the least set closed under "its parent is h or a member".
LEMMA AdoptedIsClosed ==
    ASSUME NEW h, NEW buffer, NEW par, NEW c \in buffer,
           par[c] \in Adopted(h, buffer, par) \cup {h}
    PROVE  c \in Adopted(h, buffer, par)
  BY DEF Adopted

LEMMA AdoptedIsLeast ==
    ASSUME NEW h, NEW buffer, NEW par, NEW S \in SUBSET buffer,
           \A c \in buffer : par[c] \in S \cup {h} => c \in S
    PROVE  Adopted(h, buffer, par) \subseteq S
  BY DEF Adopted

\* The path from a block whose parent is outside S is the block alone.
LEMMA LineageOfRoot ==
    ASSUME NEW S, NEW par, NEW b \in S, par[b] \notin S
    PROVE  Lineage(b, S, par) = {b}
<1>1. {b} \in SUBSET S /\ b \in {b} /\ \A c \in {b} : par[c] \in S => par[c] \in {b}
  OBVIOUS
<1>2. Lineage(b, S, par) \subseteq {b}
  BY <1>1 DEF Lineage
<1>3. b \in Lineage(b, S, par)
  BY DEF Lineage
<1> QED BY <1>2, <1>3

\* Otherwise it is the block and the path from its parent.
LEMMA LineageOfChild ==
    ASSUME NEW S, NEW par, NEW b \in S, par[b] \in S
    PROVE  Lineage(b, S, par) = {b} \cup Lineage(par[b], S, par)
<1> DEFINE P == Lineage(par[b], S, par)
           Up(A) == \A c \in A : par[c] \in S => par[c] \in A
<1>1. P \subseteq S /\ par[b] \in P
  BY DEF Lineage
<1>2. Up(P)
  <2> SUFFICES ASSUME NEW c \in P, par[c] \in S,
                      NEW A \in SUBSET S, par[b] \in A, Up(A)
               PROVE  par[c] \in A
    BY DEF Lineage
  <2>1. c \in A
    BY DEF Lineage
  <2> QED BY <2>1
<1>3. Lineage(b, S, par) \subseteq {b} \cup P
  <2>1. ({b} \cup P) \in SUBSET S /\ b \in {b} \cup P /\ Up({b} \cup P)
    BY <1>1, <1>2
  <2> HIDE DEF P
  <2> QED BY <2>1 DEF Lineage
<1>4. {b} \cup P \subseteq Lineage(b, S, par)
  <2> SUFFICES ASSUME NEW a \in {b} \cup P, NEW A \in SUBSET S, b \in A, Up(A)
               PROVE  a \in A
    BY <1>1 DEF Lineage
  <2>1. par[b] \in A
    OBVIOUS
  <2>2. CASE a \in P
    BY <2>1, <2>2 DEF Lineage
  <2> QED BY <2>2
<1> QED BY <1>3, <1>4

\* A path climbs to smaller numbers, so it does not come back to its block, and
\* it is one longer than the path of the parent.
LEMMA LineageCounts ==
    ASSUME NEW S \in SUBSET Block, NEW par, NEW b \in S,
           \A c \in Block : par[c] \in Int /\ par[c] < c
    PROVE  /\ par[b] \notin S => Cardinality(Lineage(b, S, par)) = 1
           /\ par[b] \in S =>
                Cardinality(Lineage(b, S, par)) = Cardinality(Lineage(par[b], S, par)) + 1
<1>1. ASSUME par[b] \notin S PROVE Cardinality(Lineage(b, S, par)) = 1
  <2>1. Lineage(b, S, par) = {b}
    BY <1>1, LineageOfRoot
  <2>2. Cardinality({b}) = 1
    BY FS_Singleton
  <2> QED BY <2>1, <2>2
<1>2. ASSUME par[b] \in S
      PROVE  Cardinality(Lineage(b, S, par)) = Cardinality(Lineage(par[b], S, par)) + 1
  <2> DEFINE L == Lineage(par[b], S, par)
             Below == {a \in S : a <= par[b]}
  <2>1. Below \in SUBSET S /\ par[b] \in Below /\ \A c \in Below : par[c] \in S => par[c] \in Below
    BY <1>2, BlocksAssumption
  <2>2. L \subseteq Below
    <3> HIDE DEF Below
    <3> QED BY <2>1 DEF Lineage
  <2>3. b \notin L
    BY <2>2, BlocksAssumption
  <2>4. IsFiniteSet(L)
    <3>1. IsFiniteSet(1 .. NumBlocks)
      BY BlocksAssumption, FS_Interval
    <3>2. L \subseteq 1 .. NumBlocks
      BY <2>2
    <3> HIDE DEF L
    <3> QED BY <3>1, <3>2, FS_Subset
  <2>5. Lineage(b, S, par) = L \cup {b}
    BY <1>2, LineageOfChild
  <2> HIDE DEF L
  <2>6. Cardinality(L \cup {b}) = Cardinality(L) + 1
    BY <2>3, <2>4, FS_AddElement
  <2> QED BY <2>5, <2>6 DEF L
<1> QED BY <1>1, <1>2

\* The family grows from its block, one deeper with every generation.
Grown ==
    /\ Family = {hash} \cup Adopted(hash, buffer_map, parent)
    /\ Family \in SUBSET Block
    /\ FamilyDepth(hash) = before.length_map[parent[hash]] + 1
    /\ \A c \in buffer_map : parent[c] \in Family =>
         /\ c \in Family
         /\ FamilyDepth(c) = FamilyDepth(parent[c]) + 1

LEMMA FamilyGrown == IInv /\ hash \in Block /\ StartedFrom => Grown
<1> SUFFICES ASSUME IInv, hash \in Block, StartedFrom PROVE Grown
  OBVIOUS
<1>1. before.buffer_map \ {hash} = buffer_map
  BY DEF StartedFrom
<1>2. Family = {hash} \cup Adopted(hash, buffer_map, parent)
  BY <1>1 DEF Family
<1>3. Adopted(hash, buffer_map, parent) \subseteq buffer_map
  BY DEF Adopted
<1>4. buffer_map \subseteq Block /\ \A c \in Block : parent[c] \in Int /\ parent[c] < c
  BY DEF IInv, TypeOK
<1>5. Family \in SUBSET Block
  BY <1>2, <1>3, <1>4
<1>6. before.length_map[parent[hash]] \in Nat
  BY DEF StartedFrom
<1>7. FamilyDepth(hash) = before.length_map[parent[hash]] + 1
  <2>1. parent[hash] # hash /\ parent[hash] \notin buffer_map
    BY <1>4, BlocksAssumption DEF StartedFrom
  <2>2. hash \in Family /\ parent[hash] \notin Family
    BY <1>2, <1>3, <2>1
  <2>3. Cardinality(Lineage(hash, Family, parent)) = 1
    BY <1>4, <1>5, <2>2, LineageCounts
  <2> QED BY <2>3 DEF FamilyDepth
<1>8. ASSUME NEW c \in buffer_map, parent[c] \in Family
      PROVE  c \in Family /\ FamilyDepth(c) = FamilyDepth(parent[c]) + 1
  <2>1. c \in Family
    BY <1>2, <1>8, AdoptedIsClosed
  <2>2. Cardinality(Lineage(c, Family, parent))
          = Cardinality(Lineage(parent[c], Family, parent)) + 1
    BY <1>4, <1>5, <1>8, <2>1, LineageCounts
  <2>3. Cardinality(Lineage(parent[c], Family, parent)) \in Nat
    <3> DEFINE L == Lineage(parent[c], Family, parent)
    <3>1. IsFiniteSet(1 .. NumBlocks)
      BY BlocksAssumption, FS_Interval
    <3>2. L \subseteq 1 .. NumBlocks
      BY <1>5 DEF Lineage
    <3> HIDE DEF L
    <3>3. Cardinality(L) \in Nat
      BY <3>1, <3>2, FS_Subset, FS_CardinalityType
    <3> QED BY <3>3 DEF L
  <2> QED BY <1>6, <2>1, <2>2, <2>3 DEF FamilyDepth
<1> QED BY <1>2, <1>5, <1>7, <1>8 DEF Grown

LEMMA FamilyGrownNext == (IInv /\ hash \in Block /\ StartedFrom => Grown)'
  BY FamilyGrown, PTL

\* The insert begins: nothing has joined but its block.
LEMMA AttachRInv ==
    ASSUME RInv, NEW b \in Block, InsertAttach(b)
    PROVE  RInv'
<1> USE DEF InsertAttach, headers
<1>1. IInv /\ IInv'
  BY AttachIInv DEF RInv
<1>2. /\ \A c \in buffer_map : c \notin chain_map /\ parent[c] \notin chain_map
      /\ b \notin buffer_map
  BY <1>1 DEF IInv, SearchCovers, AdoptedAreMarked, IdleIsClean
<1>3. StartedFrom'
  BY <1>1, <1>2 DEF StartedFrom, Current, IInv, TypeOK
<1>4. SoFar'
  <2>1. FamilyDepth(hash)' = length_map[parent[b]] + 1
    <3>1. FamilyDepth(hash)' = (before.length_map[parent[hash]] + 1)'
      BY <1>1, <1>3, FamilyGrownNext DEF Grown
    <3> QED BY <3>1 DEF Current
  <2>2. length_map[parent[b]] \in Nat /\ length_map[tip] \in Nat /\ tip \in chain_map
    BY <1>1 DEF IInv, TypeOK
  <2>3. \A h \in chain_map : length_map'[h] = length_map[h]
    BY <1>1 DEF IInv, LengthIsDepth, TypeOK
  <2>4. length_map'[b] = length_map[parent[b]] + 1
    OBVIOUS
  <2>5. Joined' = {b} /\ chain_map' = before'.chain_map \cup Joined' /\ hash_queue' \subseteq Joined'
    BY DEF Joined, Current
  <2>6. (Joined \subseteq Family)'
    BY <2>5 DEF Family
  <2>7. tip' = IF \E h \in Joined' : length_map'[h] > before'.length_map[before'.tip]
               THEN hash' ELSE before'.tip
    BY <2>2, <2>4, <2>5 DEF Current
  <2>8. \A h \in before'.chain_map : length_map'[h] = before'.length_map[h]
    BY <2>3 DEF Current
  <2>9. (\A h \in Joined : length_map[h] = FamilyDepth(h))'
    BY <2>1, <2>4, <2>5
  <2> QED BY <2>5, <2>6, <2>7, <2>8, <2>9 DEF SoFar
<1> QED BY <1>1, <1>3, <1>4 DEF RInv

\* A round: the children of p join, one deeper than p, whose depth they measured.
LEMMA StepRInv ==
    ASSUME RInv, NEW p \in Hash, BfsStep(p)
    PROVE  RInv'
<1> USE DEF BfsStep, headers
<1>1. IInv /\ IInv' /\ hash \in Block /\ StartedFrom /\ SoFar
  BY StepIInv DEF RInv
<1>2. hash' \in Block /\ StartedFrom'
  BY <1>1 DEF StartedFrom
<1>3. Family' = Family
  BY DEF Family
<1>4. \A h : FamilyDepth(h)' = FamilyDepth(h)
  BY <1>3 DEF FamilyDepth
<1>5. Grown
  BY <1>1, FamilyGrown
<1>6. p \in Joined /\ p \in Family /\ p \in chain_map
  BY <1>1 DEF SoFar
<1>7. \A c \in Children(p) : c \in buffer_map /\ parent[c] = p
  BY DEF Children
<1>8. \A c \in Children(p) : c \in Family /\ FamilyDepth(c) = FamilyDepth(p) + 1
  BY <1>5, <1>6, <1>7 DEF Grown
<1>9. Joined' = Joined \cup Children(p)
  BY DEF Joined
<1>10. length_map[p] = FamilyDepth(p)
  BY <1>1, <1>6 DEF SoFar
<1>11. \A h \in chain_map : length_map'[h] = length_map[h]
  BY <1>1, <1>7 DEF IInv, LengthIsDepth, TypeOK
<1>12. \A c \in Children(p) : length_map'[c] = length_map[p] + 1
  OBVIOUS
<1>13. SoFar'
  <2>1. chain_map' = before'.chain_map \cup Joined' /\ hash_queue' \subseteq Joined'
    BY <1>1, <1>9 DEF SoFar
  <2>2. Joined' \subseteq Family'
    BY <1>1, <1>3, <1>8, <1>9 DEF SoFar
  <2>3. \A h \in before'.chain_map : length_map'[h] = before'.length_map[h]
    BY <1>1, <1>11 DEF SoFar
  <2>4. \A h \in Joined' : length_map'[h] = FamilyDepth(h)'
    <3>1. ASSUME NEW h \in Joined PROVE length_map'[h] = FamilyDepth(h)'
      BY <1>1, <1>4, <1>11 DEF SoFar
    <3>2. ASSUME NEW h \in Children(p) PROVE length_map'[h] = FamilyDepth(h)'
      BY <1>4, <1>8, <1>10, <1>12
    <3> QED BY <1>9, <3>1, <3>2
  <2>5. tip' = IF \E h \in Joined' : length_map'[h] > before'.length_map[before'.tip]
               THEN hash' ELSE before'.tip
    <3> DEFINE Longer(h) == length_map[h] > before.length_map[before.tip]
    <3>1. \A h \in Joined : length_map'[h] = length_map[h]
      BY <1>1, <1>11 DEF SoFar
    <3>2. tip = IF \E h \in Joined : Longer(h) THEN hash ELSE before.tip
      BY <1>1 DEF SoFar
    <3>3. length_map[before.tip] = before.length_map[before.tip]
      BY <1>1 DEF SoFar, StartedFrom
    <3>4. CASE \E h \in Joined : Longer(h)
      BY <1>9, <3>1, <3>2, <3>4
    <3>5. CASE ~ \E h \in Joined : Longer(h)
      BY <1>9, <1>12, <3>1, <3>2, <3>3, <3>5
    <3> QED BY <3>4, <3>5
  <2> QED BY <2>1, <2>2, <2>3, <2>4, <2>5 DEF SoFar
<1> QED BY <1>1, <1>2, <1>13 DEF RInv

LEMMA InitRInv == ASSUME Init PROVE RInv
  BY InitIInv DEF Init, RInv

LEMMA NextRInv == ASSUME RInv, [Next]_vars PROVE RInv'
<1>1. ASSUME NEW b \in Block, InsertOrphan(b) PROVE RInv'
  BY <1>1, OrphanIInv DEF RInv, InsertOrphan, locals
<1>2. ASSUME NEW b \in Block, InsertAttach(b) PROVE RInv'
  BY <1>2, AttachRInv
<1>3. ASSUME NEW p \in Hash, BfsStep(p) PROVE RInv'
  BY <1>3, StepRInv
<1>4. CASE BfsDone
  BY <1>4, DoneIInv DEF RInv, BfsDone
<1>5. CASE UNCHANGED vars
  <2>1. Family' = Family
    BY <1>5 DEF vars, Family
  <2>2. \A h : FamilyDepth(h)' = FamilyDepth(h)
    BY <1>5, <2>1 DEF vars, FamilyDepth
  <2>3. StartedFrom => StartedFrom'
    BY <1>5 DEF vars, StartedFrom
  <2>4. SoFar => SoFar'
    BY <1>5, <2>1, <2>2 DEF vars, SoFar, Joined
  <2> QED BY <1>5, <2>3, <2>4, StutterIInv DEF RInv, vars
<1> QED BY <1>1, <1>2, <1>3, <1>4, <1>5 DEF Next, Search

LEMMA RInductive == Spec => []RInv
  BY InitRInv, NextRInv, PTL DEF Spec

\* When the queue is empty the search has adopted the whole family, and the
\* struct is what one abstract Insert makes of the one it started from.
LEMMA DoneIsInsert ==
    ASSUME RInv, BfsDone
    PROVE  /\ Current' = Insert(before, hash, parent, pow)
           /\ hash \in Block
<1> USE DEF BfsDone, headers
<1>1. IInv /\ hash \in Block /\ StartedFrom /\ SoFar
  BY DEF RInv
<1>2. Grown
  BY <1>1, FamilyGrown
<1>3. Joined = Family /\ block_to_remove = Adopted(hash, buffer_map, parent)
  <2>1. block_to_remove \in SUBSET buffer_map
    BY <1>1 DEF IInv, TypeOK
  <2>2. \A c \in buffer_map : parent[c] \in block_to_remove \cup {hash} => c \in block_to_remove
    BY <1>1 DEF IInv, SearchCovers, SoFar, Joined
  <2>3. Adopted(hash, buffer_map, parent) \subseteq block_to_remove
    BY <2>1, <2>2, AdoptedIsLeast
  <2>4. hash \notin block_to_remove /\ hash \notin Adopted(hash, buffer_map, parent)
    BY <1>1, <2>1 DEF StartedFrom, Adopted
  <2> QED BY <1>1, <1>2, <2>3, <2>4 DEF SoFar, Joined, Grown
<1>4. \A h \in Family : length_map[h] = FamilyDepth(h)
  BY <1>1, <1>3 DEF SoFar
<1>5. chain_map = before.chain_map \cup Family
  BY <1>1, <1>3 DEF SoFar
<1>6. length_map = [h \in before.chain_map \cup Family |->
                      IF h \in Family THEN FamilyDepth(h) ELSE before.length_map[h]]
  <2>1. length_map = [h \in chain_map |-> length_map[h]]
    BY <1>1 DEF IInv, TypeOK
  <2>2. \A h \in before.chain_map : length_map[h] = before.length_map[h]
    BY <1>1 DEF SoFar
  <2> QED BY <1>4, <1>5, <2>1, <2>2
<1>7. tip = IF \E h \in Family : FamilyDepth(h) > before.length_map[before.tip]
            THEN hash ELSE before.tip
  BY <1>1, <1>3, <1>4 DEF SoFar
<1>8. buffer_map' = before.buffer_map \ (Family \ {hash})
  BY <1>1, <1>3 DEF StartedFrom, Joined
<1>9. Current' = [chain_map |-> before.chain_map \cup Family,
                  tip |-> IF \E h \in Family : FamilyDepth(h) > before.length_map[before.tip]
                          THEN hash ELSE before.tip,
                  length_map |-> [h \in before.chain_map \cup Family |->
                      IF h \in Family THEN FamilyDepth(h) ELSE before.length_map[h]],
                  buffer_map |-> before.buffer_map \ (Family \ {hash})]
  BY <1>5, <1>6, <1>7, <1>8 DEF Current
<1>10. Current' = Attach(before, hash, parent)
  BY <1>9 DEF Attach, Family, FamilyDepth
<1>11. Insert(before, hash, parent, pow) = Attach(before, hash, parent)
  BY <1>1 DEF Insert, StartedFrom
<1> QED BY <1>1, <1>10, <1>11

\* The two modules speak of the same Insert.
LEMMA SameInsert ==
    ASSUME NEW chain, NEW b, NEW par, NEW work
    PROVE  Tree!Insert(chain, b, par, work) = Insert(chain, b, par, work)
<1>1. \A h, buffer : Tree!Adopted(h, buffer, par) = Adopted(h, buffer, par)
  BY DEF Tree!Adopted, Adopted
<1>2. \A h, S : Tree!Lineage(h, S, par) = Lineage(h, S, par)
  BY DEF Tree!Lineage, Lineage
<1>3. \A S : Tree!Cardinality(S) = Cardinality(S)
  BY DEF Tree!Cardinality, Cardinality
<1>4. Tree!Attach(chain, b, par) = Attach(chain, b, par)
  <2> DEFINE new  == {b} \cup Adopted(b, chain.buffer_map \ {b}, par)
             new2 == {b} \cup Tree!Adopted(b, chain.buffer_map \ {b}, par)
             first == chain.length_map[par[b]]
             depth(h)  == first + Cardinality(Lineage(h, new, par))
             depth2(h) == first + Tree!Cardinality(Tree!Lineage(h, new2, par))
             With(S, len(_)) ==
                [chain_map  |-> chain.chain_map \cup S,
                 tip        |-> IF \E h \in S : len(h) > chain.length_map[chain.tip]
                                THEN b ELSE chain.tip,
                 length_map |-> [h \in chain.chain_map \cup S |->
                                    IF h \in S THEN len(h) ELSE chain.length_map[h]],
                 buffer_map |-> chain.buffer_map \ (S \ {b})]
  <2>1. Tree!Attach(chain, b, par) = With(new2, depth2)
    BY ONLY DEF Tree!Attach
  <2>2. Attach(chain, b, par) = With(new, depth)
    BY ONLY DEF Attach
  <2>3. new2 = new
    BY <1>1
  <2>4. \A h : depth2(h) = depth(h)
    <3> HIDE DEF new, new2
    <3> QED BY <1>2, <1>3, <2>3
  <2>5. With(new2, depth2) = With(new, depth)
    <3> HIDE DEF new, new2, depth, depth2
    <3> QED BY <2>3, <2>4
  <2> QED BY ONLY <2>1, <2>2, <2>5
<1> QED BY <1>4 DEF Tree!Insert, Insert

\* The struct as another thread finds it once it holds the mutex.
Seen == IF pc = "idle" THEN Current ELSE before

\* Each step is an insert that takes effect at once, or is invisible.
LEMMA StepRefines ==
    ASSUME RInv, [Next]_vars
    PROVE  [Tree!Next]_(Tree!vars)
<1>1. ASSUME NEW b \in Block, InsertOrphan(b) PROVE Tree!Next
  <2>1. Seen' = [Current EXCEPT !.buffer_map = @ \cup {b}] /\ Seen = Current
    BY <1>1 DEF InsertOrphan, locals, Seen, Current
  <2>2. Seen' = Insert(Seen, b, parent, pow)
    BY <1>1, <2>1 DEF InsertOrphan, Insert, Current
  <2> QED BY <1>1, <2>2, SameInsert DEF Tree!Next, Tree!Block, Seen, InsertOrphan, headers
<1>2. ASSUME NEW b \in Block, InsertAttach(b) PROVE UNCHANGED Tree!vars
  BY <1>2 DEF InsertAttach, Tree!vars, headers
<1>3. ASSUME NEW p \in Hash, BfsStep(p) PROVE UNCHANGED Tree!vars
  BY <1>3 DEF BfsStep, Tree!vars, headers
<1>4. ASSUME BfsDone PROVE Tree!Next
  <2>1. Seen' = Current' /\ Seen = before
    BY <1>4 DEF BfsDone, Seen
  <2>2. Seen' = Insert(Seen, hash, parent, pow) /\ hash \in Block
    BY <1>4, <2>1, DoneIsInsert
  <2> QED BY <1>4, <2>2, SameInsert DEF Tree!Next, Tree!Block, Seen, BfsDone, headers
<1>5. CASE UNCHANGED vars
  BY <1>5 DEF vars, Tree!vars, Current
<1> QED BY <1>1, <1>2, <1>3, <1>4, <1>5 DEF Next, Search

LEMMA InitRefines == Init => Tree!Init
  BY DEF Init, Tree!Init, Tree!Block, Tree!NewChain, Tree!Genesis, Current

\* The step-by-step search implements the block tree whose inserts take effect
\* at once, whatever the order in which it takes the buffered blocks.
THEOREM SearchRefinesTree == Spec => ImplementsBlockTree
  BY InitRefines, RInductive, StepRefines, PTL DEF Spec, ImplementsBlockTree, Tree!Spec

=============================================================================
