----------------------------- MODULE Blockchain -----------------------------
(***************************************************************************)
(* Blockchain::insert of src/src/blockchain/mod.rs, one step per round of  *)
(* its search through the orphan buffer.  Callers hold the mutex for the   *)
(* whole call, so pc is "idle" whenever another thread looks.              *)
(* hash_queue is the set of queued hashes: the order in which the code     *)
(* takes them depends on the iteration order of a HashMap.                 *)
(***************************************************************************)
EXTENDS ChainInsert

CONSTANTS NumBlocks,     \* blocks 1..NumBlocks may arrive (bound of the model)
          MayLackPow     \* the blocks among them that may lack proof of work

ASSUME BlocksAssumption == NumBlocks \in Nat /\ MayLackPow \subseteq 1 .. NumBlocks

Block == 1 .. NumBlocks
Hash  == 0 .. NumBlocks

VARIABLES
    parent, pow,                              \* headers, chosen once
    chain_map, tip, length_map, buffer_map,   \* the struct
    pc, hash, hash_queue, block_to_remove,    \* locals of the running insert
    before,                                   \* auxiliary: struct when it began
    adopted                                   \* auxiliary: blocks a search took in

headers == <<parent, pow>>
locals  == <<pc, hash, hash_queue, block_to_remove>>
vars    == <<parent, pow, chain_map, tip, length_map, buffer_map,
             pc, hash, hash_queue, block_to_remove, before, adopted>>

Current == [chain_map |-> chain_map, tip |-> tip,
            length_map |-> length_map, buffer_map |-> buffer_map]

Init ==
    /\ parent \in {f \in [Block -> Hash] : \A b \in Block : f[b] < b}
    /\ \E lack \in SUBSET MayLackPow : pow = Block \ lack
    /\ chain_map = {Genesis}
    /\ tip = Genesis
    /\ length_map = [h \in {Genesis} |-> 0]
    /\ buffer_map = {}
    /\ pc = "idle"
    /\ hash = Genesis
    /\ hash_queue = {}
    /\ block_to_remove = {}
    /\ before = Current
    /\ adopted = {}

-----------------------------------------------------------------------------
\* Faulty variants of the helpers below: ">=" and an off-by-one in the tip rule, the length taken from the tip, the search
\* made in the chain instead of the buffer, the queue never popped or never filled,
\* the buffer cleared at the end.
LongerOrEqual(length) == length >= length_map[tip]
LongerByTwo(length)   == length > length_map[tip] + 1
LengthFromTip(p)      == length_map[tip] + 1
ChainChildren(p)      == {c \in chain_map \ {Genesis} : parent[c] = p}
DequeueNone(p)        == hash_queue \cup {c \in buffer_map : parent[c] = p}
DequeueOnly(p)        == hash_queue \ {p}
RemainingNone         == {}

\* hash <= parent's difficulty.
EnoughWork(b) == b \in pow

\* Only a strictly longer chain moves the tip.
LongerThanTip(length) == length > length_map[tip]

\* Length of a block whose parent is p.
LengthAfter(p) == length_map[p] + 1

\* Blocks the search adopts when it takes p, and the queue afterwards.
Children(p) == {c \in buffer_map : parent[c] = p}
Dequeue(p)  == (hash_queue \ {p}) \cup Children(p)

\* What stays buffered when the search ends.
Remaining == buffer_map \ block_to_remove

\* Parent unknown: the block waits in the buffer.
InsertOrphan(b) ==
    /\ pc = "idle"
    /\ parent[b] \notin chain_map
    /\ buffer_map' = buffer_map \cup {b}
    /\ UNCHANGED <<headers, chain_map, tip, length_map, locals, before, adopted>>

\* Parent known and enough work: the block joins the chain, moves the tip when
\* strictly longer, and the search starts from it.  (A block short of work
\* changes nothing and has no action.)
InsertAttach(b) ==
    LET length == LengthAfter(parent[b]) IN
    /\ pc = "idle"
    /\ parent[b] \in chain_map
    /\ EnoughWork(b)
    /\ before' = Current
    /\ chain_map' = chain_map \cup {b}
    /\ length_map' = [h \in chain_map \cup {b} |->
                        IF h = b THEN length ELSE length_map[h]]
    /\ tip' = IF LongerThanTip(length) THEN b ELSE tip
    /\ pc' = "bfs"
    /\ hash' = b
    /\ hash_queue' = {b}
    /\ block_to_remove' = {}
    /\ UNCHANGED <<headers, buffer_map, adopted>>

\* One round of the while loop.  The tip becomes the inserted block, whichever
\* buffered block turned out longer.
BfsStep(p) ==
    LET length == LengthAfter(p) IN
    /\ pc = "bfs"
    /\ p \in hash_queue
    /\ hash_queue' = Dequeue(p)
    /\ block_to_remove' = block_to_remove \cup Children(p)
    /\ chain_map' = chain_map \cup Children(p)
    /\ length_map' = [h \in chain_map \cup Children(p) |->
                        IF h \in Children(p) THEN length ELSE length_map[h]]
    /\ tip' = IF Children(p) # {} /\ LongerThanTip(length) THEN hash ELSE tip
    /\ adopted' = adopted \cup Children(p)
    /\ UNCHANGED <<headers, buffer_map, pc, hash, before>>

\* The queue is empty: adopted blocks leave the buffer and insert returns.
BfsDone ==
    /\ pc = "bfs"
    /\ hash_queue = {}
    /\ buffer_map' = Remaining
    /\ block_to_remove' = {}
    /\ pc' = "idle"
    /\ hash' = Genesis
    /\ before' = [Current EXCEPT !.buffer_map = Remaining]
    /\ UNCHANGED <<headers, chain_map, tip, length_map, hash_queue, adopted>>

Search == BfsDone \/ \E p \in Hash : BfsStep(p)

Next ==
    \/ \E b \in Block : InsertOrphan(b) \/ InsertAttach(b)
    \/ Search

\* The thread inside insert holds the lock and nothing it waits for, so the
\* search proceeds; no one is obliged to insert a block.
Spec == Init /\ [][Next]_vars /\ WF_vars(Search)

-----------------------------------------------------------------------------
TypeOK ==
    /\ parent \in [Block -> Hash]
    /\ \A b \in Block : parent[b] < b
    /\ pow \subseteq Block
    /\ chain_map \subseteq Hash
    /\ tip \in chain_map
    /\ length_map \in [chain_map -> Nat]
    /\ buffer_map \subseteq Block
    /\ pc \in {"idle", "bfs"}
    /\ hash \in chain_map
    /\ hash_queue \subseteq chain_map
    /\ block_to_remove \subseteq buffer_map
    /\ adopted \subseteq chain_map

\* Every block of the chain has its parent in the chain, so that the walk of
\* all_blocks_in_longest_chain never unwraps a missing block.
ParentClosed == Genesis \in chain_map /\ \A b \in chain_map \ {Genesis} : parent[b] \in chain_map

\* length_map counts the edges to genesis, also for blocks adopted by a search.
LengthIsDepth ==
    /\ length_map[Genesis] = 0
    /\ \A b \in chain_map \ {Genesis} : length_map[b] = length_map[parent[b]] + 1

\* No adoptable block is left behind: between inserts no buffered block has its
\* parent in the chain, and none is also in the chain.
NoStrandedOrphan ==
    pc = "idle" => \A b \in buffer_map : b \notin chain_map /\ parent[b] \notin chain_map

\* Insert never loses a block it once took, in the middle of a search or after
\* the buffer is cleaned.
NoBlockLost == [][chain_map \cup buffer_map \subseteq chain_map' \cup buffer_map']_vars

\* The search through the buffer ends and insert returns.
InsertReturns == pc = "bfs" ~> pc = "idle"

\* Between inserts no block of the chain is longer than the tip, as long as no
\* search has adopted a block: the tip does not follow an adopted one.  The two
\* callers in the node wait for the parent (network/worker.rs:142, the miner's own
\* blocks extend its last one), so there nothing is ever adopted.
TipIsLongest ==
    (pc = "idle" /\ adopted = {}) => \A h \in chain_map : length_map[h] <= length_map[tip]

\* Until a search adopts a block, the tip moves to strictly longer chains only.
TipOnlyGrows ==
    [][(tip' # tip /\ adopted' = {}) => length_map'[tip'] > length_map[tip]]_vars

\* What the assignment asks of a new block: it joins the chain only if it met the
\* difficulty.  Not kept by the code: a search does not check the blocks it adopts.
WorkIsChecked == chain_map \ {Genesis} \subseteq pow

\* What tip() promises: the last block of a longest chain, whatever was inserted.
\* Not kept by the code: the tip does not follow a block that a search adopts.
TipIsLastOfLongest == pc = "idle" => \A h \in chain_map : length_map[h] <= length_map[tip]

\* Seen from outside the lock, an insert is one step of BlockTree.
Tree == INSTANCE BlockTree WITH bc <- IF pc = "idle" THEN Current ELSE before
ImplementsBlockTree == Tree!Spec
=============================================================================
