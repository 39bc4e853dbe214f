---------------------------- MODULE ChainInsert ----------------------------
(***************************************************************************)
(* The result of Blockchain::insert (src/src/blockchain/mod.rs) as one     *)
(* step.  Blocks are numbers, Genesis is 0; parent[b] is the hash in b's   *)
(* header, pow the set of blocks whose hash does not exceed the difficulty *)
(* of their parent.  A chain is a record of the four fields of the struct. *)
(***************************************************************************)
EXTENDS Integers, FiniteSets

Genesis == 0

\* A new chain holds the genesis block only.
NewChain == [chain_map |-> {Genesis}, tip |-> Genesis,
             length_map |-> [h \in {Genesis} |-> 0], buffer_map |-> {}]

\* Buffered blocks that hang, directly or through other buffered blocks, from
\* h: the least set closed under "its parent is h or a member".
Adopted(h, buffer, parent) ==
    {b \in buffer : \A S \in SUBSET buffer :
        (\A c \in buffer : parent[c] \in S \cup {h} => c \in S) => b \in S}

\* Members of S on the path from b (included) towards the root: the least set
\* that holds b and the parents, within S, of its members.
Lineage(b, S, parent) ==
    {a \in S : \A A \in SUBSET S :
        (b \in A /\ \A c \in A : parent[c] \in S => parent[c] \in A) => a \in A}

\* Faulty variant of Attach: the lengths of new blocks are not recorded.
AttachWithoutLength(bc, b, parent) ==
    [bc EXCEPT !.chain_map = @ \cup {b} \cup Adopted(b, bc.buffer_map, parent),
               !.buffer_map = @ \ Adopted(b, bc.buffer_map, parent)]

\* b hangs from the chain: b and its buffered descendants join, and tip becomes
\* b when any of them is longer than the old tip.
Attach(bc, b, parent) ==
    LET new == {b} \cup Adopted(b, bc.buffer_map \ {b}, parent)
        len(h) == bc.length_map[parent[b]] + Cardinality(Lineage(h, new, parent))
    IN  [chain_map  |-> bc.chain_map \cup new,
         tip        |-> IF \E h \in new : len(h) > bc.length_map[bc.tip]
                        THEN b ELSE bc.tip,
         length_map |-> [h \in bc.chain_map \cup new |->
                            IF h \in new THEN len(h) ELSE bc.length_map[h]],
         buffer_map |-> bc.buffer_map \ (new \ {b})]

\* Faulty variant of Insert: a block without work is taken.
InsertUnworked(bc, b, parent, pow) ==
    IF parent[b] \notin bc.chain_map
    THEN [bc EXCEPT !.buffer_map = @ \cup {b}]
    ELSE Attach(bc, b, parent)

\* Blockchain::insert: an orphan is buffered, a block short of work is ignored.
Insert(bc, b, parent, pow) ==
    IF parent[b] \notin bc.chain_map
    THEN [bc EXCEPT !.buffer_map = @ \cup {b}]
    ELSE IF b \in pow THEN Attach(bc, b, parent) ELSE bc
=============================================================================
