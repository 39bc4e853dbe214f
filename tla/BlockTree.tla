----------------------------- MODULE BlockTree -----------------------------
(***************************************************************************)
(* What the block tree promises its callers: blocks arrive in any order and *)
(* each insert takes effect at once (the caller holds the mutex).          *)
(* Blockchain.tla, the search through the orphan buffer, implements it.    *)
(***************************************************************************)
EXTENDS ChainInsert

CONSTANTS NumBlocks,     \* blocks 1..NumBlocks may arrive
          MayLackPow     \* the blocks among them that may lack proof of work

VARIABLES parent, pow,   \* the headers of the blocks that exist, never changed
          bc             \* the Blockchain struct

Block == 1 .. NumBlocks

vars == <<parent, pow, bc>>

\* A header holds its parent's hash, so blocks can be numbered parents first.
Init ==
    /\ parent \in {f \in [Block -> 0 .. NumBlocks] : \A b \in Block : f[b] < b}
    /\ \E lack \in SUBSET MayLackPow : pow = Block \ lack
    /\ bc = NewChain

Next ==
    \E b \in Block :
        /\ bc' = Insert(bc, b, parent, pow)
        /\ UNCHANGED <<parent, pow>>

Spec == Init /\ [][Next]_vars
=============================================================================
