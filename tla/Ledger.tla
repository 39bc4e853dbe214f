------------------------------- MODULE Ledger -------------------------------
(***************************************************************************)
(* The ledger states a node keeps, one per block, as blocks reach it from   *)
(* peers (verified, src/src/network/worker.rs) and from its own miner      *)
(* (not verified, src/src/miner/worker.rs).                                *)
(***************************************************************************)
EXTENDS LedgerState, FiniteSetsExt

CONSTANTS Tx,            \* the transactions that exist
          MaxTxs,        \* bound of the model: transactions per block
          MaxBlocks      \* bound of the model: blocks besides genesis

\* Inputs and outputs are vectors, values are u32.
ASSUME LedgerAssumption ==
    /\ MaxValue \in Nat /\ IcoValue \in 0 .. MaxValue /\ IndexModulus \in Nat \ {0}
    /\ MaxTxs \in Nat /\ MaxBlocks \in Nat
    /\ \A tx \in Tx : /\ tx.input \in Seq(ToSet(tx.input))
                     /\ tx.output \in Seq(ToSet(tx.output))
                     /\ \A i \in DOMAIN tx.output : tx.output[i].value \in 0 .. MaxValue

VARIABLES
    parent, content,     \* of the blocks that got a state, 1..n in order of arrival
    block_state_map,     \* block -> State
    verified,            \* auxiliary: the blocks that passed verify_block
    halted               \* a worker panicked with the state locked

vars == <<parent, content, block_state_map, verified, halted>>

Genesis == 0
Known   == DOMAIN block_state_map

Contents == BoundedSeq(Tx, MaxTxs)

Init ==
    /\ parent = << >>
    /\ content = << >>
    /\ block_state_map = [h \in {Genesis} |-> ico]
    /\ verified = {}
    /\ halted = FALSE

\* Transactions of the blocks from genesis to b, oldest first.
History(b) ==
    LET txs[h \in Known] == IF h = Genesis THEN << >> ELSE txs[parent[h]] \o content[h]
    IN  txs[b]

\* Faulty variant: the state of the block that arrived last.
LatestState(p) == block_state_map[Len(parent)]

\* block_state_map.get(&block.get_parent())
ParentState(p) == block_state_map[p]

\* Faulty variant: the state of a new block is not kept.
RecordHeader(p, txs) ==
    /\ parent' = Append(parent, p)
    /\ content' = Append(content, txs)
    /\ UNCHANGED <<block_state_map, halted>>

\* A new block and the state it gets.
Record(p, txs) ==
    LET b == Len(parent) + 1 IN
    /\ parent' = Append(parent, p)
    /\ content' = Append(content, txs)
    /\ block_state_map' = [h \in Known \cup {b} |->
                              IF h = b THEN update_state(txs, ParentState(p))
                              ELSE block_state_map[h]]
    /\ UNCHANGED halted

-----------------------------------------------------------------------------
\* A peer's block whose parent has a state and whose transactions verify.
PeerBlock(p, txs) ==
    /\ ~halted
    /\ Len(parent) < MaxBlocks
    /\ verify_block(txs, ParentState(p))
    /\ Record(p, txs)
    /\ verified' = verified \cup {Len(parent) + 1}

\* A block the node has already, from a second peer it asked before the first
\* answered: it is verified and its state computed again.
PeerBlockAgain(b) ==
    /\ ~halted
    /\ verify_block(content[b], ParentState(parent[b]))
    /\ block_state_map' = [block_state_map EXCEPT ![b] =
                              update_state(content[b], ParentState(parent[b]))]
    /\ UNCHANGED <<parent, content, verified, halted>>

\* A sum overflows while the three mutexes are held: they are poisoned.
PeerBlockPanics(p, txs) ==
    /\ ~halted
    /\ Len(parent) < MaxBlocks
    /\ PanicsOn(txs, ParentState(p))
    /\ halted' = TRUE
    /\ UNCHANGED <<parent, content, block_state_map, verified>>

\* The miner's block, on its own last one: queued transactions, whose signatures
\* verify, each mined once; nothing else is checked.
LastOwn == Max({Genesis} \cup (DOMAIN parent \ verified))

OwnBlock(txs) ==
    /\ ~halted
    /\ Len(parent) < MaxBlocks
    /\ IsInjective(txs)
    /\ \A i \in DOMAIN txs : txs[i].signed /\ txs[i] \notin ToSet(History(LastOwn))
    /\ Record(LastOwn, txs)
    /\ UNCHANGED verified

Next ==
    \/ \E p \in Known, txs \in Contents : PeerBlock(p, txs) \/ PeerBlockPanics(p, txs)
    \/ \E b \in verified : PeerBlockAgain(b)
    \/ \E txs \in Contents : OwnBlock(txs)

Spec == Init /\ [][Next]_vars

-----------------------------------------------------------------------------
TypeOK ==
    /\ parent \in Seq(Known)
    /\ content \in Seq(Contents)
    /\ Known = 0 .. Len(parent)
    /\ Len(content) = Len(parent)
    /\ \A h \in Known : \A c \in DOMAIN block_state_map[h] :
          block_state_map[h][c].value \in 0 .. MaxValue
    /\ verified \subseteq 1 .. Len(parent)
    /\ halted \in BOOLEAN

\* What the states are for: a coin is in a block's state exactly when the last
\* transaction of its branch that touches the coin creates it.  Defined from the
\* history alone, not from update_state.
LastTouch(txs, c) ==
    SelectLastInSeq(txs, LAMBDA tx : c \in Inputs(tx) \cup OutputCoins(tx))

UnspentAfter(txs) ==
    LET made == {IcoCoin} \cup UNION {OutputCoins(txs[i]) : i \in DOMAIN txs}
        Live(c) == LET i == LastTouch(txs, c)
                   IN  IF i = 0 THEN c = IcoCoin ELSE c \in OutputCoins(txs[i])
    IN  {c \in made : Live(c)}

Replay(txs) ==
    LET output(c) == LET i == LastTouch(txs, c)
                     IN  IF i = 0 THEN ico[c] ELSE OutputAt(txs[i], c)
    IN  [c \in UnspentAfter(txs) |-> output(c)]

\* Each block's state is the replay of its own branch: forks, repeated
\* deliveries and arrival order leave no trace in it.
StateIsReplay == \A h \in Known : block_state_map[h] = Replay(History(h))

\* A verified block spends no coin that an earlier block of its branch spent and
\* no later one created again, and none that its branch never created.
NoDoubleSpend ==
    \A b \in verified :
        UNION {Inputs(content[b][i]) : i \in DOMAIN content[b]}
            \subseteq UnspentAfter(History(parent[b]))

\* No coin is spent twice within the block.
ConflictFree(txs) ==
    /\ \A i \in DOMAIN txs : IsInjective(txs[i].input)
    /\ \A i, j \in DOMAIN txs : i # j => Inputs(txs[i]) \cap Inputs(txs[j]) = {}

Money(state) == Total([c \in DOMAIN state |-> state[c].value])

\* A verified block that spends no coin twice creates no money.
NoInflation ==
    \A b \in verified : ConflictFree(content[b])
        => Money(block_state_map[b]) <= Money(block_state_map[parent[b]])

\* A verified block creates no money.
VerifiedNeverInflates ==
    \A b \in verified : Money(block_state_map[b]) <= Money(block_state_map[parent[b]])
=============================================================================
