---------------------------- MODULE LedgerState ----------------------------
(***************************************************************************)
(* verify_tx, verify_block and update_state of                             *)
(* src/src/types/ledger_state.rs as operators.  A transaction is a record  *)
(*   [id, key, signed, input, output]                                      *)
(* with id its hash, key the address of its public key, signed whether the *)
(* signature verifies, input a sequence of coins [tx_hash, index], output a *)
(* sequence of [recipient_address, value].  A State maps coins to outputs. *)
(***************************************************************************)
EXTENDS Integers, Sequences, SequencesExt, Totals

CONSTANTS Ico,           \* hash of the transaction that created the money
          IcoOwner,      \* address of the ASCII key at line 107
          IcoValue,      \* 500 in the code
          MaxValue,      \* largest u32
          IndexModulus   \* 256: an output's index is cast to u8

\* The state of the genesis block.
IcoCoin == [tx_hash |-> Ico, index |-> 0]
ico == [c \in {IcoCoin} |-> [recipient_address |-> IcoOwner, value |-> IcoValue]]

Inputs(tx) == ToSet(tx.input)

-----------------------------------------------------------------------------
\* Faulty variant: the addition wraps, as in a release build.
SumWrapped(s) == Total(s) % (MaxValue + 1)

\* The sum of a sequence of values; above MaxValue the dev build panics.
SumValues(s) == Total(s)

\* The coin exists and belongs to the signer.
Spendable(c, key, state) ==
    c \in DOMAIN state /\ state[c].recipient_address = key

\* Number of inputs the loop of verify_tx accepts before it stops.
GoodInputs(tx, state) ==
    LET bad == SelectInSeq(tx.input, LAMBDA c : ~Spendable(c, tx.key, state))
    IN  IF bad = 0 THEN Len(tx.input) ELSE bad - 1

TotalInput(tx, state) ==
    SumValues([i \in 1 .. GoodInputs(tx, state) |-> state[tx.input[i]].value])

TotalOutput(tx) == SumValues([i \in 1 .. Len(tx.output) |-> tx.output[i].value])

AllGood(tx, state) == GoodInputs(tx, state) = Len(tx.input)

\* One of the two sums overflows before verify_tx can answer.
Overflows(tx, state) ==
    /\ tx.signed
    /\ \/ TotalInput(tx, state) > MaxValue
       \/ AllGood(tx, state) /\ TotalOutput(tx) > MaxValue

verify_tx(tx, state) ==
    /\ tx.signed
    /\ AllGood(tx, state)
    /\ ~Overflows(tx, state)
    /\ TotalInput(tx, state) >= TotalOutput(tx)

\* Every transaction is checked against the state the block starts from.
verify_block(txs, state) == \A i \in DOMAIN txs : verify_tx(txs[i], state)

\* verify_block panics in a transaction it reaches.
PanicsOn(txs, state) ==
    \E i \in DOMAIN txs : /\ Overflows(txs[i], state)
                          /\ \A j \in 1 .. i - 1 : verify_tx(txs[j], state)

-----------------------------------------------------------------------------
\* The coin that holds the i-th output: its index is cut to IndexModulus.
OutputCoin(tx, i) == [tx_hash |-> tx.id, index |-> (i - 1) % IndexModulus]

OutputCoins(tx) == {OutputCoin(tx, i) : i \in DOMAIN tx.output}

\* Of the outputs that share a coin the last one inserted stays.
OutputAt(tx, c) ==
    tx.output[SelectLastInSeq([i \in DOMAIN tx.output |-> OutputCoin(tx, i)],
                              LAMBDA d : d = c)]

\* Faulty variant: inputs stay in the state.
ApplyOutputs(state, tx) ==
    [c \in DOMAIN state \cup OutputCoins(tx) |->
        IF c \in OutputCoins(tx) THEN OutputAt(tx, c) ELSE state[c]]

\* Inputs leave the state, then outputs enter it.
ApplyTx(state, tx) ==
    LET kept == DOMAIN state \ Inputs(tx)
    IN  [c \in kept \cup OutputCoins(tx) |->
            IF c \in OutputCoins(tx) THEN OutputAt(tx, c) ELSE state[c]]

\* The state of a block from the state of its parent.
update_state(txs, state) ==
    LET after[n \in 0 .. Len(txs)] ==
            IF n = 0 THEN state ELSE ApplyTx(after[n - 1], txs[n])
    IN  after[Len(txs)]
=============================================================================
