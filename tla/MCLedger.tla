------------------------------ MODULE MCLedger ------------------------------
(***************************************************************************)
(* Instances of Ledger for TLC.  Values up to 4 stand for u32, two indices  *)
(* for u8.  Nobody holds the key of the ICO coin, so money a wallet can     *)
(* spend enters through blocks of the node's own miner (Mint).             *)
(***************************************************************************)
EXTENDS Ledger

CONSTANTS A, B, Nobody

Coin(id, i)    == [tx_hash |-> id, index |-> i]
Out(to, v)     == [recipient_address |-> to, value |-> v]
Sent(id, key, in, out) ==
    [id |-> id, key |-> key, signed |-> TRUE, input |-> in, output |-> out]

Mint   == Sent("mint", A, << >>, <<Out(A, 2)>>)
Pay    == Sent("pay", A, <<Coin("mint", 0)>>, <<Out(A, 1), Out(B, 1)>>)
Twice  == Sent("twice", A, <<Coin("mint", 0), Coin("mint", 0)>>, <<Out(A, 3)>>)
Huge   == Sent("huge", A, <<Coin("mint", 0)>>, <<Out(A, 3), Out(A, 3)>>)
Change == Sent("change", B, <<Coin("pay", 1)>>, <<Out(A, 0), Out(B, 1), Out(A, 0)>>)
Gift   == Sent("gift", B, << >>, <<Out(B, 0)>>)
Regift == Sent("regift", B, <<Coin("gift", 0)>>, <<Out(A, 0)>>)
Forged == [Pay EXCEPT !.id = "forged", !.signed = FALSE]

AllTxs    == {Mint, Pay, Twice, Huge, Forged, Change, Gift, Regift}
=============================================================================
