------------------------------ MODULE MCMerkle ------------------------------
(***************************************************************************)
(* An instance of Merkle for TLC.                                          *)
(***************************************************************************)
EXTENDS Merkle

TwoLeaves == {<<1>>, <<2>>}
=============================================================================
