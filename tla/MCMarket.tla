------------------------------ MODULE MCMarket ------------------------------
(***************************************************************************)
(* Instances of Market for TLC.                                            *)
(***************************************************************************)
EXTENDS Market

CONSTANTS u1, u2    \* users

TwoUsers    == {u1, u2}
AllAccounts == {u1, u2, Vault, Pool}
OneRatio    == {2}
Some        == {3, 10, 40}
Ten         == {10}
=============================================================================
