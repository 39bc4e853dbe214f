------------------------------- MODULE Totals -------------------------------
(***************************************************************************)
(* The sum of amounts: of the balances of a token, of the values a           *)
(* transaction moves, of the coins in a state.                             *)
(***************************************************************************)
EXTENDS Integers, Functions

Total(amounts) == FoldFunction(+, 0, amounts)
=============================================================================
