------------------------------- MODULE Tokens -------------------------------
(***************************************************************************)
(* The ERC20 tokens of the contracts (OpenZeppelin's, as vendored under     *)
(* Part2/node_modules): a balance per account.  Callers have approved what  *)
(* transferFrom moves.  A transfer without the balance reverts the whole    *)
(* call, so it is a guard of the caller's action.                           *)
(***************************************************************************)
EXTENDS Integers, Totals

Move(balances, from, to, n)   == [balances EXCEPT ![from] = @ - n, ![to] = @ + n]
Create(balances, to, n)       == [balances EXCEPT ![to] = @ + n]
Destroy(balances, from, n)    == [balances EXCEPT ![from] = @ - n]
=============================================================================
