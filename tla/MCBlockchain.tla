--------------------------- MODULE MCBlockchain ---------------------------
(***************************************************************************)
(* Instances of Blockchain for TLC: five blocks of every shape (all trees  *)
(* on 0..5 numbered parents first), of which two may lack proof of work.   *)
(***************************************************************************)
EXTENDS Blockchain

FirstAndThird == {1, 3}
=============================================================================
