------------------------------ MODULE MCServer ------------------------------
(***************************************************************************)
(* An instance of Server for TLC: a peer that may come back from the same  *)
(* address and a known peer.                                               *)
(***************************************************************************)
EXTENDS Server

CONSTANTS x1,         \* the address a peer connects from
          k1          \* address of a known peer

OneClient == {x1}
OneKnown  == <<k1>>
=============================================================================
