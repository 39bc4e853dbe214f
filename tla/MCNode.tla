------------------------------- MODULE MCNode -------------------------------
(***************************************************************************)
(* Instances of Node for TLC.                                              *)
(***************************************************************************)
EXTENDS Node

CONSTANTS n1, n2, n3,   \* nodes
          w1, w2,       \* worker threads
          t1, t2,       \* generated transactions
          u1            \* a client's transaction

Pair      == {n1, n2}
Three     == {n1, n2, n3}
Ends      == {n1, n3}
Middle    == {n2}
OneNode   == {n1}
PairEdge  == {{n1, n2}}
LineEdges == {{n1, n2}, {n2, n3}}
LatePair  == {<<n2, n1>>}
None      == {}
OneWorker == {w1}
TwoWorkers == {w1, w2}
G1 == {t1}
C1 == {u1}
=============================================================================
