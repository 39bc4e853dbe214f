------------------------------ MODULE MCLocks ------------------------------
(***************************************************************************)
(* One node for TLC: a worker thread, the miner, its worker, the generator *)
(* and an API request, over a control channel of one place.                *)
(***************************************************************************)
EXTENDS Locks

Five   == {"worker", "miner", "miner_worker", "generator", "api"}
RoleOfFive == [t \in Five |-> IF t = "api" THEN "api_state" ELSE t]
FivePanic == {"worker", "miner", "api"}

\* How many signals may wait: the miner may have a Start before or behind another signal.
FewSignals == [t \in Five |-> IF t = "miner" THEN 2 ELSE 1]
=============================================================================
