---------------------------- MODULE MCPoolLocks ----------------------------
(* Instances of PoolLocks for TLC. *)
EXTENDS PoolLocks

TwoConnections == {"game", "admin"}
=============================================================================
