----------------------------- MODULE MCPoolLock -----------------------------
(* Small instances of PoolLock for TLC. *)
EXTENDS PoolLock

CONSTANTS w1, w2, w3
=============================================================================
