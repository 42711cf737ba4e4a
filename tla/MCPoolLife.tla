---------------------------- MODULE MCPoolLife ----------------------------
(* Every type of pool, with and without Geyser. *)
EXTENDS PoolLife
=============================================================================
