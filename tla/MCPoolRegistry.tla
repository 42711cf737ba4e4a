--------------------------- MODULE MCPoolRegistry ---------------------------
(* Two addresses in one shard and two entries: a placeholder, whose two     *)
(* mints are equal as both are Pubkey::default() in the code, and a real    *)
(* pair.                                                                    *)
EXTENDS PoolRegistry

CONSTANTS p1, p2, a, d, t1, t2, t3

MCThreads == {t1, t2, t3}
MCPools == {p1, p2}
MCMints == {a, d}
MCEntries == {[mint_a |-> d, mint_b |-> d],
              [mint_a |-> a, mint_b |-> d]}

\* One shard of pools for both addresses: the most waiting.
MCPoolShard == [p \in MCPools |-> 0]
\* The placeholder pair has a shard of its own.
MCIndexShard == [k \in PairKeys |-> IF k = {d} THEN 0 ELSE 1]
=============================================================================
