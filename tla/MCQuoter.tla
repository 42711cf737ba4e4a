----------------------------- MODULE MCQuoter ------------------------------
(* Two ends and two bridges, with two pools wherever a choice is made: two  *)
(* first pools to one bridge, two between the bridges, and one pool for     *)
(* each of the other pairs.                                                 *)
EXTENDS Quoter

CONSTANTS a, b, s, u, ab, as1, as2, au, su1, su2, sb, ub

MCMints == {a, b, s, u}
MCBridges == {s, u}
MCPools == {ab, as1, as2, au, su1, su2, sb, ub}
MCPair == [p \in MCPools |->
             CASE p = ab -> {a, b} [] p \in {as1, as2} -> {a, s} [] p = au -> {a, u}
               [] p \in {su1, su2} -> {s, u} [] p = sb -> {s, b} [] OTHER -> {u, b}]

\* Outputs for inputs of 1, 2 and 3: par, a minimum of 2, and flat.
MCTables == {<<1, 2, 3>>, <<0, 1, 3>>, <<2, 2, 2>>}
MCMarkets == {[p \in MCPools |-> [m \in MCMints |-> t[p]]] : t \in [MCPools -> MCTables]}

\* All pools and all but the direct one; from a bridge, with and without
\* bridging; and a direct request whose only pool may not quote the amount.
MCRequests == [in : {a}, out : {b}, amount : {2, 3}, slippage_bps : {0, 5000},
               direct_only : {FALSE}, pools : {MCPools, MCPools \ {ab}}]
              \cup [in : {s}, out : {b}, amount : {2}, slippage_bps : {0},
                    direct_only : BOOLEAN, pools : {MCPools}]
              \cup [in : {a}, out : {b}, amount : {1}, slippage_bps : {0},
                    direct_only : {TRUE}, pools : {{ab}}]
=============================================================================
