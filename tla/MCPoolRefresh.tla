--------------------------- MODULE MCPoolRefresh ---------------------------
(* One state-priced pool and, where a run wants the Meteora branch and the   *)
(* cap, one Meteora Standard pool.                                           *)
EXTENDS PoolRefresh, TLC

CONSTANTS clmm, std, t1, t2, f1, f2

MCOnePool == {clmm}
MCPools == {clmm, std}
MCStd == {std}
MCNone == {}
MCOracle == {clmm}
MCOneTask == {t1}
MCTasks == {t1, t2}
MCOneFetcher == {f1}
MCFetchers == {f1, f2}

\* Block tasks are alike, and no safety property tells them apart.
TaskSymmetry == Permutations(MCTasks)
=============================================================================
