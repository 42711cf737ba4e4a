---------------------------- MODULE MCSwapRoute ----------------------------
(* The native mint, a second bridge, a token still on its bonding curve and *)
(* one that is not: every shape of route, through SOL and around it.        *)
EXTENDS SwapRoute

CONSTANTS sol, usdc, meme, coin

MCMints == {sol, usdc, meme, coin}
MCBridges == {sol, usdc}
MCLaunched == {meme}

\* One venue of each way to handle SOL.
MCRouted == {"RaydiumCpmm", "PumpFunAmm", "PumpFun"} \X {FALSE}

\* Wallets that can pay 2 of one mint and hold nothing more, with or without
\* token accounts for the others, and one that holds some of everything.
MCWallets ==
    {[lamports |-> 2, ata |-> [m \in {} |-> 0]],
     [lamports |-> 0, ata |-> [m \in {usdc, coin} |-> 2]],
     [lamports |-> 0, ata |-> [m \in {sol, meme} |-> IF m = sol THEN 1 ELSE 2]],
     [lamports |-> 3, ata |-> [m \in MCMints |-> 3]]}
=============================================================================
