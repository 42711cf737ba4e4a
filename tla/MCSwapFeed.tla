----------------------------- MODULE MCSwapFeed -----------------------------
(* One pool per venue, each on two mints; the routes of two swaps are over   *)
(* two CPMM pools that share an authority, a pool that skims its fee and a   *)
(* bonding curve.                                                            *)
EXTENDS SwapFeed

A(venue, custody, base, quote, fee_ppm, skims) ==
    [venue |-> venue, custody |-> custody, base |-> base, quote |-> quote, fee_ppm |-> fee_ppm, skims |-> skims]

Owning == {"RaydiumCl", "PancakeSwap", "Byreal", "Orca", "DefiTunaFusion", "MeteoraDlmm", "Pumpup"}
Sharing == {"RaydiumV4", "RaydiumLp", "MeteoraDamm", "MeteoraDbc", "FluxBeam", "Saros", "Dooar"}
MCChained == {"cpmm1", "cpmm2", "amm", "curve"}
MCAgain == {"cpmm1", "Saros"}
MCPool ==
    [p \in MCChained \cup Owning \cup Sharing |->
        CASE p = "cpmm1" -> A("RaydiumCpmm", "authority", "TOK", "USDC", 30000, FALSE)
          [] p = "cpmm2" -> A("RaydiumCpmm", "authority", "USDC", "SOL", 30000, FALSE)
          [] p = "amm" -> A("PumpFunAmm", "own", "TOK", "SOL", 100000, TRUE)
          [] p = "curve" -> A("PumpFun", "curve", "TOK", "SOL", 10000, TRUE)
          [] p \in Owning -> A(p, "own", "TOK", "SOL", 30000, FALSE)
          [] OTHER -> A(p, "authority", "TOK", "USDC", 30000, FALSE)]

MCSOL == "SOL"
MCStables == {"USDC"}
MCAmounts == {40, 300}
MCFilters == {NoFilter, [dex |-> {"RaydiumCpmm", "PumpFun"}, mint |-> {"SOL"}, pool |-> {}, min_usd |-> 100]}
=============================================================================
