--------------------------- MODULE VenueExecutors ---------------------------
(***************************************************************************)
(* The executors of execution/amms: the instructions of one swap at one    *)
(* venue, written as if the swap stood alone.                              *)
(*                                                                         *)
(* An order is [venue, in, out, base, amount_in, floor]: base is the mint  *)
(* the pool calls A, 0, coin, X or base.  An executor returns setup, swap  *)
(* and cleanup.  A swap instruction is what it asks of the venue's         *)
(* program: which side of the pool pays in, the exact input, the floor of  *)
(* the output, and whether the native account or a token account is moved. *)
(* The venue's other accounts, its discriminator and the token programs    *)
(* are left out, and so are refusals, which build nothing.                 *)
(***************************************************************************)
EXTENDS QuoteMath, SequencesExt

CONSTANT SOL    \* the native mint: a wallet holds it as lamports or as WSOL

-----------------------------------------------------------------------------
(* Instructions                                                             *)

Create(m) == [op |-> "create", mint |-> m]          \* the user's account, idempotent
Fund(n) == [op |-> "fund", amount |-> n]            \* lamports into the WSOL account
Sync == [op |-> "sync"]                             \* SyncNative on it
Close == [op |-> "close"]                           \* close it into lamports

When(cond, ixs) == IF cond THEN ixs ELSE <<>>

Other(o) == IF o.base = o.in THEN o.out ELSE o.in

\* A swap that takes from the pool's base side, or from its other side.
Venue(o, fromBase, floor) ==
    [op |-> "venue", native |-> o.venue = "PumpFun",
     in |-> IF fromBase THEN o.base ELSE Other(o),
     out |-> IF fromBase THEN Other(o) ELSE o.base,
     amount_in |-> o.amount_in, floor |-> floor, zero_ok |-> TRUE]

-----------------------------------------------------------------------------
(* Native SOL in token accounts                                             *)

WrapInput(o) == When(o.in = SOL, <<Fund(o.amount_in), Sync>>)

\* add_wsol_handling has the same shape.
CloseWsol(o) == When(o.in = SOL, <<Close>>) \o When(o.out = SOL, <<Close>>)

CreatesOutputKeepsWsol(o, ix) ==
    [setup |-> When(o.in = SOL, <<Create(SOL)>>) \o <<Create(o.out)>> \o WrapInput(o),
     swap |-> <<ix>>,
     cleanup |-> When(o.in = SOL, <<Close>>)]

\* The executor trusts the user to hold the input, unless it is SOL.
CreatesOutput(o, ix) ==
    [setup |-> When(o.in = SOL, <<Create(SOL)>>) \o <<Create(o.out)>> \o WrapInput(o),
     swap |-> <<ix>>,
     cleanup |-> CloseWsol(o)]

\* The executor creates both accounts.
CreatesBoth(o, first, second, ix) ==
    [setup |-> <<Create(first), Create(second)>> \o WrapInput(o),
     swap |-> <<ix>>,
     cleanup |-> CloseWsol(o)]

\* a_to_b: the pool's first mint pays in.
a_to_b(o) == o.in = o.base
Directed(o) == CreatesOutput(o, Venue(o, a_to_b(o), o.floor))

-----------------------------------------------------------------------------
(* Venues                                                                   *)

\* Concentrated liquidity
RaydiumClmm(o) == Directed(o)
Orca(o) == Directed(o)
PancakeSwap(o) == Directed(o)
Byreal(o) == Directed(o)
DefiTunaFusion(o) == Directed(o)
MeteoraDlmm(o) == Directed(o)

\* Constant product
RaydiumCpmm(o) == Directed(o)
FluxBeam(o) == Directed(o)
Saros(o) == Directed(o)
Dooar(o) == Directed(o)
RaydiumV4(o) == CreatesBoth(o, o.in, o.out, Venue(o, a_to_b(o), o.floor))

\* The Meteora programs find the direction from the accounts of the user.
Meteora(o) == Directed(o)
MeteoraDamm(o) == Directed(o)
MeteoraDbc(o) == Directed(o)

\* LaunchLab: a buy pays in the quote mint, which is the side that may be SOL.
RaydiumLp(o) ==
    LET is_buy == o.in = Other(o)
        native == Other(o) = SOL
    IN  [setup |-> <<Create(o.base), Create(Other(o))>> \o When(native /\ is_buy, <<Fund(o.amount_in), Sync>>),
         swap |-> <<Venue(o, ~is_buy, o.floor)>>,
         cleanup |-> When(native, <<Close>>)]

\* pump.fun AMM: buy_exact_quote_in refuses a minimum of 0, sell does not.
PumpFunAmm(o) ==
    LET use_buy_ix == o.out = o.base
    IN  CreatesBoth(o, o.base, Other(o), [Venue(o, ~use_buy_ix, o.floor) EXCEPT !.zero_ok = ~use_buy_ix])

\* pump.fun bonding: a buy spends lamports; a sell is paid in lamports and wraps
\* its floor, for the router to find it in a token account.
PumpFun(o) ==
    IF o.in = SOL
    THEN [setup |-> <<Create(o.out)>>, swap |-> <<Venue(o, a_to_b(o), AtLeast(o.floor, 1))>>, cleanup |-> <<>>]
    ELSE [setup |-> <<Create(o.in), Create(SOL)>>,
          swap |-> <<Venue(o, a_to_b(o), o.floor), Fund(o.floor), Sync>>,
          cleanup |-> <<Close>>]

\* Pumpup: its pools trade against USDT, so SOL is not wrapped.
Pumpup(o) == [setup |-> <<Create(o.out)>>, swap |-> <<Venue(o, a_to_b(o), o.floor)>>, cleanup |-> <<>>]

-----------------------------------------------------------------------------
AmmExecutorType ==
    {"RaydiumV4", "RaydiumCpmm", "RaydiumClmm", "RaydiumLp", "PumpFun", "PumpFunAmm", "Meteora", "MeteoraDlmm",
     "MeteoraDamm", "MeteoraDbc", "Orca", "FluxBeam", "Byreal", "DefiTunaFusion", "Saros", "PancakeSwap", "Dooar",
     "Pumpup"}

build_swap_ix(o) ==
    CASE o.venue = "RaydiumV4" -> RaydiumV4(o)
      [] o.venue = "RaydiumCpmm" -> RaydiumCpmm(o)
      [] o.venue = "RaydiumClmm" -> RaydiumClmm(o)
      [] o.venue = "RaydiumLp" -> RaydiumLp(o)
      [] o.venue = "PumpFun" -> PumpFun(o)
      [] o.venue = "PumpFunAmm" -> PumpFunAmm(o)
      [] o.venue = "Meteora" -> Meteora(o)
      [] o.venue = "MeteoraDlmm" -> MeteoraDlmm(o)
      [] o.venue = "MeteoraDamm" -> MeteoraDamm(o)
      [] o.venue = "MeteoraDbc" -> MeteoraDbc(o)
      [] o.venue = "Orca" -> Orca(o)
      [] o.venue = "FluxBeam" -> FluxBeam(o)
      [] o.venue = "Byreal" -> Byreal(o)
      [] o.venue = "DefiTunaFusion" -> DefiTunaFusion(o)
      [] o.venue = "Saros" -> Saros(o)
      [] o.venue = "PancakeSwap" -> PancakeSwap(o)
      [] o.venue = "Dooar" -> Dooar(o)
      [] o.venue = "Pumpup" -> Pumpup(o)
=============================================================================
