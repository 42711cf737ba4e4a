---------------------------- MODULE VenueParsers ----------------------------
(***************************************************************************)
(* What the program knows of a pool after reading it: src/pool/fetcher.rs. *)
(* A pool account names its mints, vaults and price at every venue; what   *)
(* venues differ in is where the fee rates and the accounts a swap must    *)
(* pay to are found.  A parsed state is abstracted to those two facts.     *)
(*                                                                         *)
(* rates: "pool"      in the pool account (or in a table of the program)   *)
(*        "config"    read from the accounts the pool names                *)
(*        "fallback"  the number the code declares until they are read     *)
(*        "zero"      zeros, which a quote would take for no fee           *)
(*        "shut"      unknown in a way the quoter refuses                  *)
(* recipients: the accounts that receive the fees are known.               *)
(*                                                                         *)
(* Every parser also fails on an account that is too short, and some on    *)
(* its owner, its discriminator or implausible fees: an account that       *)
(* cannot be parsed is one that cannot be read, which callers choose.      *)
(***************************************************************************)

\* No state: the parser's Err, and absence from the cache.
Nothing == [rates |-> "nothing", recipients |-> FALSE]

InPool == [rates |-> "pool", recipients |-> TRUE]
Fallback == [rates |-> "fallback", recipients |-> TRUE]
Configured(st) == [st EXCEPT !.rates = "config"]

ClmmLike == {"RaydiumCl", "Byreal", "PancakeSwap"}
SplForks == {"FluxBeam", "Dooar"}
PoolTypes == ClmmLike \cup SplForks
    \cup {"RaydiumV4", "RaydiumCpmm", "RaydiumLp", "PumpFun", "PumpFunAmm", "Meteora", "MeteoraDlmm", "MeteoraDamm",
          "MeteoraDbc", "Orca", "FlashTrade", "DefiTunaFusion", "DefiTunaPools", "Saros", "Pumpup", "PumpupBonding"}

-----------------------------------------------------------------------------
(* From the bytes of the pool account alone.                               *)

parse_raydium_v4 == InPool
parse_raydium_cpmm == Fallback       \* trade_fee_bps 0: the observed fee, or the venue's
parse_raydium_clmm == Fallback       \* 25 bps
parse_byreal == Fallback
parse_pancakeswap == Fallback
parse_raydium_lp == [rates |-> "zero", recipients |-> TRUE]
parse_pumpfun_amm_layout == [rates |-> "fallback", recipients |-> FALSE]    \* supply 0: the dearest tier
parse_meteora_dlmm == InPool
parse_meteora_damm == InPool
parse_orca == InPool
parse_spl_token_swap == InPool
parse_saros == Fallback              \* priced by the observed fee
parse_flash_trade == InPool
parse_defituna_fusion == InPool
parse_defituna_pools == InPool
parse_pumpup == Fallback

parse_pool_state_from_bytes(v) ==
    CASE v = "RaydiumV4" -> parse_raydium_v4
      [] v = "RaydiumCpmm" -> parse_raydium_cpmm
      [] v = "RaydiumCl" -> parse_raydium_clmm
      [] v = "RaydiumLp" -> parse_raydium_lp
      [] v = "MeteoraDlmm" -> parse_meteora_dlmm
      [] v = "MeteoraDamm" -> parse_meteora_damm
      [] v = "Orca" -> parse_orca
      [] v \in SplForks -> parse_spl_token_swap
      [] v = "FlashTrade" -> parse_flash_trade
      [] v = "Byreal" -> parse_byreal
      [] v = "DefiTunaFusion" -> parse_defituna_fusion
      [] v = "DefiTunaPools" -> parse_defituna_pools
      [] v = "Saros" -> parse_saros
      [] v = "PancakeSwap" -> parse_pancakeswap
      [] v = "Pumpup" -> parse_pumpup
      [] OTHER -> Nothing

\* Pumpup could be, and is not, in the list.
is_sync_parseable(v) == v # "Pumpup" /\ parse_pool_state_from_bytes(v) # Nothing

-----------------------------------------------------------------------------
(* With companion accounts.  has: those just read, and those the process   *)
(* holds from an earlier read.                                             *)

\* What a full fetch reads besides the pool account.
Companions(v) ==
    CASE v \in ClmmLike \cup {"RaydiumCpmm", "RaydiumLp", "MeteoraDbc"} -> {"config"}
      [] v = "PumpFun" -> {"mint", "global"}
      [] v = "PumpFunAmm" -> {"supply", "recipients"}
      [] v = "Meteora" -> {"vaults"}
      [] v = "PumpupBonding" -> {"mint", "config"}
      [] OTHER -> {}

\* What of it a static of the process keeps: the configs and the mint of a curve
\* for good; the Global as a last resort, since it is read again every five minutes.
Kept(v) == IF v \in {"PumpFunAmm", "Meteora"} THEN {} ELSE IF v = "PumpupBonding" THEN {"config"} ELSE Companions(v)
Expires == {"global"}

launchlab_fee_ratesOrZeros(has) == IF "config" \in has THEN Configured(parse_raydium_lp) ELSE parse_raydium_lp

\* LaunchLab's two configs, read in one call.
launchlab_fee_rates(has) ==
    IF "config" \in has THEN Configured(parse_raydium_lp) ELSE [parse_raydium_lp EXCEPT !.rates = "shut"]

cpmm_config_fees(has) == IF "config" \in has THEN Configured(parse_raydium_cpmm) ELSE parse_raydium_cpmm

clmm_fee_rate_u16(st, has) == IF "config" \in has THEN Configured(st) ELSE st

\* The recipients are picked from the Global; built-in ones stand in for an unreadable one.
pumpfun_state(has) == [rates |-> "pool", recipients |-> "global" \in has]

parse_pumpfun(has) == IF {"mint", "global"} \subseteq has THEN pumpfun_state(has) ELSE Nothing

\* The recipients come from recent swaps of the pool; with the program's own list
\* "loaded" a state carries none, and a swap takes them from the list.  The balances
\* are read too, and zero if they cannot be: quoting reads them again.
parse_pumpfun_amm(has) ==
    [rates |-> IF "supply" \in has THEN "config" ELSE "fallback",
     recipients |-> "recipients" \in has /\ "loaded" \notin has]

parse_meteora(has) == IF "vaults" \in has THEN InPool ELSE Nothing

dbc_state(config) == [rates |-> config, recipients |-> TRUE]
parse_meteora_dbc(has) == IF "config" \in has THEN dbc_state("config") ELSE Nothing

parse_pumpup_bonding(has) == IF {"mint", "config"} \subseteq has THEN InPool ELSE Nothing

fetch_pool_state(v, has) ==
    CASE v = "RaydiumCpmm" -> cpmm_config_fees(has)
      [] v \in ClmmLike -> clmm_fee_rate_u16(parse_pool_state_from_bytes(v), has)
      [] v = "RaydiumLp" -> launchlab_fee_rates(has)
      [] v = "PumpFun" -> parse_pumpfun(has)
      [] v = "PumpFunAmm" -> parse_pumpfun_amm(has)
      [] v = "Meteora" -> parse_meteora(has)
      [] v = "MeteoraDbc" -> parse_meteora_dbc(has)
      [] v = "PumpupBonding" -> parse_pumpup_bonding(has)
      [] OTHER -> parse_pool_state_from_bytes(v)

-----------------------------------------------------------------------------
(* With the state the cache holds.                                         *)

carry_over_pamm_fee_accounts(v, st, prev) ==
    IF v # "PumpFunAmm" THEN st
    ELSE [rates |-> IF st.rates = "fallback" THEN prev.rates ELSE st.rates,
          recipients |-> st.recipients \/ prev.recipients]

carry_over_from_prevOmitsClmm(v, st, prev) ==
    CASE v = "RaydiumLp" -> [st EXCEPT !.rates = prev.rates]
      [] v = "RaydiumCpmm" -> [st EXCEPT !.rates = IF @ = "fallback" THEN prev.rates ELSE @]
      [] OTHER -> carry_over_pamm_fee_accounts(v, st, prev)

carry_over_from_prev(v, st, prev) ==
    CASE v \in ClmmLike \cup {"RaydiumLp"} -> [st EXCEPT !.rates = prev.rates]
      [] v = "RaydiumCpmm" -> [st EXCEPT !.rates = IF @ = "fallback" THEN prev.rates ELSE @]
      [] OTHER -> carry_over_pamm_fee_accounts(v, st, prev)

is_state_priced(v) ==
    v \in ClmmLike \cup {"Orca", "DefiTunaFusion", "MeteoraDamm", "RaydiumLp", "MeteoraDlmm", "PumpFun", "MeteoraDbc"}

\* A curve keeps its mint, and its recipients where the Global was never read; a state
\* without them, or without its config, is left to age into a full fetch.
ReparsedCurve(prev, has) ==
    LET st == [pumpfun_state(has) EXCEPT !.recipients = IF "global" \in has THEN @ ELSE prev.recipients]
    IN IF st.recipients THEN st ELSE Nothing

reparse_pool_state(v, prev, has) ==
    CASE v = "PumpFun" -> ReparsedCurve(prev, has)
      [] v = "MeteoraDbc" -> IF prev.rates = "config" THEN dbc_state(prev.rates) ELSE Nothing
      [] v = "RaydiumV4" \/ (is_state_priced(v) /\ v \notin {"PumpFun", "MeteoraDbc"}) ->
            carry_over_from_prev(v, parse_pool_state_from_bytes(v), prev)
      [] OTHER -> Nothing

needs_pamm_fee_accounts(v, st) == v = "PumpFunAmm" /\ ~st.recipients

\* The supply is taken along; without recipients the caller stores nothing.
ensure_pamm_fee_accounts(v, st, has) ==
    IF needs_pamm_fee_accounts(v, st) /\ "recipients" \in has
    THEN carry_over_pamm_fee_accounts(v, parse_pumpfun_amm(has), st)
    ELSE st

-----------------------------------------------------------------------------
(* With the companions of the Geyser mirror.                               *)

extract_companion_keys(v) == IF v = "Meteora" THEN {"vaults"} ELSE IF v = "MeteoraDbc" THEN {"config"} ELSE {}

parse_pumpfun_amm_with_balances == parse_pumpfun_amm_layout

\* The vaults give the addresses; the shares and the fees stay zero.
parse_meteora_with_companion(mirror) ==
    IF "vaults" \in mirror THEN [rates |-> "shut", recipients |-> TRUE] ELSE Nothing

parse_pumpfun_with_companion(mirror, has) ==
    IF "mint" \in mirror THEN [pumpfun_state(mirror \cup has) EXCEPT !.recipients = TRUE] ELSE Nothing

parse_with_mirror(v, mirror, has) ==
    CASE is_sync_parseable(v) -> parse_pool_state_from_bytes(v)
      [] v = "PumpFunAmm" -> parse_pumpfun_amm_with_balances
      [] v = "Meteora" -> parse_meteora_with_companion(mirror)
      [] v = "MeteoraDbc" -> parse_meteora_dbc(mirror)
      [] v = "PumpFun" -> parse_pumpfun_with_companion(mirror, has)
      [] OTHER -> Nothing
=============================================================================
