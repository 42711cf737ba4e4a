----------------------------- MODULE SwapParser -----------------------------
(***************************************************************************)
(* stream/swap_stream.rs: the swaps of one confirmed transaction, read from*)
(* its balances before and after, and stream/observed_fees.rs: the fee a   *)
(* constant-product swap shows.                                            *)
(*                                                                         *)
(* A transaction is what its meta tells: pre and post map each token       *)
(* account to [mint, owner, amount], lamports maps accounts to the change  *)
(* of their lamports, fee is the transaction fee, ixs are the top-level    *)
(* instructions and then the inner ones.  An instruction is [program, data,*)
(* accounts, pool, pool_at]: pool is the account at index pool_at.  Account*)
(* keys, tuples here, stand for their indices.  Failed transactions, votes and           *)
(* undecodable keys are skipped by the code and absent here; decimals,     *)
(* native prices and labels are wording.                                   *)
(***************************************************************************)
EXTENDS CurveQuotes, SequencesExt

CONSTANTS SOL,       \* SOL_NATIVE_MINT
          Stables    \* STABLE_MINTS

NoIndex == -1
NoFee == -1
NoSwap == [pool |-> <<"none">>]
Aggregator == "OnChainLabs"              \* a program; its swaps carry its own key
Elsewhere == <<"another account">>       \* what sits at any index but pool_at

-----------------------------------------------------------------------------
(* stream/block_scanner.rs                                                  *)

\* Where a swap instruction keeps its pool; NoIndex for anything that is none.
swap_pool_index(program, data) ==
    CASE program = "RaydiumV4" /\ data \in {"base_in", "base_out", "base_in_v2", "base_out_v2"} -> 1
      [] program = "RaydiumCpmm" /\ data \in {"base_in", "base_out"} -> 3
      [] program = "RaydiumLp" /\ data \in {"buy_in", "buy_out", "sell_in", "sell_out"} -> 4
      [] program \in {"RaydiumCl", "PancakeSwap"} /\ data \in {"swap", "swap_v2"} -> 2
      [] program = "Byreal" /\ data \in {"swap", "swap_v2", "swap_v3_dyn"} -> 2
      [] program = "PumpFun" /\ data \in {"buy", "sell", "buy_exact_sol_in"} -> 3
      [] program = "PumpFun" /\ data \in {"buy_v2", "sell_v2", "buy_exact_quote_in_v2"} -> 10
      [] program = "PumpFunAmm" /\ data \in {"buy", "sell", "buy_exact_quote_in"} -> 0
      [] program = "Meteora" /\ data = "swap" -> 0
      [] program = "MeteoraDlmm" /\ data \in {"swap", "swap2", "exact_out", "with_price_impact"} -> 0
      [] program = "MeteoraDamm" /\ data = "swap" -> 1
      [] program = "MeteoraDbc" /\ data \in {"swap", "swap2"} -> 2
      [] program = "Orca" /\ data = "swap" -> 2
      [] program = "Orca" /\ data = "swap_v2" -> 4
      [] program \in {"FluxBeam", "Saros", "Dooar"} /\ data = "swap" -> 0
      [] program \in {"FlashTrade", "DefiTunaPools"} -> 0
      [] program = "DefiTunaFusion" -> 4
      [] program = "Pumpup" /\ data = "swap" -> 0
      [] program = "Pumpup" /\ data \in {"buy", "sell"} -> 3
      [] OTHER -> NoIndex

\* Pumpup's program is also its bonding curve.
refine_pool_type(program, data) ==
    IF program = "Pumpup" /\ data # "swap" THEN "PumpupBonding" ELSE program

IsSwap(ix) == swap_pool_index(ix.program, ix.data) # NoIndex
PoolIn(ix) == IF swap_pool_index(ix.program, ix.data) = ix.pool_at THEN ix.pool ELSE Elsewhere

-----------------------------------------------------------------------------
(* Balances                                                                 *)

\* One observation per token account: an account on one side only was created
\* or closed and counts as empty on the other.  Mint and owner as before.
Observations(tx) ==
    LET Amount(balances, a) == IF a \in DOMAIN balances THEN balances[a].amount ELSE 0
        Of(a) == IF a \in DOMAIN tx.pre THEN tx.pre[a] ELSE tx.post[a]
    IN  {[account |-> a, mint |-> Of(a).mint, owner |-> Of(a).owner,
          pre |-> Amount(tx.pre, a), post |-> Amount(tx.post, a)] : a \in DOMAIN tx.pre \cup DOMAIN tx.post}

LamportDelta(tx, a) == IF a \in DOMAIN tx.lamports THEN tx.lamports[a] ELSE 0

\* What the fee payer gained or lost of each mint; the transaction fee is no leg.
compute_fee_payer_deltas(obs, tx) ==
    LET own == {o \in obs : o.owner = tx.payer}
        Delta(m) == MapThenSumSet(LAMBDA o : o.post - o.pre, {o \in own : o.mint = m})
                    + (IF m = SOL THEN LamportDelta(tx, tx.payer) + tx.fee ELSE 0)
        moved == {m \in {o.mint : o \in own} \cup {SOL} : Delta(m) # 0}
    IN  [m \in moved |-> Delta(m)]

TxFacts(tx) ==
    LET obs == Observations(tx)
    IN  [payer |-> tx.payer, lamports |-> tx.lamports, ixs |-> tx.ixs, obs |-> obs,
         deltas |-> compute_fee_payer_deltas(obs, tx)]

-----------------------------------------------------------------------------
(* stream/observed_fees.rs                                                  *)

\* The fee, in ppm of the input and rounded up, at which the curve's price
\* explains the output; NoFee when no fee up to a half does.
implied_fee_ppm(paid_in, out, r_in, r_out) ==
    LET implied == (out * r_in) \div (r_out - out)
        ppm == div_ceil((paid_in - implied) * PPM, paid_in)
    IN  IF paid_in = 0 \/ out = 0 \/ r_in = 0 \/ out >= r_out THEN NoFee
        ELSE IF implied > paid_in \/ ppm > 500000 THEN NoFee ELSE ppm

is_cp_for_fee_estimate(pool_type) ==
    pool_type \in {"PumpFunAmm", "RaydiumCpmm", "MeteoraDamm", "Meteora", "FluxBeam", "Saros", "Dooar", "Pumpup"}

-----------------------------------------------------------------------------
(* The legs of one pool                                                     *)

CandidatesOfAnyPool(ix, facts, owners) ==
    {o \in facts.obs : o.owner # facts.payer /\ o.owner \in owners /\ o.post # o.pre}

\* Accounts of the instruction that some owner but the payer saw change.
Candidates(ix, facts, owners) ==
    {o \in facts.obs : /\ o.account \in ix.accounts
                              /\ o.owner # facts.payer
                              /\ o.owner \in owners
                              /\ o.post # o.pre}

NoLegs == [found |-> FALSE]
Legs(in, in_amount, r_in_pre, out, out_amount, r_out_pre) ==
    [found |-> TRUE, in |-> in, in_amount |-> in_amount, r_in_pre |-> r_in_pre,
     out |-> out, out_amount |-> out_amount, r_out_pre |-> r_out_pre]

\* One token vault and the lamports of the pool, moved opposite ways.
CurveLegs(pool, o, facts) ==
    LET lam == LamportDelta(facts, pool)
    IN  IF o.post > o.pre /\ lam < 0 THEN Legs(o.mint, o.post - o.pre, o.pre, SOL, -lam, 0)
        ELSE IF o.post < o.pre /\ lam > 0 THEN Legs(SOL, lam, 0, o.mint, o.pre - o.post, o.pre)
        ELSE NoLegs

vault_legsBalancesAfter(pool, ix, facts) ==
    LET own == Candidates(ix, facts, {pool})
        cands == IF Cardinality(own) = 2 THEN own ELSE Candidates(ix, facts, ix.accounts)
        gained == {o \in cands : o.post > o.pre}
        lost == cands \ gained
    IN  CASE Cardinality(gained) = 1 /\ Cardinality(lost) = 1 ->
                LET g == CHOOSE o \in gained : TRUE
                    l == CHOOSE o \in lost : TRUE
                IN  IF g.mint = l.mint THEN NoLegs
                    ELSE Legs(g.mint, g.post - g.pre, g.post, l.mint, l.pre - l.post, l.post)
          [] Cardinality(cands) = 1 -> CurveLegs(pool, CHOOSE o \in cands : TRUE, facts)
          [] OTHER -> NoLegs

\* The accounts of the instruction that the pool owns, or else those owned by
\* any account of the instruction except the payer: one must have gained and
\* one lost, of different mints.
vault_legs(pool, ix, facts) ==
    LET own == Candidates(ix, facts, {pool})
        cands == IF Cardinality(own) = 2 THEN own ELSE Candidates(ix, facts, ix.accounts)
        gained == {o \in cands : o.post > o.pre}
        lost == cands \ gained
    IN  CASE Cardinality(gained) = 1 /\ Cardinality(lost) = 1 ->
                LET g == CHOOSE o \in gained : TRUE
                    l == CHOOSE o \in lost : TRUE
                IN  IF g.mint = l.mint THEN NoLegs
                    ELSE Legs(g.mint, g.post - g.pre, g.pre, l.mint, l.pre - l.post, l.pre)
          [] Cardinality(cands) = 1 -> CurveLegs(pool, CHOOSE o \in cands : TRUE, facts)
          [] OTHER -> NoLegs

-----------------------------------------------------------------------------
(* The swaps of a transaction                                               *)

\* What a trade is worth in dollars at a SOL price, 0 when unknown: the input
\* side decides, and SOL paid in without a price is worth nothing known even
\* against a stable mint.
usd_price(in, out, in_amount, out_amount, sol_price) ==
    CASE in \in Stables -> in_amount
      [] in = SOL -> sol_price * in_amount
      [] in \notin Stables \cup {SOL} /\ out \in Stables -> out_amount
      [] in \notin Stables \cup {SOL} /\ out = SOL -> sol_price * out_amount
      [] OTHER -> 0

build_swap(dex, pool, facts, in, in_amount, out, out_amount, sol_price) ==
    IF in = out \/ in_amount = 0 \/ out_amount = 0 THEN NoSwap
    ELSE [pool |-> pool, dex |-> dex, user |-> facts.payer,
          in |-> in, in_amount |-> in_amount, out |-> out, out_amount |-> out_amount,
          amount_usd |-> usd_price(in, out, in_amount, out_amount, sol_price)]

\* The payer's largest loss and largest gain; among equals the code takes
\* whichever its hash map gave first.
build_swap_from_deltas(dex, pool, facts, sol_price) ==
    LET deltas == facts.deltas
        lost == {m \in DOMAIN deltas : deltas[m] < 0}
        gained == {m \in DOMAIN deltas : deltas[m] > 0}
        in == CHOOSE m \in lost : \A n \in lost : deltas[m] <= deltas[n]
        out == CHOOSE m \in gained : \A n \in gained : deltas[m] >= deltas[n]
    IN  IF lost = {} \/ gained = {} THEN NoSwap
        ELSE build_swap(dex, pool, facts, in, -deltas[in], out, deltas[out], sol_price)

\* What the fee estimate takes for the input: all the payer lost of the mint
\* when the transaction has one swap, else what reached the vault.
paid_in(facts, legs) ==
    LET swaps == {i \in DOMAIN facts.ixs : IsSwap(facts.ixs[i]) \/ facts.ixs[i].program = Aggregator}
        deltas == facts.deltas
    IN  IF Cardinality(swaps) = 1 /\ legs.in \in DOMAIN deltas
        THEN AtLeast(-deltas[legs.in], legs.in_amount)
        ELSE legs.in_amount

\* Accumulated over the instructions: the pools met, whether the payer's deltas
\* are used up, the swaps sent and the fees recorded.
Fallback(acc, dex, pool, facts, sol_price) ==
    LET swap == build_swap_from_deltas(dex, pool, facts, sol_price)
    IN  IF acc.fallback_used \/ swap = NoSwap THEN acc
        ELSE [acc EXCEPT !.fallback_used = TRUE, !.swaps = Append(@, swap)]

FromVaults(acc, pool_type, pool, legs, facts, sol_price) ==
    LET ppm == implied_fee_ppm(paid_in(facts, legs), legs.out_amount, legs.r_in_pre, legs.r_out_pre)
        swap == build_swap(pool_type, pool, facts, legs.in, legs.in_amount, legs.out, legs.out_amount, sol_price)
    IN  [acc EXCEPT !.swaps = IF swap = NoSwap THEN @ ELSE Append(@, swap),
                    !.fees = IF is_cp_for_fee_estimate(pool_type) /\ ppm # NoFee
                             THEN @ \cup {[pool |-> pool, ppm |-> ppm]} ELSE @]

ParseInstruction(acc, ix, facts, sol_price) ==
    LET pool == PoolIn(ix)
        pool_type == refine_pool_type(ix.program, ix.data)
        legs == vault_legs(pool, ix, facts)
        met == [acc EXCEPT !.seen = @ \cup {pool}]
    IN  CASE ix.program = Aggregator ->
               IF acc.fallback_used \/ <<Aggregator>> \in acc.seen THEN acc
               ELSE Fallback([acc EXCEPT !.seen = @ \cup {<<Aggregator>>}], Aggregator, <<Aggregator>>, facts, sol_price)
          [] ix.program # Aggregator /\ (~IsSwap(ix) \/ pool \in acc.seen) -> acc
          [] OTHER -> IF legs.found THEN FromVaults(met, pool_type, pool, legs, facts, sol_price)
                      ELSE Fallback(met, pool_type, pool, facts, sol_price)

NothingParsed == [seen |-> {}, fallback_used |-> FALSE, swaps |-> <<>>, fees |-> {}]

\* A transaction that moved nothing of its payer is skipped as a whole.
parse_one_tx(facts, sol_price) ==
    LET parsed[n \in 0..Len(facts.ixs)] ==
            IF n = 0 THEN NothingParsed ELSE ParseInstruction(parsed[n - 1], facts.ixs[n], facts, sol_price)
    IN  IF DOMAIN facts.deltas = {} THEN NothingParsed ELSE parsed[Len(facts.ixs)]

-----------------------------------------------------------------------------
\* SwapFilter: an empty field allows all; a trade of unknown worth fails a minimum.
matches(filter, swap) ==
    /\ filter.dex = {} \/ swap.dex \in filter.dex
    /\ filter.mint = {} \/ {swap.in, swap.out} \cap filter.mint # {}
    /\ filter.pool = {} \/ swap.pool \in filter.pool
    /\ filter.min_usd > 0 => swap.amount_usd >= filter.min_usd

NoFilter == [dex |-> {}, mint |-> {}, pool |-> {}, min_usd |-> 0]
=============================================================================
