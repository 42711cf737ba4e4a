------------------------------ MODULE SwapFeed ------------------------------
(***************************************************************************)
(* Transactions land, blocks carry them to the swap parser and to the      *)
(* account mirror (block_scanner.rs run_block_subscribe, block_refresh.rs  *)
(* mirror_block), parsed swaps go into a broadcast channel, and a client   *)
(* of /swap-stream reads them (api/swap_stream_ws.rs).  A fee observed in  *)
(* a swap prices later quotes (router.rs price_cp) on the mirrored vaults. *)
(*                                                                         *)
(* The venues and the channel are external.  A venue keeps x*y=k and takes *)
(* a fee of the input that stays in the vault, or one in the quote mint    *)
(* that does not reach it.  A token vault belongs to the pool, or to an    *)
(* authority that other pools of the venue share, or the quote side is the *)
(* pool's own lamports.                                                    *)
(***************************************************************************)
EXTENDS SwapParser

CONSTANTS
    Pool,         \* Pool[p]: [venue, custody, base, quote, fee_ppm, skims]
    Chained,      \* bound: the pools that routes of two swaps use
    Again,        \* bound: the pools that transactions after the first use
    Amounts,      \* bound: what a route starts with
    Reserve,      \* what each vault holds at the start
    Filters,      \* bound: what the client may subscribe to
    Buffer,       \* swap_stream_buffer_size
    MaxTxs        \* bound: transactions

Pools == DOMAIN Pool

ASSUME FeedAssumption ==
    /\ Chained \cup Again \subseteq Pools
    /\ Amounts \subseteq Nat \ {0} /\ Reserve \in Nat \ {0}
    /\ Buffer \in Nat \ {0} /\ MaxTxs \in Nat

VARIABLES
    vault,      \* vault[p][s]: the tokens of pool p on chain
    known,      \* pools whose vaults the mirror has registered
    mirror,     \* mirror[p][s]: vault balances as the blocks told
    observed,   \* OBSERVED: observed[p] in ppm, or NoFee
    tx,         \* ghost: the last transaction, its pools before it and what was parsed of it
    txs,        \* transactions so far
    sol_price,  \* PriceOracle: dollars for a SOL, 0 before the first refresh
    sent,       \* ghost: every swap broadcast, of which the channel keeps Buffer
    client,     \* where handle_swap_stream is
    filter,     \* the client's filter
    joined,     \* ghost: the position the receiver was made at
    next,       \* the receiver's next position
    delivered,  \* positions of the swaps sent to the client
    skipped     \* the sum of the Lagged frames it got

chainVars == <<vault, known, mirror, observed, tx, txs>>
clientVars == <<client, filter, joined, next, delivered, skipped>>
vars == <<chainVars, clientVars, sol_price, sent>>

Mint(p, side) == IF side = "base" THEN Pool[p].base ELSE Pool[p].quote
Vault(p, side) == <<"vault", p, side>>
Key(p) == <<"pool", p>>
Trader == <<"trader">>
Sponsor == <<"sponsor">>
Authority(p) == IF Pool[p].custody = "authority" THEN <<"authority", Pool[p].venue>> ELSE Key(p)
Ata(mint) == <<"ata", mint>>
FeeAccount(p) == <<"fee", p>>
Collector == <<"collector">>

HasToken(p, side) == Pool[p].custody # "curve" \/ side = "base"

-----------------------------------------------------------------------------
(* A route lands.                                                           *)

\* A swap instruction of each venue, as this service's executors send it: its
\* name and where the pool stands in its account list.
Executor(venue, side) ==
    CASE venue = "RaydiumV4" -> [data |-> "base_in_v2", at |-> 1]
      [] venue = "RaydiumCpmm" -> [data |-> "base_in", at |-> 3]
      [] venue = "RaydiumLp" -> [data |-> IF side = "quote" THEN "buy_in" ELSE "sell_in", at |-> 4]
      [] venue \in {"RaydiumCl", "PancakeSwap"} -> [data |-> "swap_v2", at |-> 2]
      [] venue = "Byreal" -> [data |-> "swap_v3_dyn", at |-> 2]
      [] venue = "PumpFun" -> [data |-> IF side = "quote" THEN "buy_exact_sol_in" ELSE "sell", at |-> 3]
      [] venue = "PumpFunAmm" -> [data |-> IF side = "quote" THEN "buy_exact_quote_in" ELSE "sell", at |-> 0]
      [] venue = "MeteoraDlmm" -> [data |-> "swap2", at |-> 0]
      [] venue = "MeteoraDamm" -> [data |-> "swap", at |-> 1]
      [] venue = "MeteoraDbc" -> [data |-> "swap2", at |-> 2]
      [] venue = "Orca" -> [data |-> "swap_v2", at |-> 4]
      [] venue \in {"FluxBeam", "Saros", "Dooar", "Pumpup"} -> [data |-> "swap", at |-> 0]
      [] venue = "DefiTunaFusion" -> [data |-> "swap", at |-> 4]

Fee(p, amount) == ceil_ppm(amount, Pool[p].fee_ppm)

\* What a venue takes of the input, what leaves its vault, and what it takes of
\* that: a skimming venue takes its fee in the quote mint, the others in the input.
FeeIn(p, side, amount) == IF Pool[p].skims /\ side = "base" THEN 0 ELSE Fee(p, amount)
Gross(p, reserves, side, amount) ==
    ConstantProduct(reserves[side], reserves[Across(side)], amount - FeeIn(p, side, amount))
FeeOut(p, side, gross) == IF Pool[p].skims /\ side = "base" THEN Fee(p, gross) ELSE 0
Pays(p, reserves, side, amount) ==
    LET gross == Gross(p, reserves, side, amount) IN gross - FeeOut(p, side, gross)

\* A route is a sequence of legs [pool, side]; an execution carries the vaults,
\* the amount in hand and the fees skimmed on the way.
Swapped(run, leg) ==
    LET p == leg.pool
        gross == Gross(p, run.vault[p], leg.side, run.amount)
        skim == IF Pool[p].skims THEN FeeIn(p, leg.side, run.amount) + FeeOut(p, leg.side, gross) ELSE 0
        kept == IF Pool[p].skims THEN run.amount - FeeIn(p, leg.side, run.amount) ELSE run.amount
        out == Pays(p, run.vault[p], leg.side, run.amount)
    IN  [vault |-> [run.vault EXCEPT ![p] = [s \in Sides |-> IF s = leg.side THEN @[s] + kept ELSE @[s] - gross]],
         amount |-> out,
         skims |-> run.skims @@ (IF HasToken(p, "quote") /\ skim > 0
                                 THEN FeeAccount(p) :> [mint |-> Mint(p, "quote"), owner |-> Collector, amount |-> skim]
                                 ELSE <<>>),
         paid |-> run.paid /\ out > 0]

Executed(route, amount) ==
    FoldLeft(Swapped, [vault |-> vault, amount |-> amount, skims |-> <<>>, paid |-> TRUE], route)

\* The trader pays for the transaction, perhaps with rent, or a sponsor does.
Payments == [payer : {Trader}, rent : {0, 2}] \cup [payer : {Sponsor}, rent : {0}]

Routes ==
    {<<[pool |-> p, side |-> s]>> : p \in Pools, s \in Sides}
    \cup {route \in {<<[pool |-> p, side |-> s], [pool |-> q, side |-> t]>> : p, q \in Chained, s, t \in Sides} :
              Mint(route[1].pool, Across(route[1].side)) = Mint(route[2].pool, route[2].side)}

In(route) == Mint(route[1].pool, route[1].side)
Out(route) == Mint(Last(route).pool, Across(Last(route).side))

\* Token accounts of the pools, as in the meta of the transaction.
VaultAccounts(balances, pools) ==
    LET sides == {ps \in pools \X Sides : HasToken(ps[1], ps[2])}
        accounts == {Vault(ps[1], ps[2]) : ps \in sides}
        Of(a) == CHOOSE ps \in sides : Vault(ps[1], ps[2]) = a
    IN  [a \in accounts |-> LET ps == Of(a) IN [mint |-> Mint(ps[1], ps[2]), owner |-> Authority(ps[1]),
                                                amount |-> balances[ps[1]][ps[2]]]]

\* The trader's own: what is paid was there, what is bought may be created.
Wallet(mint, amount) ==
    IF mint = SOL THEN <<>> ELSE Ata(mint) :> [mint |-> mint, owner |-> Trader, amount |-> amount]

SwapInstruction(leg) ==
    LET p == leg.pool
    IN  [program |-> Pool[p].venue, data |-> Executor(Pool[p].venue, leg.side).data,
         pool |-> Key(p), pool_at |-> Executor(Pool[p].venue, leg.side).at,
         accounts |-> {Key(p), Authority(p), Trader, Collector, FeeAccount(p)}
                      \cup {Vault(p, s) : s \in Sides} \cup {Ata(Pool[p].base), Ata(Pool[p].quote)}]

\* pump.fun AMM invokes itself to log an event after every swap.
EventInstruction(p) ==
    [program |-> Pool[p].venue, data |-> "event", pool |-> <<"event authority">>, pool_at |-> 0,
     accounts |-> {<<"event authority">>}]

Instructions(route) ==
    FlattenSeq([i \in DOMAIN route |->
        <<SwapInstruction(route[i])>>
        \o (IF Pool[route[i].pool].venue = "PumpFunAmm" THEN <<EventInstruction(route[i].pool)>> ELSE <<>>)])

\* The transaction as its meta shows it: the trader pays for it or a sponsor
\* does; rent is what else it took of the payer's lamports.
Transaction(route, amount, done, payer, rent, via) ==
    LET pools == {route[i].pool : i \in DOMAIN route}
        earned == (IF Out(route) = SOL THEN done.amount ELSE 0) - (IF In(route) = SOL THEN amount ELSE 0)
        curves == {p \in pools : Pool[p].custody = "curve"}
        fees == DOMAIN done.skims
    IN  [payer |-> payer, fee |-> 1,
         pre |-> VaultAccounts(vault, pools) @@ Wallet(In(route), amount)
                 @@ [a \in fees |-> [done.skims[a] EXCEPT !.amount = 0]],
         post |-> VaultAccounts(done.vault, pools) @@ done.skims
                  @@ (IF In(route) = Out(route) THEN Wallet(In(route), done.amount)
                      ELSE Wallet(In(route), 0) @@ Wallet(Out(route), done.amount)),
         lamports |-> (Trader :> (earned - (IF payer = Trader THEN 1 + rent ELSE 0)))
                      @@ (Sponsor :> (IF payer = Sponsor THEN -1 - rent ELSE 0))
                      @@ [k \in {Key(p) : p \in curves} |->
                             LET p == CHOOSE q \in curves : Key(q) = k
                             IN  done.vault[p].quote - vault[p].quote],
         ixs |-> (IF via = Aggregator THEN <<[program |-> Aggregator, data |-> "route", pool |-> <<Aggregator>>,
                                              pool_at |-> 0, accounts |-> {Trader}]>> ELSE <<>>)
                 \o Instructions(route)]

-----------------------------------------------------------------------------
(* A block                                                                  *)

\* block_refresh.rs mirror_block: balances of the vaults it knows, and of token
\* accounts that a registered pool owns, which it registers.
MirrorBlock ==
    LET told == {p \in tx'.pools : p \in known \/ Pool[p].custody = "own"}
    IN  /\ mirror' = [p \in Pools |-> IF p \in told THEN vault'[p] ELSE mirror[p]]
        /\ known' = known \cup told

\* observed_fees.rs record
RecordFees ==
    observed' = [p \in Pools |-> IF \E f \in tx'.fees : f.pool = Key(p)
                                 THEN (CHOOSE f \in tx'.fees : f.pool = Key(p)).ppm
                                 ELSE observed[p]]

\* What is left of a transaction once it is parsed.
Parsed(route, payer, facts, parsed) ==
    [payer |-> payer, pools |-> {route[i].pool : i \in DOMAIN route}, before |-> vault,
     moved |-> DOMAIN facts.deltas # {}, swaps |-> parsed.swaps, fees |-> parsed.fees]

ParsedFrom(route, payer, facts) == Parsed(route, payer, facts, parse_one_tx(facts, sol_price))

Landed(route, amount, run, payer, rent, via) ==
    ParsedFrom(route, payer, TxFacts(Transaction(route, amount, run, payer, rent, via)))

\* A confirmed transaction: parsed, broadcast, mirrored.
Block(route, amount, payer, rent, via) ==
    /\ txs < MaxTxs
    /\ txs = 0 \/ \A i \in DOMAIN route : route[i].pool \in Again
    /\ \E run \in {Executed(route, amount)} :
        /\ run.paid
        /\ vault' = run.vault
        /\ tx' = Landed(route, amount, run, payer, rent, via)
    /\ txs' = txs + 1
    /\ MirrorBlock
    /\ RecordFees
    /\ sent' = sent \o tx'.swaps
    /\ UNCHANGED <<sol_price, clientVars>>

\* PriceOracle refresh.
RefreshPrice ==
    /\ sol_price = 0
    /\ sol_price' = 2
    /\ UNCHANGED <<chainVars, clientVars, sent>>

-----------------------------------------------------------------------------
(* A client of the stream                                                   *)

\* wait_for_filter: a subscribe message, or none within the grace period, or
\* any other frame in its place.  The receiver exists only after the Subscribed
\* frame is on its way.
Subscribe(f) ==
    /\ client = "connected"
    /\ client' = "streaming"
    /\ filter' = f
    /\ joined' = Len(sent) + 1
    /\ next' = Len(sent) + 1
    /\ UNCHANGED <<chainVars, sol_price, sent, delivered, skipped>>

Oldest == IF Len(sent) > Buffer THEN Len(sent) - Buffer + 1 ELSE 1

RecvSilently ==
    /\ client = "streaming"
    /\ next <= Len(sent)
    /\ IF next < Oldest
       THEN /\ next' = Oldest
            /\ UNCHANGED <<delivered, skipped>>
       ELSE /\ next' = next + 1
            /\ delivered' = IF matches(filter, sent[next]) THEN Append(delivered, next) ELSE delivered
            /\ UNCHANGED skipped
    /\ UNCHANGED <<chainVars, sol_price, sent, client, filter, joined>>

\* A receiver the ring has overtaken is told how many it lost and goes on at
\* the oldest swap kept.
Recv ==
    /\ client = "streaming"
    /\ next <= Len(sent)
    /\ IF next < Oldest
       THEN /\ next' = Oldest
            /\ skipped' = skipped + (Oldest - next)
            /\ UNCHANGED delivered
       ELSE /\ next' = next + 1
            /\ delivered' = IF matches(filter, sent[next]) THEN Append(delivered, next) ELSE delivered
            /\ UNCHANGED skipped
    /\ UNCHANGED <<chainVars, sol_price, sent, client, filter, joined>>

NewClient(pc, f, position, got, lost) ==
    /\ pc = "connected" /\ f = NoFilter /\ position = 1 /\ got = <<>> /\ lost = 0

\* The client closes, errs, or sends what is no subscribe message; another may
\* connect.
Close ==
    /\ client = "streaming"
    /\ NewClient(client', filter', next', delivered', skipped')
    /\ joined' = 1
    /\ UNCHANGED <<chainVars, sol_price, sent>>

-----------------------------------------------------------------------------
Init ==
    /\ vault = [p \in Pools |-> [s \in Sides |-> Reserve]]
    /\ known = {p \in Pools : Pool[p].custody = "authority"}   \* by their cached states
    /\ mirror = vault
    /\ observed = [p \in Pools |-> NoFee]
    /\ tx = [payer |-> Trader, pools |-> {}, before |-> vault, swaps |-> <<>>, fees |-> {}, moved |-> FALSE]
    /\ txs = 0
    /\ sol_price = 0
    /\ sent = <<>>
    /\ NewClient(client, filter, next, delivered, skipped)
    /\ joined = 1

Next ==
    \/ \E route \in Routes, amount \in Amounts, paying \in Payments, via \in {"router", Aggregator} :
            Block(route, amount, paying.payer, paying.rent, via)
    \/ RefreshPrice
    \/ \E f \in Filters : Subscribe(f)
    \/ Recv
    \/ Close

Spec == Init /\ [][Next]_vars

-----------------------------------------------------------------------------
(* Properties.                                                             *)

\* What pool p really did in the last transaction, or NoSwap if it gained or
\* lost on both sides.
Traded(p) ==
    LET change == [s \in Sides |-> vault[p][s] - tx.before[p][s]]
        in == CHOOSE s \in Sides : change[s] > 0
    IN  IF \E s \in Sides : change[s] > 0 /\ change[Across(s)] < 0
        THEN [pool |-> Key(p), in |-> Mint(p, in), in_amount |-> change[in],
              out |-> Mint(p, Across(in)), out_amount |-> -change[Across(in)]]
        ELSE NoSwap

LegsOf(swap) == [pool |-> swap.pool, in |-> swap.in, in_amount |-> swap.in_amount,
                 out |-> swap.out, out_amount |-> swap.out_amount]

\* A swap streamed for a pool has the legs that pool really traded in the
\* transaction, whatever else the transaction did and whoever paid for it; and
\* a trader who pays for the own transaction and comes out of it with a change
\* sees every pool it traded with streamed once.
LegsReal ==
    LET streamed == SelectSeq(tx.swaps, LAMBDA swap : swap.pool # <<Aggregator>>)
    IN  /\ \A i \in DOMAIN streamed : \E p \in tx.pools : LegsOf(streamed[i]) = Traded(p)
        /\ \A i, j \in DOMAIN streamed : streamed[i].pool = streamed[j].pool => i = j
        /\ tx.payer = Trader /\ tx.moved =>
              \A p \in tx.pools : Traded(p) # NoSwap => \E i \in DOMAIN streamed : streamed[i].pool = Key(p)

\* Venues that are priced by observation: the fee schedule of Saros is not what
\* it charges, that of Pumpup is unknown.
PricedByObservation == {p \in Pools : Pool[p].venue \in {"Saros", "Pumpup"}}

\* A quote at an observed fee, on the vaults as the blocks have mirrored them,
\* never promises more than the pool pays, in either direction, at any amount,
\* whichever swap, paid for by whomever, the fee was observed in.
ObservationPays ==
    \A p \in PricedByObservation, side \in Sides, amount \in Amounts :
        p \in known /\ observed[p] # NoFee =>
            ObservedFee([ppm |-> observed[p]], mirror[p], side, amount).out <= Pays(p, vault[p], side, amount)

\* From its receiver on a client gets every swap that matches its filter, once
\* and in order, or is told of at least as many lost.
GapsTold ==
    LET got == {delivered[i] : i \in DOMAIN delivered}
    IN  /\ \A i, j \in DOMAIN delivered : i < j => delivered[i] < delivered[j]
        /\ \A i \in got : i \in joined..(next - 1) /\ matches(filter, sent[i])
        /\ Cardinality({i \in joined..(next - 1) : matches(filter, sent[i])} \ got) <= skipped
=============================================================================
