# A TLA+ model of flow-trades

flow-trades is a swap service for Solana: it keeps a registry of liquidity pools
and their state in memory, answers quotes from that memory, and builds the
transactions of the swaps it quoted. It is one tokio process with many tasks
that share concurrent maps, fed by one of two block sources. This directory
models the shared and concurrent part, the life of a pool over crashes, what every
venue is quoted at, the choice of a route, the way from a quote to a transaction
that lands, and the stream of executed swaps. Paths below are relative to `src/`.

## The system

| part | state it keeps | operations | talks to |
|---|---|---|---|
| registry, `src/pool/registry.rs` | `pools` (address to entry), `mint_index` (mint pair to addresses), two sharded maps | `add`, `remove`, `lookup`, `get`, `contains` | everybody |
| cache, `src/pool/cache.rs` | states with the time they were stored, failure counts | `get`, `insert`, `remove`, `record_failure`, `reset_failure`, `is_dormant` | everybody |
| block scanner, `src/stream/block_scanner.rs` | failed candidates | discover a pool, fetch it, register it | RPC, registry, cache, table |
| block refresh, `src/stream/block_refresh.rs` | `in_flight` | copy vault balances, re-read touched pools | RPC, registry, cache, mirror |
| Geyser session, `src/stream/geyser.rs` | three queues, a subscription, a flush task | blocks, account updates, RPC fallback, flush, reconnect | Yellowstone, RPC, registry, cache, mirror, table |
| mirror, `src/stream/account_mirror.rs` | companion bytes, vault balances, vault to pools | insert, look up | session, refresh, quoter |
| persistence, `src/storage/` | SQLite table, warm file, JSON snapshot | insert, load, prune, periodic save | bootstrap |
| start-up and periodic tasks, `src/main.rs` | none | bootstrap, prune (table, registry, cache), dormant retry | all of the above |
| quoter, `src/quote/router.rs` | `revalidating` | hot, cold and revalidated state, routes, splits | registry, cache, mirror, RPC |
| pricing, `src/quote/*.rs` | none | constant product, curves, ticks, bins, fees | quoter |
| fetcher, `src/pool/fetcher.rs` and `ticks.rs`, `bins.rs`, `mints.rs` | config, tick, bin and mint caches | full fetch, re-parse, parse with the mirror | RPC |
| swap API, `src/api/swap.rs`, `src/execution/` | blockhash and lookup-table caches | load the pools of a quote, build and simulate a transaction | cache, RPC |
| swap stream, `src/stream/swap_stream.rs`, `src/api/swap_stream_ws.rs` | a broadcast channel | parse executed swaps, fan them out | block sources, clients |
| small state, `src/stream/mod.rs`, `blockhash.rs`, `observed_fees.rs`, `tx_version.rs`, `src/enrichment/price.rs` | clock, blockhash, fees, price | note, read | pricing, swap API |

The two block sources exclude each other (`src/main.rs:275`): with a Geyser
endpoint the session discovers and updates pools; without one the scanner
discovers them and the block refresh, the quoter's revalidation and the swap
builder's re-reads keep them fresh.

What is hard here: every writer of the cache awaits an RPC answer between what it
read and what it writes; the tasks share maps with a lock per shard and no
transaction over two of them; marks (`in_flight`, `revalidating`, placeholders
in the registry, queued subscriptions) have to be taken off on every path; the
prune task removes pools under the hands of all others; a crash leaves the table and the
last warm file, copied from two maps at two moments. What is known of a pool comes
from several accounts, each of which may be unreadable while the others are not, and
a re-parse has to take over what it cannot see. On the trading side, a quote is computed from one moment's state
and executed at another, by a transaction that the service hands out unsigned and
never hears of again, and that is put together from hops each written as if it
stood alone. Every price is an integer computation with its own roundings; ticks and
bins are walked from memory, where they were put at another moment than the price
the walk starts from. The swap stream infers what happened from balances that
several swaps of one transaction share.

What makes each part correct: the index finds what the registry holds and nothing
else, and no lock order deadlocks; marks are owned and released; a state in the
cache has its fees, belongs to a registered pool, and becomes current once the
pool is quiet; the table restores the registry; a queued account reaches a
subscription; no route the quoter leaves out beats its answer; a transaction
fails only because the market moved, and one that lands costs the wallet what was
asked and brings it what was promised; a quote can be paid, is not beaten by
trading back and forth, and holds until it is used; a pool is never quoted on rates
nobody read, and one that is traded comes back after whatever took it away; a
streamed swap is one that happened.

## Modules

| module | models | state and actions |
|---|---|---|
| `PoolListing` | what the registry promises the quoter | `listed`; `List`, `Unlist` |
| `PoolRegistry` | `src/pool/registry.rs` | a program counter per task; one action per locked step of `add` (`AddRead`, `AddUnindex`, `AddInsert`, `AddIndex`), `remove` (`RemoveTake`, `RemoveUnindex`, `RemoveAbsent`) and `lookup` (`LookupCall`, `LookupGet`, `LookupReturn`) |
| `PoolRefresh` | the upkeep without Geyser: block tasks, cold fetches, revalidations, swap re-reads, dormant retries, discoveries, the prune | `cached`, `failures`, `in_flight`, `revalidating`, `registry`; one action per stretch of code between two awaits |
| `GeyserSession` | the upkeep with Geyser: the stream task, the flush task, fetches of quotes and swaps, the prune, reconnects, restarts | `registry`, `db`, `cached`, the mirror, three queues, the subscription, the prune's list; one action per message or stretch between awaits |
| `QuoteMath` | the arithmetic that quote and transaction share, `src/quote/router.rs`, `src/quote/types.rs`, `src/api/swap.rs` | `guaranteed`, `compute_threshold`, `hop_floor` |
| `Quoter` | the choice of a route, `src/quote/router.rs` | `price`, `request`, `answer`; `AnswerQuote`, with an operator per search (`DirectRoutes`, `TwoHopRoutes`, `ThreeHopRoutes`) |
| `SwapRoute` | `src/api/swap.rs`, `wrap_swap` of `src/execution/router.rs` and `assemble_instructions` of `src/execution/tx_builder.rs`, over `VenueExecutors` | `wallet`, `fee_atas`, `known_fee_atas`, `quote`, `tx`, `outcome`; `RequestQuote`, `BuildSwap`, `AbandonTx`, `SendTx`, `OtherSwapLands` |
| `VenueExecutors` | the executors of `src/execution/amms/`, one operator each | no state: setup, swap and cleanup instructions of an order |
| `CurveQuotes` | the constant-product venues: `src/quote/math.rs`, `price_cp` of `src/quote/router.rs`, the file of each venue | no state: a quote of a pool's reserves |
| `VaultShares` | Meteora's dynamic AMM, `src/quote/meteora_std.rs` | no state: shares of vaults that other pools share |
| `DammV2`, `DbcCurve` | Meteora's `src/quote/damm_v2.rs` and `src/quote/dbc.rs` | no state: fee schedules, one range of liquidity, segments of a launch curve |
| `ByrealFee` | `src/quote/byreal_fee.rs` | no state: launch fee, oracle, imbalance |
| `DlmmWalk` | `src/quote/dlmm.rs`, `src/pool/bins.rs` | no state: a walk over bins and bin arrays, and which arrays a load puts into memory |
| `CurveTrades` | a trader and one pool of any kind above | `pool`, `vault`, `share`, `market`, `purse`; `Swap` |
| `SqrtPrice`, `TickWalk` | `src/quote/clmm.rs` for Raydium, Orca and Fusion layouts | no state: a step between two prices, a walk over ticks, limit orders and step fees |
| `TickCache` | `src/pool/ticks.rs`, and how a state, its ticks and its fee get into memory | `chain`, `parsed`, `cached`, `bitmap`, `ticks`; `ReadState`, `LoadTicks`, `LoadTicksFails`, `InsertState`, `ChainSwap`, `ChainLiquidity` |
| `VenueParsers` | `src/pool/fetcher.rs`: what each venue's parser knows, carries over and falls back to | no state |
| `PoolLife` | one pool from discovery to prune and over crashes: `src/stream/block_scanner.rs`, `src/stream/geyser.rs`, `src/storage/`, `src/main.rs` | `registry`, `cached`, `read`, `mirror`, `row`, `file`; one action per handler |
| `SwapParser` | `src/stream/swap_stream.rs`, `src/stream/observed_fees.rs` | no state: the swaps of one transaction, the fee one of them shows |
| `SwapFeed` | transactions, blocks, the broadcast, a client of `src/api/swap_stream_ws.rs` | `vault`, `mirror`, `observed`, `sent`, the client's receiver; `Block`, `RefreshPrice`, `Subscribe`, `Recv`, `Close` |
| `PoolProofs` | theorems about `PoolRegistry` and `PoolLife` | |
| `CurveComparisonProofs` | theorems about `CurveTrades` that compare two quotes | |
| other `*Proofs` | theorems about the module of the same name; `QuoterProofs` also about `TickCache` | |
| `MC*` | instances for TLC | |

### PoolRegistry

A `DashMap` operation locks the shard of its key. `add` keeps the read guard of
`pools.get` over the body of its `if let`, so the program counter `AddUnindex`
stands for "holds a guard on `pools`"; `lookup` keeps the guard on the address
list until it returns, so `LookScan` stands for "holds a guard on `mint_index`".
A write to a shard waits for the guards on it; dashmap's reader is admitted whenever no
writer holds the lock, so waiting writers do not hold readers back
(`PoolsReadable`). `old` is read under the guard, so `AddRead` decides and
`AddUnindex` acts on the same entry.

`IndexAgrees` excludes addresses that two conflicting calls had in their hands at
once (`raced`, a ghost): the code takes no lock per address, and two such calls do
leave the index wrong. The callers rarely make them (a discovery and the prune of
one address), and the README says so rather than the property hiding it.
`must` and `settled` are ghosts that say which pools a lookup has to find.

### PoolRefresh

A state is its version and whether its fees come from a full fetch: fee rates live
in other accounts, a re-parse takes them over from the previous state. "Full
fetch" means that the fetch went through `fetch_pool_state`, which itself falls back
to a default when a config account cannot be read. A block task works through
`refresh_touched`; a batch is one step, since its rounds are about different
pools. A pool of type Meteora takes the branch `refresh_meteora_std`. Pump.fun AMM
pools are refreshed by patching a clone of the cached state; block tasks never
touch them, so their states always have what a full fetch gave them, and they need
no case of their own. `pruned` is a ghost.

### GeyserSession

The stream task handles a message to its end before the next one, so `stream`
holds one message; the flush task is a program counter over its three locked
drains and its send. A pool's `kind` says how its account is parsed (inline, with
a companion, by the RPC only, or with the mint a transaction has shown) and
whether the pool owns its vaults (then a block's balances register them). A swap
names its pools itself, from the quote the client sends back, so its fetch may be
of a pool that is not registered. A restart takes the SQLite branch of the
bootstrap; the other branches are for an empty table. The table holds rows of other
pools too, so a prune may find none of these pools old, and a restart may bring none
of them back.

`insert_pool` may fail: no caller looks at its error (`src/stream/geyser.rs:429`,
`581`, `657`), and the pool is registered all the same. `PruneDb` deletes the rows that
the SELECT listed and any that got old before the DELETE read the clock again; the
task then takes the listed pools out of registry and cache, one after the other, and
knows nothing of the others. `unrecorded` is a ghost for what either leaves
behind, a registered pool without a row, and `TableAgrees` says that there is no other
way to come by one, that a row there says what the registry says, and so that
a restart brings back nothing that was not registered. Not in the model: the
balances, the versions of companion accounts, fees (in `PoolRefresh`) and dormancy
(there too). `unqueued` and `overtaken` are ghosts as well.

### Quoter

A pool is its price table: what it pays for each input amount, 0 where
`evaluate_many` returns nothing. What decides which pools a request may use (dex
filters, dormancy, RPC answers on the cold path) is the request's set `pools`, so
`Quoted` stands for `filter_entries` and `evaluate_many` together; how a state gets
hot is `PoolRefresh` and `GeyserSession`. The searches are those of the code: a
direct route per pool, and through bridges only the first and the middle pool that
pays most, later hops priced on `guaranteed` of the hop before. `EveryRoute` is the
reference: any pool on each hop.

`BestRoute` is conditional on monotone prices, as the code's comment is
(`src/quote/router.rs:437`). How far the venues are from it is `NearlyMonotone` of
`CurveTrades`; a tick or bin walk that runs out of loaded arrays stops quoting larger
amounts, which is the condition failing in another way.

### SwapRoute

A transaction is a sequence of setup instructions, one router instruction that
carries those of all hops (`wrap_swap`) and cleanup instructions, in the order of
`assemble_instructions`; an instruction is a record with the operation and the mint
or amount it acts on.
`VenueExecutors` has one operator per executor: which side of the pool pays in,
whether SOL is wrapped or moved as lamports, whether the venue takes a minimum of 0,
what is closed afterwards. Single hops go through every venue and either way round;
routes of several hops through `Routed`, one venue per way to handle SOL (a bound).
`Combine` is the code shared by
`build_two_hop_ixs` and `build_three_hop_ixs`; `SwapOrder` the order that each hop's
executor gets. `SendTx` runs a transaction against pools that have moved: every hop
delivers any amount up to `MaxOut`. A transaction is atomic: with an error,
nothing of it stays. What is a loop over instructions in the code (`Drop`,
`dedupe_instructions`, and running them: `Run`, `Execute`) is a recursive function over
positions, which the proofs unroll an instruction at a time.

External, modelled from how the code uses it: the token program's create, sync,
close and transfer, the exact-input swap of a venue, and the flow-router program
(`RouterSwap`: run the venues, check the gain of the output account against the
route's minimum, take the fee into the treasury account). Left out: rent and
transaction fees, transfer-fee mints (they are in the pricing), referral accounts, the executors of FlashTrade,
DefiTuna pools and Pumpup bonding (no quote reaches them), tick-array pruning, the
re-read of stale pump.fun AMM reserves at build time. Pumpup is quoted for pairs
without SOL only. The
wallet moves only by the transactions of the model. A single-hop swap may carry a
minimum of 0 to a pump.fun AMM pool, which refuses it (outcome `zero`): the builder
keeps it from happening in routes of several hops only, and `HopsKeepFloor` says
just that. It is what `hop_floor` does and what the comment on it says; several older
comments and tests say of inner hops that their minimum is 0, which is listed with the
differences below.

### Pricing

`CurveTrades` gives one trader one pool of any kind that is priced from its own state
or its vaults, and trades at the quotes. `OnVaults` and `OnMarket` are the branches
of `quote_state`; a `Quote` says what the trader gets, what the curve is credited
and what the vault pays, so that trading at a quote moves the pool as the program
would. An over-quoted swap is paid: `Payable` then tells that the pool could not
have. Widths are constants: products that the code checks against u128 are
compared with `U128`, amounts with `U64`; fixed-point scales (`Q64`, `FeeScale`,
`PowBits`, `RateScale`) are constants too, and small ones make every rounding count.
A pool's `times` are the moments at which its fee schedule stands differently.
`tax` is what the two mints withhold of a transfer: as in `evaluate_many`, the pool
is priced on the net input and the user gets the net output.

A pool whose price walks holds, beside the fees it has earned, what its positions
hold at that price: the vaults of a launch start empty of quote and full of base. `Segment`
says how the liquidity of DAMM v2 (one range), DBC (a curve) and Byreal (one range)
lies between two prices, and `Standing` what that comes to on a side, rounded down; a
well-formed pool has it. The bins of a DLMM pair hold what makers and orders have in
them (`HeldOf`, `InBins`), quote below the active bin and base above it, at prices that
do not fall as the ids rise (`IsLadder`). The quote of a fee configuration that the code
refuses (a reduction above the whole, a schedule that cannot be evaluated, a limiter
of zeros) is none (`NoFee`).

A DLMM pair is walked over the bins in memory (`BinsInMemory`), which
`load_dlmm_bins` reads: the plan comes from the state cached before the trades and
from whether an earlier snapshot knew the bitmap's extension (`read`), so after a
trade it is a plan for another active bin, and the arrays are planned once more from
the pair just read. `LoadedArraysSuffice` compares that walk with the walk over all
bins of the pair. The two reads of a load see the same chain. The walk is a function of
the number of steps: every step but the last moves the active bin on, so that
`MostSteps` are more than it takes.

What the properties leave open, because the code does: fees rounded apart (two rates,
fee then curve, the rate and the amount of DAMM v2's limiter) cost up to two atoms
of monotonicity (`AtomsShort`, `TokensMore`); a DLMM walk back towards the reference
bin pays more when quoted early, against the comment at `src/quote/dlmm.rs:558`
(`TowardsReference`); a launch fee that falls later can carry a buy past the end of
a DBC curve, which then refuses it. Left out: DAMM v2's rate limiter with the fee
taken of the output; Byreal's oracle exponents, signs and parse failures, and the
failures of its price conversion; Byreal with several ranges of liquidity (the walk
is `TickWalk`'s).

### Walks

`TickWalk` does in one step what the two nested loops of `swap_exact_in_pool_within`
do between two changes of price; a walk is a function of the number of turns, given up
after `MaxTurns` as the code gives up after 512 ticks. `TickCache` separates the reads: the pool account
and its tick arrays are read at two moments while the pool trades (`ChainSwap`) and
positions come and go (`ChainLiquidity`); the bitmap that chooses the arrays was
recorded at a third; the cached state and the ticks are published in either order,
and a failed load keeps the old ticks. `NeverOptimistic` compares a quote from
memory with the walk over every tick of the pool. It asks that state and arrays are
of the same book of positions, which no cache can give by itself, and that the walk
starts where ticks are known; without the second condition it fails
(`walks_range`).

The fee of a step comes from two places. Raydium's dynamic fee is in the pool account
and travels with the state. Orca's volatility is in an account of its own, which is read
and published with the tick arrays and joined at the quote to whatever state is
cached (`ClmmPool`). The pool's fee moves with every swap on chain, so a state
can meet the volatility of another moment; `charged` (the fee the pool had when the
state was read), `book` and `planned` are ghosts. `NeverOptimistic` therefore asks
that the fee of the walk is the one of the state (`SameFee`), which always holds for
Raydium and the static fees, but for Orca only while no swap lies between the two
reads; where it does, even a state that is up to date may be quoted too high. `age` says where the last update of a fee lies to its two periods at the
moment of the quote; the fee the pool charges is taken at the same moment.

`LiquidityAgrees` asks of every walk that ends, over the ticks in
memory or all of them, that crossing left the liquidity the pool has where it stands:
an overlooked tick, or one crossed the wrong way or twice, leaves another.

### Swap feed

`SwapParser` is `parse_one_tx` on what a transaction's meta tells: balances before and
after per account, lamport changes, the instructions with their inner ones.
`SwapFeed` produces such metas from swaps of known effect: routes of one and two
swaps, over vaults that belong to the pool, to an authority shared by a venue's
pools, or are the pool's lamports; paid by the trader or a sponsor; through this
service's router or another aggregator. A block then updates the mirror, records
the fee seen and broadcasts the swaps. The client's receiver is made after its
Subscribed frame; it gets what the channel still holds, or a Lagged frame.
`LegsReal` and `ObservationPays` compare with what the venue did. What the code does and the
properties leave room for: a transaction that moves nothing of its payer is skipped
as a whole, so that completeness is asked where the trader pays; the input from
which a fee is estimated includes rent and tips where it is SOL; an aggregator's own
event is streamed besides its legs. The ageing of observed fees
and Meteora's dynamic AMM as a streamed venue are left out.

### PoolLife

Steps are whole handlers: their interleavings are `PoolRefresh` and
`GeyserSession`. A parsed state is reduced to where its rates come from (the account,
a config, a fallback, nothing: zeros, or shut) and whether the fee recipients are
known. A fetch gets any subset of a venue's companion accounts. One variable `file`
stands for the warm file and the JSON snapshot, which are the same thing with and
without states and are tried in turn; the rename that publishes one is atomic. A
save takes the registry and the cache at two moments. An entry that was a
placeholder when saved comes back as `restored`: it looks like any entry, and nobody
fetches it; the next save writes it as a placeholder again. `bare` is a ghost: the
cached state goes back to an account update that found no state and is stored as
it was parsed. The number of failed candidates is not limited here.

## Runs

| run | instance | what it shows |
|---|---|---|
| `registry` | 3 tasks, 2 pools in one shard, 2 entries over 2 mints, 4 calls | types, `IndexAgrees`, `LookupSound`, `LookupComplete`, refinement of `PoolListing`, `CallsFinish` |
| `refresh` | 2 pools (one Meteora Standard), 2 block tasks, 1 fetch, cap 1; symmetry of the tasks | `MarksOwned`, `FeesKnown` |
| `revalidate` | 1 pool, 1 task, 2 fetches, 1 change on chain | types, `RevalidationsOwned`, `QuietPoolsCatchUp` |
| `geyser` | 1 pool of 4 kinds, 1 fetch, 1 change on chain | types, `TableAgrees`, `NoQueuedVaultLost`, `CachedIsRegistered`, `QueuedVaultsTracked` |
| `geyser_fresh` | 1 pool, no crash, disconnect, failed send or prune | a finding, below |
| `lifecycle` | 1 pool of each of the 20 types, with and without Geyser, 2 discoveries at once, 1 crash, threshold 1 | `RatesKnown`, `KnowledgeKept`, `TradedPoolsComeBack` |
| `quoter` | 8 pools on 4 mints, 3 price tables each, so 6561 markets; 11 requests | types, `BestRoute`, `StandsAtFloors` |
| `pricing` | 159 pools of every kind and fee mode, two trades of 1 to 14 tokens at any of up to 4 moments | `Payable`, `NoFreeLunch`, `NearlyMonotone`, `ReverseCovers`, `LaterPays`, `LoadedArraysSuffice` |
| `walks` | 21 ticks in arrays of two, three layouts, three books, fees static or calm, risen and past their periods, 1 change on chain, 2 reads | `NeverOptimistic`, `LiquidityAgrees`, `RoundTripLoses` |
| `walks_range` | the same | a finding, below |
| `feed` | a pool of every streamed venue, 2 transactions, a channel that keeps one swap, two filters | `LegsReal`, `ObservationPays`, `GapsTold` |
| `swap` | 4 mints, 2 of them bridges, one on its curve; routes of 1 to 3 hops, single hops through every venue; 4 wallets; hops quote up to 2 and deliver 0 to 2 | `NeverStarved`, `HopsKeepFloor`, `FeesCollectable`, `LandedWithinSlippage`, `SpendsOnlyInput`, `NoWsolResidue` |

Bounds. Two entries of one address with different pairs, a third task and a shared
shard are what every race of the registry needs: one call moves a pool, one looks
it up, one waits for the guard. Four calls let a pool be added, moved, looked up
and removed. Two pools and a cap of one make the truncation happen; the failure
threshold is one instead of ten, which only shortens the way to dormancy. In `swap`, the mints
give every position of SOL in a route (input, first bridge, second bridge, output,
absent) and every neighbour of a bonding curve; the wallets hold exactly what is
needed, or some of everything, with and without open accounts; outputs of 1 and 2
with slippages of 0, one half and all make every floor round down, reach 0 and be
missed by one. In `quoter`, two pools stand at the two places where the search
chooses, the tables cross each other, and one of them does not quote the smallest
amount, so a choice of the first hop decides what the second may quote. One
change on chain is enough for a stale read, and for an update that meets a fetch, a
block or the prune; the safety properties of the session hold for any number of changes, by
`SessionInvariant`.

In `pricing`, vaults of 5 to 16 tokens make each rounding an atom in ten; two trades
are a round trip, or a trade priced after another. Widths of 1000 and 2000000 are
reached by the larger products, so quotes are also refused. Four moments
are before, in, and after a fee schedule's periods. DLMM arrays of two bins, two of them
to a swap and four to the pair's own bitmap, let two trades leave the arrays that
were planned and reach the extension, whose array is there or gone. In `walks`, arrays of two ticks
put the edge of what was read within reach of every amount, one liquidity layout has
a gap longer than an array, and two reads let ticks of one read meet the state of
another. In `feed`, one buffered swap is lagged by the second; two swaps per
transaction over pools of one authority are what makes a leg ambiguous. In
`lifecycle`, a second discovery can start after a prune while the first runs;
one crash is followed by one start from any of the
sources, with a file of this process or of an older version. `CHECK_DEADLOCK FALSE`
appears where bounds on calls, trades, versions or requests end a behaviour;
`CallsFinish` is what excludes a deadlock in the registry.

Fairness. Tasks are spawned on the tokio runtime and every RPC call is answered
or times out, so each step of a task in progress is weakly fair; nothing is said
of calls that need not be made. `QuietPoolsCatchUp` is a promise about a pool that
is quoted and reachable, so it adds strong fairness of the quote's revalidation,
of the hourly retry and of a successful answer. `QueuedVaultsTracked` needs the
steps of the flush task and of the stream task only. `TradedPoolsComeBack` is about a
pool that goes on being traded and asked for: a start, the expiry of a failure, the
prune and ten quiet seconds come about (weak), and so, whenever they are
possible again and again, do the block that sees it, a discovery, a revalidation, a
dormant retry and a quote whose reads all succeed (strong). Quiet seconds are
an assumption with content: a LaunchLab pool whose config could not be read at first
and which is traded in every block from then on is re-parsed each time, never
revalidated, and stays unquotable.

### Where the code and its comments differ

| run | comment | what happens |
|---|---|---|
| `geyser_fresh` | `src/main.rs:63`, Geyser keeps state fresh | a cold fetch stores an older state over a newer one, and nothing re-reads a quiet pool (checked in `SteadySpec`, a session without crash, disconnect, send failure or prune) |
| `walks_range` | `src/quote/clmm.rs:929`, a quote is "never an optimistic number" | a state published without its own ticks starts outside what they cover; the walk checks the edge ahead only and skips ticks nobody loaded |

Met while modelling, and left without a run of their own.

- Comments and tests say of the inner hops of a route that their minimum is 0:
  `src/api/swap.rs:1443` "hop1 has min_amount_out=0 (intermediate, no enforcement)", the
  same at 1415 and 1511, `src/execution/amms/mod.rs:499` and `531`, and
  `src/execution/amms/pumpfun.rs:82` of a later hop. The code gives every inner hop
  `hop_floor` (`src/api/swap.rs:678`, `820`), what the next hop spends and never 0, as the
  comment there says: a route is refused for a short inner hop even where the last one
  would still deliver its minimum. `HopsKeepFloor` is about what the code does.
- `README.md:120` has Orca quoted with "0 atoms" of error "when the pool does not trade
  between quote and simulation". Its volatility comes with the tick arrays: before they
  are loaded again (`src/quote/router.rs:964`), or when that load fails, a state that is
  up to date is walked at the volatility of before its last swap, and where that was
  lower the quote is too high. `SameFee` leaves this out of `NeverOptimistic`.
- `src/storage/sqlite.rs:163` has the prune return "the pruned addresses"; a row that gets
  old between SELECT and DELETE is deleted and not returned, so that its pool stays
  registered and cached, and a restart forgets it (`unrecorded` in `GeyserSession`,
  `PruneSlips` in `PoolLife`).
- The configuration calls the table crash-safe (`config.toml:56`), but a pool whose insert
  failed is registered without a row and gone after a restart (`src/stream/geyser.rs:429`).

Smaller ones: two block tasks both pass the
check for in-flight pools and queue one twice (`src/stream/block_refresh.rs:57`; the
cost is a second read); with Geyser a pool found in a block counts as known, so
its account updates do not bring the real mints that `src/stream/geyser.rs:420`
expects (lines 573 and 649 register unknown pools only); a vault registered while the
flush task holds the queue is not queued, and not subscribed
(`src/stream/geyser.rs:174`); "Pools unseen for 7 days are pruned", but
`touch_pool` has no caller, so that a pool is pruned seven days after its
discovery; the slot that the RPC path gives a block is its parent's plus one, which
is wrong after a skipped slot.

## Proofs

For every number of pools, tasks, fetches and threads, every shard assignment, cap
and threshold, under the assumptions named in the modules:

- `PoolProofs`. `RegInv` adds to the properties what the locks give:
  who holds the read guard still sees the entry that it read (`GuardInv`),
  two writers of an address that is not raced are adds under one pair (`WritersInv`),
  what each program counter still owes the index (`PendingInv`), and what a lookup
  has seen of its pair (`ScanInv`, `SettledInv`, `MustInv`). From it follow
  `TypeCorrect`, `IndexAgreement`, `LookupSoundness`, `LookupCompleteness` and
  `Refinement`, the last one step by step: only `AddUnindex`, `AddInsert`,
  `AddIndex`, `RemoveTake` and the start of a conflicting call change what is
  visible, each by one `List` or `Unlist`.
  `LifeInv` says where a state with zero rates can be: in the
  cache or the file, of a LaunchLab pool, with the ghost `bare` that travels with
  it. The lemmas say the same of each parser, once per venue; then every action
  stores what a parser returned or what was stored before. `RatesAreKnown` follows. The
  invariant is inductive only because a restored placeholder is written as a
  placeholder, which the proof of `SavesSnapshot` asked for.
  Losing rates is about what a fetch can find again, so
  `KnowledgeInv` adds that rates said to be of a config, or of the account, are of a
  venue that has them there. `FetchedKeeps`: a fetch of a listed venue whose
  kept companions the process holds finds at least what is cached; `CarriedKeeps`,
  `ReparsedKeeps` and `FeeAccountsKeep` are the counterparts for the writers that
  take over. `StepKeeps` goes through the actions; `KnowledgeIsKept` is `KnowledgeKept`.
- `PoolRefreshProofs`. `MarksOwned` and `RevalidationsOwned` are inductive with the
  types; `FeesKnown` needs in addition that a pool in the hands of a block task is
  cached with its fees or pruned, and that the states the task holds have fees
  unless they are raw or their pool was pruned.
- `GeyserSessionProofs`. `SessionInv` adds `HandsInv` (what `contains` said when a
  message came in is still true of the pool in the stream task's hands, or the prune
  has overtaken it) and `PruneInv` (of a listed pool the row goes before the entry) to
  the properties, over inserts that fail and rows that slip out; `TableAgreement`, `QueuedVaultSafety` and `CachedAreRegistered` follow.

- `QuoterProofs`. The invariant says no more than that the answer is
  `quote(request)`; the argument is about `quote`. A set of pools has one that
  pays most because payments are bounded (`LeastNatural`, from the library's
  well-founded order on the naturals), and so has a set of candidates a preferred
  one. `guaranteed` is monotone through its rounding (`GuaranteedMonotone`), so by
  monotone prices the best first hop carries at least what any first hop carries,
  every pool that quoted the smaller amount quotes the larger one, and hop by hop
  each route is dominated by a candidate with as many hops (`TwoHopDominated`,
  `ThreeHopDominated`). `NothingBetterLeftOut`, `AnswersStand` and `TypeCorrect`
  follow. Assumed: `QuoterAssumption` (types of the constants) and
  `NoRouteAssumption` (the answer "no route" is not a route).

  The second part of the module is about the prices that `Quoter` takes from a table,
  where a table is a walk over ticks: any number of ticks and arrays, any positions, limit
  orders, fees, layouts and amounts. `TicksInv` is what the reads keep: a state is one
  the pool could be in when it was read (`Good`), and tick data whose arrays were chosen
  and read in one book holds every tick of that book within the range it claims
  (`Loaded`). That needs the two plans: the arrays closest to the price by the bitmap are
  all that hold a tick up to the last of them (`ClosestCovers`, `BitmapCovers`), a window
  is without a gap (`WindowCovers`).
  Then a walk, turn by turn. `Sound`: it stands where its tick says, in a price it can
  still be in; its liquidity is the sum of the positions over its tick; and the next
  boundary of its fee's period lies ahead (`FeeAhead`: else a step could go back). The
  sum of the positions changes by `liquidity_net` at a tick and nowhere between two
  (`LiquidityCrosses`, `LiquidityStays`), and the next tick in memory is the next of the
  book (`TargetBounds`), so a turn keeps `Sound` or fails (`TurnSound`);
  `LiquidityFollows` is `LiquidityAgrees`.
  `Follows` compares the walk over the ticks in memory with the walk over all of them:
  the first has failed, or is the second, or neither has anything left and the second has no
  less. Both walk at the same fee, by `SameFee`. While there is a tick ahead in memory both do the same. At the edge of memory the
  second may have a farther target, and here the arithmetic of a step counts: with a
  farther target it is the same step, or has used and brought at least as much where the near one
  ends (`StepFarther`, `MovedFarther`), and the boundary of the fee's period moves out with the
  target, or not at all (`PeriodFarther`). If the first is then at the edge with input
  left, it fails; if not, all is used up (`EdgeFollows`). `QuotesNotOptimistic` is
  `NeverOptimistic`, by induction over the turns (`WalkFollows`).
  Assumed: `TicksAssumption` (prices rise with the tick, from 2^32 on; the limits of the
  programs are among them), `WorldsAssumption` (a pool has a spacing, and its fee is not
  all of the input: the walk refuses others at `src/quote/clmm.rs:941`; a swap stops at the
  limits; a pool's fee is static or of its own kind, and a dynamic fee refers to the group of some tick; books are finite),
  `HoldingsAssumption` (what the positions hold between two neighbouring ticks is counted in u64,
  as the tokens of a mint are; without it the step to a far target overflows, fails, and
  the pool would pay nothing where a quote from memory pays something) and
  `SqrtPriceAssumption`.

- `CurveTradesProofs`. First the arithmetic, for every reserve, amount, fee and width: a
  constant-product quote leaves the product of the reserves where it was or higher
  (`ProductKept`), which is one lemma on division (`CurveKeeps`: what a floor leaves
  out, the pool keeps) and one on products; from it `RoundTripGainsNothing`.
  `OutMonotone`, `ReverseBuys` and `BondingReverseBuys` (the reverse formula rounds up
  twice, the forward one down twice), `ObservedKeepsProduct` and `AccruedFeesStay`
  are the same argument with other fees.
  Then each venue: `FairOn` says of a quote that it is paid from what the vaults do not
  owe, credits no more than the input and leaves the product up, where the reserves
  of the product are the vaults and what is beside them (`Beside`: virtual reserves,
  accrued fees, what a launch has sold). There is one lemma per venue (`DefaultFair` to
  `LaunchLabFair`); pump.fun needs that a tier is found whatever the market cap
  (`TierType`) and that the loop of a purchase stops at what fits (`FeeBaseBounds`);
  Meteora Standard is paid in shares (`SharesFair`), whose vaults lose no more than
  the pool owns of them. Transfer fees only take away (`NetBounds`).
  `TradeInv` is inductive with that: the vaults stay solvent, the tokens of the trader
  and the vaults are at most those of the start, and the product of the reserves is at
  least that of the start. The last two are why nobody gains: with as much of both
  sides as before, the vaults can have no more of either, and with the same product
  no less (`SameFactors`). A DAMM v2 pool whose fees compound is one of them (`ByProduct`).
  DAMM v2, DBC and Byreal have no product, and their price moves over segments of
  liquidity. What a segment holds of quote between two prices is linear; of base
  it is a difference of reciprocals, which `Reciprocal` makes a number by
  giving all prices a common unit. `Whole` is what all segments hold, with nothing
  rounded. `Kept` says of a move of the price that a vault changed by no less than
  `Whole` did, and `Paid` that the credit and the debit of a quote are such a change:
  a step within a segment (`DammFair`, `ByrealFair`) and a walk over several, whose
  `next_price` and sums are recursive functions and are unrolled (`DbcFair`). `OnRange` is
  the invariant: the vaults are at least what was there at first, changed by what `Whole`
  changed, so they hold what stands at the present price (`KeptHolds`) and can pay it out.
  Nobody gains because a price that has moved up has more quote in the pool, one that
  has moved down more base, by an atom at least (`MovedOwes`).
  DLMM fills bins, each at a price of its own. A fill is worth what it takes in
  (`FillFair`: a drained layer rounds its input up, a partial one its output down), and so
  are the layers of a bin (`LayersFair`), whatever fee the walk takes besides
  (`ConsumedWithin`). The ledger (`Accounted`) has for every bin what came in and what
  went out since the start: no bin holds more than that, and at its price none has
  lost. A walk books each fill (`FillKeeps`), entering an array and stepping on book
  nothing (`EnterKeeps`, `StepKeeps`), and `WalkKeeps` is the induction over the steps,
  over whichever bins are in memory. `OnLadder`: the vaults have changed by the sums
  of the ledger, so they hold what the bins hold (`BookedHolds`). Nobody gains because at
  the price of the bin the pair stood at no bin has lost either: a cheaper one, which
  had only quote to give, can only have taken base, a dearer one only quote
  (`BinsGiveNothing`).
  `QuotesArePaid` is `Payable`, `NothingForNothing` is `NoFreeLunch` on every venue but
  Meteora Standard, and `ReverseCoversHolds` is `ReverseCovers`.
  Assumed: `PoolsAssumption` (`WellFormed`: unsigned amounts and rates; a curve has
  something of both sides, which the program of a live pool ensures and the quote
  from memory takes for granted; a vault and all the trader has fit u64; a launch is within its limits, and on DBC below its
  threshold; a pool owns at most the shares there are; the points of a DBC curve rise;
  a price is one its liquidity reaches, and the vaults hold what stands at it, or what
  is in its bins; the bins that exist, and the active one, have a price that rises with the
  id, finitely many arrays hold liquidity, and a pair is quoted at one moment or more; `Scheduled`:
  moments come in order, a rate limiter has a reference amount, by which `src/quote/damm_v2.rs:180` divides,
  or is switched off altogether; a launch fee has an interval and loses at most all of itself, which the code refuses otherwise
  (`src/quote/byreal_fee.rs:184`), oracle prices are positive, and the volatility of a pair is that
  of the bin its last swap ended in), `DlmmAssumption` (sizes are natural, an array has bins), `DammAssumption` and `ByrealAssumption` (scales are positive, and a whole rate is a
  multiple of the scale of Byreal's rates), `TradesAssumption`, `WidthAssumption` and
  `ProfitScaleAssumption` (u64 is not wider than u128; a scale is positive).
- `CurveComparisonProofs`, under the assumptions of `CurveTradesProofs`, compares two quotes.
  `MoreBringsNoLess` is `NearlyMonotone` for every fee on the venues that round a fee
  once, and on pump.fun, where `PartsMonotone` counts the atoms: each fee that is
  rounded apart grows by less than an atom more than its part, so the second and the
  third cost one each. `TwoMoreBringNoLess` is `NearlyMonotone` for Raydium CPMM, Dooar
  and FluxBeam when each of their two fees is at most a quarter and no mint withholds
  anything; above that, two tokens are not always enough.
  The walk over the bins in memory and the walk over all bins are compared step by
  step (`WalkAlike`): they differ in nothing but the bins they have, and they enter the
  same array because the nearest one beyond those entered is among those a swap
  from the first active bin may need (`NearestNeeded`: as many arrays have been entered
  as lie up to the one the walk is in, and at most `SwapArrays`). Those arrays are in memory if
  they exist (`LoadSuffices`), whatever state the load was planned from: either the
  first plan covers both directions of the active bin or the second is made for it.
  `ArraysSuffice` is `LoadedArraysSuffice`.
  `QuotesHold` is `LaterPays`, from what a later moment can change. A power taken by squaring
  falls as its exponent grows although every product is rounded, whichever way (`PowersFall`
  compares the bits of the two exponents; `PowFalls` and `DecayFalls` are its two roundings),
  so a scheduled rate falls (`ScheduleFalls`, `LaunchFeeFalls`), and so does what it is part of,
  the volatility of the pool included (`DammRateFalls`, `DbcRateFalls`, `ByrealRateFalls`).
  A lower fee leaves more for the curve, and more gets further and brings no less: in one
  segment (`DammLater`, `ByrealLater`), over several (`DbcLater`, unless it runs past the last
  point and is refused) and in a bin (`SwapFollows`). A ladder is walked twice abreast
  (`Follows`): while neither walk is done they stand in the same bin, with the same arrays
  entered, the later one with as much left or more and at no more volatility at any bin ahead
  (`Reached`); once the earlier one is done, the later one has brought as much and only adds
  to it. `WalkFollows` goes through the steps; a walk that is not refused has spent
  everything before the bins that exist are passed (`WalkSettles`). That the volatility is no more
  (`ReachedFalls`) depends on the accumulator being that of the bin the last swap ended in,
  which no single quote shows: `VolatilityKept` is an invariant beside `TradeInv`
  (`VolatilityAlways`). The other venues price the same at any moment (`TimelessQuote`).
- `SwapFeedProofs`. `FeedInv` is `GapsTold` with the types of the channel and of the
  client's place in it. What a block broadcasts is a sequence whatever its
  transactions hold (`parse_one_tx` and what follows it are recursive functions,
  unrolled by induction), so the channel only grows, and a position that a client has
  passed keeps its swap; `GapsAreTold` is `GapsTold`.
- `SwapRouteProofs`. For any mints, bridges and wallets, any rates and slippage, and
  pools of any venue on each hop, not only those of `Routed` in the run. The
  argument follows a transaction. Every executor builds a swap of one shape
  (`Shaped`: the accounts it opens, the SOL it wraps, one venue instruction, whether
  it closes the WSOL account), and the builder makes of one, two or three of them a
  setup that funds the first hop only, and at most one close (`BuildsShape`).
  `OrderOK` says what makes the hops fit: the input of one is at most the floor of
  the one before (`Rounded`: `guaranteed` is at most `hop_floor`, and neither
  is 0). Run on an account state, the setup leaves the first hop funded
  (`Preparation`); a venue that is funded is refused by its floor only or pays at
  least that (`VenueStep`), so each hop leaves the next one funded (`FirstHop`,
  `NextHop`, and the unwrapping in front of a bonding curve); the router finds
  the accounts it checks and pays into (`RouterRun`); the close loses nothing, since
  all that was funded is synced (`CleanupRun`). Together that is `Transaction`: what
  is built of a good quote lands within its promises, or fails because a pool moved.
  The invariant `RouteInv` is what makes this apply in every state: the quote held
  is one that can be compiled and, until it has landed, paid; the transaction held is
  the one the builder makes of it; it creates the treasury's account unless that
  account exists, and accounts that were confirmed do not go away. `NeverStarved`,
  `HopsKeepFloor`, `FeesCollectable`, `LandedWithinSlippage`, `SpendsOnlyInput` and
  `NoWsolResidue` follow. Assumed: `MintsAssumption` (SOL is a bridge, bridges are not
  launched on a curve), `RoutedAssumption`, `AmountsAssumption` (no request for 0),
  `RatesAssumption` (the router's share is at most the whole gain; the service takes
  the rate as it stands in the router's config account, `src/main.rs:422`),
  `WalletsAssumption` (types).

Induction over data. The library's induction theorems take the property as an operator,
which the provers here cannot instantiate. `Induction` and `SequenceInduction` state the
same over sets: a set of numbers that holds 0 and with each number the next is `Nat`, a set
of sequences that holds `<<>>` and is closed under `Append` is `Seq(S)`. Both come
from `LeastNatural`, which is first order. With them a recursive function is unrolled
(`RunFolds`, `DropFolds`, `DedupeFolds`, `ExecuteFolds`), then its steps are
lemmas about `Append`. The greatest number of a bounded set (`GreatestChosen`) and the
dearest of a list of tiers (`DearestTier`) exist by the same, and sums over
finite sets are unfolded by it (`SumUnfolds`). No module declares a `RECURSIVE` operator.

Only model-checked: `NoFreeLunch` on Meteora Standard, where the
vaults are shared and a rounding moves value between their holders, so that without a
fee the pool's own product may fall; `NearlyMonotone` on DAMM v2, DBC, Byreal, DLMM and
Meteora Standard, and on two fees that are larger; `RoundTripLoses` of `TickCache`, which would need the way of
a second walk back over each step of the first; `LegsReal` and
`ObservationPays` of `SwapFeed`, which compare what a parser infers from the
balances of a whole transaction with what its venues did, and would need every shape of
transaction that `SwapFeed` produces to be taken apart; `CallsFinish`,
`QuietPoolsCatchUp`, `QueuedVaultsTracked` and `TradedPoolsComeBack`, which are
liveness under fairness.

## Not modelled

- `src/stream/mod.rs` and `src/stream/blockhash.rs`: two relaxed atomics for the
  cluster clock, and a blockhash with its age. Pricing takes the moment of a trade as
  given; the window between the two stores is one block's time.
- The batches of `load_dlmm_bins_many`, the age of a snapshot (`is_current`), and a
  pair that trades between the two reads of a load: the quote is then cold again.
- `src/pool/mints.rs` beyond what a known fee withholds: its lookup, and mints that
  are priced before they are known.
- Transaction building below the instruction list: account merging, size limits,
  lookup tables, the retry with the other transaction version, simulation.
- The byte layouts of accounts and instructions (offsets in `src/pool/fetcher.rs`,
  account lists in `src/execution/amms/`), which have no control to check.
- `src/pool/discovery.rs`, which nothing spawns; the cap on failed candidates;
  reconnection of the block scanner; `touch_pool`, `count` and `prune_stale` of the
  table, which the service does not call.
- Orca's adaptive fee beyond its decay, pools of Orca that do not trade yet
  (`trade_enable_timestamp`), time that passes between the reads of a dynamic fee and the
  quote; Byreal's inputs that are read with the ticks, when they are older than the state;
  intermediate widths of the walks beyond
  u64 (256 and 512 bits in the code), the disabled split routes.
- Configuration parsing; the quote, websocket, health and metrics endpoints, which
  keep no state; the price oracle's sources.

## What could come next

In this order: a second instance of `Quoter` over walks, to see which routes are left out
where monotonicity ends; transaction size and lookup tables as operators over the
instruction lists of `SwapRoute`; the clock's two atomics as an input of the fee
schedules; dormancy of pools that are merely unquotable at an amount
(`src/quote/router.rs:944`), on top of `PoolRefresh`.
