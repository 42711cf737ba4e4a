----------------------------- MODULE SwapRoute -----------------------------
(***************************************************************************)
(* From a quote to a transaction that lands: api/swap.rs, the venue        *)
(* executors of execution/amms, and the router wrapper.                    *)
(*                                                                         *)
(* A quote is at most three hops through bridge mints, each with the       *)
(* output its pool showed when it was priced.  /swap compiles it into      *)
(* setup, swap and cleanup instructions: every executor writes its hop as  *)
(* if it stood alone, and the builder then removes what clashes.  The      *)
(* caller gets the transaction unsigned, so it may never be sent, and the  *)
(* pools move before it lands: each hop then delivers any amount up to     *)
(* MaxOut.  A transaction is atomic, so Land runs all its instructions in  *)
(* one step and keeps their effect only if none of them failed.            *)
(*                                                                         *)
(* External, modelled from how the code uses them: the token program and   *)
(* the venues (Apply), the flow-router program (RouterSwap).  Rent and     *)
(* transaction fees are left out: balances are what instructions move.     *)
(***************************************************************************)
EXTENDS VenueExecutors

CONSTANTS
    Mints,      \* token mints of the market
    Bridges,    \* mints a route may pass through
    Launched,   \* mints that trade against SOL on a pump.fun bonding curve
    Routed,     \* bound: the pools of longer routes, as venues with whether their base goes in
    Amounts,    \* amounts callers ask to swap
    MaxOut,     \* bound on what a hop quotes or delivers
    Slippages,  \* slippage_bps of the requests
    FeeRates,   \* fee_bps the router's config may carry
    Wallets,    \* wallets to start from: records with lamports and ata
    NoQuote, NoTx

ASSUME MintsAssumption == SOL \in Bridges /\ Bridges \subseteq Mints /\ Launched \subseteq Mints \ Bridges
ASSUME RoutedAssumption == Routed \subseteq AmmExecutorType \X BOOLEAN
ASSUME AmountsAssumption == Amounts \subseteq Nat \ {0} /\ MaxOut \in Nat \ {0}
ASSUME RatesAssumption == Slippages \subseteq Nat /\ FeeRates \subseteq 0..BasisPoints

\* What the open token accounts of an owner hold.
IsLedger(ata) == DOMAIN ata \subseteq Mints /\ ata \in [DOMAIN ata -> Nat]
IsWallet(w) == w = [lamports |-> w.lamports, ata |-> w.ata] /\ w.lamports \in Nat /\ IsLedger(w.ata)

ASSUME WalletsAssumption == \A w \in Wallets : IsWallet(w)

VARIABLES
    wallet,          \* the user: lamports, and the balance of each open token account
    fee_atas,        \* on chain: balance of each mint's treasury account that exists
    known_fee_atas,  \* the service's cache: treasury accounts an RPC read confirmed
    fee_bps,         \* the router's rate, read at startup
    quote,           \* the quote the caller holds
    tx,              \* the unsigned transaction the caller holds
    outcome          \* how the last transaction sent ended

vars == <<wallet, fee_atas, known_fee_atas, fee_bps, quote, tx, outcome>>

-----------------------------------------------------------------------------
(* Quotes                                                                   *)

\* pump.fun bonding trades SOL for the mints it launched, Pumpup has no SOL pools.
VenuesOf(in, out) ==
    {v \in AmmExecutorType :
        /\ v = "PumpFun" => (in = SOL /\ out \in Launched) \/ (out = SOL /\ in \in Launched)
        /\ v = "Pumpup" => SOL \notin {in, out}}

\* Bridges are distinct and neither end of the route.
Paths ==
    LET Ends == {p \in Mints \X Mints : p[1] # p[2]}
        Between(e) == Bridges \ {e[1], e[2]}
        Two == UNION {{<<e[1], b, e[2]>> : b \in Between(e)} : e \in Ends}
        Three == UNION {{<<e[1], b[1], b[2], e[2]>> :
                            b \in {c \in Between(e) \X Between(e) : c[1] # c[2]}} : e \in Ends}
    IN  Ends \cup Two \cup Three

\* The pools a hop may go through: of every venue when it stands alone, either
\* way round.  LaunchLab launches a token, so its base is never SOL.
PoolsOf(path, i) ==
    LET in == path[i]
        out == path[i + 1]
        ways == VenuesOf(in, out) \X BOOLEAN
    IN  {[venue |-> w[1], base |-> IF w[2] THEN in ELSE out] :
            w \in IF Len(path) = 2 THEN ways ELSE ways \cap Routed}
        \ {[venue |-> "RaydiumLp", base |-> SOL]}

Hops(path, pool, out) ==
    [i \in 1..Len(path) - 1 |->
        [venue |-> pool[i].venue, base |-> pool[i].base, in |-> path[i], out |-> path[i + 1], amount_out |-> out[i]]]

from(q) == q.hops[1].in
to(q) == Last(q.hops).out

Holding(w, m) == (IF m \in DOMAIN w.ata THEN w.ata[m] ELSE 0) + (IF m = SOL THEN w.lamports ELSE 0)

\* What the wallet can spend of a mint: the executors wrap SOL from lamports.
Spendable(w, m) == IF m = SOL THEN w.lamports ELSE Holding(w, m)

RequestQuote ==
    /\ quote = NoQuote
    /\ \E path \in Paths, amount \in Amounts, slippage_bps \in Slippages :
        LET H == 1..Len(path) - 1 IN
        \E out \in [H -> 1..MaxOut], pool \in [H -> UNION {PoolsOf(path, i) : i \in H}] :
            /\ \A i \in H : pool[i] \in PoolsOf(path, i)
            /\ amount <= Spendable(wallet, path[1])
            /\ quote' = [hops |-> Hops(path, pool, out),
                         amount_in |-> amount,
                         slippage_bps |-> slippage_bps,
                         minimum_out |-> compute_threshold(out[Len(path) - 1], slippage_bps)]
    /\ UNCHANGED <<wallet, fee_atas, known_fee_atas, fee_bps, tx, outcome>>

-----------------------------------------------------------------------------
(* Instructions the builder recognises or adds                              *)

CreateFee(m) == [op |-> "createFee", mint |-> m]    \* the treasury's account, idempotent
WsolFunding == {"fund", "sync"}
WsolClose == {"close"}

AppendUnless(kept, ix, ops) == IF ix.op \in ops THEN kept ELSE Append(kept, ix)
Drop(ixs, ops) ==
    LET kept[k \in 0..Len(ixs)] == IF k = 0 THEN <<>> ELSE AppendUnless(kept[k - 1], ixs[k], ops)
    IN  kept[Len(ixs)]

-----------------------------------------------------------------------------
(* Building the transaction                                                 *)

SwapOrderQuotedInput(q, i) ==
    LET n == Len(q.hops)
        hop == q.hops[i]
    IN  [venue |-> hop.venue, base |-> hop.base, in |-> hop.in, out |-> hop.out,
         amount_in |-> IF i = 1 THEN q.amount_in ELSE q.hops[i - 1].amount_out,
         floor |-> IF n = 1 THEN q.minimum_out
                   ELSE IF i < n THEN hop_floor(hop.amount_out, q.slippage_bps)
                   ELSE AtLeast(q.minimum_out, 1)]

SwapOrderRouteMinimum(q, i) ==
    LET n == Len(q.hops)
        hop == q.hops[i]
    IN  [venue |-> hop.venue, base |-> hop.base, in |-> hop.in, out |-> hop.out,
         amount_in |-> IF i = 1 THEN q.amount_in
                       ELSE guaranteed(q.hops[i - 1].amount_out, q.slippage_bps),
         floor |-> IF i < n THEN hop_floor(hop.amount_out, q.slippage_bps) ELSE q.minimum_out]

\* The order of hop i: later hops spend what the hop before guarantees.
SwapOrder(q, i) ==
    LET n == Len(q.hops)
        hop == q.hops[i]
    IN  [venue |-> hop.venue, base |-> hop.base, in |-> hop.in, out |-> hop.out,
         amount_in |-> IF i = 1 THEN q.amount_in
                       ELSE guaranteed(q.hops[i - 1].amount_out, q.slippage_bps),
         floor |-> IF n = 1 THEN q.minimum_out
                   ELSE IF i < n THEN hop_floor(hop.amount_out, q.slippage_bps)
                   ELSE AtLeast(q.minimum_out, 1)]

AppendNew(kept, ix) == IF Contains(kept, ix) THEN kept ELSE Append(kept, ix)

dedupe_instructions(ixs) ==
    LET kept[k \in 0..Len(ixs)] == IF k = 0 THEN <<>> ELSE AppendNew(kept[k - 1], ixs[k])
    IN  kept[Len(ixs)]

\* The last hop buys from a bonding curve with SOL the hop before delivers as WSOL.
Unwraps(q) ==
    Len(q.hops) > 1 /\ Last(q.hops).venue = "PumpFun" /\ Last(q.hops).in = SOL

unwrap_for_native_sol_hop(q, swap) == IF Unwraps(q) THEN <<Close>> \o swap ELSE swap

drop_wsol_close(cleanup) == Drop(cleanup, WsolClose)

tidy_multihopKeepsFunding(setups, cleanup) ==
    [setup |-> dedupe_instructions(FlattenSeq(setups)), cleanup |-> dedupe_instructions(cleanup)]

\* setups holds one setup per hop: the funding of later hops is dropped.
tidy_multihop(setups, cleanup) ==
    LET later == Drop(FlattenSeq(Tail(setups)), WsolFunding)
    IN  [setup |-> dedupe_instructions(Head(setups) \o later),
         cleanup |-> dedupe_instructions(cleanup)]

\* Setups, swaps and cleanups of the hops in route order, without the clashes.
Combine(q, hop) ==
    LET n == Len(q.hops)
        cleanup == FlattenSeq([i \in 1..n |-> hop[i].cleanup])
        tidy == tidy_multihop([i \in 1..n |-> hop[i].setup],
                              IF Unwraps(q) THEN drop_wsol_close(cleanup) ELSE cleanup)
        swap == FlattenSeq([i \in 1..n |-> IF i = n THEN unwrap_for_native_sol_hop(q, hop[i].swap)
                                                    ELSE hop[i].swap])
    IN  [setup |-> tidy.setup, swap |-> swap, cleanup |-> tidy.cleanup]

Hop(q, i) == build_swap_ix(SwapOrder(q, i))

build_single_hop_ixs(q) == Hop(q, 1)
build_two_hop_ixs(q) == Combine(q, <<Hop(q, 1), Hop(q, 2)>>)
build_three_hop_ixs(q) == Combine(q, <<Hop(q, 1), Hop(q, 2), Hop(q, 3)>>)

build_swap_from_quote(q) ==
    CASE Len(q.hops) = 1 -> build_single_hop_ixs(q)
      [] Len(q.hops) = 2 -> build_two_hop_ixs(q)
      [] Len(q.hops) = 3 -> build_three_hop_ixs(q)

\* execution/router.rs: one instruction that carries those of all hops.
wrap_swap(q, ixs) == [op |-> "router", ixs |-> ixs, out |-> to(q), minimum_out |-> q.minimum_out]

\* The router takes all venue instructions; the treasury account is created in front.
wrap_in_router(q, ixs, exists) ==
    [setup |-> When(fee_bps # 0 /\ ~exists, <<CreateFee(to(q))>>) \o ixs.setup,
     swap |-> <<wrap_swap(q, ixs.swap)>>,
     cleanup |-> ixs.cleanup]

\* execution/tx_builder.rs
assemble_instructions(ixs) == ixs.setup \o ixs.swap \o ixs.cleanup

fee_ata_existsOnError(m, answered) == m \in known_fee_atas \/ ~answered \/ m \in DOMAIN fee_atas

\* answered: the RPC read went through.  Only a confirmed account is cached.
fee_ata_exists(m, answered) == m \in known_fee_atas \/ (answered /\ m \in DOMAIN fee_atas)

BuildSwap ==
    /\ quote # NoQuote
    /\ tx = NoTx
    /\ outcome # "landed"
    /\ \E answered \in BOOLEAN :
        LET exists == fee_bps # 0 /\ fee_ata_exists(to(quote), answered)
        IN  /\ tx' = assemble_instructions(wrap_in_router(quote, build_swap_from_quote(quote), exists))
            /\ known_fee_atas' = known_fee_atas \cup (IF exists THEN {to(quote)} ELSE {})
    /\ UNCHANGED <<wallet, fee_atas, fee_bps, quote, outcome>>

\* The caller never sends it, or its blockhash expires.
AbandonTx ==
    /\ tx # NoTx
    /\ tx' = NoTx
    /\ UNCHANGED <<wallet, fee_atas, known_fee_atas, fee_bps, quote, outcome>>

-----------------------------------------------------------------------------
(* The chain                                                                *)

Fails(c, code) == [c EXCEPT !.err = code]
Credit(ata, m, n) == [x \in DOMAIN ata \cup {m} |-> (IF x \in DOMAIN ata THEN ata[x] ELSE 0)
                                                   + (IF x = m THEN n ELSE 0)]

\* A venue takes its input and pays what its pool gives now, got.
RunVenue(c, ix) ==
    LET got == c.outs[ix.out]
        fromLamports == ix.native /\ ix.in = SOL
        toLamports == ix.native /\ ix.out = SOL
        paid == IF fromLamports THEN [c EXCEPT !.lamports = @ - ix.amount_in]
                ELSE [c EXCEPT !.ata[ix.in] = @ - ix.amount_in]
    IN  IF ix.floor = 0 /\ ~ix.zero_ok THEN Fails(c, "zero")
        ELSE IF \/ ~fromLamports /\ ix.in \notin DOMAIN c.ata
                \/ ~toLamports /\ ix.out \notin DOMAIN c.ata THEN Fails(c, "closed")
        ELSE IF ix.amount_in > (IF fromLamports THEN c.lamports ELSE c.ata[ix.in]) THEN Fails(c, "funds")
        ELSE IF got < ix.floor THEN Fails(c, "slippage")
        ELSE IF toLamports THEN [paid EXCEPT !.lamports = @ + got]
        ELSE [paid EXCEPT !.ata = Credit(@, ix.out, got)]

FundWsol(c, n) ==
    IF c.lamports < n THEN Fails(c, "funds")
    ELSE [c EXCEPT !.lamports = @ - n, !.unsynced = @ + n]
SyncWsol(c) ==
    IF SOL \notin DOMAIN c.ata THEN Fails(c, "closed")
    ELSE [c EXCEPT !.ata[SOL] = @ + c.unsynced, !.unsynced = 0]
CloseWsolAccount(c) ==
    IF SOL \notin DOMAIN c.ata THEN Fails(c, "closed")
    ELSE [c EXCEPT !.lamports = @ + c.ata[SOL] + c.unsynced, !.unsynced = 0,
                   !.ata = [m \in DOMAIN @ \ {SOL} |-> @[m]]]

\* One instruction; after a failure nothing more runs.
Apply(c, ix) ==
    IF c.err # "none" THEN c
    ELSE CASE ix.op = "create" -> [c EXCEPT !.ata = Credit(@, ix.mint, 0)]
           [] ix.op = "createFee" -> [c EXCEPT !.fee_atas = Credit(@, ix.mint, 0)]
           [] ix.op = "fund" -> FundWsol(c, ix.amount)
           [] ix.op = "sync" -> SyncWsol(c)
           [] ix.op = "close" -> CloseWsolAccount(c)
           [] ix.op = "venue" -> RunVenue(c, ix)

Run(c, ixs) ==
    LET run[k \in 0..Len(ixs)] == IF k = 0 THEN c ELSE Apply(run[k - 1], ixs[k])
    IN  run[Len(ixs)]

\* The router runs the venues, checks the gain of the output account against
\* the route minimum and moves its share of the gain to the treasury account.
RouterSwap(c, ix) ==
    LET r == Run(c, ix.ixs)
        gain == r.ata[ix.out] - c.ata[ix.out]
        fee == (gain * fee_bps) \div BasisPoints
    IN  IF c.err # "none" THEN c
        ELSE IF ix.out \notin DOMAIN c.ata THEN Fails(c, "closed")
        ELSE IF r.err # "none" THEN r
        ELSE IF ix.out \notin DOMAIN r.ata THEN Fails(r, "closed")
        ELSE IF gain < ix.minimum_out THEN Fails(r, "minimum")
        ELSE IF fee_bps = 0 THEN r
        ELSE IF ix.out \notin DOMAIN r.fee_atas THEN Fails(r, "nofee")
        ELSE [r EXCEPT !.ata[ix.out] = @ - fee, !.fee_atas[ix.out] = @ + fee]

\* An instruction of the transaction itself.
Process(c, ix) == IF ix.op = "router" THEN RouterSwap(c, ix) ELSE Apply(c, ix)

\* A transaction runs its instructions in order.
Execute(ixs, outs) ==
    LET c == [lamports |-> wallet.lamports, ata |-> wallet.ata, unsynced |-> 0,
              fee_atas |-> fee_atas, outs |-> outs, err |-> "none"]
        run[k \in 0..Len(ixs)] == IF k = 0 THEN c ELSE Process(run[k - 1], ixs[k])
    IN  run[Len(ixs)]

SendTx ==
    /\ tx # NoTx
    /\ \E outs \in [{quote.hops[i].out : i \in DOMAIN quote.hops} -> 0..MaxOut] :
        LET c == Execute(tx, outs)
        IN  IF c.err = "none"
            THEN /\ wallet' = [lamports |-> c.lamports, ata |-> c.ata]
                 /\ fee_atas' = c.fee_atas
                 /\ outcome' = "landed"
            ELSE /\ UNCHANGED <<wallet, fee_atas>>
                 /\ outcome' = c.err
    /\ tx' = NoTx
    /\ UNCHANGED <<known_fee_atas, fee_bps, quote>>

\* Another wallet's swap creates the treasury account of the mint.
OtherSwapLands ==
    /\ quote # NoQuote
    /\ outcome # "landed"
    /\ to(quote) \notin DOMAIN fee_atas
    /\ fee_bps # 0
    /\ fee_atas' = Credit(fee_atas, to(quote), 0)
    /\ UNCHANGED <<wallet, known_fee_atas, fee_bps, quote, tx, outcome>>

-----------------------------------------------------------------------------
Init ==
    /\ wallet \in Wallets
    /\ fee_atas = [m \in {} |-> 0]
    /\ known_fee_atas = {}
    /\ fee_bps \in FeeRates
    /\ quote = NoQuote
    /\ tx = NoTx
    /\ outcome = "none"

Next ==
    \/ RequestQuote
    \/ BuildSwap
    \/ AbandonTx
    \/ SendTx
    \/ OtherSwapLands

Spec == Init /\ [][Next]_vars

-----------------------------------------------------------------------------
(* Properties                                                               *)

\* A transaction fails only because a pool moved past a floor: never because a
\* hop, a transfer or a close finds less than the builder assumed
\* (api/swap.rs tidy_multihop, hop_floor, unwrap_for_native_sol_hop).
NeverStarved == outcome \notin {"funds", "closed"}

\* No hop of a route of several hops gives its venue a floor of 0, which pump.fun AMM
\* refuses (api/swap.rs hop_floor).  That is what the code does and what the comment on
\* hop_floor says; other comments and tests still have inner hops carry 0 (api/swap.rs
\* 1415, 1443 and 1511, execution/amms/mod.rs 499 and 531, pumpfun.rs 82).
HopsKeepFloor == outcome = "zero" => Len(quote.hops) = 1

\* The router always finds the treasury account it pays its fee into, however
\* many earlier transactions were built and never sent (api/swap.rs wrap_in_router).
FeesCollectable == outcome # "nofee"

Lands == tx # NoTx /\ outcome' = "landed"
Gain(m) == Holding(wallet', m) - Holding(wallet, m)
Fee(m) == (IF m \in DOMAIN fee_atas' THEN fee_atas'[m] ELSE 0)
          - (IF m \in DOMAIN fee_atas THEN fee_atas[m] ELSE 0)

\* A swap that lands brings the wallet, with what the treasury took of it, the
\* quoted output less the slippage the caller allowed (quote/types.rs
\* compute_threshold, api/swap.rs, execution/router.rs): less than one atom is
\* lost to rounding.
LandedWithinSlippage ==
    [][Lands => (Gain(to(quote)) + Fee(to(quote)) + 1) * BasisPoints
                > Last(quote.hops).amount_out * (BasisPoints - quote.slippage_bps)]_vars

\* A swap that lands takes at most the amount asked of the input mint and
\* nothing of any other mint the wallet holds (api/swap.rs, "the surplus
\* WSOL/bridge tokens stay with the user").
SpendsOnlyInput ==
    [][Lands => \A m \in Mints : Gain(m) >= IF m = from(quote) THEN -quote.amount_in ELSE 0]_vars

\* No SOL is left wrapped: the wallet's WSOL account is closed by a swap that
\* lands, or is as it was (the executors' cleanup, drop_wsol_close).
NoWsolResidue ==
    [][Lands => \/ SOL \notin DOMAIN wallet'.ata
                \/ SOL \in DOMAIN wallet.ata /\ wallet'.ata[SOL] = wallet.ata[SOL]]_vars
=============================================================================
