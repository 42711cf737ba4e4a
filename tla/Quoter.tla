------------------------------- MODULE Quoter -------------------------------
(***************************************************************************)
(* How a quote picks its route: quote/router.rs, Quoter::quote.            *)
(*                                                                         *)
(* A pool answers an input amount with an output, or with nothing.  Direct *)
(* routes try every pool of the pair; routes of two and three hops do not  *)
(* try every combination: through each bridge they keep only the first pool*)
(* that pays most, and between two bridges only the middle pool that pays  *)
(* most.  Later hops are priced on what the hop before guarantees.  The    *)
(* question is whether the routes left out could have been better.         *)
(*                                                                         *)
(* price stands for what evaluate_many returns, transfer fees taken off.   *)
(***************************************************************************)
EXTENDS QuoteMath, Sequences

CONSTANTS
    Mints, Bridges,
    Pools,
    Pair,        \* Pair[p]: the two mints of pool p
    MaxAmount,   \* bound on amounts
    Markets,     \* the prices to start from: [Pools -> [Mints -> [1..MaxAmount -> 0..MaxAmount]]]
    Requests,    \* records: in, out, amount, slippage_bps, direct_only and pools, the
                 \* pools that the dex filters, dormancy and the RPC leave to the request
    NoRequest, NoRoute

Tables == [1..MaxAmount -> 0..MaxAmount]

ASSUME QuoterAssumption ==
    /\ MaxAmount \in Nat \ {0}
    /\ Bridges \subseteq Mints
    /\ Pair \in [Pools -> SUBSET Mints]
    /\ Markets \subseteq [Pools -> [Mints -> Tables]]
    /\ Requests \subseteq [in : Mints, out : Mints, amount : 1..MaxAmount, slippage_bps : Nat,
                           direct_only : BOOLEAN, pools : SUBSET Pools]

HopType == [pool : Pools, in : Mints, out : Mints, amount_in : 1..MaxAmount, amount_out : 1..MaxAmount]

ASSUME NoRouteAssumption == NoRoute \notin Seq(HopType)

VARIABLES
    price,    \* price[p][m][a]: what pool p pays for a of mint m, 0 for no quote
    request,  \* the request answered, or NoRequest
    answer    \* its route, a sequence of hops, or NoRoute

vars == <<price, request, answer>>

-----------------------------------------------------------------------------
Hop(p, in, out, amount_in) ==
    [pool |-> p, in |-> in, out |-> out,
     amount_in |-> amount_in, amount_out |-> price[p][in][amount_in]]

final(route) == route[Len(route)].amount_out

\* Pools of the pair that quote the amount (filter_entries, evaluate_many).
Quoted(req, in, out, amount) ==
    {p \in req.pools : Pair[p] = {in, out} /\ price[p][in][amount] > 0}

BestHopSmallest(S, in, out, amount) ==
    IF S = {} THEN {}
    ELSE {Hop(CHOOSE p \in S : \A r \in S : price[r][in][amount] >= price[p][in][amount],
              in, out, amount)}

\* The hop through the pool that pays most; none when S is empty.
BestHop(S, in, out, amount) ==
    IF S = {} THEN {}
    ELSE {Hop(CHOOSE p \in S : \A r \in S : price[r][in][amount] <= price[p][in][amount],
              in, out, amount)}

\* What the hop after h spends.
carried(req, h) == guaranteed(h.amount_out, req.slippage_bps)

Between(req) == Bridges \ {req.in, req.out}

DirectRoutesUnfiltered(req) ==
    {<<Hop(p, req.in, req.out, req.amount)>> : p \in {q \in req.pools : Pair[q] = {req.in, req.out}}}

DirectRoutes(req) ==
    {<<Hop(p, req.in, req.out, req.amount)>> : p \in Quoted(req, req.in, req.out, req.amount)}

FirstHops(req, bridge) ==
    BestHop(Quoted(req, req.in, bridge, req.amount), req.in, bridge, req.amount)

NextHopsOnQuoted(req, h, out) ==
    {Hop(p, h.out, out, h.amount_out) : p \in Quoted(req, h.out, out, h.amount_out)}

NextHops(req, h, out) ==
    {Hop(p, h.out, out, carried(req, h)) : p \in Quoted(req, h.out, out, carried(req, h))}

MiddleHops(req, h, bridge) ==
    BestHop(Quoted(req, h.out, bridge, carried(req, h)), h.out, bridge, carried(req, h))

TwoHopRoutes(req) ==
    UNION {{<<h1, h2>> : h2 \in NextHops(req, h1, req.out)} :
              h1 \in UNION {FirstHops(req, bridge) : bridge \in Between(req)}}

\* The pairs of hops through two different bridges.
TwoBridges(req) ==
    UNION {UNION {{<<h1, h2>> : h2 \in MiddleHops(req, h1, bridge)} :
                     bridge \in Between(req) \ {h1.out}} :
              h1 \in UNION {FirstHops(req, bridge) : bridge \in Between(req)}}

ThreeHopRoutes(req) ==
    UNION {{<<hh[1], hh[2], h3>> : h3 \in NextHops(req, hh[2], req.out)} : hh \in TwoBridges(req)}

Candidates(req) ==
    DirectRoutes(req) \cup (IF req.direct_only THEN {} ELSE TwoHopRoutes(req) \cup ThreeHopRoutes(req))

\* On equal output the route with fewer hops wins.
Preferred(r, s) == final(r) > final(s) \/ (final(r) = final(s) /\ Len(r) <= Len(s))

quote(req) ==
    IF Candidates(req) = {} THEN NoRoute
    ELSE CHOOSE r \in Candidates(req) : \A s \in Candidates(req) : Preferred(r, s)

AnswerQuote ==
    /\ request = NoRequest
    /\ request' \in Requests
    /\ answer' = quote(request')
    /\ UNCHANGED price

Init ==
    /\ price \in Markets
    /\ request = NoRequest
    /\ answer = NoRoute

Next == AnswerQuote

Spec == Init /\ [][Next]_vars

-----------------------------------------------------------------------------
(* Properties                                                               *)

\* An answer is a route of one to three hops, each of which delivers something
\* (quote/router.rs quote).
TypeOK ==
    /\ price \in [Pools -> [Mints -> Tables]]
    /\ request \in Requests \cup {NoRequest}
    /\ answer # NoRoute => Len(answer) \in 1..3 /\ \A i \in 1..Len(answer) : answer[i] \in HopType

\* Every route the request allows: any pool on each hop, one or two bridges.
EveryHop(req, in, out, amount) ==
    {Hop(p, in, out, amount) : p \in Quoted(req, in, out, amount)}

EveryFirst(req) == UNION {EveryHop(req, req.in, bridge, req.amount) : bridge \in Between(req)}

EveryTwoHopRoute(req) ==
    UNION {{<<h1, h2>> : h2 \in EveryHop(req, h1.out, req.out, carried(req, h1))} : h1 \in EveryFirst(req)}

EveryTwoBridges(req) ==
    UNION {UNION {{<<h1, h2>> : h2 \in EveryHop(req, h1.out, bridge, carried(req, h1))} :
                     bridge \in Between(req) \ {h1.out}} : h1 \in EveryFirst(req)}

EveryThreeHopRoute(req) ==
    UNION {{<<hh[1], hh[2], h3>> : h3 \in EveryHop(req, hh[2].out, req.out, carried(req, hh[2]))} :
              hh \in EveryTwoBridges(req)}

EveryRoute(req) ==
    DirectRoutes(req)
    \cup (IF req.direct_only THEN {} ELSE EveryTwoHopRoute(req) \cup EveryThreeHopRoute(req))

\* More in never brings less out, and a pool that quotes an amount quotes more.
Monotone(market) ==
    \A p \in Pools, m \in Mints, a, b \in 1..MaxAmount : a <= b => market[p][m][a] <= market[p][m][b]

\* Where prices are monotone, leaving combinations out loses nothing: no route
\* through any pools beats the answer, and none as good has fewer hops
\* (quote/router.rs evaluate_two_hop_routes, "Output is monotone in input").
BestRoute ==
    request # NoRequest /\ Monotone(price) =>
        \A r \in EveryRoute(request) : answer # NoRoute /\ Preferred(answer, r)

\* Later hops are priced on what the earlier ones guarantee, so the quoted
\* output stands when every hop delivers no more than its floor
\* (quote/router.rs guaranteed).
StandsAtFloors ==
    answer # NoRoute =>
        \A i \in 1..Len(answer) :
            /\ answer[i].amount_in =
                  IF i = 1 THEN request.amount
                  ELSE guaranteed(answer[i - 1].amount_out, request.slippage_bps)
            /\ answer[i].amount_out = price[answer[i].pool][answer[i].in][answer[i].amount_in]
            /\ answer[i].in = IF i = 1 THEN request.in ELSE answer[i - 1].out
=============================================================================
