---------------------------- MODULE QuoterProofs ----------------------------
(***************************************************************************)
(* Proofs about quoting: the choice of a route (Quoter), and the walk over *)
(* the ticks in memory that prices a concentrated pool (TickCache).        *)
(*                                                                         *)
(* A route is chosen for any pools, bridges, amounts and price tables.  A  *)
(* behaviour answers one request, so the invariant only says that the      *)
(* answer is quote(request).  The work is in two facts about quote: its    *)
(* candidates stand at their floors, and where prices are monotone every   *)
(* route it left out is dominated by a candidate.                          *)
(*                                                                         *)
(* A walk is over any ticks, books of positions and orders, fees and       *)
(* amounts.  TicksInv says that tick data chosen and read in one book      *)
(* holds every tick of its range.  Sound says of a walk, turn by turn,     *)
(* that its liquidity is the pool's where it stands; Follows says of two   *)
(* walks, the first over fewer ticks, that the first fails, does as the    *)
(* second, or has ended with no more.  Their theorems are at the end.      *)
(***************************************************************************)
EXTENDS Quoter, TickCache, TLAPS, FiniteSetTheorems, WellFoundedInduction

\* A set of natural numbers that is not empty has a least element.
LEMMA LeastNatural ==
    ASSUME NEW S \in SUBSET Nat, S # {}
    PROVE  \E m \in S : \A k \in S : m <= k
<1> DEFINE R == OpToRel(<, Nat)
<1>1. IsWellFoundedOn(R, Nat)
  BY NatLessThanWellFounded
<1>2. PICK m \in S : \A k \in S : ~ (<<k, m>> \in R)
  <2> HIDE DEF R
  <2> QED BY <1>1, WFMin
<1>3. \A k \in S : ~ (k < m)
  BY <1>2 DEF OpToRel
<1> QED BY <1>3

-----------------------------------------------------------------------------
(* What a hop guarantees                                                    *)

\* Division by the basis points is monotone.
LEMMA DivMonotone ==
    ASSUME NEW x \in Nat, NEW y \in Nat, x <= y
    PROVE  x \div BasisPoints <= y \div BasisPoints
BY DEF BasisPoints

\* A product with at most the basis points, divided by them, is at most the factor.
LEMMA DivBound ==
    ASSUME NEW x \in Nat, NEW q \in Nat, x <= q * BasisPoints
    PROVE  x \div BasisPoints \in Nat /\ x \div BasisPoints <= q
BY DEF BasisPoints

\* The share that is left after the slippage, as a factor over the basis points.
LEMMA ShareType ==
    ASSUME NEW s \in Nat
    PROVE  BasisPoints - AtMost(s, 9999) \in 1..BasisPoints
BY DEF BasisPoints, AtMost

\* A hop guarantees at least one atom and at most what it quotes.
LEMMA GuaranteedBounds ==
    ASSUME NEW q \in Nat \ {0}, NEW s \in Nat
    PROVE  guaranteed(q, s) \in 1..q
<1> DEFINE k == BasisPoints - AtMost(s, 9999)
           x == q * k
<1>1. k \in 1..BasisPoints
  BY ShareType
<1> HIDE DEF k
<1>2. x \in Nat /\ x <= q * BasisPoints
  BY <1>1 DEF BasisPoints
<1> HIDE DEF x
<1>3. x \div BasisPoints \in Nat /\ x \div BasisPoints <= q
  BY <1>2, DivBound
<1>4. guaranteed(q, s) = AtLeast(x \div BasisPoints, 1)
  BY DEF guaranteed, k, x
<1> QED BY <1>3, <1>4 DEF AtLeast

\* A hop that quotes more guarantees no less.
LEMMA GuaranteedMonotone ==
    ASSUME NEW q \in Nat, NEW r \in Nat, q <= r, NEW s \in Nat
    PROVE  guaranteed(q, s) <= guaranteed(r, s)
<1> DEFINE k == BasisPoints - AtMost(s, 9999)
           x == q * k
           y == r * k
<1>1. k \in 1..BasisPoints
  BY ShareType
<1> HIDE DEF k
<1>2. x \in Nat /\ x <= q * BasisPoints /\ y \in Nat /\ y <= r * BasisPoints
  BY <1>1 DEF BasisPoints
<1>3. x <= y
  BY <1>1 DEF BasisPoints
<1> HIDE DEF x, y
<1>4. /\ x \div BasisPoints \in Nat
      /\ y \div BasisPoints \in Nat
      /\ x \div BasisPoints <= y \div BasisPoints
  BY <1>2, <1>3, DivBound, DivMonotone
<1>5. /\ guaranteed(q, s) = AtLeast(x \div BasisPoints, 1)
      /\ guaranteed(r, s) = AtLeast(y \div BasisPoints, 1)
  BY DEF guaranteed, k, x, y
<1> QED BY <1>4, <1>5 DEF AtLeast

-----------------------------------------------------------------------------
(* Hops                                                                     *)

PriceOK == price \in [Pools -> [Mints -> Tables]]

\* The bound on amounts, and the fields of a request.
LEMMA RequestType ==
    ASSUME NEW req \in Requests
    PROVE  /\ req.in \in Mints /\ req.out \in Mints
           /\ req.amount \in 1..MaxAmount
           /\ req.slippage_bps \in Nat
           /\ req.pools \subseteq Pools
           /\ Between(req) \subseteq Mints
BY QuoterAssumption DEF Between

\* A pool that quotes the amount gives a hop.
LEMMA QuotedHop ==
    ASSUME PriceOK, NEW req \in Requests, NEW in \in Mints, NEW out \in Mints,
           NEW amount \in 1..MaxAmount, NEW p \in Quoted(req, in, out, amount)
    PROVE  /\ p \in Pools
           /\ Hop(p, in, out, amount) \in HopType
           /\ price[p][in][amount] \in 1..MaxAmount
<1>1. p \in Pools /\ price[p][in][amount] > 0
  BY RequestType DEF Quoted
<1>2. price[p][in][amount] \in 0..MaxAmount
  BY <1>1, QuoterAssumption DEF PriceOK, Tables
<1>3. price[p][in][amount] \in 1..MaxAmount
  BY <1>1, <1>2, QuoterAssumption
<1> QED BY <1>1, <1>3 DEF Hop, HopType

\* What a hop carries on is an amount.
LEMMA CarriedType ==
    ASSUME NEW req \in Requests, NEW h \in HopType
    PROVE  carried(req, h) \in 1..MaxAmount
<1>1. /\ h.amount_out \in 1..MaxAmount
      /\ h.amount_out \in Nat \ {0}
      /\ req.slippage_bps \in Nat
  BY RequestType, QuoterAssumption DEF HopType
<1>2. guaranteed(h.amount_out, req.slippage_bps) \in 1..h.amount_out
  BY <1>1, GuaranteedBounds
<1> QED BY <1>1, <1>2, QuoterAssumption DEF carried

\* A hop that pays more carries no less on.
LEMMA CarriedMonotone ==
    ASSUME NEW req \in Requests, NEW g \in HopType, NEW h \in HopType,
           g.amount_out <= h.amount_out
    PROVE  carried(req, g) <= carried(req, h)
<1>1. g.amount_out \in 1..MaxAmount /\ h.amount_out \in 1..MaxAmount /\ req.slippage_bps \in Nat
  BY RequestType DEF HopType
<1> QED BY <1>1, GuaranteedMonotone, QuoterAssumption DEF carried

\* Of the pools that quote an amount there is one that pays most, and BestHop
\* is the hop through such a pool.
LEMMA BestHopBest ==
    ASSUME PriceOK, NEW req \in Requests, NEW in \in Mints, NEW out \in Mints,
           NEW amount \in 1..MaxAmount, Quoted(req, in, out, amount) # {}
    PROVE  \E b \in Quoted(req, in, out, amount) :
              /\ BestHop(Quoted(req, in, out, amount), in, out, amount) = {Hop(b, in, out, amount)}
              /\ \A r \in Quoted(req, in, out, amount) :
                    price[r][in][amount] <= price[b][in][amount]
<1> DEFINE S == Quoted(req, in, out, amount)
           pays(p) == price[p][in][amount]
           K == {MaxAmount - pays(p) : p \in S}
<1>1. \A p \in S : pays(p) \in 1..MaxAmount
  BY QuotedHop
<1>2. S # {}
  OBVIOUS
<1> HIDE DEF S, pays
<1>3. K \in SUBSET Nat /\ K # {}
  BY <1>1, <1>2, QuoterAssumption
<1>4. PICK m \in K : \A k \in K : m <= k
  <2> HIDE DEF K
  <2> QED BY <1>3, LeastNatural
<1>5. PICK q \in S : m = MaxAmount - pays(q)
  BY <1>4
<1>6. \A r \in S : pays(r) <= pays(q)
  <2> TAKE r \in S
  <2>1. MaxAmount - pays(r) \in K
    OBVIOUS
  <2>2. MaxAmount - pays(q) <= MaxAmount - pays(r)
    BY <1>4, <1>5, <2>1
  <2>3. pays(q) \in 1..MaxAmount /\ pays(r) \in 1..MaxAmount
    BY <1>1, <1>5
  <2> HIDE DEF K
  <2> QED BY <2>2, <2>3, QuoterAssumption
<1> DEFINE b == CHOOSE p \in S : \A r \in S : pays(r) <= pays(p)
<1>7. b \in S /\ \A r \in S : pays(r) <= pays(b)
  BY <1>6
<1>8. BestHop(S, in, out, amount) = {Hop(b, in, out, amount)}
  BY <1>2 DEF BestHop, pays
<1> QED BY <1>7, <1>8 DEF S, pays

\* h is a hop of the amount between the two mints, priced by its pool.
IsHop(h, in, out, amount) ==
    /\ h \in HopType
    /\ h.in = in /\ h.out = out /\ h.amount_in = amount
    /\ h.amount_out = price[h.pool][in][amount]

\* A pool that quotes gives a hop of what it was asked.
LEMMA QuotedIsHop ==
    ASSUME PriceOK, NEW req \in Requests, NEW in \in Mints, NEW out \in Mints,
           NEW amount \in 1..MaxAmount, NEW p \in Quoted(req, in, out, amount)
    PROVE  IsHop(Hop(p, in, out, amount), in, out, amount)
BY QuotedHop DEF IsHop, Hop

\* So does the best of the pools between two mints.
LEMMA BestIsHop ==
    ASSUME PriceOK, NEW req \in Requests, NEW in \in Mints, NEW out \in Mints,
           NEW amount \in 1..MaxAmount,
           NEW h \in BestHop(Quoted(req, in, out, amount), in, out, amount)
    PROVE  IsHop(h, in, out, amount)
<1>1. Quoted(req, in, out, amount) # {}
  BY DEF BestHop
<1>2. PICK b \in Quoted(req, in, out, amount) : h = Hop(b, in, out, amount)
  BY <1>1, BestHopBest
<1> QED BY <1>2, QuotedIsHop

\* Where prices are monotone, a pool that quotes an amount quotes any larger
\* one, and pays no less for it.
LEMMA LargerDominates ==
    ASSUME PriceOK, Monotone(price), NEW req \in Requests, NEW in \in Mints, NEW out \in Mints,
           NEW amount \in 1..MaxAmount, NEW less \in 1..amount,
           NEW p \in Quoted(req, in, out, less)
    PROVE  /\ p \in Quoted(req, in, out, amount)
           /\ Hop(p, in, out, less).amount_out <= Hop(p, in, out, amount).amount_out
<1>1. less \in 1..MaxAmount /\ less <= amount
  BY QuoterAssumption
<1>2. p \in Pools /\ price[p][in][less] \in 1..MaxAmount
  BY <1>1, QuotedHop
<1>3. price[p][in][less] <= price[p][in][amount]
  BY <1>1, <1>2 DEF Monotone
<1>4. price[p][in][amount] \in 0..MaxAmount
  BY <1>2, QuoterAssumption DEF PriceOK, Tables
<1>5. p \in Quoted(req, in, out, amount)
  BY <1>2, <1>3, <1>4, QuoterAssumption DEF Quoted
<1> QED BY <1>3, <1>5 DEF Hop

\* Where prices are monotone, the best hop of an amount pays at least what any
\* pool pays for no more.
LEMMA BestDominates ==
    ASSUME PriceOK, Monotone(price), NEW req \in Requests, NEW in \in Mints, NEW out \in Mints,
           NEW amount \in 1..MaxAmount, NEW less \in 1..amount,
           NEW p \in Quoted(req, in, out, less)
    PROVE  \E g \in BestHop(Quoted(req, in, out, amount), in, out, amount) :
              /\ IsHop(g, in, out, amount)
              /\ Hop(p, in, out, less).amount_out <= g.amount_out
<1>1. less \in 1..MaxAmount
  BY QuoterAssumption
<1>2. /\ p \in Quoted(req, in, out, amount)
      /\ Hop(p, in, out, less).amount_out <= Hop(p, in, out, amount).amount_out
  BY LargerDominates
<1>3. PICK b \in Quoted(req, in, out, amount) :
          /\ BestHop(Quoted(req, in, out, amount), in, out, amount) = {Hop(b, in, out, amount)}
          /\ \A r \in Quoted(req, in, out, amount) : price[r][in][amount] <= price[b][in][amount]
  BY <1>2, BestHopBest
<1>4. price[p][in][amount] <= price[b][in][amount]
  BY <1>2, <1>3
<1>5. /\ price[p][in][less] \in 1..MaxAmount
      /\ price[p][in][amount] \in 1..MaxAmount
      /\ price[b][in][amount] \in 1..MaxAmount
  BY <1>1, <1>2, <1>3, QuotedHop
<1>6. /\ Hop(p, in, out, less).amount_out = price[p][in][less]
      /\ Hop(p, in, out, amount).amount_out = price[p][in][amount]
      /\ Hop(b, in, out, amount).amount_out = price[b][in][amount]
  BY DEF Hop
<1>7. Hop(p, in, out, less).amount_out <= Hop(b, in, out, amount).amount_out
  BY <1>2, <1>4, <1>5, <1>6, QuoterAssumption
<1>8. IsHop(Hop(b, in, out, amount), in, out, amount)
  BY <1>3, QuotedIsHop
<1> QED BY <1>3, <1>7, <1>8

-----------------------------------------------------------------------------
(* Candidates stand at their floors                                         *)

\* What StandsAtFloors and TypeOK say of an answer, of any route.
Stands(req, r) ==
    /\ r \in Seq(HopType)
    /\ Len(r) \in 1..3
    /\ \A i \in 1..Len(r) :
          /\ r[i].amount_in = IF i = 1 THEN req.amount
                              ELSE guaranteed(r[i - 1].amount_out, req.slippage_bps)
          /\ r[i].amount_out = price[r[i].pool][r[i].in][r[i].amount_in]
          /\ r[i].in = IF i = 1 THEN req.in ELSE r[i - 1].out

\* A direct route is one hop of the request's own amount.
LEMMA DirectStands ==
    ASSUME PriceOK, NEW req \in Requests, NEW r \in DirectRoutes(req)
    PROVE  Stands(req, r)
<1>1. PICK p \in Quoted(req, req.in, req.out, req.amount) : r = <<Hop(p, req.in, req.out, req.amount)>>
  BY DEF DirectRoutes
<1>2. IsHop(r[1], req.in, req.out, req.amount)
  BY <1>1, RequestType, QuotedIsHop
<1>3. r \in Seq(HopType) /\ Len(r) = 1
  BY <1>1, <1>2 DEF IsHop
<1>4. \A i \in 1..Len(r) : i = 1
  BY <1>3
<1> QED BY <1>2, <1>3, <1>4 DEF Stands, IsHop

\* The second hop of a two-hop route is priced on the floor of the first.
LEMMA TwoHopStands ==
    ASSUME PriceOK, NEW req \in Requests, NEW r \in TwoHopRoutes(req)
    PROVE  Stands(req, r)
<1>1. PICK bridge \in Between(req) : \E h1 \in FirstHops(req, bridge) :
          \E h2 \in NextHops(req, h1, req.out) : r = <<h1, h2>>
  BY DEF TwoHopRoutes
<1> PICK h1 \in FirstHops(req, bridge) : \E h2 \in NextHops(req, h1, req.out) : r = <<h1, h2>>
  BY <1>1
<1> PICK h2 \in NextHops(req, h1, req.out) : r = <<h1, h2>>
  OBVIOUS
<1>2. IsHop(h1, req.in, bridge, req.amount)
  BY <1>1, RequestType, BestIsHop DEF FirstHops
<1>3. carried(req, h1) \in 1..MaxAmount /\ h1.out \in Mints
  BY <1>2, CarriedType DEF IsHop, HopType
<1>4. IsHop(h2, h1.out, req.out, carried(req, h1))
  BY <1>1, <1>3, RequestType, QuotedIsHop DEF NextHops
<1>5. r \in Seq(HopType) /\ Len(r) = 2 /\ r[1] = h1 /\ r[2] = h2
  BY <1>2, <1>4 DEF IsHop
<1>6. /\ h1.amount_in = req.amount /\ h1.in = req.in
      /\ h2.amount_in = guaranteed(h1.amount_out, req.slippage_bps) /\ h2.in = h1.out
      /\ \A h \in {h1, h2} : h.amount_out = price[h.pool][h.in][h.amount_in]
  BY <1>2, <1>4 DEF IsHop, carried
<1> SUFFICES ASSUME NEW i \in 1..Len(r)
             PROVE  /\ r[i].amount_in = IF i = 1 THEN req.amount
                                        ELSE guaranteed(r[i - 1].amount_out, req.slippage_bps)
                    /\ r[i].amount_out = price[r[i].pool][r[i].in][r[i].amount_in]
                    /\ r[i].in = IF i = 1 THEN req.in ELSE r[i - 1].out
  BY <1>5 DEF Stands
<1>7. CASE i = 1
  BY <1>5, <1>6, <1>7
<1>8. CASE i = 2
  <2>1. r[i] = h2 /\ r[i - 1] = h1
    BY <1>5, <1>8
  <2> QED BY <1>6, <1>8, <2>1
<1> QED BY <1>5, <1>7, <1>8

\* Each later hop of a three-hop route is priced on the floor of the one before.
LEMMA ThreeHopStands ==
    ASSUME PriceOK, NEW req \in Requests, NEW r \in ThreeHopRoutes(req)
    PROVE  Stands(req, r)
<1>1. PICK hh \in TwoBridges(req) :
          \E h3 \in NextHops(req, hh[2], req.out) : r = <<hh[1], hh[2], h3>>
  BY DEF ThreeHopRoutes
<1> PICK h3 \in NextHops(req, hh[2], req.out) : r = <<hh[1], hh[2], h3>>
  BY <1>1
<1>2. PICK bridge \in Between(req) : \E h1 \in FirstHops(req, bridge) :
          \E last \in Between(req) \ {h1.out} : \E h2 \in MiddleHops(req, h1, last) : hh = <<h1, h2>>
  BY DEF TwoBridges
<1> PICK h1 \in FirstHops(req, bridge) :
          \E last \in Between(req) \ {h1.out} : \E h2 \in MiddleHops(req, h1, last) : hh = <<h1, h2>>
  BY <1>2
<1> PICK last \in Between(req) \ {h1.out} : \E h2 \in MiddleHops(req, h1, last) : hh = <<h1, h2>>
  OBVIOUS
<1> PICK h2 \in MiddleHops(req, h1, last) : hh = <<h1, h2>>
  OBVIOUS
<1>3. IsHop(h1, req.in, bridge, req.amount)
  BY <1>2, RequestType, BestIsHop DEF FirstHops
<1>4. carried(req, h1) \in 1..MaxAmount /\ h1.out \in Mints
  BY <1>3, CarriedType DEF IsHop, HopType
<1>5. IsHop(h2, h1.out, last, carried(req, h1))
  BY <1>2, <1>4, RequestType, BestIsHop DEF MiddleHops
<1>6. carried(req, h2) \in 1..MaxAmount /\ h2.out \in Mints
  BY <1>5, CarriedType DEF IsHop, HopType
<1>7. hh[1] = h1 /\ hh[2] = h2
  BY <1>2
<1>8. IsHop(h3, h2.out, req.out, carried(req, h2))
  BY <1>1, <1>6, <1>7, RequestType, QuotedIsHop DEF NextHops
<1>9. r \in Seq(HopType) /\ Len(r) = 3 /\ r[1] = h1 /\ r[2] = h2 /\ r[3] = h3
  BY <1>3, <1>5, <1>7, <1>8 DEF IsHop
<1>10. /\ h1.amount_in = req.amount /\ h1.in = req.in
       /\ h2.amount_in = guaranteed(h1.amount_out, req.slippage_bps) /\ h2.in = h1.out
       /\ h3.amount_in = guaranteed(h2.amount_out, req.slippage_bps) /\ h3.in = h2.out
       /\ \A h \in {h1, h2, h3} : h.amount_out = price[h.pool][h.in][h.amount_in]
  BY <1>3, <1>5, <1>8 DEF IsHop, carried
<1> SUFFICES ASSUME NEW i \in 1..Len(r)
             PROVE  /\ r[i].amount_in = IF i = 1 THEN req.amount
                                        ELSE guaranteed(r[i - 1].amount_out, req.slippage_bps)
                    /\ r[i].amount_out = price[r[i].pool][r[i].in][r[i].amount_in]
                    /\ r[i].in = IF i = 1 THEN req.in ELSE r[i - 1].out
  BY <1>9 DEF Stands
<1>11. CASE i = 1
  BY <1>9, <1>10, <1>11
<1>12. CASE i = 2
  <2>1. r[i] = h2 /\ r[i - 1] = h1
    BY <1>9, <1>12
  <2> QED BY <1>10, <1>12, <2>1
<1>13. CASE i = 3
  <2>1. r[i] = h3 /\ r[i - 1] = h2
    BY <1>9, <1>13
  <2> QED BY <1>10, <1>13, <2>1
<1> QED BY <1>9, <1>11, <1>12, <1>13

\* Every candidate the quoter compares is a chain of hops at their floors.
LEMMA CandidatesStand ==
    ASSUME PriceOK, NEW req \in Requests, NEW r \in Candidates(req)
    PROVE  Stands(req, r)
BY DirectStands, TwoHopStands, ThreeHopStands DEF Candidates

-----------------------------------------------------------------------------
(* The answer is preferred to every candidate                               *)

\* Final output and number of hops of a candidate.
LEMMA CandidateKeys ==
    ASSUME PriceOK, NEW req \in Requests, NEW r \in Candidates(req)
    PROVE  final(r) \in 1..MaxAmount /\ Len(r) \in 1..3
<1>1. Stands(req, r)
  BY CandidatesStand
<1>2. r \in Seq(HopType) /\ Len(r) \in 1..3
  BY <1>1 DEF Stands
<1>3. r[Len(r)] \in HopType
  BY <1>2
<1> QED BY <1>2, <1>3 DEF final, HopType

\* The order on routes as one on numbers: what is missing of MaxAmount, four
\* times, and the number of hops.
rank(r) == 4 * (MaxAmount - final(r)) + Len(r)

\* Some candidate is preferred to all the others: the order has a first element.
LEMMA PreferredExists ==
    ASSUME PriceOK, NEW req \in Requests, Candidates(req) # {}
    PROVE  \E r \in Candidates(req) : \A s \in Candidates(req) : Preferred(r, s)
<1> DEFINE K == {rank(r) : r \in Candidates(req)}
<1>1. \A r \in Candidates(req) :
          final(r) \in 1..MaxAmount /\ Len(r) \in 1..3 /\ rank(r) \in Nat
  BY CandidateKeys, QuoterAssumption DEF rank
<1>2. K \in SUBSET Nat /\ K # {}
  BY <1>1
<1>3. PICK m \in K : \A k \in K : m <= k
  <2> HIDE DEF K
  <2> QED BY <1>2, LeastNatural
<1>4. PICK r \in Candidates(req) : m = rank(r)
  BY <1>3
<1>5. ASSUME NEW s \in Candidates(req)
      PROVE  Preferred(r, s)
  <2>1. rank(r) <= rank(s)
    BY <1>3, <1>4
  <2>2. /\ final(r) \in 1..MaxAmount /\ Len(r) \in 1..3
        /\ final(s) \in 1..MaxAmount /\ Len(s) \in 1..3
    BY <1>1
  <2>3. 4 * (MaxAmount - final(r)) + Len(r) <= 4 * (MaxAmount - final(s)) + Len(s)
    BY <2>1 DEF rank
  <2>4. \/ final(r) > final(s)
        \/ final(r) = final(s) /\ Len(r) <= Len(s)
    <3> DEFINE fr == final(r)  fs == final(s)  lr == Len(r)  ls == Len(s)
    <3>1. /\ fr \in Nat /\ lr \in 1..3 /\ fs \in Nat /\ ls \in 1..3 /\ MaxAmount \in Nat
          /\ 4 * (MaxAmount - fr) + lr <= 4 * (MaxAmount - fs) + ls
      BY <2>2, <2>3, QuoterAssumption
    <3> HIDE DEF fr, fs, lr, ls
    <3>2. fr > fs \/ (fr = fs /\ lr <= ls)
      BY <3>1
    <3> QED BY <3>2 DEF fr, fs, lr, ls
  <2> QED BY <2>4 DEF Preferred
<1> QED BY <1>5

\* The route the quoter answers is a candidate, and preferred to every other
\* (quote/router.rs, the sort and the first element).
LEMMA QuotePreferred ==
    ASSUME PriceOK, NEW req \in Requests, Candidates(req) # {}
    PROVE  quote(req) \in Candidates(req) /\ \A s \in Candidates(req) : Preferred(quote(req), s)
BY PreferredExists DEF quote

-----------------------------------------------------------------------------
(* Routes left out are dominated                                            *)

Dominated(req, r) ==
    \E c \in Candidates(req) : final(r) \in Nat /\ final(c) >= final(r) /\ Len(c) <= Len(r)

\* A two-hop route through a pool that is not the best of its first leg is
\* matched by a candidate through the best one, when pools price monotonically.
LEMMA TwoHopDominated ==
    ASSUME PriceOK, Monotone(price), NEW req \in Requests, ~req.direct_only,
           NEW r \in EveryTwoHopRoute(req)
    PROVE  Dominated(req, r)
<1>1. PICK h1 \in EveryFirst(req) :
          \E h2 \in EveryHop(req, h1.out, req.out, carried(req, h1)) : r = <<h1, h2>>
  BY DEF EveryTwoHopRoute
<1> PICK h2 \in EveryHop(req, h1.out, req.out, carried(req, h1)) : r = <<h1, h2>>
  BY <1>1
<1>2. PICK bridge \in Between(req) : \E p \in Quoted(req, req.in, bridge, req.amount) :
          h1 = Hop(p, req.in, bridge, req.amount)
  BY DEF EveryFirst, EveryHop
<1> PICK p1 \in Quoted(req, req.in, bridge, req.amount) : h1 = Hop(p1, req.in, bridge, req.amount)
  BY <1>2
<1> PICK p2 \in Quoted(req, h1.out, req.out, carried(req, h1)) :
          h2 = Hop(p2, h1.out, req.out, carried(req, h1))
  BY DEF EveryHop
<1>3. /\ req.in \in Mints /\ req.out \in Mints /\ bridge \in Mints
      /\ req.amount \in 1..MaxAmount /\ req.amount \in 1..req.amount
  BY <1>2, RequestType, QuoterAssumption
<1>4. IsHop(h1, req.in, bridge, req.amount)
  BY <1>3, QuotedIsHop
<1>5. PICK g1 \in FirstHops(req, bridge) :
          IsHop(g1, req.in, bridge, req.amount) /\ h1.amount_out <= g1.amount_out
  BY <1>3, BestDominates DEF FirstHops
<1>6. /\ carried(req, h1) \in 1..MaxAmount /\ carried(req, g1) \in 1..MaxAmount
      /\ carried(req, h1) \in 1..carried(req, g1)
  BY <1>4, <1>5, CarriedType, CarriedMonotone, QuoterAssumption DEF IsHop
<1> DEFINE g2 == Hop(p2, bridge, req.out, carried(req, g1))
<1>7. h1.out = bridge /\ g1.out = bridge
  BY <1>4, <1>5 DEF IsHop
<1>8. /\ p2 \in Quoted(req, bridge, req.out, carried(req, g1))
      /\ h2.amount_out <= g2.amount_out
  BY <1>3, <1>6, <1>7, LargerDominates
<1>9. <<g1, g2>> \in Candidates(req)
  BY <1>2, <1>5, <1>7, <1>8 DEF TwoHopRoutes, NextHops, Candidates
<1>10. IsHop(h2, bridge, req.out, carried(req, h1)) /\ IsHop(g2, bridge, req.out, carried(req, g1))
  BY <1>3, <1>6, <1>7, <1>8, QuotedIsHop
<1>11. h2.amount_out \in 1..MaxAmount /\ g2.amount_out \in 1..MaxAmount
  BY <1>10 DEF IsHop, HopType
<1> HIDE DEF g2
<1>12. /\ final(r) = h2.amount_out /\ final(<<g1, g2>>) = g2.amount_out
       /\ Len(r) = 2 /\ Len(<<g1, g2>>) = 2
  BY DEF final
<1>13. /\ final(r) \in Nat /\ final(<<g1, g2>>) >= final(r)
       /\ Len(<<g1, g2>>) <= Len(r)
  BY <1>8, <1>11, <1>12, QuoterAssumption
<1> QED BY <1>9, <1>13 DEF Dominated

\* The same of three hops: the pruned first and second legs lose nothing.
LEMMA ThreeHopDominated ==
    ASSUME PriceOK, Monotone(price), NEW req \in Requests, ~req.direct_only,
           NEW r \in EveryThreeHopRoute(req)
    PROVE  Dominated(req, r)
<1>1. PICK hh \in EveryTwoBridges(req) :
          \E h3 \in EveryHop(req, hh[2].out, req.out, carried(req, hh[2])) : r = <<hh[1], hh[2], h3>>
  BY DEF EveryThreeHopRoute
<1> PICK h1 \in EveryFirst(req) : \E last \in Between(req) \ {h1.out} :
          \E h2 \in EveryHop(req, h1.out, last, carried(req, h1)) : hh = <<h1, h2>>
  BY DEF EveryTwoBridges
<1> PICK last \in Between(req) \ {h1.out} :
          \E h2 \in EveryHop(req, h1.out, last, carried(req, h1)) : hh = <<h1, h2>>
  OBVIOUS
<1> PICK h2 \in EveryHop(req, h1.out, last, carried(req, h1)) : hh = <<h1, h2>>
  OBVIOUS
<1> PICK h3 \in EveryHop(req, h2.out, req.out, carried(req, h2)) : r = <<h1, h2, h3>>
  BY <1>1
<1>2. PICK bridge \in Between(req) : \E p \in Quoted(req, req.in, bridge, req.amount) :
          h1 = Hop(p, req.in, bridge, req.amount)
  BY DEF EveryFirst, EveryHop
<1> PICK p1 \in Quoted(req, req.in, bridge, req.amount) : h1 = Hop(p1, req.in, bridge, req.amount)
  BY <1>2
<1> PICK p2 \in Quoted(req, h1.out, last, carried(req, h1)) : h2 = Hop(p2, h1.out, last, carried(req, h1))
  BY DEF EveryHop
<1> PICK p3 \in Quoted(req, h2.out, req.out, carried(req, h2)) :
          h3 = Hop(p3, h2.out, req.out, carried(req, h2))
  BY DEF EveryHop
<1>3. /\ req.in \in Mints /\ req.out \in Mints /\ bridge \in Mints /\ last \in Mints
      /\ req.amount \in 1..MaxAmount /\ req.amount \in 1..req.amount
  BY <1>2, RequestType, QuoterAssumption
<1>4. IsHop(h1, req.in, bridge, req.amount)
  BY <1>3, QuotedIsHop
<1>5. PICK g1 \in FirstHops(req, bridge) :
          IsHop(g1, req.in, bridge, req.amount) /\ h1.amount_out <= g1.amount_out
  BY <1>3, BestDominates DEF FirstHops
<1>6. /\ carried(req, h1) \in 1..MaxAmount /\ carried(req, g1) \in 1..MaxAmount
      /\ carried(req, h1) \in 1..carried(req, g1)
  BY <1>4, <1>5, CarriedType, CarriedMonotone, QuoterAssumption DEF IsHop
<1>7. h1.out = bridge /\ g1.out = bridge
  BY <1>4, <1>5 DEF IsHop
<1>8. IsHop(h2, bridge, last, carried(req, h1))
  BY <1>3, <1>6, <1>7, QuotedIsHop
<1>9. PICK g2 \in MiddleHops(req, g1, last) :
          IsHop(g2, bridge, last, carried(req, g1)) /\ h2.amount_out <= g2.amount_out
  BY <1>3, <1>6, <1>7, BestDominates DEF MiddleHops
<1>10. /\ carried(req, h2) \in 1..MaxAmount /\ carried(req, g2) \in 1..MaxAmount
       /\ carried(req, h2) \in 1..carried(req, g2)
  BY <1>8, <1>9, CarriedType, CarriedMonotone, QuoterAssumption DEF IsHop
<1> DEFINE g3 == Hop(p3, last, req.out, carried(req, g2))
<1>11. h2.out = last /\ g2.out = last
  BY <1>8, <1>9 DEF IsHop
<1>12. /\ p3 \in Quoted(req, last, req.out, carried(req, g2))
       /\ h3.amount_out <= g3.amount_out
  BY <1>3, <1>10, <1>11, LargerDominates
<1>13. <<g1, g2>> \in TwoBridges(req)
  BY <1>2, <1>5, <1>7, <1>9 DEF TwoBridges
<1>14. <<g1, g2, g3>> \in ThreeHopRoutes(req)
  BY <1>11, <1>12, <1>13 DEF ThreeHopRoutes, NextHops
<1>15. <<g1, g2, g3>> \in Candidates(req)
  BY <1>14 DEF Candidates
<1>16. IsHop(h3, last, req.out, carried(req, h2)) /\ IsHop(g3, last, req.out, carried(req, g2))
  BY <1>3, <1>10, <1>11, <1>12, QuotedIsHop
<1>17. h3.amount_out \in 1..MaxAmount /\ g3.amount_out \in 1..MaxAmount
  BY <1>16 DEF IsHop, HopType
<1> HIDE DEF g3
<1>18. /\ final(r) = h3.amount_out /\ final(<<g1, g2, g3>>) = g3.amount_out
       /\ Len(r) = 3 /\ Len(<<g1, g2, g3>>) = 3
  BY DEF final
<1>19. /\ final(r) \in Nat /\ final(<<g1, g2, g3>>) >= final(r)
       /\ Len(<<g1, g2, g3>>) <= Len(r)
  BY <1>12, <1>17, <1>18, QuoterAssumption
<1> QED BY <1>15, <1>19 DEF Dominated

\* Pruning loses nothing: whatever route exists, a candidate pays as much with
\* no more hops.
LEMMA EveryRouteDominated ==
    ASSUME PriceOK, Monotone(price), NEW req \in Requests, NEW r \in EveryRoute(req)
    PROVE  Dominated(req, r)
<1>1. CASE r \in DirectRoutes(req)
  <2>1. r \in Candidates(req)
    BY <1>1 DEF Candidates
  <2> QED BY <2>1, CandidateKeys DEF Dominated
<1> QED BY <1>1, TwoHopDominated, ThreeHopDominated DEF EveryRoute

-----------------------------------------------------------------------------
(* The theorems                                                             *)

\* The invariant: the answer given is quote(request).
QuoterInv ==
    /\ PriceOK
    /\ \/ request = NoRequest /\ answer = NoRoute
       \/ request \in Requests /\ answer = quote(request)

\* The invariant gives the types.
LEMMA InvTypeOK == QuoterInv => TypeOK
<1> SUFFICES ASSUME QuoterInv PROVE TypeOK
  OBVIOUS
<1>1. ASSUME answer # NoRoute
      PROVE  Len(answer) \in 1..3 /\ \A i \in 1..Len(answer) : answer[i] \in HopType
  <2>1. request \in Requests /\ answer \in Candidates(request)
    BY <1>1, QuotePreferred DEF QuoterInv, quote
  <2>2. Stands(request, answer)
    BY <2>1, CandidatesStand DEF QuoterInv
  <2> QED BY <2>2 DEF Stands
<1> QED BY <1>1 DEF QuoterInv, PriceOK, TypeOK

\* The answer given stands at the floors of its hops.
LEMMA InvStandsAtFloors == QuoterInv => StandsAtFloors
<1> SUFFICES ASSUME QuoterInv, answer # NoRoute
             PROVE  StandsAtFloors
  BY DEF StandsAtFloors
<1>1. request \in Requests /\ answer \in Candidates(request)
  BY QuotePreferred DEF QuoterInv, quote
<1>2. Stands(request, answer)
  BY <1>1, CandidatesStand DEF QuoterInv
<1> QED BY <1>2 DEF Stands, StandsAtFloors

\* No route, kept or pruned, is preferred to the answer.
LEMMA InvBestRoute == QuoterInv => BestRoute
<1> SUFFICES ASSUME QuoterInv, request # NoRequest, Monotone(price), NEW r \in EveryRoute(request)
             PROVE  answer # NoRoute /\ Preferred(answer, r)
  BY DEF BestRoute
<1>1. PriceOK /\ request \in Requests /\ answer = quote(request)
  BY DEF QuoterInv
<1>2. PICK c \in Candidates(request) :
          final(r) \in Nat /\ final(c) >= final(r) /\ Len(c) <= Len(r)
  BY <1>1, EveryRouteDominated DEF Dominated
<1>3. answer \in Candidates(request) /\ Preferred(answer, c)
  BY <1>1, <1>2, QuotePreferred
<1>4. answer # NoRoute
  BY <1>1, <1>3, CandidatesStand, NoRouteAssumption DEF Stands
<1>5. /\ final(answer) \in 1..MaxAmount /\ Len(answer) \in 1..3
      /\ final(c) \in 1..MaxAmount /\ Len(c) \in 1..3
  BY <1>1, <1>2, <1>3, CandidateKeys
<1>6. Len(r) \in Int
  OBVIOUS
<1>7. Preferred(answer, r)
  BY <1>2, <1>3, <1>5, <1>6, QuoterAssumption DEF Preferred
<1> QED BY <1>4, <1>7

\* A quote depends on the market and on nothing else.
LEMMA SameQuote ==
    ASSUME price' = price, NEW req
    PROVE  quote(req)' = quote(req)
<1>1. \A p, in, out, amount : Hop(p, in, out, amount)' = Hop(p, in, out, amount)
  BY DEF Hop
<1>2. \A in, out, amount : Quoted(req, in, out, amount)' = Quoted(req, in, out, amount)
  BY DEF Quoted
<1>3. DirectRoutes(req)' = DirectRoutes(req)
  BY <1>1, <1>2 DEF DirectRoutes
<1>4. \A bridge : FirstHops(req, bridge)' = FirstHops(req, bridge)
  BY <1>1, <1>2 DEF FirstHops, BestHop
<1>5. \A h, out : NextHops(req, h, out)' = NextHops(req, h, out)
  BY <1>1, <1>2 DEF NextHops
<1>6. \A h, bridge : MiddleHops(req, h, bridge)' = MiddleHops(req, h, bridge)
  BY <1>1, <1>2 DEF MiddleHops, BestHop
<1>7. TwoHopRoutes(req)' = TwoHopRoutes(req)
  BY <1>4, <1>5 DEF TwoHopRoutes
<1>8. TwoBridges(req)' = TwoBridges(req)
  BY <1>4, <1>6 DEF TwoBridges
<1>9. ThreeHopRoutes(req)' = ThreeHopRoutes(req)
  BY <1>5, <1>8 DEF ThreeHopRoutes
<1>10. Candidates(req)' = Candidates(req)
  BY <1>3, <1>7, <1>9 DEF Candidates
<1> QED BY <1>10 DEF quote

\* The answer is always quote(request).
THEOREM QuoterInvariant == Spec => []QuoterInv
<1>1. Init => QuoterInv
  BY QuoterAssumption DEF Init, QuoterInv, PriceOK
<1>2. QuoterInv /\ [Next]_vars => QuoterInv'
  <2> SUFFICES ASSUME QuoterInv, [Next]_vars
               PROVE  QuoterInv'
    OBVIOUS
  <2>1. CASE AnswerQuote
    <3>1. price' = price /\ request' \in Requests /\ answer' = quote(request')
      BY <2>1 DEF AnswerQuote
    <3>2. \A req : quote(req)' = quote(req)
      BY <3>1, SameQuote
    <3> QED BY <3>1, <3>2 DEF QuoterInv, PriceOK
  <2>2. CASE UNCHANGED vars
    <3>1. price' = price /\ request' = request /\ answer' = answer
      BY <2>2 DEF vars
    <3>2. quote(request)' = quote(request)
      BY <3>1, SameQuote
    <3> QED BY <3>1, <3>2 DEF QuoterInv, PriceOK
  <2> QED BY <2>1, <2>2 DEF Next
<1> QED BY <1>1, <1>2, PTL DEF Spec

\* For any pools, bridges and amounts, an answer is a route of at most three
\* hops, each of which delivers something (quote/router.rs quote).
THEOREM TypeCorrect == Spec => []TypeOK
BY QuoterInvariant, InvTypeOK, PTL

\* For any market and request, every hop of the answer is priced on what the
\* hop before guarantees (quote/router.rs guaranteed).
THEOREM AnswersStand == Spec => []StandsAtFloors
BY QuoterInvariant, InvStandsAtFloors, PTL

\* For any pools and bridges, where prices are monotone no route that was left
\* out beats the answer (quote/router.rs evaluate_two_hop_routes).
THEOREM NothingBetterLeftOut == Spec => []BestRoute
BY QuoterInvariant, InvBestRoute, PTL

-----------------------------------------------------------------------------
(* Sums over finite sets                                                    *)

\* A set of numbers that holds 0 and with each number the next is Nat.
LEMMA Induction ==
    ASSUME NEW P \in SUBSET Nat, 0 \in P, \A n \in P : n + 1 \in P
    PROVE  P = Nat
<1> SUFFICES ASSUME Nat \ P # {} PROVE FALSE
  OBVIOUS
<1>1. PICK m \in Nat \ P : \A k \in Nat \ P : m <= k
  BY LeastNatural
<1>2. m # 0 /\ m - 1 \in Nat
  BY <1>1
<1>3. m - 1 \in P
  BY <1>1, <1>2
<1>4. (m - 1) + 1 \in P
  BY <1>3
<1> QED BY <1>1, <1>4

\* The definition of a sum taken apart: an element is chosen, and the rest is summed.
SumsUp(it, fun, S) ==
    \A s \in SUBSET S : it[s] = IF s = {} THEN 0 ELSE fun[CHOOSE x \in s : TRUE] + it[s \ {CHOOSE x \in s : TRUE}]

\* A sum over a finite set unfolds to the sums over its subsets.
LEMMA SumUnfolds ==
    ASSUME NEW fun, NEW S, IsFiniteSet(S)
    PROVE  \E it : SumFunctionOnSet(fun, S) = it[S] /\ SumsUp(it, fun, S)
<1> DEFINE pick(s) == CHOOSE x \in s : TRUE
           Recurs(it) == it = [s \in SUBSET S |-> IF s = {} THEN 0 ELSE fun[pick(s)] + it[s \ {pick(s)}]]
           Small(n) == {s \in SUBSET S : Cardinality(s) <= n}
           Part(it, n) == it = [s \in Small(n) |-> IF s = {} THEN 0 ELSE fun[pick(s)] + it[s \ {pick(s)}]]
           P == {n \in Nat : \E it : Part(it, n)}
<1>1. ASSUME NEW s \in SUBSET S PROVE IsFiniteSet(s) /\ Cardinality(s) \in Nat /\ Cardinality(s) <= Cardinality(S)
  BY FS_Subset, FS_CardinalityType
<1>2. ASSUME NEW s \in SUBSET S, s # {} PROVE pick(s) \in s /\ s \ {pick(s)} \in SUBSET S /\ Cardinality(s \ {pick(s)}) = Cardinality(s) - 1
  <2>1. pick(s) \in s
    BY <1>2
  <2> QED BY <1>1, <2>1, FS_RemoveElement
<1> HIDE DEF pick
<1>3. 0 \in P
  <2> DEFINE it == [s \in Small(0) |-> 0]
  <2>1. ASSUME NEW s \in Small(0) PROVE s = {}
    BY <1>1, FS_EmptySet
  <2>2. Part(it, 0)
    BY <2>1
  <2> HIDE DEF it, Part
  <2> QED BY <2>2
<1>4. ASSUME NEW n \in P PROVE n + 1 \in P
  <2>1. n \in Nat /\ \E it : Part(it, n)
    OBVIOUS
  <2>2. PICK it : Part(it, n)
    BY <2>1
  <2> DEFINE Next1(f, s) == IF s = {} THEN 0 ELSE fun[pick(s)] + f[s \ {pick(s)}]
             g == [s \in Small(n + 1) |-> Next1(it, s)]
  <2>3. ASSUME NEW s \in Small(n + 1) PROVE g[s] = Next1(g, s)
    <3>1. CASE s = {}
      BY <3>1
    <3>2. CASE s # {}
      <4> DEFINE r == s \ {pick(s)}
      <4>1. r \in Small(n)
        BY <1>1, <1>2, <2>1, <3>2
      <4>2. r \in Small(n + 1)
        BY <1>1, <2>1, <4>1
      <4>3. g[r] = Next1(it, r) /\ it[r] = Next1(it, r)
        <5>1. it = [t \in Small(n) |-> Next1(it, t)]
          BY <2>2
        <5> HIDE DEF Next1, Small, r
        <5>2. it[r] = Next1(it, r)
          BY <4>1, <5>1
        <5> QED BY <4>2, <5>2
      <4> HIDE DEF g
      <4>4. g[s] = Next1(it, s)
        BY DEF g
      <4> QED BY <3>2, <4>3, <4>4
    <3> QED BY <3>1, <3>2
  <2>4. Part(g, n + 1)
    <3>1. \A s \in Small(n + 1) : g[s] = Next1(g, s)
      BY <2>3
    <3>2. g = [s \in Small(n + 1) |-> g[s]]
      OBVIOUS
    <3> HIDE DEF g
    <3> QED BY <3>1, <3>2
  <2> HIDE DEF Part, g
  <2> QED BY <2>1, <2>4
<1>5. P = Nat
  <2>1. P \in SUBSET Nat
    OBVIOUS
  <2> HIDE DEF P
  <2> QED BY <1>3, <1>4, <2>1, Induction
<1>6. \E it : Recurs(it)
  <2>1. Cardinality(S) \in Nat
    BY FS_CardinalityType
  <2>2. Small(Cardinality(S)) = SUBSET S
    BY <1>1
  <2>3. \E it : Part(it, Cardinality(S))
    BY <1>5, <2>1
  <2> QED BY <2>2, <2>3
<1> DEFINE it == CHOOSE it : Recurs(it)
<1>7. Recurs(it)
  BY <1>6
<1>8. SumFunctionOnSet(fun, S) = it[S]
  BY DEF SumFunctionOnSet, FoldFunctionOnSet, MapThenFoldSet, pick
<1>9. SumsUp(it, fun, S)
  <2> HIDE DEF it
  <2>1. \A s \in SUBSET S : it[s] = IF s = {} THEN 0 ELSE fun[pick(s)] + it[s \ {pick(s)}]
    BY <1>7
  <2> QED BY <2>1 DEF SumsUp, pick
<1> QED BY <1>8, <1>9

\* The sum of a part of a set is what the sum of the set found for it.
LEMMA SumOfPart ==
    ASSUME NEW fun, NEW S, IsFiniteSet(S), NEW it, SumsUp(it, fun, S), NEW u \in SUBSET S
    PROVE  SumFunctionOnSet(fun, u) = it[u]
<1>1. IsFiniteSet(u)
  BY FS_Subset
<1>2. PICK jt : SumFunctionOnSet(fun, u) = jt[u] /\ SumsUp(jt, fun, u)
  BY <1>1, SumUnfolds
<1> DEFINE P == {n \in Nat : \A s \in SUBSET u : Cardinality(s) = n => it[s] = jt[s]}
<1>3. ASSUME NEW s \in SUBSET u PROVE IsFiniteSet(s) /\ Cardinality(s) \in Nat
  BY <1>1, FS_Subset, FS_CardinalityType
<1>4. 0 \in P
  <2> SUFFICES ASSUME NEW s \in SUBSET u, Cardinality(s) = 0 PROVE it[s] = jt[s]
    OBVIOUS
  <2>1. s = {}
    BY <1>3, FS_EmptySet
  <2> QED BY <1>2, <2>1 DEF SumsUp
<1>5. ASSUME NEW n \in P PROVE n + 1 \in P
  <2>1. n \in Nat /\ \A s \in SUBSET u : Cardinality(s) = n => it[s] = jt[s]
    OBVIOUS
  <2> SUFFICES ASSUME NEW s \in SUBSET u, Cardinality(s) = n + 1 PROVE it[s] = jt[s]
    BY <2>1
  <2> DEFINE c == CHOOSE x \in s : TRUE
  <2>2. s # {}
    BY <2>1, FS_EmptySet
  <2>3. c \in s
    BY <2>2
  <2> HIDE DEF c
  <2>4. Cardinality(s \ {c}) = n /\ s \ {c} \in SUBSET u
    BY <1>3, <2>1, <2>3, FS_RemoveElement
  <2>5. it[s \ {c}] = jt[s \ {c}]
    BY <2>1, <2>4
  <2>6. it[s] = fun[c] + it[s \ {c}] /\ jt[s] = fun[c] + jt[s \ {c}]
    <3>1. s \in SUBSET S
      OBVIOUS
    <3> QED BY <1>2, <2>2, <3>1 DEF SumsUp, c
  <2> QED BY <2>5, <2>6
<1>6. P = Nat
  <2>1. P \in SUBSET Nat
    OBVIOUS
  <2> HIDE DEF P
  <2> QED BY <1>4, <1>5, <2>1, Induction
<1>7. Cardinality(u) \in Nat
  BY <1>3
<1>8. it[u] = jt[u]
  BY <1>6, <1>7
<1> QED BY <1>2, <1>8

Counts(fun, S) == \A x \in S : fun[x] \in Nat

\* In whatever order they are added, numbers come to the same.
LEMMA SumRemoves ==
    ASSUME NEW fun, NEW S, IsFiniteSet(S), Counts(fun, S)
    PROVE  /\ SumFunctionOnSet(fun, S) \in Nat
           /\ S = {} => SumFunctionOnSet(fun, S) = 0
           /\ \A x \in S : SumFunctionOnSet(fun, S) = fun[x] + SumFunctionOnSet(fun, S \ {x})
<1>1. PICK it : SumFunctionOnSet(fun, S) = it[S] /\ SumsUp(it, fun, S)
  BY SumUnfolds
<1> DEFINE Fine(s) == it[s] \in Nat /\ \A x \in s : it[s] = fun[x] + it[s \ {x}]
           P == {n \in Nat : \A s \in SUBSET S : Cardinality(s) <= n => Fine(s)}
<1>2. ASSUME NEW s \in SUBSET S PROVE IsFiniteSet(s) /\ Cardinality(s) \in Nat
  BY FS_Subset, FS_CardinalityType
<1>3. it[{}] = 0
  BY <1>1 DEF SumsUp
<1>4. 0 \in P
  <2> SUFFICES ASSUME NEW s \in SUBSET S, Cardinality(s) <= 0 PROVE Fine(s)
    OBVIOUS
  <2>1. s = {}
    BY <1>2, FS_EmptySet
  <2> QED BY <1>3, <2>1
<1>5. ASSUME NEW n \in P PROVE n + 1 \in P
  <2>1. n \in Nat /\ \A s \in SUBSET S : Cardinality(s) <= n => Fine(s)
    OBVIOUS
  <2> SUFFICES ASSUME NEW s \in SUBSET S, Cardinality(s) <= n + 1 PROVE Fine(s)
    BY <2>1
  <2> DEFINE c == CHOOSE x \in s : TRUE
  <2> SUFFICES ASSUME s # {} PROVE Fine(s)
    BY <1>3
  <2>3. c \in s
    OBVIOUS
  <2>4. it[s] = fun[c] + it[s \ {c}]
    BY <1>1 DEF SumsUp
  <2> HIDE DEF c
  <2>5. ASSUME NEW x \in s PROVE Fine(s \ {x}) /\ fun[x] \in Nat
    <3>1. Cardinality(s \ {x}) <= n /\ s \ {x} \in SUBSET S
      BY <1>2, <2>1, FS_RemoveElement
    <3> HIDE DEF Fine
    <3> QED BY <2>1, <3>1 DEF Counts
  <2>6. it[s] \in Nat
    <3>1. it[s \ {c}] \in Nat /\ fun[c] \in Nat
      BY <2>3, <2>5
    <3> QED BY <2>4, <3>1
  <2>7. ASSUME NEW x \in s PROVE it[s] = fun[x] + it[s \ {x}]
    <3>1. CASE x = c
      BY <2>4, <3>1
    <3>2. CASE x # c
      <4>1. it[s \ {c}] = fun[x] + it[(s \ {c}) \ {x}]
        BY <2>3, <2>5, <3>2
      <4>2. it[s \ {x}] = fun[c] + it[(s \ {x}) \ {c}]
        BY <2>3, <2>5, <3>2
      <4>3. (s \ {c}) \ {x} = (s \ {x}) \ {c}
        OBVIOUS
      <4> DEFINE r == it[(s \ {x}) \ {c}]
      <4>4. fun[x] \in Nat /\ fun[c] \in Nat /\ it[s \ {x}] \in Nat /\ it[s \ {c}] \in Nat
        BY <2>3, <2>5
      <4>5. r \in Nat
        <5>1. (s \ {x}) \ {c} \in SUBSET S /\ Cardinality((s \ {x}) \ {c}) <= Cardinality(s \ {x})
          BY <1>2, FS_Subset
        <5>2. Cardinality(s \ {x}) <= n /\ s \ {x} \in SUBSET S
          BY <1>2, <2>1, FS_RemoveElement
        <5>3. Cardinality((s \ {x}) \ {c}) <= n
          BY <1>2, <2>1, <5>1, <5>2
        <5> QED BY <2>1, <5>1, <5>3
      <4>6. it[s \ {c}] = fun[x] + r /\ it[s \ {x}] = fun[c] + r
        BY <4>1, <4>2, <4>3
      <4> HIDE DEF r
      <4>7. it[s] = fun[c] + (fun[x] + r)
        BY <2>4, <4>6
      <4> QED BY <4>4, <4>5, <4>6, <4>7
    <3> QED BY <3>1, <3>2
  <2> QED BY <2>6, <2>7
<1>6. P = Nat
  <2>1. P \in SUBSET Nat
    OBVIOUS
  <2> HIDE DEF P
  <2> QED BY <1>4, <1>5, <2>1, Induction
<1>7. Cardinality(S) \in Nat
  BY <1>2
<1>8. Fine(S)
  <2> HIDE DEF Fine
  <2> QED BY <1>6, <1>7
<1>9. ASSUME NEW x \in S PROVE SumFunctionOnSet(fun, S \ {x}) = it[S \ {x}]
  BY <1>1, SumOfPart
<1> QED BY <1>1, <1>3, <1>8, <1>9

\* Two parts that have nothing in common are summed apart.
LEMMA SumSplits ==
    ASSUME NEW fun, NEW A, NEW B, IsFiniteSet(A), IsFiniteSet(B), A \cap B = {}, Counts(fun, A \cup B)
    PROVE  SumFunctionOnSet(fun, A \cup B) = SumFunctionOnSet(fun, A) + SumFunctionOnSet(fun, B)
<1> DEFINE Total(s) == SumFunctionOnSet(fun, s)
           P == {n \in Nat : \A s \in SUBSET B : Cardinality(s) = n => Total(A \cup s) = Total(A) + Total(s)}
<1>1. ASSUME NEW s \in SUBSET B
      PROVE  /\ IsFiniteSet(s) /\ Cardinality(s) \in Nat /\ IsFiniteSet(A \cup s)
             /\ Counts(fun, s) /\ Counts(fun, A \cup s) /\ Counts(fun, A)
  BY FS_Subset, FS_CardinalityType, FS_Union DEF Counts
<1>2. 0 \in P
  <2> SUFFICES ASSUME NEW s \in SUBSET B, Cardinality(s) = 0 PROVE Total(A \cup s) = Total(A) + Total(s)
    OBVIOUS
  <2>1. s = {}
    BY <1>1, FS_EmptySet
  <2>2. Total(A) \in Nat /\ Total({}) = 0
    BY <1>1, <2>1, SumRemoves
  <2>3. A \cup s = A
    BY <2>1
  <2> HIDE DEF Total
  <2> QED BY <2>1, <2>2, <2>3
<1>3. ASSUME NEW n \in P PROVE n + 1 \in P
  <2>1. n \in Nat /\ \A s \in SUBSET B : Cardinality(s) = n => Total(A \cup s) = Total(A) + Total(s)
    OBVIOUS
  <2> SUFFICES ASSUME NEW s \in SUBSET B, Cardinality(s) = n + 1 PROVE Total(A \cup s) = Total(A) + Total(s)
    BY <2>1
  <2>2. s # {}
    BY <2>1, FS_EmptySet
  <2>3. PICK x \in s : TRUE
    BY <2>2
  <2>4. s \ {x} \in SUBSET B /\ Cardinality(s \ {x}) = n
    <3>1. IsFiniteSet(s)
      BY <1>1
    <3>2. Cardinality(s \ {x}) = Cardinality(s) - 1
      BY <2>3, <3>1, FS_RemoveElement
    <3> QED BY <2>1, <3>2
  <2>5. Total(A \cup (s \ {x})) = Total(A) + Total(s \ {x})
    BY <2>1, <2>4
  <2>6. (A \cup s) \ {x} = A \cup (s \ {x}) /\ x \in A \cup s
    OBVIOUS
  <2>7. Total(A \cup s) = fun[x] + Total((A \cup s) \ {x})
    BY <1>1, <2>6, SumRemoves
  <2>8. Total(s) = fun[x] + Total(s \ {x}) /\ fun[x] \in Nat
    <3>1. IsFiniteSet(s) /\ Counts(fun, s)
      BY <1>1
    <3> QED BY <2>3, <3>1, SumRemoves DEF Counts
  <2>9. Total(A) \in Nat /\ Total(s \ {x}) \in Nat
    BY <1>1, <2>4, SumRemoves
  <2> HIDE DEF Total
  <2> QED BY <2>5, <2>6, <2>7, <2>8, <2>9
<1>4. P = Nat
  <2>1. P \in SUBSET Nat
    OBVIOUS
  <2> HIDE DEF P
  <2> QED BY <1>2, <1>3, <2>1, Induction
<1> HIDE DEF Total
<1>5. Cardinality(B) \in Nat /\ B \in SUBSET B
  BY <1>1
<1>6. Total(A \cup B) = Total(A) + Total(B)
  BY <1>4, <1>5
<1> QED BY <1>6 DEF Total

-----------------------------------------------------------------------------
(* Books of positions                                                       *)

\* No position begins or ends between two ticks.
Unbroken(b, t, u) == \A p \in b.positions : ~(t < p.lo /\ p.lo < u) /\ ~(t < p.hi /\ p.hi < u)

\* What a part of the positions provides.
LEMMA PartSum ==
    ASSUME NEW b, IsBook(b), NEW S \in SUBSET b.positions
    PROVE  IsFiniteSet(S) /\ Counts(Liquidity(b), S) /\ SumFunctionOnSet(Liquidity(b), S) \in Nat
<1>1. IsFiniteSet(S) /\ b.positions \subseteq [lo : Ticks, hi : Ticks, liq : Nat]
  BY FS_Subset DEF IsBook
<1>2. Counts(Liquidity(b), S)
  BY <1>1 DEF Counts, Liquidity
<1> QED BY <1>1, <1>2, SumRemoves

\* The liquidity at a tick is a number, the net liquidity of a tick an integer.
LEMMA LiquidityTypes ==
    ASSUME NEW b, IsBook(b), NEW t \in Int
    PROVE  LiquidityAt(b, t) \in Nat /\ NetAt(b, t) \in Int
<1>1. LiquidityAt(b, t) \in Nat
  BY PartSum DEF LiquidityAt
<1>2. SumFunctionOnSet(Liquidity(b), {p \in b.positions : p.lo = t}) \in Nat
  BY PartSum
<1>3. SumFunctionOnSet(Liquidity(b), {p \in b.positions : p.hi = t}) \in Nat
  BY PartSum
<1> QED BY <1>1, <1>2, <1>3 DEF NetAt

\* Crossing a tick upwards adds its net liquidity to what was provided below it.
LEMMA LiquidityCrosses ==
    ASSUME NEW b, IsBook(b), NEW t \in Int, NEW u \in Int, t < u, Unbroken(b, t, u)
    PROVE  LiquidityAt(b, u) = LiquidityAt(b, t) + NetAt(b, u)
<1> DEFINE before == {p \in b.positions : p.lo <= t /\ t < p.hi}
           after == {p \in b.positions : p.lo <= u /\ u < p.hi}
           begin == {p \in b.positions : p.lo = u}
           end == {p \in b.positions : p.hi = u}
           stay == {p \in b.positions : p.lo <= t /\ u < p.hi}
           Sum1(s) == SumFunctionOnSet(Liquidity(b), s)
<1>1. \A p \in b.positions : p.lo \in Int /\ p.hi \in Int /\ p.lo < p.hi
  BY TicksAssumption DEF IsBook, Ticks
<1>2. before = stay \cup end
  <2>1. ASSUME NEW p \in b.positions PROVE p \in before <=> p \in stay \cup end
    BY <1>1 DEF Unbroken
  <2> QED BY <2>1
<1>3. after = stay \cup begin
  <2>1. ASSUME NEW p \in b.positions PROVE p \in after <=> p \in stay \cup begin
    BY <1>1 DEF Unbroken
  <2> QED BY <2>1
<1>4. stay \cap end = {} /\ stay \cap begin = {}
  BY <1>1
<1>5. \A s \in SUBSET b.positions : IsFiniteSet(s) /\ Counts(Liquidity(b), s) /\ Sum1(s) \in Nat
  BY PartSum
<1>6. before \in SUBSET b.positions /\ after \in SUBSET b.positions /\ begin \in SUBSET b.positions /\ end \in SUBSET b.positions /\ stay \in SUBSET b.positions
  OBVIOUS
<1>7. LiquidityAt(b, u) = Sum1(after) /\ LiquidityAt(b, t) = Sum1(before) /\ NetAt(b, u) = Sum1(begin) - Sum1(end)
  BY DEF LiquidityAt, NetAt
<1> HIDE DEF before, after, begin, end, stay
<1>8. Sum1(before) = Sum1(stay) + Sum1(end)
  BY <1>2, <1>4, <1>5, <1>6, SumSplits
<1>9. Sum1(after) = Sum1(stay) + Sum1(begin)
  BY <1>3, <1>4, <1>5, <1>6, SumSplits
<1>10. Sum1(stay) \in Nat /\ Sum1(begin) \in Nat /\ Sum1(end) \in Nat
  BY <1>5, <1>6
<1> HIDE DEF Sum1
<1> QED BY <1>7, <1>8, <1>9, <1>10

\* Where no position begins or ends, the liquidity stays.
LEMMA LiquidityStays ==
    ASSUME NEW b, IsBook(b), NEW t \in Int, NEW u \in Int, t <= u, Unbroken(b, t, u + 1)
    PROVE  LiquidityAt(b, u) = LiquidityAt(b, t)
<1>1. \A p \in b.positions : p.lo \in Int /\ p.hi \in Int /\ p.lo < p.hi
  BY TicksAssumption DEF IsBook, Ticks
<1>2. {p \in b.positions : p.lo <= u /\ u < p.hi} = {p \in b.positions : p.lo <= t /\ t < p.hi}
  <2>1. ASSUME NEW p \in b.positions PROVE (p.lo <= u /\ u < p.hi) <=> (p.lo <= t /\ t < p.hi)
    BY <1>1 DEF Unbroken
  <2> QED BY <2>1
<1> QED BY <1>2 DEF LiquidityAt

-----------------------------------------------------------------------------
(* Division and products                                                    *)

\* What is left after a division is less than the divisor.
LEMMA DivBounds ==
    ASSUME NEW x \in Nat, NEW y \in Nat \ {0}
    PROVE  /\ x \div y \in Nat
           /\ (x \div y) * y <= x
           /\ x < (x \div y) * y + y
OBVIOUS

\* An integer is between two multiples.
LEMMA IntDivBounds ==
    ASSUME NEW x \in Int, NEW y \in Nat \ {0}
    PROVE  /\ x \div y \in Int
           /\ (x \div y) * y <= x
           /\ x < (x \div y) * y + y
OBVIOUS

\* A product grows with its factor.
LEMMA TimesMonotone ==
    ASSUME NEW x \in Nat, NEW y \in Nat, NEW z \in Nat, x <= y
    PROVE  /\ x * z \in Nat /\ y * z \in Nat
           /\ x * z <= y * z
           /\ z * x <= z * y
OBVIOUS

\* A common factor can be cancelled.
LEMMA TimesCancel ==
    ASSUME NEW x \in Nat, NEW y \in Nat, NEW z \in Nat \ {0}, x * z <= y * z
    PROVE  x <= y
OBVIOUS

\* A quotient is as large as any number whose product fits.
LEMMA DivAtLeast ==
    ASSUME NEW x \in Nat, NEW y \in Nat \ {0}, NEW q \in Nat, q * y <= x
    PROVE  q <= x \div y
OBVIOUS

\* A quotient rounded up covers the dividend, and is the least that does.
LEMMA DivCeilBounds ==
    ASSUME NEW x \in Nat, NEW y \in Nat \ {0}
    PROVE  /\ div_ceil(x, y) \in Nat /\ x <= div_ceil(x, y) * y
           /\ \A q \in Nat : x <= q * y => div_ceil(x, y) <= q
<1> DEFINE n == x + y - 1
           c == n \div y
<1>1. n \in Nat /\ x = n - y + 1
  OBVIOUS
<1> HIDE DEF n
<1>2. c \in Nat /\ c * y <= n /\ n < c * y + y
  BY <1>1, DivBounds
<1> HIDE DEF c
<1>3. c * y \in Nat
  BY <1>2
<1>4. x <= c * y
  BY <1>1, <1>2, <1>3
<1>5. ASSUME NEW q \in Nat, x <= q * y PROVE c <= q
  <2>1. SUFFICES ASSUME q + 1 <= c PROVE FALSE
    BY <1>2
  <2>2. (q + 1) * y <= c * y
    BY <1>2, <2>1, TimesMonotone
  <2>3. (q + 1) * y = q * y + y /\ q * y \in Nat
    OBVIOUS
  <2> QED BY <1>1, <1>2, <1>3, <1>5, <2>2, <2>3
<1> QED BY <1>2, <1>4, <1>5 DEF div_ceil, c, n

\* A million is not zero.
LEMMA WholeType == PPM \in Nat \ {0}
BY SMT DEF PPM

\* A share of at most the whole, rounded up, is at most the whole.
LEMMA ShareBounds ==
    ASSUME NEW x \in Nat, NEW rate \in 0..(PPM - 1)
    PROVE  /\ div_ceil(x * rate, PPM) \in 0..x
           /\ (x * (PPM - rate)) \div PPM \in 0..x
           /\ div_ceil(x * rate, PPM - rate) \in Nat
<1>0. PPM \in Nat \ {0}
  BY WholeType
<1> DEFINE m == PPM
<1>2. m \in Nat \ {0} /\ rate \in Nat /\ rate < m
  BY <1>0
<1> HIDE DEF m
<1>1. /\ x * rate \in Nat /\ x * rate <= x * m /\ m - rate \in Nat \ {0}
      /\ x * (m - rate) \in Nat /\ x * (m - rate) <= x * m
  <2>1. rate <= m /\ m - rate \in Nat \ {0} /\ m - rate <= m
    BY <1>2
  <2> QED BY <1>2, <2>1, TimesMonotone
<1>4. div_ceil(x * rate, m) \in Nat /\ div_ceil(x * rate, m) <= x
  BY <1>1, <1>2, DivCeilBounds
<1>5. (x * (m - rate)) \div m \in Nat /\ (x * (m - rate)) \div m <= x
  <2> DEFINE y == x * (m - rate)
  <2>1. y \in Nat /\ y <= x * m /\ m \in Nat \ {0}
    BY <1>1, <1>2
  <2> HIDE DEF y
  <2>2. y \div m \in Nat /\ (y \div m) * m <= y
    BY <2>1, DivBounds
  <2>3. (y \div m) * m <= x * m
    <3>1. (y \div m) * m \in Nat /\ x * m \in Nat
      BY <2>1, <2>2
    <3> QED BY <2>1, <2>2, <3>1
  <2>4. y \div m <= x
    BY <2>1, <2>2, <2>3, TimesCancel
  <2> QED BY <2>2, <2>4 DEF y
<1>6. div_ceil(x * rate, m - rate) \in Nat
  BY <1>1, DivCeilBounds
<1> QED BY <1>4, <1>5, <1>6 DEF m

-----------------------------------------------------------------------------
(* Amounts between two prices                                               *)

\* The amounts are numbers.
LEMMA AmountTypes ==
    ASSUME NEW p \in Nat \ {0}, NEW q \in Nat \ {0}, NEW liquidity \in Nat, NEW up \in BOOLEAN
    PROVE  amount0_delta(p, q, liquidity, up) \in Nat /\ amount1_delta(p, q, liquidity, up) \in Nat
<1>1. Gap(p, q) \in Nat
  BY DEF Gap
<1>2. liquidity * Gap(p, q) \in Nat
  BY <1>1
<1>3. liquidity * Gap(p, q) * Q64 \in Nat /\ p * q \in Nat \ {0} /\ Q64 \in Nat \ {0}
  BY <1>2, SqrtPriceAssumption
<1> QED BY <1>2, <1>3, DivBounds, DivCeilBounds DEF amount0_delta, amount1_delta, div_round

\* What a quotient rounded up stays below, and one rounded down stays above.
LEMMA CeilAtMost ==
    ASSUME NEW x \in Nat, NEW y \in Nat \ {0}, NEW c \in Nat
    PROVE  div_ceil(x, y) <= c <=> x <= c * y
<1>1. div_ceil(x, y) \in Nat /\ x <= div_ceil(x, y) * y
  BY DivCeilBounds
<1>2. ASSUME x <= c * y PROVE div_ceil(x, y) <= c
  BY <1>2, DivCeilBounds
<1>3. ASSUME div_ceil(x, y) <= c PROVE x <= c * y
  <2> DEFINE k == div_ceil(x, y)
  <2>1. k \in Nat /\ x <= k * y /\ k <= c
    BY <1>1, <1>3
  <2> HIDE DEF k
  <2>2. k * y <= c * y /\ k * y \in Nat /\ c * y \in Nat
    BY <2>1, TimesMonotone
  <2> QED BY <2>1, <2>2
<1> QED BY <1>2, <1>3

\* A quotient reaches a number exactly if the number times the divisor reaches no further.
LEMMA FloorAtLeast ==
    ASSUME NEW x \in Nat, NEW y \in Nat \ {0}, NEW q \in Nat
    PROVE  q <= x \div y <=> q * y <= x
<1>1. x \div y \in Nat /\ (x \div y) * y <= x
  BY DivBounds
<1>2. ASSUME q <= x \div y PROVE q * y <= x
  <2> DEFINE k == x \div y
  <2>1. k \in Nat /\ k * y <= x /\ q <= k
    BY <1>1, <1>2
  <2> HIDE DEF k
  <2>2. q * y <= k * y /\ k * y \in Nat /\ q * y \in Nat
    BY <2>1, TimesMonotone
  <2> QED BY <2>1, <2>2
<1> QED BY <1>2, DivAtLeast

\* Token a between two prices against a number of tokens; then token b.
LEMMA Amount0Bounds ==
    ASSUME NEW p \in Nat \ {0}, NEW q \in Nat \ {0}, p <= q, NEW liquidity \in Nat, NEW c \in Nat
    PROVE  /\ amount0_delta(p, q, liquidity, TRUE) <= c <=> (liquidity * Q64) * (q - p) <= c * (p * q)
           /\ amount0_delta(q, p, liquidity, TRUE) <= c <=> (liquidity * Q64) * (q - p) <= c * (p * q)
           /\ c <= amount0_delta(p, q, liquidity, FALSE) <=> c * (p * q) <= (liquidity * Q64) * (q - p)
           /\ c <= amount0_delta(q, p, liquidity, FALSE) <=> c * (p * q) <= (liquidity * Q64) * (q - p)
<1> DEFINE g == q - p
           k == liquidity * Q64
           pq == p * q
<1>1. g \in Nat /\ k \in Nat /\ pq \in Nat \ {0} /\ Gap(p, q) = g /\ Gap(q, p) = g /\ q * p = pq
  BY SqrtPriceAssumption DEF Gap
<1>2. liquidity * g * Q64 = k * g
  BY <1>1, SqrtPriceAssumption
<1>3. k * g \in Nat
  BY <1>1
<1> HIDE DEF g, k, pq
<1> DEFINE x == k * g
<1>4. /\ amount0_delta(p, q, liquidity, TRUE) = div_ceil(x, pq) /\ amount0_delta(q, p, liquidity, TRUE) = div_ceil(x, pq)
      /\ amount0_delta(p, q, liquidity, FALSE) = x \div pq /\ amount0_delta(q, p, liquidity, FALSE) = x \div pq
  <2>1. p * q = pq
    BY DEF pq
  <2> QED BY <1>1, <1>2, <2>1 DEF amount0_delta, div_round
<1> HIDE DEF x
<1>5. x \in Nat
  BY <1>3 DEF x
<1>6. (div_ceil(x, pq) <= c <=> x <= c * pq) /\ (c <= x \div pq <=> c * pq <= x)
  BY <1>1, <1>5, CeilAtMost, FloorAtLeast
<1> QED BY <1>4, <1>6 DEF x, k, g, pq

\* When the amount of the second token, rounded either way, is within a bound or reaches it.
LEMMA Amount1Bounds ==
    ASSUME NEW p \in Nat \ {0}, NEW q \in Nat \ {0}, p <= q, NEW liquidity \in Nat, NEW c \in Nat
    PROVE  /\ amount1_delta(p, q, liquidity, TRUE) <= c <=> liquidity * (q - p) <= c * Q64
           /\ amount1_delta(q, p, liquidity, TRUE) <= c <=> liquidity * (q - p) <= c * Q64
           /\ c <= amount1_delta(p, q, liquidity, FALSE) <=> c * Q64 <= liquidity * (q - p)
           /\ c <= amount1_delta(q, p, liquidity, FALSE) <=> c * Q64 <= liquidity * (q - p)
<1> DEFINE g == q - p
           x == liquidity * g
<1>1. g \in Nat /\ x \in Nat /\ Gap(p, q) = g /\ Gap(q, p) = g /\ Q64 \in Nat \ {0}
  BY SqrtPriceAssumption DEF Gap
<1>2. /\ amount1_delta(p, q, liquidity, TRUE) = div_ceil(x, Q64) /\ amount1_delta(q, p, liquidity, TRUE) = div_ceil(x, Q64)
      /\ amount1_delta(p, q, liquidity, FALSE) = x \div Q64 /\ amount1_delta(q, p, liquidity, FALSE) = x \div Q64
  BY <1>1 DEF amount1_delta, div_round
<1> HIDE DEF x
<1>3. (div_ceil(x, Q64) <= c <=> x <= c * Q64) /\ (c <= x \div Q64 <=> c * Q64 <= x)
  BY <1>1, CeilAtMost, FloorAtLeast
<1> QED BY <1>2, <1>3 DEF x, g

\* A price moves this way.
Toward(p, q, a_to_b) == IF a_to_b THEN q <= p ELSE p <= q

\* The amounts of a step are numbers.
LEMMA DeltaTypes ==
    ASSUME NEW p \in Nat \ {0}, NEW q \in Nat \ {0}, NEW liquidity \in Nat, NEW a_to_b \in BOOLEAN
    PROVE  deltas_to(p, q, liquidity, a_to_b).in \in Nat /\ deltas_to(p, q, liquidity, a_to_b).out \in Nat
BY AmountTypes DEF deltas_to

\* The price an amount leads to lies ahead.
LEMMA NextPrice ==
    ASSUME NEW p \in Nat \ {0}, NEW liquidity \in Nat \ {0}, NEW amount \in Nat, NEW a_to_b \in BOOLEAN
    PROVE  /\ next_sqrt_price_from_input(p, liquidity, amount, a_to_b) \in Nat \ {0}
           /\ Toward(p, next_sqrt_price_from_input(p, liquidity, amount, a_to_b), a_to_b)
<1> DEFINE next == next_sqrt_price_from_input(p, liquidity, amount, a_to_b)
           k == liquidity * Q64
<1>0. k \in Nat \ {0} /\ Q64 \in Nat \ {0}
  BY SqrtPriceAssumption
<1>1. CASE a_to_b
  <2> DEFINE x == k * p
             y == k + amount * p
  <2>1. x \in Nat \ {0} /\ y \in Nat \ {0}
    BY <1>0
  <2>2. next = div_ceil(x, y)
    BY <1>1 DEF next_sqrt_price_from_input
  <2>3. div_ceil(x, y) \in Nat /\ x <= div_ceil(x, y) * y
    BY <2>1, DivCeilBounds
  <2>4. x <= p * y
    <3>1. amount * p \in Nat /\ p * (amount * p) \in Nat
      OBVIOUS
    <3> HIDE DEF k
    <3>2. p * y = k * p + p * (amount * p)
      BY <1>0
    <3>3. k * p \in Nat
      BY <1>0
    <3> QED BY <3>1, <3>2, <3>3
  <2> HIDE DEF x, y, next, k
  <2>5. next # 0
    <3> SUFFICES ASSUME next = 0 PROVE FALSE
      OBVIOUS
    <3>1. x <= 0 * y
      BY <2>2, <2>3
    <3> QED BY <2>1, <3>1
  <2>6. next \in Nat \ {0} /\ next <= p
    BY <2>1, <2>2, <2>3, <2>4, <2>5, CeilAtMost
  <2> QED BY <1>1, <2>6 DEF Toward, next
<1>2. CASE ~a_to_b
  <2> DEFINE x == amount * Q64
  <2>1. x \in Nat
    BY <1>0
  <2>2. next = p + x \div liquidity /\ x \div liquidity \in Nat
    BY <1>2, <2>1, DivBounds DEF next_sqrt_price_from_input
  <2> HIDE DEF x, next
  <2>3. next \in Nat \ {0} /\ p <= next
    BY <2>2
  <2> QED BY <1>2, <2>3 DEF Toward, next
<1> QED BY <1>1, <1>2

\* It is beyond every price that the amount suffices for, and before the others.
LEMMA NextReaches ==
    ASSUME NEW p \in Nat \ {0}, NEW liquidity \in Nat \ {0}, NEW amount \in Nat, NEW a_to_b \in BOOLEAN,
           NEW t \in Nat \ {0}, Toward(p, t, a_to_b)
    PROVE  deltas_to(p, t, liquidity, a_to_b).in <= amount
           <=> Toward(t, next_sqrt_price_from_input(p, liquidity, amount, a_to_b), a_to_b)
<1> DEFINE next == next_sqrt_price_from_input(p, liquidity, amount, a_to_b)
           k == liquidity * Q64
<1>0. k \in Nat \ {0} /\ Q64 \in Nat \ {0}
  BY SqrtPriceAssumption
<1>1. CASE a_to_b
  <2> DEFINE x == k * p
             y == k + amount * p
             r == t * (amount * p)
             kt == k * t
  <2>0. t <= p
    BY <1>1 DEF Toward
  <2>1. x \in Nat \ {0} /\ y \in Nat \ {0} /\ r \in Nat /\ kt \in Nat
    BY <1>0
  <2>2. next = div_ceil(x, y)
    BY <1>1 DEF next_sqrt_price_from_input
  <2>3. deltas_to(p, t, liquidity, a_to_b).in = amount0_delta(t, p, liquidity, TRUE)
    BY <1>1 DEF deltas_to
  <2>4. amount0_delta(t, p, liquidity, TRUE) <= amount <=> k * (p - t) <= amount * (t * p)
    BY <2>0, Amount0Bounds
  <2>5. amount * (t * p) = r
    OBVIOUS
  <2>6. k * (p - t) = x - kt /\ t * y = kt + r
    <3> HIDE DEF k
    <3> QED BY <1>0
  <2>7. deltas_to(p, t, liquidity, a_to_b).in <= amount <=> x - kt <= r
    BY <2>3, <2>4, <2>5, <2>6
  <2>8. next <= t <=> x <= t * y
    <3> HIDE DEF x, y, next
    <3> QED BY <2>1, <2>2, CeilAtMost
  <2> HIDE DEF x, y, r, kt, next, k
  <2>9. x - kt <= r <=> x <= t * y
    BY <2>1, <2>6
  <2>10. deltas_to(p, t, liquidity, a_to_b).in <= amount <=> next <= t
    BY <2>7, <2>8, <2>9
  <2> QED BY <1>1, <2>10 DEF Toward, next
<1>2. CASE ~a_to_b
  <2> DEFINE x == amount * Q64
  <2>0. p <= t /\ t - p \in Nat
    BY <1>2 DEF Toward
  <2>1. x \in Nat
    BY <1>0
  <2>2. next = p + x \div liquidity /\ x \div liquidity \in Nat
    BY <1>2, <2>1, DivBounds DEF next_sqrt_price_from_input
  <2>3. deltas_to(p, t, liquidity, a_to_b).in <= amount <=> liquidity * (t - p) <= x
    <3>1. deltas_to(p, t, liquidity, a_to_b).in = amount1_delta(p, t, liquidity, TRUE)
      BY <1>2 DEF deltas_to
    <3> QED BY <2>0, <3>1, Amount1Bounds
  <2> HIDE DEF x, next, k
  <2>4. t - p <= x \div liquidity <=> (t - p) * liquidity <= x
    BY <2>0, <2>1, FloorAtLeast
  <2>5. (t - p) * liquidity = liquidity * (t - p)
    BY <2>0
  <2>6. t <= next <=> t - p <= x \div liquidity
    BY <2>2
  <2>7. deltas_to(p, t, liquidity, a_to_b).in <= amount <=> t <= next
    BY <2>3, <2>4, <2>5, <2>6
  <2> QED BY <1>2, <2>7 DEF Toward, next
<1> QED BY <1>1, <1>2

\* Farther costs no less and yields no less.
LEMMA DeltasMonotone ==
    ASSUME NEW p \in Nat \ {0}, NEW t \in Nat \ {0}, NEW u \in Nat \ {0}, NEW liquidity \in Nat \ {0}, NEW a_to_b \in BOOLEAN,
           Toward(p, t, a_to_b), Toward(t, u, a_to_b)
    PROVE  /\ deltas_to(p, t, liquidity, a_to_b).in <= deltas_to(p, u, liquidity, a_to_b).in
           /\ deltas_to(p, t, liquidity, a_to_b).out <= deltas_to(p, u, liquidity, a_to_b).out
<1>1. Toward(p, u, a_to_b)
  BY DEF Toward
<1>2. ASSUME NEW amount \in Nat, deltas_to(p, u, liquidity, a_to_b).in <= amount
      PROVE  deltas_to(p, t, liquidity, a_to_b).in <= amount
  <2> DEFINE next == next_sqrt_price_from_input(p, liquidity, amount, a_to_b)
  <2>1. Toward(u, next, a_to_b)
    BY <1>1, <1>2, NextReaches
  <2>2. next \in Nat \ {0}
    BY NextPrice
  <2> HIDE DEF next
  <2>3. Toward(t, next, a_to_b)
    BY <2>1, <2>2 DEF Toward
  <2> QED BY <2>3, NextReaches DEF next
<1>5. deltas_to(p, t, liquidity, a_to_b).in <= deltas_to(p, u, liquidity, a_to_b).in
  <2> DEFINE in2 == deltas_to(p, u, liquidity, a_to_b).in
  <2>1. in2 \in Nat
    BY DeltaTypes
  <2>2. in2 <= in2
    <3> HIDE DEF in2
    <3> QED BY <2>1
  <2> QED BY <1>2, <2>1, <2>2
<1>3. CASE a_to_b
  <2>1. u <= t /\ t <= p
    BY <1>3 DEF Toward
  <2>2. deltas_to(p, t, liquidity, a_to_b).out = amount1_delta(t, p, liquidity, FALSE)
        /\ deltas_to(p, u, liquidity, a_to_b).out = amount1_delta(u, p, liquidity, FALSE)
    BY <1>3 DEF deltas_to
  <2> DEFINE c == amount1_delta(t, p, liquidity, FALSE)
  <2>3. c \in Nat
    BY AmountTypes
  <2>4. c * Q64 <= liquidity * (p - t)
    <3>1. liquidity \in Nat /\ t <= p
      BY <2>1
    <3>2. c <= c
      <4> HIDE DEF c
      <4> QED BY <2>3
    <3> QED BY <2>3, <3>1, <3>2, Amount1Bounds
  <2> HIDE DEF c
  <2>5. liquidity * (p - t) <= liquidity * (p - u)
    <3>1. p - t \in Nat /\ p - u \in Nat /\ p - t <= p - u
      BY <2>1
    <3> QED BY <3>1, TimesMonotone
  <2>6. c * Q64 <= liquidity * (p - u)
    <3>1. c * Q64 \in Int /\ liquidity * (p - t) \in Int /\ liquidity * (p - u) \in Int
      BY <2>3, SqrtPriceAssumption
    <3> QED BY <2>4, <2>5, <3>1
  <2>7. c <= amount1_delta(u, p, liquidity, FALSE)
    <3>1. u <= p
      BY <2>1
    <3> QED BY <2>3, <2>6, <3>1, Amount1Bounds
  <2> QED BY <1>5, <2>2, <2>3, <2>7 DEF c
<1>4. CASE ~a_to_b
  <2>1. p <= t /\ t <= u
    BY <1>4 DEF Toward
  <2>2. deltas_to(p, t, liquidity, a_to_b).out = amount0_delta(p, t, liquidity, FALSE)
        /\ deltas_to(p, u, liquidity, a_to_b).out = amount0_delta(p, u, liquidity, FALSE)
    BY <1>4 DEF deltas_to
  <2> DEFINE c == amount0_delta(p, t, liquidity, FALSE)
  <2>3. c \in Nat
    BY AmountTypes
  <2> DEFINE k == liquidity * Q64
             cp == c * p
  <2>4. k \in Nat \ {0} /\ cp \in Nat
    <3> HIDE DEF c
    <3> QED BY <2>3, SqrtPriceAssumption
  <2>5. c * (p * t) <= k * (t - p)
    <3>1. liquidity \in Nat /\ p <= t
      BY <2>1
    <3>2. c <= c
      <4> HIDE DEF c
      <4> QED BY <2>3
    <3> QED BY <2>3, <3>1, <3>2, Amount0Bounds
  <2>6. c * (p * t) = cp * t /\ c * (p * u) = cp * u
    <3> HIDE DEF c
    <3> QED BY <2>3
  <2> HIDE DEF c, k, cp
  <2>7. k * (t - p) <= k * t
    <3>1. k * p \in Nat /\ k * t \in Nat /\ k * (t - p) = k * t - k * p
      BY <2>4
    <3> QED BY <3>1
  <2>8. cp <= k
    <3>1. cp * t <= k * t
      <4>1. cp * t \in Int /\ k * (t - p) \in Int /\ k * t \in Int
        BY <2>4
      <4> QED BY <2>5, <2>6, <2>7, <4>1
    <3> QED BY <2>4, <3>1, TimesCancel
  <2>9. cp * u <= k * (u - p)
    <3>1. u - t \in Nat
      BY <2>1
    <3>2. cp * (u - t) <= k * (u - t)
      BY <2>4, <2>8, <3>1, TimesMonotone
    <3>3. cp * (u - t) = cp * u - cp * t /\ k * (u - t) = k * u - k * t /\ k * (u - p) = k * u - k * p /\ k * (t - p) = k * t - k * p
      BY <2>4
    <3>4. cp * u \in Nat /\ cp * t \in Nat /\ k * u \in Nat /\ k * t \in Nat /\ k * p \in Nat
      BY <2>4
    <3> QED BY <2>5, <2>6, <3>2, <3>3, <3>4
  <2>10. c <= amount0_delta(p, u, liquidity, FALSE)
    <3>1. p <= u
      BY <2>1
    <3>2. c * (p * u) <= (liquidity * Q64) * (u - p)
      BY <2>6, <2>9 DEF k
    <3> QED BY <2>3, <3>1, <3>2, Amount0Bounds
  <2> QED BY <1>5, <2>2, <2>3, <2>10 DEF c
<1> QED BY <1>3, <1>4

\* What an input costs with the fee on it, and what is left of an output after the fee.
Cost(in, rate, on_input) == in + (IF on_input THEN fee_within(in, rate) ELSE 0)
Net(out, rate, on_input) == IF on_input THEN out ELSE out - div_ceil(out * rate, PPM)

\* With its fee an input costs no less, and no more than there was when what is left after the fee covers it.
LEMMA CostBounds ==
    ASSUME NEW in \in Nat, NEW remaining \in Nat, NEW rate \in 0..(PPM - 1), NEW on_input \in BOOLEAN
    PROVE  /\ Cost(in, rate, on_input) \in Nat /\ in <= Cost(in, rate, on_input)
           /\ ForPrice(remaining, rate, on_input) \in 0..remaining
           /\ in <= ForPrice(remaining, rate, on_input) => Cost(in, rate, on_input) <= remaining
<1> DEFINE m == PPM
           k == PPM - rate
           f == div_ceil(in * rate, PPM - rate)
           a == (remaining * (PPM - rate)) \div PPM
<1>1. m \in Nat \ {0} /\ k \in Nat \ {0} /\ rate \in Nat /\ m = k + rate
  BY WholeType
<1>2. f \in Nat /\ a \in 0..remaining
  BY ShareBounds
<1>3. ASSUME in <= a PROVE in + f <= remaining
  <2>1. k = PPM - rate /\ m = PPM
    OBVIOUS
  <2> HIDE DEF m, k
  <2>2. in * m <= remaining * k
    <3>1. remaining * k \in Nat
      BY <1>1
    <3>2. in <= (remaining * k) \div m
      BY <1>3, <2>1
    <3> QED BY <1>1, <3>1, <3>2, FloorAtLeast
  <2>3. in * m = in * k + in * rate /\ in * k \in Nat /\ in * rate \in Nat /\ remaining * k \in Nat /\ in * m \in Nat
    BY <1>1
  <2>4. in * k <= remaining * k
    BY <2>2, <2>3
  <2>5. in <= remaining
    BY <1>1, <2>4, TimesCancel
  <2>6. (remaining - in) * k = remaining * k - in * k /\ remaining - in \in Nat
    BY <1>1, <2>5
  <2>7. in * rate <= (remaining - in) * k
    BY <2>2, <2>3, <2>6
  <2>8. div_ceil(in * rate, k) <= remaining - in
    BY <1>1, <2>3, <2>6, <2>7, CeilAtMost
  <2>9. f <= remaining - in
    BY <2>1, <2>8
  <2> HIDE DEF f
  <2> QED BY <1>2, <2>6, <2>9
<1>4. fee_within(in, rate) = f
  BY DEF fee_within
<1>5. ForPrice(remaining, rate, on_input) = IF on_input THEN a ELSE remaining
  BY DEF ForPrice
<1>6. Cost(in, rate, on_input) = IF on_input THEN in + f ELSE in
  BY <1>4 DEF Cost
<1> HIDE DEF f, a
<1> QED BY <1>2, <1>3, <1>5, <1>6

\* An output less its fee is a number.
LEMMA NetBounds ==
    ASSUME NEW out \in Nat, NEW rate \in 0..(PPM - 1), NEW on_input \in BOOLEAN
    PROVE  Net(out, rate, on_input) \in Nat
<1> DEFINE f == div_ceil(out * rate, PPM)
<1>1. f \in 0..out
  BY ShareBounds
<1>2. Net(out, rate, on_input) = IF on_input THEN out ELSE out - f
  BY DEF Net
<1> HIDE DEF f
<1> QED BY <1>1, <1>2

\* More input costs no less, and of more output no less is left.
LEMMA CostMonotone ==
    ASSUME NEW x \in Nat, NEW y \in Nat, x <= y, NEW rate \in 0..(PPM - 1), NEW on_input \in BOOLEAN
    PROVE  /\ Cost(x, rate, on_input) <= Cost(y, rate, on_input)
           /\ Net(x, rate, on_input) <= Net(y, rate, on_input)
<1> DEFINE m == PPM
           k == PPM - rate
<1>1. m \in Nat \ {0} /\ k \in Nat \ {0} /\ rate \in Nat /\ rate <= m
  BY WholeType
<1>2. k = PPM - rate /\ m = PPM
  OBVIOUS
<1> HIDE DEF m, k
<1>3. x * rate \in Nat /\ y * rate \in Nat /\ x * rate <= y * rate
  BY <1>1, TimesMonotone
<1> DEFINE xr == x * rate
           yr == y * rate
<1>4. div_ceil(xr, k) \in Nat /\ div_ceil(yr, k) \in Nat /\ yr <= div_ceil(yr, k) * k
      /\ div_ceil(xr, m) \in Nat /\ div_ceil(yr, m) \in Nat /\ xr <= div_ceil(xr, m) * m
  BY <1>1, <1>3, DivCeilBounds
<1>5. div_ceil(xr, k) <= div_ceil(yr, k)
  <2> DEFINE c == div_ceil(yr, k)
  <2>1. c \in Nat /\ yr <= c * k
    BY <1>4
  <2>2. xr \in Nat /\ yr \in Nat /\ xr <= yr
    BY <1>3
  <2> HIDE DEF c, xr, yr
  <2>3. xr <= c * k
    <3>1. c * k \in Nat
      BY <1>1, <2>1
    <3> QED BY <2>1, <2>2, <3>1
  <2>4. div_ceil(xr, k) <= c
    BY <1>1, <2>1, <2>2, <2>3, CeilAtMost
  <2> QED BY <2>4 DEF c
<1>6. div_ceil(yr, m) <= div_ceil(xr, m) + (y - x)
  <2> DEFINE c == div_ceil(xr, m)
             d == y - x
  <2>1. c \in Nat /\ xr <= c * m /\ d \in Nat
    BY <1>4
  <2>2. xr \in Nat /\ yr \in Nat
    BY <1>3
  <2>3. yr = xr + d * rate
    BY <1>1
  <2> HIDE DEF c, d, xr, yr
  <2>4. rate * d <= m * d /\ rate * d \in Nat /\ m * d \in Nat
    BY <1>1, <2>1, TimesMonotone
  <2>5. (c + d) * m = c * m + m * d /\ d * rate = rate * d /\ c * m \in Nat
    BY <1>1, <2>1
  <2>6. yr <= (c + d) * m
    BY <2>1, <2>2, <2>3, <2>4, <2>5
  <2>7. div_ceil(yr, m) <= c + d
    BY <1>1, <2>1, <2>2, <2>6, CeilAtMost
  <2> QED BY <2>7 DEF c, d
<1>7. Cost(x, rate, on_input) = (IF on_input THEN x + div_ceil(xr, k) ELSE x + 0)
      /\ Cost(y, rate, on_input) = (IF on_input THEN y + div_ceil(yr, k) ELSE y + 0)
      /\ Net(x, rate, on_input) = (IF on_input THEN x ELSE x - div_ceil(xr, m))
      /\ Net(y, rate, on_input) = (IF on_input THEN y ELSE y - div_ceil(yr, m))
  BY <1>2 DEF Cost, Net, fee_within
<1> HIDE DEF xr, yr
<1> QED BY <1>4, <1>5, <1>6, <1>7

\* A step that the program takes: what it uses and gets.
LEMMA StepToTaken ==
    ASSUME NEW next \in Nat \ {0}, NEW target \in Nat \ {0}, NEW d, d.in \in Nat, d.out \in Nat, NEW remaining \in Nat,
           NEW rate \in 0..(PPM - 1), NEW a_to_b \in BOOLEAN, NEW on_input \in BOOLEAN,
           StepTo(next, d, target, remaining, rate, a_to_b, on_input) # NoStep
    PROVE  /\ StepTo(next, d, target, remaining, rate, a_to_b, on_input)
              = [next |-> next, used |-> IF next = target THEN Cost(d.in, rate, on_input) ELSE remaining, got |-> Net(d.out, rate, on_input)]
           /\ Toward(next, target, a_to_b)
           /\ (IF next = target THEN Cost(d.in, rate, on_input) ELSE remaining) \in 0..remaining
           /\ Net(d.out, rate, on_input) \in Nat
           /\ Deliverable(d)
<1> DEFINE used == IF next = target THEN Cost(d.in, rate, on_input) ELSE remaining
<1>1. Cost(d.in, rate, on_input) \in Nat
  BY CostBounds
<1>2. Net(d.out, rate, on_input) \in Nat
  BY NetBounds
<1>3. StepTo(next, d, target, remaining, rate, a_to_b, on_input)
      = IF \/ ~Deliverable(d) \/ Past(next, target, a_to_b)
           \/ used > remaining \/ (on_input /\ d.in > remaining)
        THEN NoStep ELSE [next |-> next, used |-> used, got |-> Net(d.out, rate, on_input)]
  BY DEF StepTo, Cost, Net
<1>4. used \in Nat
  BY <1>1
<1> HIDE DEF used
<1>5. Deliverable(d) /\ ~Past(next, target, a_to_b) /\ ~(used > remaining)
      /\ StepTo(next, d, target, remaining, rate, a_to_b, on_input) = [next |-> next, used |-> used, got |-> Net(d.out, rate, on_input)]
  BY <1>3
<1>6. used \in 0..remaining
  BY <1>4, <1>5
<1>7. Toward(next, target, a_to_b)
  BY <1>5 DEF Past, Toward
<1> QED BY <1>2, <1>5, <1>6, <1>7 DEF used

\* When a step that deliverable amounts make stands, and what it uses and gets.
LEMMA StepToStands ==
    ASSUME NEW next \in Nat \ {0}, NEW target \in Nat \ {0}, NEW d, d.in \in Nat, d.out \in Nat, NEW remaining \in Nat,
           NEW rate \in 0..(PPM - 1), NEW a_to_b \in BOOLEAN, NEW on_input \in BOOLEAN,
           Deliverable(d), Toward(next, target, a_to_b), d.in <= remaining,
           next = target => Cost(d.in, rate, on_input) <= remaining
    PROVE  /\ StepTo(next, d, target, remaining, rate, a_to_b, on_input)
              = [next |-> next, used |-> IF next = target THEN Cost(d.in, rate, on_input) ELSE remaining, got |-> Net(d.out, rate, on_input)]
           /\ StepTo(next, d, target, remaining, rate, a_to_b, on_input) # NoStep
<1> DEFINE used == IF next = target THEN Cost(d.in, rate, on_input) ELSE remaining
<1>1. Cost(d.in, rate, on_input) \in Nat
  BY CostBounds
<1>3. StepTo(next, d, target, remaining, rate, a_to_b, on_input)
      = IF \/ ~Deliverable(d) \/ Past(next, target, a_to_b)
           \/ used > remaining \/ (on_input /\ d.in > remaining)
        THEN NoStep ELSE [next |-> next, used |-> used, got |-> Net(d.out, rate, on_input)]
  BY DEF StepTo, Cost, Net
<1>4. ~(used > remaining) /\ ~(d.in > remaining)
  BY <1>1
<1>5. ~Past(next, target, a_to_b)
  BY DEF Past, Toward
<1> HIDE DEF used
<1>6. StepTo(next, d, target, remaining, rate, a_to_b, on_input) = [next |-> next, used |-> used, got |-> Net(d.out, rate, on_input)]
  BY <1>3, <1>4, <1>5
<1>7. [next |-> next, used |-> used, got |-> Net(d.out, rate, on_input)].next = next /\ NoStep.next = 0
  BY DEF NoStep
<1>8. StepTo(next, d, target, remaining, rate, a_to_b, on_input) # NoStep
  BY <1>6, <1>7
<1> QED BY <1>6, <1>8 DEF used

\* A step that is taken stays on its way, uses what there is and stops short only
\* when nothing is left.
LEMMA StepFair ==
    ASSUME NEW p \in Nat \ {0}, NEW target \in Nat \ {0}, NEW liquidity \in Nat \ {0}, NEW remaining \in Nat,
           NEW rate \in 0..(PPM - 1), NEW a_to_b \in BOOLEAN, NEW on_input \in BOOLEAN, Toward(p, target, a_to_b),
           NEW s, s = swap_step(p, target, liquidity, remaining, rate, a_to_b, on_input), s # NoStep
    PROVE  /\ s.next \in Nat \ {0} /\ Toward(p, s.next, a_to_b) /\ Toward(s.next, target, a_to_b)
           /\ s.used \in 0..remaining /\ s.got \in Nat
           /\ s.used < remaining => s.next = target
<1> DEFINE amount == ForPrice(remaining, rate, on_input)
           whole == deltas_to(p, target, liquidity, a_to_b)
           next == next_sqrt_price_from_input(p, liquidity, amount, a_to_b)
           d == deltas_to(p, next, liquidity, a_to_b)
<1>0. liquidity \in Nat /\ amount \in Nat
  BY CostBounds
<1>1. whole.in \in Nat /\ whole.out \in Nat
  BY <1>0, DeltaTypes
<1>2. next \in Nat \ {0} /\ Toward(p, next, a_to_b)
  <2> HIDE DEF amount
  <2>1. next \in Nat \ {0}
    BY <1>0, NextPrice
  <2>2. Toward(p, next, a_to_b)
    BY <1>0, NextPrice
  <2> HIDE DEF next
  <2> QED BY <2>1, <2>2
<1>3. d.in \in Nat /\ d.out \in Nat
  <2> HIDE DEF next
  <2> QED BY <1>0, <1>2, DeltaTypes
<1>4. s = IF Deliverable(whole) /\ amount >= whole.in
          THEN StepTo(target, whole, target, remaining, rate, a_to_b, on_input)
          ELSE StepTo(next, d, target, remaining, rate, a_to_b, on_input)
  BY DEF swap_step, StepInside
<1> HIDE DEF amount, whole, next, d
<1>5. CASE s = StepTo(target, whole, target, remaining, rate, a_to_b, on_input)
  <2> DEFINE used == Cost(whole.in, rate, on_input)
             got == Net(whole.out, rate, on_input)
  <2>1. s = [next |-> target, used |-> used, got |-> got] /\ used \in 0..remaining /\ got \in Nat
    BY <1>1, <1>5, StepToTaken
  <2> HIDE DEF used, got
  <2>2. s.next = target /\ s.used = used /\ s.got = got
    BY <2>1
  <2>3. Toward(target, target, a_to_b)
    BY DEF Toward
  <2> QED BY <2>1, <2>2, <2>3
<1>6. CASE s = StepTo(next, d, target, remaining, rate, a_to_b, on_input)
  <2> DEFINE used == IF next = target THEN Cost(d.in, rate, on_input) ELSE remaining
             got == Net(d.out, rate, on_input)
  <2>1. s = [next |-> next, used |-> used, got |-> got] /\ used \in 0..remaining /\ got \in Nat /\ Toward(next, target, a_to_b)
    BY <1>2, <1>3, <1>6, StepToTaken
  <2>2. used < remaining => next = target
    OBVIOUS
  <2> HIDE DEF used, got
  <2>3. s.next = next /\ s.used = used /\ s.got = got
    BY <2>1
  <2> QED BY <1>2, <2>1, <2>2, <2>3
<1> QED BY <1>4, <1>5, <1>6

\* Toward a farther price the step is the same, or uses and gets no less.
LEMMA StepFarther ==
    ASSUME NEW p \in Nat \ {0}, NEW t \in Nat \ {0}, NEW u \in Nat \ {0}, NEW liquidity \in Nat \ {0}, NEW remaining \in 0..U64,
           NEW rate \in 0..(PPM - 1), NEW a_to_b \in BOOLEAN, NEW on_input \in BOOLEAN,
           Toward(p, t, a_to_b), Toward(t, u, a_to_b), t # u,
           deltas_to(p, u, liquidity, a_to_b).out <= U64,
           NEW near, near = swap_step(p, t, liquidity, remaining, rate, a_to_b, on_input), near # NoStep,
           NEW far, far = swap_step(p, u, liquidity, remaining, rate, a_to_b, on_input)
    PROVE  /\ far # NoStep
           /\ \/ near.next # t /\ far = near /\ far.next # u
              \/ near.next = t /\ near.used <= far.used /\ near.got <= far.got
<1> DEFINE amount == ForPrice(remaining, rate, on_input)
           whole_t == deltas_to(p, t, liquidity, a_to_b)
           whole_u == deltas_to(p, u, liquidity, a_to_b)
           next == next_sqrt_price_from_input(p, liquidity, amount, a_to_b)
           d == deltas_to(p, next, liquidity, a_to_b)
<1>0. liquidity \in Nat /\ remaining \in Nat /\ remaining <= U64 /\ U64 \in Nat
  BY SqrtPriceAssumption
<1>1. amount \in Nat /\ amount <= remaining
  BY <1>0, CostBounds
<1>2. whole_t.in \in Nat /\ whole_t.out \in Nat /\ whole_u.in \in Nat /\ whole_u.out \in Nat
  BY <1>0, DeltaTypes
<1>3. whole_t.in <= whole_u.in /\ whole_t.out <= whole_u.out
  BY DeltasMonotone
<1>4. next \in Nat \ {0} /\ Toward(p, next, a_to_b)
  <2> HIDE DEF amount
  <2>1. next \in Nat \ {0}
    BY <1>1, NextPrice
  <2>2. Toward(p, next, a_to_b)
    BY <1>1, NextPrice
  <2> HIDE DEF next
  <2> QED BY <2>1, <2>2
<1>5. d.in \in Nat /\ d.out \in Nat
  <2> HIDE DEF next
  <2> QED BY <1>0, <1>4, DeltaTypes
<1>6. whole_t.in <= amount <=> Toward(t, next, a_to_b)
  <2> HIDE DEF amount
  <2> QED BY <1>1, NextReaches
<1>7. whole_u.in <= amount <=> Toward(u, next, a_to_b)
  <2>1. Toward(p, u, a_to_b)
    BY DEF Toward
  <2> HIDE DEF amount
  <2> QED BY <1>1, <2>1, NextReaches
<1>8. d.in <= amount
  <2>1. Toward(next, next, a_to_b)
    BY <1>4 DEF Toward
  <2>2. ASSUME NEW x \in Nat, NEW q \in Nat \ {0}, Toward(p, q, a_to_b), q = next_sqrt_price_from_input(p, liquidity, x, a_to_b)
        PROVE  deltas_to(p, q, liquidity, a_to_b).in <= x
    <3>1. Toward(q, q, a_to_b)
      BY DEF Toward
    <3> QED BY <2>2, <3>1, NextReaches
  <2> HIDE DEF amount
  <2> QED BY <1>1, <1>4, <2>2
<1>9. near = IF Deliverable(whole_t) /\ amount >= whole_t.in
             THEN StepTo(t, whole_t, t, remaining, rate, a_to_b, on_input)
             ELSE StepTo(next, d, t, remaining, rate, a_to_b, on_input)
  BY DEF swap_step, StepInside
<1>10. far = IF Deliverable(whole_u) /\ amount >= whole_u.in
             THEN StepTo(u, whole_u, u, remaining, rate, a_to_b, on_input)
             ELSE StepTo(next, d, u, remaining, rate, a_to_b, on_input)
  BY DEF swap_step, StepInside
<1>11. whole_u.out <= U64
  OBVIOUS
<1>12. whole_t.in <= amount => Cost(whole_t.in, rate, on_input) <= remaining
  <2> HIDE DEF whole_t
  <2> QED BY <1>0, <1>2, CostBounds
<1>13. whole_u.in <= amount => Cost(whole_u.in, rate, on_input) <= remaining
  <2> HIDE DEF whole_u
  <2> QED BY <1>0, <1>2, CostBounds
<1>14. /\ Toward(t, t, a_to_b) /\ Toward(u, u, a_to_b)
       /\ ~Toward(t, next, a_to_b) => next # t /\ next # u /\ Toward(next, t, a_to_b) /\ Toward(next, u, a_to_b)
       /\ ~Toward(u, next, a_to_b) => next # u /\ Toward(next, u, a_to_b)
  <2> HIDE DEF next
  <2> QED BY <1>4 DEF Toward
<1>15. ~Toward(u, next, a_to_b) => d.out <= whole_u.out
  <2> SUFFICES ASSUME ~Toward(u, next, a_to_b) PROVE d.out <= whole_u.out
    OBVIOUS
  <2>1. Toward(next, u, a_to_b)
    BY <1>14
  <2> HIDE DEF next
  <2> QED BY <1>4, <2>1, DeltasMonotone
<1>16. Toward(t, next, a_to_b) => whole_t.out <= d.out
  <2> SUFFICES ASSUME Toward(t, next, a_to_b) PROVE whole_t.out <= d.out
    OBVIOUS
  <2> HIDE DEF next
  <2> QED BY <1>4, DeltasMonotone
<1> HIDE DEF amount, whole_t, whole_u, next, d
<1> DEFINE Taken1(x, e, target) == [next |-> x, used |-> IF x = target THEN Cost(e.in, rate, on_input) ELSE remaining, got |-> Net(e.out, rate, on_input)]
\* Both get where they are going.
<1>17. CASE whole_u.in <= amount
  <2>1. whole_t.in <= amount /\ Deliverable(whole_u) /\ Deliverable(whole_t)
    BY <1>0, <1>1, <1>2, <1>3, <1>11, <1>17 DEF Deliverable
  <2>2. near = StepTo(t, whole_t, t, remaining, rate, a_to_b, on_input) /\ far = StepTo(u, whole_u, u, remaining, rate, a_to_b, on_input)
    BY <1>9, <1>10, <1>17, <2>1
  <2>3. near = Taken1(t, whole_t, t)
    BY <1>0, <1>2, <2>2, StepToTaken
  <2>4. far = Taken1(u, whole_u, u) /\ far # NoStep
    <3>1. whole_u.in <= remaining
      BY <1>0, <1>1, <1>2, <1>17
    <3> QED BY <1>0, <1>2, <1>13, <1>14, <1>17, <2>1, <2>2, <3>1, StepToStands
  <2>5. Cost(whole_t.in, rate, on_input) <= Cost(whole_u.in, rate, on_input)
    BY <1>2, <1>3, CostMonotone
  <2>6. Net(whole_t.out, rate, on_input) <= Net(whole_u.out, rate, on_input)
    BY <1>2, <1>3, CostMonotone
  <2> QED BY <2>3, <2>4, <2>5, <2>6
\* Only the nearer one does.
<1>18. CASE whole_t.in <= amount /\ ~(whole_u.in <= amount)
  <2>1. Deliverable(whole_t)
    BY <1>0, <1>1, <1>2, <1>3, <1>11, <1>18 DEF Deliverable
  <2>2. near = StepTo(t, whole_t, t, remaining, rate, a_to_b, on_input) /\ far = StepTo(next, d, u, remaining, rate, a_to_b, on_input)
    BY <1>1, <1>2, <1>9, <1>10, <1>18, <2>1
  <2>3. near = Taken1(t, whole_t, t)
    BY <1>0, <1>2, <2>2, StepToTaken
  <2>4. Deliverable(d) /\ next # u /\ Toward(next, u, a_to_b)
    BY <1>0, <1>1, <1>2, <1>5, <1>7, <1>8, <1>11, <1>14, <1>15, <1>18 DEF Deliverable
  <2>5. far = Taken1(next, d, u) /\ far # NoStep
    <3>1. d.in <= remaining
      BY <1>0, <1>1, <1>5, <1>8
    <3> QED BY <1>0, <1>4, <1>5, <2>2, <2>4, <3>1, StepToStands
  <2>6. Cost(whole_t.in, rate, on_input) <= remaining
    BY <1>12, <1>18
  <2>7. whole_t.out <= d.out
    BY <1>6, <1>16, <1>18
  <2>8. Net(whole_t.out, rate, on_input) <= Net(d.out, rate, on_input)
    BY <1>2, <1>5, <2>7, CostMonotone
  <2> QED BY <2>3, <2>4, <2>5, <2>6, <2>8
\* Neither does.
<1>19. CASE ~(whole_t.in <= amount)
  <2>1. ~(whole_u.in <= amount)
    BY <1>1, <1>2, <1>3, <1>19
  <2>2. near = StepTo(next, d, t, remaining, rate, a_to_b, on_input) /\ far = StepTo(next, d, u, remaining, rate, a_to_b, on_input)
    BY <1>1, <1>2, <1>9, <1>10, <1>19, <2>1
  <2>3. near = Taken1(next, d, t)
    BY <1>0, <1>4, <1>5, <2>2, StepToTaken
  <2>4. Deliverable(d) /\ next # t /\ next # u /\ Toward(next, u, a_to_b)
    BY <1>0, <1>1, <1>2, <1>5, <1>6, <1>7, <1>8, <1>11, <1>14, <1>15, <1>19, <2>1 DEF Deliverable
  <2>5. far = Taken1(next, d, u) /\ far # NoStep
    <3>1. d.in <= remaining
      BY <1>0, <1>1, <1>5, <1>8
    <3> QED BY <1>0, <1>4, <1>5, <2>2, <2>4, <3>1, StepToStands
  <2>6. Taken1(next, d, t) = Taken1(next, d, u) /\ Taken1(next, d, u).next = next
    BY <2>4
  <2> QED BY <2>3, <2>4, <2>5, <2>6
<1> QED BY <1>17, <1>18, <1>19

-----------------------------------------------------------------------------
(* Limit orders                                                             *)

\* What filling the orders of DefiTuna Fusion uses and gets; with nothing left it is nothing.
LEMMA FusionTypes ==
    ASSUME NEW unfilled \in Nat, NEW remaining \in Nat, NEW p \in Nat \ {0}, p * p >= Q64,
           NEW rate \in 0..(PPM - 1), NEW a_to_b \in BOOLEAN,
           NEW f, f = fill_fusion_orders(unfilled, remaining, p, rate, a_to_b)
    PROVE  /\ f.used \in Nat /\ f.got \in Nat /\ f.filled \in 0..unfilled
           /\ remaining = 0 => f.used = 0 /\ f.got = 0
<1> DEFINE square == p * p
           above == div_ceil(unfilled * Q64 * Q64, square)
           below == div_ceil(unfilled * (square \div Q64), Q64)
           full == IF a_to_b THEN above ELSE below
           fee == div_ceil(remaining * rate, PPM)
           part == remaining - fee
           on_full == full + fee_within(full, rate)
<1>1. square \in Nat \ {0} /\ square >= Q64 /\ Q64 \in Nat \ {0}
  BY SqrtPriceAssumption
<1>2. CASE unfilled = 0
  BY <1>2 DEF fill_fusion_orders
<1>3. CASE unfilled # 0
  <2>1. fee \in 0..remaining
    BY ShareBounds
  <2>2. above \in Nat \ {0}
    <3> DEFINE x == unfilled * Q64 * Q64
    <3>1. x \in Nat \ {0}
      BY <1>1, <1>3
    <3> HIDE DEF x, square
    <3>2. div_ceil(x, square) \in Nat /\ x <= div_ceil(x, square) * square
      BY <1>1, <3>1, DivCeilBounds
    <3>3. div_ceil(x, square) # 0
      <4> SUFFICES ASSUME div_ceil(x, square) = 0 PROVE FALSE
        OBVIOUS
      <4>1. x <= 0 * square
        BY <3>2
      <4> QED BY <1>1, <3>1, <4>1
    <3> QED BY <3>2, <3>3 DEF x
  <2>3. below \in Nat \ {0}
    <3> DEFINE s == square \div Q64
               x == unfilled * s
    <3> HIDE DEF square
    <3>1. s \in Nat /\ 1 <= s
      BY <1>1, DivBounds, DivAtLeast
    <3> HIDE DEF s
    <3>2. x \in Nat \ {0}
      BY <1>3, <3>1
    <3> HIDE DEF x
    <3>3. div_ceil(x, Q64) \in Nat /\ x <= div_ceil(x, Q64) * Q64
      BY <1>1, <3>2, DivCeilBounds
    <3>4. div_ceil(x, Q64) # 0
      <4> SUFFICES ASSUME div_ceil(x, Q64) = 0 PROVE FALSE
        OBVIOUS
      <4>1. x <= 0 * Q64
        BY <3>3
      <4> QED BY <1>1, <3>2, <4>1
    <3> QED BY <3>3, <3>4 DEF x, s
  <2> HIDE DEF above, below, fee
  <2>4. full \in Nat \ {0}
    BY <2>2, <2>3
  <2>5. part \in Nat /\ (remaining = 0 => part = 0)
    BY <2>1
  <2>6. f = IF remaining >= on_full
            THEN [used |-> on_full, got |-> unfilled, filled |-> unfilled]
            ELSE [used |-> remaining, got |-> (unfilled * part) \div full, filled |-> unfilled]
    BY <1>3 DEF fill_fusion_orders, above, below, fee
  <2> HIDE DEF full, part
  <2>7. on_full \in Nat \ {0}
    <3>1. fee_within(full, rate) \in Nat
      <4>1. full \in Nat
        BY <2>4
      <4> QED BY <4>1, ShareBounds DEF fee_within
    <3> QED BY <2>4, <3>1
  <2> HIDE DEF on_full
  <2>8. (unfilled * part) \div full \in Nat /\ (remaining = 0 => (unfilled * part) \div full = 0)
    <3> DEFINE x == unfilled * part
    <3>1. x \in Nat /\ (remaining = 0 => x = 0)
      BY <2>5
    <3> HIDE DEF x
    <3>2. x \div full \in Nat /\ (x \div full) * full <= x
      BY <2>4, <3>1, DivBounds
    <3>3. x = 0 => x \div full = 0
      <4> DEFINE q == x \div full
      <4>1. q \in Nat /\ q * full <= x
        BY <3>2
      <4> HIDE DEF q
      <4>2. x = 0 => q = 0
        BY <2>4, <4>1
      <4> QED BY <4>2 DEF q
    <3> QED BY <3>1, <3>2, <3>3 DEF x
  <2> DEFINE got == (unfilled * part) \div full
  <2> HIDE DEF got
  <2>9. got \in Nat /\ (remaining = 0 => got = 0)
    BY <2>8 DEF got
  <2>10. CASE remaining >= on_full
    <3>1. f.used = on_full /\ f.got = unfilled /\ f.filled = unfilled
      BY <2>6, <2>10
    <3> QED BY <2>7, <2>10, <3>1
  <2>11. CASE ~(remaining >= on_full)
    <3>1. f.used = remaining /\ f.got = got /\ f.filled = unfilled
      BY <2>6, <2>11 DEF got
    <3> QED BY <2>9, <3>1
  <2> QED BY <2>10, <2>11
<1> QED BY <1>2, <1>3

\* The same of the orders of Raydium.
LEMMA MatchTypes ==
    ASSUME NEW unfilled \in Nat, NEW remaining \in Nat, NEW p \in Nat \ {0}, p * p >= Q64,
           NEW rate \in 0..(PPM - 1), NEW a_to_b \in BOOLEAN, NEW on_input \in BOOLEAN,
           NEW f, f = match_limit_orders(unfilled, remaining, p, rate, a_to_b, on_input)
    PROVE  /\ f.used \in Nat /\ f.got \in Nat /\ f.filled \in 0..unfilled
           /\ remaining = 0 => f.used = 0 /\ f.got = 0
<1>1. CASE unfilled = 0 \/ remaining = 0
  BY <1>1 DEF match_limit_orders
<1>2. CASE ~(unfilled = 0 \/ remaining = 0)
  <2> DEFINE z == Q64
             r == OnInput(rate, on_input)
             over == p * p + (IF a_to_b THEN 0 ELSE Q64 - 1)
             ratio == over \div Q64
             net == remaining - div_ceil(remaining * r, PPM)
             matched == IF a_to_b THEN (net * ratio) \div Q64 ELSE (net * Q64) \div ratio
             full == IF a_to_b THEN div_ceil(unfilled * Q64, ratio) ELSE div_ceil(unfilled * ratio, Q64)
             out == AtMost(matched, unfilled)
             used == IF matched > unfilled THEN full + fee_within(full, r) ELSE remaining
             got == IF on_input THEN out ELSE out - div_ceil(out * rate, PPM)
  <2>1. f = [used |-> used, got |-> got, filled |-> out]
    BY <1>2 DEF match_limit_orders
  <2>2. r \in 0..(PPM - 1)
    BY WholeType DEF OnInput
  <2> HIDE DEF r
  <2>3. Q64 \in Nat \ {0} /\ over \in Nat /\ over >= Q64
    BY SqrtPriceAssumption
  <2> HIDE DEF over
  <2>4. ratio \in Nat \ {0}
    <3>1. ratio \in Nat /\ 1 <= ratio
      BY <2>3, DivBounds, DivAtLeast
    <3> QED BY <3>1
  <2> HIDE DEF ratio
  <2>5. net \in Nat
    <3> DEFINE fee == div_ceil(remaining * r, PPM)
    <3>1. fee \in 0..remaining
      BY <2>2, ShareBounds
    <3> HIDE DEF fee
    <3>2. remaining - fee \in Nat
      BY <3>1
    <3> QED BY <3>2 DEF fee
  <2> HIDE DEF net
  <2>6. matched \in Nat
    <3>1. net * ratio \in Nat /\ net * Q64 \in Nat
      BY <2>3, <2>4, <2>5
    <3>2. (net * ratio) \div Q64 \in Nat /\ (net * Q64) \div ratio \in Nat
      BY <2>3, <2>4, <3>1, DivBounds
    <3> QED BY <3>2
  <2>7. full \in Nat
    <3>1. unfilled * Q64 \in Nat /\ unfilled * ratio \in Nat
      BY <2>3, <2>4
    <3>2. div_ceil(unfilled * Q64, ratio) \in Nat /\ div_ceil(unfilled * ratio, Q64) \in Nat
      BY <2>3, <2>4, <3>1, DivCeilBounds
    <3> QED BY <3>2
  <2> HIDE DEF matched, full
  <2>8. out \in 0..unfilled
    BY <2>6 DEF AtMost
  <2> HIDE DEF out
  <2>9. used \in Nat
    <3>1. fee_within(full, r) \in Nat
      BY <2>2, <2>7, ShareBounds DEF fee_within
    <3> QED BY <2>7, <3>1
  <2>10. got \in Nat
    <3> DEFINE fee == div_ceil(out * rate, PPM)
    <3>1. out \in Nat
      BY <2>8
    <3>2. fee \in 0..out
      BY <3>1, ShareBounds
    <3>3. got = IF on_input THEN out ELSE out - fee
      OBVIOUS
    <3> HIDE DEF fee, got
    <3> QED BY <3>1, <3>2, <3>3
  <2> HIDE DEF used, got
  <2>11. f.used = used /\ f.got = got /\ f.filled = out
    BY <2>1
  <2> QED BY <1>2, <2>8, <2>9, <2>10, <2>11
<1> QED BY <1>1, <1>2

\* The same of the orders of either.
LEMMA FilledTypes ==
    ASSUME NEW pool, NEW unfilled \in Nat, NEW remaining \in Nat, NEW p \in Nat \ {0}, p * p >= Q64,
           NEW rate \in 0..(PPM - 1), NEW a_to_b \in BOOLEAN, NEW on_input \in BOOLEAN,
           NEW f, f = Filled(pool, unfilled, remaining, p, rate, a_to_b, on_input)
    PROVE  /\ f.used \in Nat /\ f.got \in Nat /\ f.filled \in 0..unfilled
           /\ remaining = 0 => f.used = 0 /\ f.got = 0
<1>1. CASE pool.layout = "fusion"
  <2>1. f = fill_fusion_orders(unfilled, remaining, p, rate, a_to_b)
    BY <1>1 DEF Filled
  <2> QED BY <2>1, FusionTypes
<1>2. CASE pool.layout # "fusion"
  <2>1. f = match_limit_orders(unfilled, remaining, p, rate, a_to_b, on_input)
    BY <1>2 DEF Filled
  <2> QED BY <2>1, MatchTypes, SMTT(60)
<1> QED BY <1>1, <1>2

-----------------------------------------------------------------------------
(* Ticks and their prices                                                   *)

\* A bounded set of integers has a largest and a smallest element.
LEMMA MaxChosen ==
    ASSUME NEW S \in SUBSET Int, S # {}, NEW bound \in Int, \A x \in S : x <= bound
    PROVE  Max(S) \in S /\ \A x \in S : x <= Max(S)
<1> DEFINE G == {bound - x : x \in S}
<1>1. G \in SUBSET Nat /\ G # {}
  OBVIOUS
<1> HIDE DEF G
<1>2. PICK m \in G : \A k \in G : m <= k
  BY <1>1, LeastNatural
<1>3. PICK x \in S : m = bound - x
  BY DEF G
<1>4. \A y \in S : bound - y \in G
  BY DEF G
<1>5. \A y \in S : x >= y
  <2> TAKE y \in S
  <2>1. m <= bound - y
    BY <1>2, <1>4
  <2> QED BY <1>3, <2>1
<1>6. \E z \in S : \A y \in S : z >= y
  BY <1>5
<1>7. Max(S) \in S /\ \A y \in S : Max(S) >= y
  BY <1>6 DEF Max
<1> QED BY <1>7

\* A set of integers that is bounded below has a least element, which Min chooses.
LEMMA MinChosen ==
    ASSUME NEW S \in SUBSET Int, S # {}, NEW bound \in Int, \A x \in S : bound <= x
    PROVE  Min(S) \in S /\ \A x \in S : Min(S) <= x
<1> DEFINE G == {x - bound : x \in S}
<1>1. G \in SUBSET Nat /\ G # {}
  <2>1. \A x \in S : x - bound \in Nat
    OBVIOUS
  <2>2. G \in SUBSET Nat
    BY <2>1
  <2>3. G # {}
    OBVIOUS
  <2> QED BY <2>2, <2>3
<1> HIDE DEF G
<1>2. PICK m \in G : \A k \in G : m <= k
  BY <1>1, LeastNatural
<1>3. PICK x \in S : m = x - bound
  BY DEF G
<1>4. \A y \in S : y - bound \in G
  BY DEF G
<1>5. \A y \in S : x <= y
  <2> TAKE y \in S
  <2>1. m <= y - bound
    BY <1>2, <1>4
  <2> QED BY <1>3, <2>1
<1>6. \E z \in S : \A y \in S : z <= y
  BY <1>5
<1> QED BY <1>6 DEF Min

\* The prices of the program's ticks.
Priced(p) == p \in Nat \ {0} /\ SqrtAt[MinTick] <= p /\ p <= SqrtAt[MaxTick]

\* The ticks are integers, and their prices rise with them.
LEMMA TickPrices ==
    /\ MinTick \in Ticks /\ MaxTick \in Ticks /\ Ticks \in SUBSET Int
    /\ \A t \in Ticks : Priced(SqrtAt[t]) /\ SqrtAt[t] * SqrtAt[t] >= Q64
    /\ \A t, u \in Ticks : (SqrtAt[t] < SqrtAt[u] <=> t < u) /\ (SqrtAt[t] <= SqrtAt[u] <=> t <= u)
<1>1. MinTick \in Int /\ MaxTick \in Int /\ MinTick < MaxTick /\ Ticks = MinTick..MaxTick
  BY TicksAssumption DEF Ticks
<1>2. \A t \in Ticks : SqrtAt[t] \in Nat
  BY <1>1, TicksAssumption
<1>3. \A t, u \in Ticks : t < u => SqrtAt[t] < SqrtAt[u]
  BY <1>1, TicksAssumption
<1>4. \A t, u \in Ticks : (SqrtAt[t] < SqrtAt[u] <=> t < u) /\ (SqrtAt[t] <= SqrtAt[u] <=> t <= u)
  <2> TAKE t, u \in Ticks
  <2>1. t \in Int /\ u \in Int /\ SqrtAt[t] \in Nat /\ SqrtAt[u] \in Nat
    BY <1>1, <1>2
  <2>2. (t < u => SqrtAt[t] < SqrtAt[u]) /\ (u < t => SqrtAt[u] < SqrtAt[t]) /\ (t = u => SqrtAt[t] = SqrtAt[u])
    BY <1>3
  <2> QED BY <2>1, <2>2
<1> DEFINE m == SqrtAt[MinTick]
<1>5. m \in Nat /\ m * m >= Q64 /\ Q64 \in Nat \ {0}
  BY <1>1, <1>2, TicksAssumption, SqrtPriceAssumption
<1>6. m # 0
  <2> HIDE DEF m
  <2> QED BY <1>5
<1>7. ASSUME NEW t \in Ticks PROVE Priced(SqrtAt[t]) /\ SqrtAt[t] * SqrtAt[t] >= Q64
  <2> DEFINE p == SqrtAt[t]
  <2>1. p \in Nat /\ m <= p /\ p <= SqrtAt[MaxTick]
    BY <1>1, <1>2, <1>4
  <2> HIDE DEF p, m
  <2>2. p # 0
    BY <1>5, <1>6, <2>1
  <2>3. p * p >= Q64
    <3>1. m * m <= p * m /\ p * m <= p * p /\ m * m \in Nat /\ p * m \in Nat /\ p * p \in Nat
      BY <1>5, <2>1, TimesMonotone
    <3> QED BY <1>5, <3>1
  <2> QED BY <2>1, <2>2, <2>3 DEF Priced, p, m
<1> QED BY <1>1, <1>4, <1>7

\* A tick brought into the range of ticks keeps its place among them.
LEMMA ClampBounds ==
    ASSUME NEW t \in Int
    PROVE  /\ Clamp(t) \in Ticks
           /\ t \in Ticks => Clamp(t) = t
           /\ \A u \in Ticks : (u <= t => u <= Clamp(t)) /\ (t <= u => Clamp(t) <= u)
           /\ \A u \in Int : t <= u => Clamp(t) <= Clamp(u)
           /\ t < MinTick => Clamp(t) = MinTick
           /\ t > MaxTick => Clamp(t) = MaxTick
BY TicksAssumption DEF Clamp, AtMost, AtLeast, Ticks

\* t is the tick of the price p.
IsTickAt(t, p) == t \in Ticks /\ SqrtAt[t] <= p /\ \A u \in Ticks : u > t => p < SqrtAt[u]

\* TickAt finds the tick of a price.
LEMMA TickAtPrice ==
    ASSUME NEW p, Priced(p)
    PROVE  IsTickAt(TickAt(p), p)
<1> DEFINE S == {t \in Ticks : SqrtAt[t] <= p}
<1>1. p \in Nat /\ MinTick \in S /\ S \in SUBSET Int /\ MaxTick \in Int /\ \A x \in S : x <= MaxTick
  BY TickPrices, TicksAssumption DEF Priced, Ticks
<1>2. Max(S) \in S /\ \A x \in S : x <= Max(S)
  <2> HIDE DEF S
  <2>1. S # {}
    BY <1>1
  <2> QED BY <1>1, <2>1, MaxChosen
<1>3. TickAt(p) = Max(S)
  BY DEF TickAt, Ticks
<1>4. ASSUME NEW u \in Ticks, u > Max(S) PROVE p < SqrtAt[u]
  <2>1. u \notin S
    BY <1>1, <1>2, <1>4
  <2>2. SqrtAt[u] \in Nat
    BY TickPrices DEF Priced
  <2> QED BY <1>1, <2>1, <2>2
<1> QED BY <1>2, <1>3, <1>4 DEF IsTickAt

\* The tick of the price at a tick is that tick.
LEMMA TickOfItsPrice ==
    ASSUME NEW t \in Ticks
    PROVE  IsTickAt(t, SqrtAt[t])
<1>1. t \in Int /\ SqrtAt[t] \in Nat
  BY TickPrices DEF Priced
<1> QED BY <1>1, TickPrices DEF IsTickAt

\* The limits of the programs are prices.
LEMMA LimitPriced ==
    ASSUME NEW a_to_b \in BOOLEAN
    PROVE  Priced(limit(a_to_b))
<1>1. LimitLow \in SqrtAt[MinTick]..SqrtAt[MaxTick] /\ LimitHigh \in SqrtAt[MinTick]..SqrtAt[MaxTick]
  BY TicksAssumption
<1>2. SqrtAt[MinTick] \in Nat \ {0} /\ SqrtAt[MaxTick] \in Nat \ {0}
  BY TickPrices DEF Priced
<1>3. limit(a_to_b) = LimitLow \/ limit(a_to_b) = LimitHigh
  BY DEF limit
<1> QED BY <1>1, <1>2, <1>3 DEF Priced

-----------------------------------------------------------------------------
(* Fees                                                                     *)

\* The group of a tick begins at or before it and ends behind it.
LEMMA IndexBounds ==
    ASSUME NEW t \in Int, NEW size \in Nat \ {0}
    PROVE  /\ index_of(t, size) \in Int
           /\ index_of(t, size) * size <= t
           /\ t < index_of(t, size) * size + size
BY IntDivBounds DEF index_of

\* The volatility re-read leaves the rest of the fee.
LEMMA VolatileTypes ==
    ASSUME NEW f \in DynamicFees
    PROVE  /\ Volatile(f) \in DynamicFees
           /\ Volatile(f).kind = f.kind /\ Volatile(f).size = f.size /\ Volatile(f).index = f.index
           /\ Volatile(f).tick_reference = f.tick_reference
<1>1. f.reference \in Nat /\ f.tick_reference \in Int /\ f.index \in Int /\ f.max_volatility \in Nat /\ VolatilityScale \in Nat \ {0}
  BY TicksAssumption DEF DynamicFees
<1>2. Magnitude(f.tick_reference - f.index) \in Nat
  BY <1>1 DEF Magnitude
<1> DEFINE v == AtMost(f.reference + Magnitude(f.tick_reference - f.index) * VolatilityScale, f.max_volatility)
<1>3. v \in Nat
  BY <1>1, <1>2 DEF AtMost
<1>4. Volatile(f) = [f EXCEPT !.volatility = v]
  BY DEF Volatile
<1> HIDE DEF v
<1>5. f \in [kind : {"raydium", "orca"}, size : Nat \ {0}, control : Nat, reduction : Nat, reference : Nat,
             tick_reference : Int, volatility : Nat, max_volatility : Nat, index : Int,
             age : {"filtered", "decaying", "old"}]
      /\ \E t \in MinTick..MaxTick : f.tick_reference = index_of(t, f.size)
  BY DEF DynamicFees
<1>6. /\ Volatile(f).kind = f.kind /\ Volatile(f).size = f.size /\ Volatile(f).index = f.index
      /\ Volatile(f).tick_reference = f.tick_reference
  BY <1>4, <1>5
<1>7. Volatile(f) \in [kind : {"raydium", "orca"}, size : Nat \ {0}, control : Nat, reduction : Nat, reference : Nat,
             tick_reference : Int, volatility : Nat, max_volatility : Nat, index : Int,
             age : {"filtered", "decaying", "old"}]
  BY <1>3, <1>4, <1>5
<1> QED BY <1>5, <1>6, <1>7 DEF DynamicFees

\* The index may be any.
LEMMA IndexTypes ==
    ASSUME NEW f \in DynamicFees, NEW i \in Int
    PROVE  /\ [f EXCEPT !.index = i] \in DynamicFees
           /\ [f EXCEPT !.index = i].kind = f.kind /\ [f EXCEPT !.index = i].size = f.size
           /\ [f EXCEPT !.index = i].index = i
           /\ [f EXCEPT !.index = i].tick_reference = f.tick_reference
<1>1. f \in [kind : {"raydium", "orca"}, size : Nat \ {0}, control : Nat, reduction : Nat, reference : Nat,
             tick_reference : Int, volatility : Nat, max_volatility : Nat, index : Int,
             age : {"filtered", "decaying", "old"}]
      /\ \E t \in MinTick..MaxTick : f.tick_reference = index_of(t, f.size)
  BY DEF DynamicFees
<1> DEFINE g == [f EXCEPT !.index = i]
<1>2. g \in [kind : {"raydium", "orca"}, size : Nat \ {0}, control : Nat, reduction : Nat, reference : Nat,
             tick_reference : Int, volatility : Nat, max_volatility : Nat, index : Int,
             age : {"filtered", "decaying", "old"}]
      /\ g.kind = f.kind /\ g.size = f.size /\ g.index = i /\ g.tick_reference = f.tick_reference
  BY <1>1
<1> HIDE DEF g
<1>3. g \in DynamicFees
  BY <1>1, <1>2 DEF DynamicFees
<1> QED BY <1>2, <1>3 DEF g

\* update_reference puts the fee in the group of the tick, whatever its age.
LEMMA ReferenceTypes ==
    ASSUME NEW f \in DynamicFees, NEW t \in Ticks
    PROVE  /\ update_reference(f, index_of(t, f.size)) \in DynamicFees
           /\ update_reference(f, index_of(t, f.size)).size = f.size
           /\ update_reference(f, index_of(t, f.size)).index = index_of(t, f.size)
           /\ update_reference(f, index_of(t, f.size)).kind = f.kind
<1> DEFINE i == index_of(t, f.size)
           g == update_reference(f, i)
           r == (f.volatility * f.reduction) \div BasisPoints
<1>1. f \in [kind : {"raydium", "orca"}, size : Nat \ {0}, control : Nat, reduction : Nat, reference : Nat,
             tick_reference : Int, volatility : Nat, max_volatility : Nat, index : Int,
             age : {"filtered", "decaying", "old"}]
      /\ \E u \in MinTick..MaxTick : f.tick_reference = index_of(u, f.size)
  BY DEF DynamicFees
<1>2. i \in Int
  BY <1>1, TickPrices, IndexBounds
<1>3. r \in Nat
  <2>1. f.volatility * f.reduction \in Nat
    BY <1>1
  <2>2. BasisPoints \in Nat \ {0}
    BY DEF BasisPoints
  <2> QED BY <2>1, <2>2, DivBounds
<1> HIDE DEF r
<1>4. g \in {[f EXCEPT !.index = i], [f EXCEPT !.index = i, !.tick_reference = i, !.reference = r],
             [f EXCEPT !.index = i, !.tick_reference = i, !.reference = 0]}
  <2>1. f.age \in {"filtered", "decaying", "old"}
    BY <1>1
  <2> HIDE DEF i
  <2> QED BY <2>1 DEF update_reference, r
<1>5. ASSUME g = [f EXCEPT !.index = i]
      PROVE  g \in DynamicFees /\ g.size = f.size /\ g.index = i /\ g.kind = f.kind
  <2> HIDE DEF g, i
  <2> QED BY <1>2, <1>5, IndexTypes
<1>6. ASSUME NEW x \in Nat, g = [f EXCEPT !.index = i, !.tick_reference = i, !.reference = x]
      PROVE  g \in DynamicFees /\ g.size = f.size /\ g.index = i /\ g.kind = f.kind
  <2> DEFINE h == [f EXCEPT !.index = i, !.tick_reference = i, !.reference = x]
  <2>0. i = index_of(t, f.size)
    OBVIOUS
  <2> HIDE DEF i, g
  <2>1. h \in [kind : {"raydium", "orca"}, size : Nat \ {0}, control : Nat, reduction : Nat, reference : Nat,
             tick_reference : Int, volatility : Nat, max_volatility : Nat, index : Int,
             age : {"filtered", "decaying", "old"}]
        /\ h.kind = f.kind /\ h.size = f.size /\ h.index = i /\ h.tick_reference = i
    BY <1>1, <1>2
  <2> HIDE DEF h
  <2>2. h \in DynamicFees
    <3>1. h.tick_reference = index_of(t, h.size) /\ t \in MinTick..MaxTick
      BY <2>0, <2>1 DEF Ticks
    <3> QED BY <2>1, <3>1 DEF DynamicFees
  <2>3. g = h
    BY <1>6 DEF h
  <2> QED BY <2>1, <2>2, <2>3
<1> HIDE DEF g, i
<1>7. g \in DynamicFees /\ g.size = f.size /\ g.index = i /\ g.kind = f.kind
  <2>1. CASE g = [f EXCEPT !.index = i, !.tick_reference = i, !.reference = r]
    BY <1>3, <1>6, <2>1
  <2>2. CASE g = [f EXCEPT !.index = i, !.tick_reference = i, !.reference = 0]
    BY <1>6, <2>2
  <2>3. CASE g = [f EXCEPT !.index = i]
    BY <1>5, <2>3
  <2> QED BY <1>4, <2>1, <2>2, <2>3
<1> QED BY <1>7 DEF g, i

\* A tenth is less than the whole.
LEMMA TenthType == PPM \div 10 \in Nat /\ PPM \div 10 < PPM
BY SMT DEF PPM

\* Every fee takes less than the whole.
LEMMA RatedType ==
    ASSUME NEW f \in Fees, NEW base \in 0..(PPM - 1)
    PROVE  Rated(f, base) \in 0..(PPM - 1)
<1>1. CASE f.kind = "static"
  BY <1>1 DEF Rated
<1>2. CASE f.kind # "static"
  <2> DEFINE tenth == PPM \div 10
             crossed == f.volatility * f.size
             x == f.control * crossed * crossed
             variable == AtMost(div_ceil(x, DynamicScale), tenth)
  <2>1. f \in DynamicFees
    BY <1>2 DEF Fees, StaticFee
  <2>2. f.volatility \in Nat /\ f.size \in Nat /\ f.control \in Nat /\ DynamicScale \in Nat \ {0}
    BY <2>1, TicksAssumption DEF DynamicFees
  <2>3. crossed \in Nat
    BY <2>2
  <2>4. x \in Nat
    <3> HIDE DEF crossed
    <3>1. f.control * crossed \in Nat
      BY <2>2, <2>3
    <3> QED BY <2>3, <3>1
  <2>5. tenth \in Nat /\ tenth < PPM
    BY TenthType
  <2>6. Rated(f, base) = AtMost(base + variable, tenth)
    BY <1>2 DEF Rated, total_fee_rate
  <2> HIDE DEF x, tenth
  <2>7. div_ceil(x, DynamicScale) \in Nat
    BY <2>2, <2>4, DivCeilBounds
  <2>8. variable \in Nat
    BY <2>5, <2>7 DEF AtMost
  <2> HIDE DEF variable
  <2>9. base \in Nat /\ PPM \in Nat
    BY WholeType
  <2>10. AtMost(base + variable, tenth) \in Nat /\ AtMost(base + variable, tenth) <= tenth
    BY <2>5, <2>8, <2>9 DEF AtMost
  <2> QED BY <2>5, <2>6, <2>9, <2>10
<1> QED BY <1>1, <1>2

\* The price at the end of the fee's period, which the price has not passed.
Boundary(f, a_to_b) == SqrtAt[Clamp(IF a_to_b THEN f.index * f.size ELSE (f.index + 1) * f.size)]
FeeAhead(f, p, a_to_b) == f.kind # "static" => Toward(p, Boundary(f, a_to_b), a_to_b)

Brought(x, bound, a_to_b) == IF a_to_b THEN AtLeast(x, bound) ELSE AtMost(x, bound)

\* The boundary of a fee's period is a price.
LEMMA BoundaryPriced ==
    ASSUME NEW f \in DynamicFees, NEW a_to_b \in BOOLEAN
    PROVE  Priced(Boundary(f, a_to_b))
<1>1. f.index \in Int /\ f.size \in Nat \ {0}
  BY DEF DynamicFees
<1>2. f.index * f.size \in Int /\ (f.index + 1) * f.size \in Int
  BY <1>1
<1>3. (IF a_to_b THEN f.index * f.size ELSE (f.index + 1) * f.size) \in Int
  BY <1>2
<1>4. Clamp(IF a_to_b THEN f.index * f.size ELSE (f.index + 1) * f.size) \in Ticks
  BY <1>3, ClampBounds
<1> QED BY <1>4, TickPrices DEF Boundary

\* A smaller factor makes a smaller product, of integers too.
LEMMA IntTimesMonotone ==
    ASSUME NEW x \in Int, NEW y \in Int, NEW z \in Nat, x <= y
    PROVE  x * z \in Int /\ y * z \in Int /\ x * z <= y * z
<1>1. y - x \in Nat /\ (y - x) * z \in Nat
  OBVIOUS
<1>2. (y - x) * z = y * z - x * z /\ x * z \in Int /\ y * z \in Int
  OBVIOUS
<1> QED BY <1>1, <1>2

\* The three forms a period's target takes.
LEMMA PeriodForms ==
    ASSUME NEW f \in Fees, NEW liq, NEW a_to_b \in BOOLEAN
    PROVE  \/ \A x : PeriodTarget(f, liq, x, a_to_b) = [target |-> x, skipped |-> TRUE]
           \/ /\ f.kind # "static"
              /\ \A x : PeriodTarget(f, liq, x, a_to_b) = [target |-> Brought(x, Boundary(f, a_to_b), a_to_b), skipped |-> FALSE]
           \/ /\ f.kind = "orca"
              /\ \E bound : /\ Priced(bound) /\ Toward(Boundary(f, a_to_b), bound, a_to_b)
                            /\ \A x : PeriodTarget(f, liq, x, a_to_b) = [target |-> Brought(x, bound, a_to_b), skipped |-> TRUE]
<1>1. CASE f.kind = "static"
  BY <1>1 DEF PeriodTarget
<1>2. CASE f.kind = "raydium"
  <2>1. CASE liq = 0 \/ f.volatility = f.max_volatility
    BY <1>2, <2>1 DEF PeriodTarget
  <2>2. CASE ~(liq = 0 \/ f.volatility = f.max_volatility)
    BY <1>2, <2>2 DEF PeriodTarget, Boundary, Brought
  <2> QED BY <2>1, <2>2
<1>3. CASE f.kind = "orca"
  <2> DEFINE sat == Saturating(f)
             low == (f.tick_reference - sat) * f.size
             high == (f.tick_reference + sat) * f.size + f.size
             outside_low == low > MinTick /\ f.index < f.tick_reference - sat
             outside_high == high < MaxTick /\ f.index > f.tick_reference + sat
  <2>1. f \in DynamicFees
    BY <1>3 DEF Fees, StaticFee
  <2>2. f.index \in Int /\ f.size \in Nat \ {0} /\ f.tick_reference \in Int /\ f.max_volatility \in Nat /\ f.reference \in Nat
    BY <2>1 DEF DynamicFees
  <2>3. PICK t \in Ticks : f.tick_reference = index_of(t, f.size)
    BY <2>1 DEF DynamicFees, Ticks
  <2>4. t \in Int /\ f.tick_reference * f.size <= t /\ t < f.tick_reference * f.size + f.size /\ MinTick <= t /\ t <= MaxTick
    <3>1. t \in Int /\ MinTick <= t /\ t <= MaxTick
      BY TicksAssumption DEF Ticks
    <3>2. index_of(t, f.size) * f.size <= t /\ t < index_of(t, f.size) * f.size + f.size
      BY <2>2, <3>1, IndexBounds
    <3> QED BY <2>3, <3>1, <3>2
  <2>5. sat \in Nat
    <3>1. AtLeast(f.max_volatility - f.reference, 0) \in Nat
      BY <2>2 DEF AtLeast
    <3> QED BY <3>1, TicksAssumption, DivCeilBounds DEF Saturating
  <2> HIDE DEF sat
  <2>6. PeriodTarget(f, liq, 0, a_to_b) = PeriodTarget(f, liq, 0, a_to_b)
    OBVIOUS
  <2>7. CASE f.control = 0 \/ liq = 0
    BY <1>3, <2>7 DEF PeriodTarget
  <2>8. CASE ~(f.control = 0 \/ liq = 0) /\ outside_low
    <3>1. ASSUME NEW x
          PROVE  PeriodTarget(f, liq, x, a_to_b)
                 = [target |-> IF a_to_b THEN x ELSE AtMost(x, SqrtAt[low]), skipped |-> TRUE]
      BY <1>3, <2>8 DEF PeriodTarget, sat
    <3>2. CASE a_to_b
      BY <3>1, <3>2
    <3>3. CASE ~a_to_b
      <4>1. low \in Int /\ (f.index + 1) * f.size \in Int /\ (f.index + 1) * f.size <= low /\ low <= f.tick_reference * f.size
        <5>1. f.index + 1 \in Int /\ f.tick_reference - sat \in Int /\ f.index + 1 <= f.tick_reference - sat /\ f.tick_reference - sat <= f.tick_reference
          BY <2>2, <2>5, <2>8
        <5>2. f.size \in Nat
          BY <2>2
        <5> QED BY <2>2, <5>1, <5>2, IntTimesMonotone
      <4>2. low \in Ticks
        <5>1. f.tick_reference * f.size \in Int
          BY <2>2
        <5> HIDE DEF low
        <5> QED BY <2>4, <2>8, <4>1, <5>1, TicksAssumption DEF Ticks, low
      <4>3. Boundary(f, a_to_b) = SqrtAt[Clamp((f.index + 1) * f.size)]
        BY <3>3 DEF Boundary
      <4> DEFINE c == Clamp((f.index + 1) * f.size)
      <4>4. c \in Ticks /\ c <= low
        <5> HIDE DEF low
        <5> QED BY <4>1, <4>2, ClampBounds
      <4> HIDE DEF low, c
      <4>5. Priced(SqrtAt[low]) /\ SqrtAt[c] <= SqrtAt[low]
        BY <4>2, <4>4, TickPrices
      <4>6. Toward(Boundary(f, a_to_b), SqrtAt[low], a_to_b)
        BY <3>3, <4>3, <4>5 DEF Toward, c
      <4>7. \A x : PeriodTarget(f, liq, x, a_to_b) = [target |-> Brought(x, SqrtAt[low], a_to_b), skipped |-> TRUE]
        BY <3>1, <3>3 DEF Brought, low
      <4> QED BY <1>3, <4>5, <4>6, <4>7
    <3> QED BY <3>2, <3>3
  <2>9. CASE ~(f.control = 0 \/ liq = 0) /\ ~outside_low /\ outside_high
    <3>1. ASSUME NEW x
          PROVE  PeriodTarget(f, liq, x, a_to_b)
                 = [target |-> IF a_to_b THEN AtLeast(x, SqrtAt[high]) ELSE x, skipped |-> TRUE]
      BY <1>3, <2>9 DEF PeriodTarget, sat
    <3>2. CASE ~a_to_b
      BY <3>1, <3>2
    <3>3. CASE a_to_b
      <4>1. high \in Int /\ f.index * f.size \in Int /\ high <= f.index * f.size /\ f.tick_reference * f.size + f.size <= high
        <5>1. f.tick_reference + sat + 1 \in Int /\ f.tick_reference + sat + 1 <= f.index /\ f.tick_reference + 1 <= f.tick_reference + sat + 1
              /\ f.tick_reference + 1 \in Int
          BY <2>2, <2>5, <2>9
        <5>2. f.size \in Nat
          BY <2>2
        <5>3. (f.tick_reference + sat + 1) * f.size = high /\ (f.tick_reference + 1) * f.size = f.tick_reference * f.size + f.size
          BY <2>2, <2>5
        <5>4. (f.tick_reference + sat + 1) * f.size <= f.index * f.size /\ (f.tick_reference + sat + 1) * f.size \in Int /\ f.index * f.size \in Int
          BY <2>2, <5>1, <5>2, IntTimesMonotone
        <5>5. (f.tick_reference + 1) * f.size <= (f.tick_reference + sat + 1) * f.size
          BY <5>1, <5>2, IntTimesMonotone
        <5> QED BY <5>3, <5>4, <5>5
      <4>2. high \in Ticks
        <5>1. f.tick_reference * f.size + f.size \in Int
          BY <2>2
        <5> HIDE DEF high
        <5> QED BY <2>4, <2>9, <4>1, <5>1, TicksAssumption DEF Ticks, high
      <4>3. Boundary(f, a_to_b) = SqrtAt[Clamp(f.index * f.size)]
        BY <3>3 DEF Boundary
      <4> DEFINE c == Clamp(f.index * f.size)
      <4>4. c \in Ticks /\ high <= c
        <5> HIDE DEF high
        <5> QED BY <4>1, <4>2, ClampBounds
      <4> HIDE DEF high, c
      <4>5. Priced(SqrtAt[high]) /\ SqrtAt[high] <= SqrtAt[c]
        BY <4>2, <4>4, TickPrices
      <4>6. Toward(Boundary(f, a_to_b), SqrtAt[high], a_to_b)
        BY <3>3, <4>3, <4>5 DEF Toward, c
      <4>7. \A x : PeriodTarget(f, liq, x, a_to_b) = [target |-> Brought(x, SqrtAt[high], a_to_b), skipped |-> TRUE]
        BY <3>1, <3>3 DEF Brought, high
      <4> QED BY <1>3, <4>5, <4>6, <4>7
    <3> QED BY <3>2, <3>3
  <2>10. CASE ~(f.control = 0 \/ liq = 0) /\ ~outside_low /\ ~outside_high
    BY <1>3, <2>10 DEF PeriodTarget, Boundary, Brought, sat
  <2> QED BY <2>7, <2>8, <2>9, <2>10
<1>4. f.kind \in {"static", "raydium", "orca"}
  BY DEF Fees, StaticFee, DynamicFees
<1> QED BY <1>1, <1>2, <1>3, <1>4

\* A period's target lies on the way, and ends the period unless it is skipped.
LEMMA PeriodOnWay ==
    ASSUME NEW f \in Fees, NEW liq, NEW a_to_b \in BOOLEAN, NEW p, Priced(p), NEW x, Priced(x), Toward(p, x, a_to_b),
           FeeAhead(f, p, a_to_b), NEW period, period = PeriodTarget(f, liq, x, a_to_b)
    PROVE  /\ Priced(period.target) /\ Toward(p, period.target, a_to_b) /\ Toward(period.target, x, a_to_b)
           /\ ~period.skipped => f.kind # "static" /\ Toward(period.target, Boundary(f, a_to_b), a_to_b)
           /\ f.kind \in {"static", "raydium"} /\ period.skipped => period.target = x
<1>1. ASSUME NEW bound, Priced(bound), Toward(p, bound, a_to_b), NEW q, q = Brought(x, bound, a_to_b)
      PROVE  /\ Priced(q) /\ Toward(p, q, a_to_b) /\ Toward(q, x, a_to_b) /\ Toward(q, bound, a_to_b)
  BY <1>1 DEF Priced, Toward, Brought, AtLeast, AtMost
<1>2. Toward(x, x, a_to_b)
  BY DEF Toward, Priced
<1>3. CASE period = [target |-> x, skipped |-> TRUE]
  BY <1>2, <1>3
<1>4. CASE f.kind # "static" /\ period = [target |-> Brought(x, Boundary(f, a_to_b), a_to_b), skipped |-> FALSE]
  <2>1. Priced(Boundary(f, a_to_b))
    BY <1>4, BoundaryPriced DEF Fees, StaticFee
  <2>2. Toward(p, Boundary(f, a_to_b), a_to_b)
    BY <1>4 DEF FeeAhead
  <2>3. period.target = Brought(x, Boundary(f, a_to_b), a_to_b) /\ ~period.skipped
    BY <1>4
  <2> QED BY <1>1, <1>4, <2>1, <2>2, <2>3
<1>5. ASSUME f.kind = "orca", NEW bound, Priced(bound), Toward(Boundary(f, a_to_b), bound, a_to_b),
             period = [target |-> Brought(x, bound, a_to_b), skipped |-> TRUE]
      PROVE  /\ Priced(period.target) /\ Toward(p, period.target, a_to_b) /\ Toward(period.target, x, a_to_b)
             /\ period.skipped
  <2>1. Priced(Boundary(f, a_to_b))
    BY <1>5, BoundaryPriced DEF Fees, StaticFee
  <2>2. Toward(p, bound, a_to_b)
    BY <1>5, <2>1 DEF FeeAhead, Toward, Priced
  <2>3. period.target = Brought(x, bound, a_to_b) /\ period.skipped
    BY <1>5
  <2> QED BY <1>1, <1>5, <2>2, <2>3
<1> QED BY <1>3, <1>4, <1>5, PeriodForms

\* With a farther tick to go to, a period's target is the same, or the nearer was the tick's.
LEMMA PeriodFarther ==
    ASSUME NEW f \in Fees, NEW liq, NEW a_to_b \in BOOLEAN, NEW x, Priced(x), NEW y, Priced(y), Toward(x, y, a_to_b),
           NEW near, near = PeriodTarget(f, liq, x, a_to_b), NEW far, far = PeriodTarget(f, liq, y, a_to_b)
    PROVE  /\ near.skipped = far.skipped
           /\ near.target = far.target \/ (near.target = x /\ Toward(x, far.target, a_to_b))
<1>1. ASSUME NEW bound, Priced(bound)
      PROVE  Brought(x, bound, a_to_b) = Brought(y, bound, a_to_b)
             \/ (Brought(x, bound, a_to_b) = x /\ Toward(x, Brought(y, bound, a_to_b), a_to_b))
  BY <1>1 DEF Priced, Toward, Brought, AtLeast, AtMost
<1>2. CASE near = [target |-> x, skipped |-> TRUE] /\ far = [target |-> y, skipped |-> TRUE]
  BY <1>2
<1>3. ASSUME NEW bound, Priced(bound), NEW skipped \in BOOLEAN, near = [target |-> Brought(x, bound, a_to_b), skipped |-> skipped],
             far = [target |-> Brought(y, bound, a_to_b), skipped |-> skipped]
      PROVE  /\ near.skipped = far.skipped
             /\ near.target = far.target \/ (near.target = x /\ Toward(x, far.target, a_to_b))
  <2>1. near.skipped = far.skipped /\ near.target = Brought(x, bound, a_to_b) /\ far.target = Brought(y, bound, a_to_b)
    BY <1>3
  <2> QED BY <1>1, <1>3, <2>1
<1>4. f.kind # "static" => Priced(Boundary(f, a_to_b))
  BY BoundaryPriced DEF Fees, StaticFee
<1>5. CASE /\ f.kind # "static"
           /\ \A z : PeriodTarget(f, liq, z, a_to_b) = [target |-> Brought(z, Boundary(f, a_to_b), a_to_b), skipped |-> FALSE]
  <2>1. near = [target |-> Brought(x, Boundary(f, a_to_b), a_to_b), skipped |-> FALSE]
        /\ far = [target |-> Brought(y, Boundary(f, a_to_b), a_to_b), skipped |-> FALSE]
    BY <1>5
  <2> QED BY <1>3, <1>4, <1>5, <2>1
<1>6. CASE \E bound : /\ Priced(bound) /\ Toward(Boundary(f, a_to_b), bound, a_to_b)
                      /\ \A z : PeriodTarget(f, liq, z, a_to_b) = [target |-> Brought(z, bound, a_to_b), skipped |-> TRUE]
  <2>1. PICK bound : /\ Priced(bound)
                     /\ \A z : PeriodTarget(f, liq, z, a_to_b) = [target |-> Brought(z, bound, a_to_b), skipped |-> TRUE]
    BY <1>6
  <2>2. near = [target |-> Brought(x, bound, a_to_b), skipped |-> TRUE] /\ far = [target |-> Brought(y, bound, a_to_b), skipped |-> TRUE]
    BY <2>1
  <2> QED BY <1>3, <2>1, <2>2
<1>7. CASE \A z : PeriodTarget(f, liq, z, a_to_b) = [target |-> z, skipped |-> TRUE]
  BY <1>2, <1>7
<1> QED BY <1>5, <1>6, <1>7, PeriodForms

\* Where a turn ends, the period it then is in is not behind.
LEMMA NextBoundary ==
    ASSUME NEW f \in DynamicFees, NEW a_to_b \in BOOLEAN, NEW q, Priced(q), NEW t, IsTickAt(t, q), NEW last \in Int,
           IF a_to_b THEN last <= index_of(t, f.size) ELSE index_of(t, f.size) - 1 <= last,
           NEW g \in DynamicFees, g.size = f.size, g.index = last + (IF a_to_b THEN -1 ELSE 1)
    PROVE  Toward(q, Boundary(g, a_to_b), a_to_b)
<1> DEFINE i == index_of(t, f.size)
           n == f.size
<1>1. n \in Nat \ {0} /\ n \in Nat /\ t \in Ticks /\ t \in Int
  BY TickPrices DEF DynamicFees, IsTickAt
<1>2. i \in Int /\ i * n <= t /\ t < i * n + n
  BY <1>1, IndexBounds
<1>3. CASE a_to_b
  <2>1. g.index = last - 1 /\ last <= i
    BY <1>3
  <2> HIDE DEF i, n
  <2> DEFINE b == (last - 1) * n
  <2>2. b \in Int /\ b <= i * n
    BY <1>1, <1>2, <2>1, IntTimesMonotone
  <2>3. b <= t
    <3>1. i * n \in Int
      BY <1>1, <1>2
    <3> HIDE DEF b
    <3> QED BY <1>1, <1>2, <2>2, <3>1
  <2>4. Boundary(g, a_to_b) = SqrtAt[Clamp(b)]
    BY <1>3, <2>1 DEF Boundary, n
  <2> HIDE DEF b
  <2>5. Clamp(b) \in Ticks /\ Clamp(b) <= t
    BY <1>1, <2>2, <2>3, ClampBounds
  <2>6. SqrtAt[Clamp(b)] <= SqrtAt[t] /\ SqrtAt[Clamp(b)] \in Nat /\ SqrtAt[t] \in Nat
    BY <1>1, <2>5, TickPrices DEF Priced
  <2>7. SqrtAt[t] <= q /\ q \in Nat
    BY DEF IsTickAt, Priced
  <2>8. SqrtAt[Clamp(b)] <= q
    BY <2>6, <2>7
  <2> QED BY <1>3, <2>4, <2>8 DEF Toward
<1>4. CASE ~a_to_b
  <2>1. g.index = last + 1 /\ i - 1 <= last
    BY <1>4
  <2> HIDE DEF i, n
  <2> DEFINE b == (last + 1 + 1) * n
  <2>2. b \in Int /\ i * n + n <= b
    <3>1. i + 1 \in Int /\ last + 1 + 1 \in Int /\ i + 1 <= last + 1 + 1
      BY <1>2, <2>1
    <3>2. (i + 1) * n <= b /\ b \in Int
      BY <1>1, <3>1, IntTimesMonotone
    <3>3. (i + 1) * n = i * n + n
      BY <1>1, <1>2
    <3> QED BY <3>2, <3>3
  <2>3. b > t
    <3>1. i * n + n \in Int
      BY <1>1, <1>2
    <3> HIDE DEF b
    <3> QED BY <1>1, <1>2, <2>2, <3>1
  <2>4. Boundary(g, a_to_b) = SqrtAt[Clamp(b)]
    BY <1>4, <2>1 DEF Boundary, n
  <2> HIDE DEF b
  <2>5. Clamp(b) \in Ticks /\ (Clamp(b) > t \/ Clamp(b) = MaxTick)
    <3>1. CASE b > MaxTick
      BY <2>2, <3>1, ClampBounds
    <3>2. CASE ~(b > MaxTick)
      <4>1. b \in Ticks
        BY <1>1, <2>2, <2>3, <3>2, TicksAssumption DEF Ticks
      <4> QED BY <2>2, <2>3, <4>1, ClampBounds
    <3> QED BY <2>2, <3>1, <3>2, ClampBounds
  <2>6. q <= SqrtAt[Clamp(b)]
    <3>1. SqrtAt[Clamp(b)] \in Nat /\ q \in Nat /\ q <= SqrtAt[MaxTick]
      BY <2>5, TickPrices DEF Priced
    <3>2. Clamp(b) > t => q < SqrtAt[Clamp(b)]
      BY <2>5 DEF IsTickAt
    <3> QED BY <2>5, <3>1, <3>2
  <2> QED BY <1>4, <2>4, <2>6 DEF Toward
<1> QED BY <1>3, <1>4

\* What a landing leaves of a fee.
LEMMA LandedTypes ==
    ASSUME NEW f \in DynamicFees, NEW a_to_b \in BOOLEAN, NEW tick \in Int, NEW target_tick \in Ticks, NEW q, Priced(q),
           NEW h, h = Landed(f, q, SqrtAt[target_tick], target_tick, tick, a_to_b)
    PROVE  /\ h \in DynamicFees /\ h.kind = f.kind /\ h.size = f.size
           /\ \E t \in Int : /\ IF a_to_b THEN h.index <= index_of(t, f.size) ELSE index_of(t, f.size) - 1 <= h.index
                             /\ q = SqrtAt[target_tick] \/ f.kind = "orca" => IsTickAt(t, q)
<1> DEFINE t == IF q = SqrtAt[target_tick] THEN target_tick ELSE IF f.kind = "raydium" THEN tick ELSE TickAt(q)
           boundary == t % f.size = 0 /\ ~a_to_b
                       /\ ((f.kind = "orca" /\ q # SqrtAt[target_tick]) => q = SqrtAt[t])
           last == IF boundary THEN index_of(t, f.size) - 1 ELSE index_of(t, f.size)
           f1 == [f EXCEPT !.index = last]
<1>1. f.size \in Nat \ {0} /\ f.index \in Int /\ f.kind \in {"raydium", "orca"}
  BY DEF DynamicFees
<1>2. t \in Int /\ (q = SqrtAt[target_tick] \/ f.kind = "orca" => IsTickAt(t, q))
  <2>1. CASE q = SqrtAt[target_tick]
    <3>1. IsTickAt(target_tick, q) /\ target_tick \in Int
      BY <2>1, TickPrices, TickOfItsPrice
    <3> QED BY <2>1, <3>1
  <2>2. CASE q # SqrtAt[target_tick] /\ f.kind = "raydium"
    BY <2>2
  <2>3. CASE q # SqrtAt[target_tick] /\ f.kind # "raydium"
    <3>1. IsTickAt(TickAt(q), q)
      BY TickAtPrice
    <3>2. TickAt(q) \in Int
      BY <3>1, TickPrices DEF IsTickAt
    <3> QED BY <2>3, <3>1, <3>2
  <2> QED BY <2>1, <2>2, <2>3
<1>3. index_of(t, f.size) \in Int
  <2> HIDE DEF t
  <2> QED BY <1>1, <1>2, IndexBounds
<1>4. last \in Int /\ IF a_to_b THEN last = index_of(t, f.size) ELSE index_of(t, f.size) - 1 <= last
  <2>1. a_to_b => ~boundary
    OBVIOUS
  <2> HIDE DEF t, boundary
  <2> QED BY <1>3, <2>1
<1>5. h = IF f.kind = "raydium" THEN (IF f1.volatility # f1.max_volatility THEN Volatile(f1) ELSE f1)
          ELSE IF (a_to_b /\ last < f.index) \/ (~a_to_b /\ last > f.index) THEN Volatile(f1) ELSE f
  BY DEF Landed
<1> HIDE DEF t, boundary, last
<1>6. f1 \in DynamicFees /\ f1.kind = f.kind /\ f1.size = f.size /\ f1.index = last
  BY <1>4, IndexTypes
<1> HIDE DEF f1
<1>7. Volatile(f1) \in DynamicFees /\ Volatile(f1).kind = f.kind /\ Volatile(f1).size = f.size /\ Volatile(f1).index = last
  BY <1>6, VolatileTypes
<1>8. h \in {f1, Volatile(f1)} \/ (h = f /\ ~(a_to_b /\ last < f.index) /\ ~(~a_to_b /\ last > f.index))
  BY <1>5
<1>9. h \in DynamicFees /\ h.kind = f.kind /\ h.size = f.size
  BY <1>6, <1>7, <1>8
<1>10. IF a_to_b THEN h.index <= index_of(t, f.size) ELSE index_of(t, f.size) - 1 <= h.index
  <2>1. CASE h.index = last
    BY <1>3, <1>4, <2>1
  <2>2. CASE h = f /\ ~(a_to_b /\ last < f.index) /\ ~(~a_to_b /\ last > f.index)
    <3>1. IF a_to_b THEN f.index <= last ELSE last <= f.index
      BY <1>1, <1>4, <2>2
    <3> QED BY <1>1, <1>3, <1>4, <2>2, <3>1
  <2> QED BY <1>6, <1>7, <1>8, <2>1, <2>2
<1> QED BY <1>2, <1>9, <1>10

\* A fee stays one, and where the turn ended at its target, the period's end is ahead.
LEMMA FeeKept ==
    ASSUME NEW f \in Fees, NEW a_to_b \in BOOLEAN, NEW liq, NEW tick \in Int, NEW target_tick \in Ticks,
           NEW p, Priced(p), Toward(p, Bounded(SqrtAt[target_tick], a_to_b), a_to_b), FeeAhead(f, p, a_to_b),
           NEW period, period = PeriodTarget(f, liq, Bounded(SqrtAt[target_tick], a_to_b), a_to_b),
           NEW q, Priced(q),
           NEW g, g = advance(f, period.skipped, q, SqrtAt[target_tick], target_tick, tick, a_to_b)
    PROVE  /\ g \in Fees
           /\ q = period.target /\ q # limit(a_to_b) => FeeAhead(g, q, a_to_b)
<1> DEFINE x == Bounded(SqrtAt[target_tick], a_to_b)
           step == IF a_to_b THEN -1 ELSE 1
<1>1. Priced(x) /\ (x = SqrtAt[target_tick] \/ x = limit(a_to_b))
  <2>1. Priced(SqrtAt[target_tick]) /\ Priced(limit(a_to_b))
    BY TickPrices, LimitPriced
  <2>2. x \in {SqrtAt[target_tick], limit(a_to_b)}
    BY DEF Bounded, AtLeast, AtMost
  <2> QED BY <2>1, <2>2
<1>2. /\ ~period.skipped => f.kind # "static" /\ Toward(period.target, Boundary(f, a_to_b), a_to_b)
      /\ f.kind \in {"static", "raydium"} /\ period.skipped => period.target = x
  <2> HIDE DEF x
  <2>1. Toward(p, x, a_to_b) /\ period = PeriodTarget(f, liq, x, a_to_b)
    BY DEF x
  <2> QED BY <1>1, <2>1, PeriodOnWay
<1> HIDE DEF x
<1>3. CASE f.kind = "static"
  BY <1>3 DEF advance, FeeAhead
<1>4. CASE f.kind # "static"
  <2>1. f \in DynamicFees
    BY <1>4 DEF Fees, StaticFee
  <2>2. f.index \in Int /\ f.size \in Nat \ {0} /\ step \in Int /\ f.kind \in {"raydium", "orca"}
    BY <2>1 DEF DynamicFees
  <2>3. CASE ~period.skipped
    <3>1. g = [f EXCEPT !.index = f.index + step]
      BY <1>4, <2>3 DEF advance
    <3>2. g \in DynamicFees /\ g.kind = f.kind /\ g.size = f.size /\ g.index = f.index + step
      <4>1. f.index + step \in Int
        BY <2>2
      <4> HIDE DEF step
      <4> QED BY <2>1, <3>1, <4>1, IndexTypes
    <3>3. ASSUME q = period.target PROVE Toward(q, Boundary(g, a_to_b), a_to_b)
      <4>1. Priced(Boundary(f, a_to_b)) /\ Priced(Boundary(g, a_to_b))
        BY <2>1, <3>2, BoundaryPriced
      <4>2. Toward(Boundary(f, a_to_b), Boundary(g, a_to_b), a_to_b)
        <5>1. CASE a_to_b
          <6> DEFINE b == f.index * f.size
                     c == (f.index - 1) * f.size
          <6>1. b \in Int /\ c \in Int /\ c <= b
            <7>1. f.index - 1 <= f.index /\ f.index - 1 \in Int /\ f.size \in Nat
              BY <2>2
            <7> QED BY <2>2, <7>1, IntTimesMonotone
          <6>2. Boundary(f, a_to_b) = SqrtAt[Clamp(b)] /\ Boundary(g, a_to_b) = SqrtAt[Clamp(c)]
            <7>1. g.index = f.index - 1
              BY <2>2, <3>2, <5>1
            <7> QED BY <3>2, <5>1, <7>1 DEF Boundary
          <6> HIDE DEF b, c
          <6>3. Clamp(b) \in Ticks /\ Clamp(c) \in Ticks /\ Clamp(c) <= Clamp(b)
            BY <6>1, ClampBounds
          <6>4. SqrtAt[Clamp(c)] <= SqrtAt[Clamp(b)]
            BY <6>3, TickPrices
          <6> QED BY <5>1, <6>2, <6>4 DEF Toward
        <5>2. CASE ~a_to_b
          <6> DEFINE b == (f.index + 1) * f.size
                     c == (f.index + 1 + 1) * f.size
          <6>1. b \in Int /\ c \in Int /\ b <= c
            <7>1. f.index + 1 <= f.index + 1 + 1 /\ f.index + 1 \in Int /\ f.index + 1 + 1 \in Int /\ f.size \in Nat
              BY <2>2
            <7> QED BY <2>2, <7>1, IntTimesMonotone
          <6>2. Boundary(f, a_to_b) = SqrtAt[Clamp(b)] /\ Boundary(g, a_to_b) = SqrtAt[Clamp(c)]
            <7>1. g.index = f.index + 1
              BY <2>2, <3>2, <5>2
            <7> QED BY <3>2, <5>2, <7>1 DEF Boundary
          <6> HIDE DEF b, c
          <6>3. Clamp(b) \in Ticks /\ Clamp(c) \in Ticks /\ Clamp(b) <= Clamp(c)
            BY <6>1, ClampBounds
          <6>4. SqrtAt[Clamp(b)] <= SqrtAt[Clamp(c)]
            BY <6>3, TickPrices
          <6> QED BY <5>2, <6>2, <6>4 DEF Toward
        <5> QED BY <5>1, <5>2
      <4>3. Toward(q, Boundary(f, a_to_b), a_to_b)
        BY <1>2, <2>3, <3>3
      <4> QED BY <4>1, <4>2, <4>3 DEF Toward, Priced
    <3> QED BY <3>2, <3>3 DEF FeeAhead, Fees
  <2>4. CASE period.skipped
    <3> DEFINE h == Landed(f, q, SqrtAt[target_tick], target_tick, tick, a_to_b)
    <3>1. g = [h EXCEPT !.index = h.index + step]
      BY <1>4, <2>4 DEF advance
    <3>2. h \in DynamicFees /\ h.kind = f.kind /\ h.size = f.size
          /\ \E t \in Int : /\ IF a_to_b THEN h.index <= index_of(t, f.size) ELSE index_of(t, f.size) - 1 <= h.index
                            /\ q = SqrtAt[target_tick] \/ f.kind = "orca" => IsTickAt(t, q)
      BY <2>1, LandedTypes
    <3> HIDE DEF h
    <3>3. PICK t \in Int : /\ IF a_to_b THEN h.index <= index_of(t, f.size) ELSE index_of(t, f.size) - 1 <= h.index
                           /\ q = SqrtAt[target_tick] \/ f.kind = "orca" => IsTickAt(t, q)
      BY <3>2
    <3>4. h.index \in Int
      BY <3>2 DEF DynamicFees
    <3>5. g \in DynamicFees /\ g.kind = h.kind /\ g.size = h.size /\ g.index = h.index + step
      <4>1. h.index + step \in Int
        BY <2>2, <3>4
      <4> HIDE DEF step
      <4> QED BY <3>1, <3>2, <4>1, IndexTypes
    <3>6. ASSUME q = period.target, q # limit(a_to_b) PROVE Toward(q, Boundary(g, a_to_b), a_to_b)
      <4>1. q = SqrtAt[target_tick] \/ f.kind = "orca"
        BY <1>1, <1>2, <2>2, <2>4, <3>6
      <4>2. IsTickAt(t, q)
        BY <3>3, <4>1
      <4>3. g.size = f.size
        BY <3>2, <3>5
      <4> QED BY <2>1, <3>3, <3>4, <3>5, <4>2, <4>3, NextBoundary
    <3> QED BY <3>5, <3>6 DEF FeeAhead, Fees
  <2> QED BY <2>3, <2>4
<1> QED BY <1>3, <1>4

-----------------------------------------------------------------------------
(* What a walk is given                                                     *)

\* The ticks of a book are ticks, finitely many of them, and what rests on one is a number.
LEMMA BookTypes ==
    ASSUME NEW b, IsBook(b)
    PROVE  /\ Initialised(b) \in SUBSET Ticks
           /\ \A p \in b.positions : p.lo \in Initialised(b) /\ p.hi \in Initialised(b) /\ p.lo \in Int /\ p.hi \in Int
           /\ \A t : OrdersAt(b, t) \in Nat
           /\ IsFiniteSet(Initialised(b))
<1>1. \A p \in b.positions : p.lo \in Ticks /\ p.hi \in Ticks
  BY DEF IsBook
<1>2. \A o \in b.orders : o.tick \in Ticks /\ o.amount \in Nat
  BY DEF IsBook
<1>3. Initialised(b) \in SUBSET Ticks
  BY <1>1, <1>2 DEF Initialised
<1>4. \A p \in b.positions : p.lo \in Initialised(b) /\ p.hi \in Initialised(b) /\ p.lo \in Int /\ p.hi \in Int
  BY <1>1, TickPrices DEF Initialised
<1>5. ASSUME NEW t PROVE OrdersAt(b, t) \in Nat
  <2> DEFINE fun == [o \in b.orders |-> o.amount]
             S == {o \in b.orders : o.tick = t}
  <2>1. IsFiniteSet(b.orders) /\ S \in SUBSET b.orders
    BY DEF IsBook
  <2>2. IsFiniteSet(S)
    BY <2>1, FS_Subset
  <2>3. Counts(fun, S)
    BY <1>2 DEF Counts
  <2> HIDE DEF fun, S
  <2>4. SumFunctionOnSet(fun, S) \in Nat
    BY <2>2, <2>3, SumRemoves
  <2> QED BY <2>4 DEF OrdersAt, fun, S
<1>6. IsFiniteSet(Initialised(b))
  <2>1. IsFiniteSet(Ticks)
    BY TicksAssumption, FS_Interval DEF Ticks
  <2> QED BY <1>3, <2>1, FS_Subset
<1> QED BY <1>3, <1>4, <1>5, <1>6

\* The ticks in memory are those of a book, all of them in the range they claim.
IsData(D, b) ==
    /\ IsBook(b) /\ D.lo \in Int /\ D.hi \in Int
    /\ \A t \in DOMAIN D.nets : t \in Initialised(b) /\ D.nets[t] = NetAt(b, t) /\ Unfilled(D, t) = OrdersAt(b, t)
    /\ \A t \in Initialised(b) : D.lo <= t /\ t <= D.hi => t \in DOMAIN D.nets

\* The edge does not go beyond the range that is known.
EdgeWithin(D, edge, a_to_b) == edge \in Int /\ IF a_to_b THEN D.lo <= edge ELSE edge <= D.hi
CursorWithin(D, cursor, a_to_b) == cursor \in Int /\ IF a_to_b THEN cursor <= D.hi ELSE D.lo <= cursor

\* No tick of the book lies between the walk and the tick it goes to.
Nearest(b, t, target, a_to_b) ==
    IF a_to_b THEN target <= t /\ \A v \in Initialised(b) : ~(target < v /\ v <= t)
    ELSE t < target /\ \A v \in Initialised(b) : ~(t < v /\ v < target)

\* Nor up to the edge.
Clear(b, t, edge, a_to_b) ==
    \A v \in Initialised(b) : IF a_to_b THEN ~(edge <= v /\ v <= t) ELSE ~(t < v /\ v <= edge)

\* The tick a turn goes to is the book's next, or else the edge.
LEMMA TargetBounds ==
    ASSUME NEW b, NEW D, IsData(D, b), NEW a_to_b \in BOOLEAN, NEW edge, EdgeWithin(D, edge, a_to_b),
           NEW w, CursorWithin(D, w.cursor, a_to_b),
           NEW target, target = TargetTick(w, D, a_to_b, edge)
    PROVE  /\ target \in Ticks
           /\ Ahead(w, D, a_to_b, edge) # {} =>
                  /\ target \in DOMAIN D.nets /\ target \in Initialised(b) /\ Nearest(b, w.cursor, target, a_to_b)
                  /\ IF a_to_b THEN edge <= target ELSE target <= edge
           /\ Ahead(w, D, a_to_b, edge) = {} =>
                  target = Clamp(IF a_to_b THEN edge ELSE edge + 1) /\ Clear(b, w.cursor, edge, a_to_b)
<1> DEFINE S == Ahead(w, D, a_to_b, edge)
           c == w.cursor
<1>1. edge \in Int /\ c \in Int /\ D.lo \in Int /\ D.hi \in Int
  BY DEF IsData, EdgeWithin, CursorWithin
<1>2. DOMAIN D.nets \in SUBSET Initialised(b) /\ Initialised(b) \in SUBSET Ticks /\ Ticks \in SUBSET Int
  BY BookTypes, TickPrices DEF IsData
<1>3. ASSUME NEW v \in Initialised(b), a_to_b, edge <= v, v <= c PROVE v \in S
  <2>1. v \in Int
    BY <1>2
  <2>2. D.lo <= v /\ v <= D.hi
    BY <1>1, <1>3, <2>1 DEF EdgeWithin, CursorWithin
  <2>3. v \in DOMAIN D.nets
    BY <2>2 DEF IsData
  <2> QED BY <1>3, <2>3 DEF Ahead
<1>4. ASSUME NEW v \in Initialised(b), ~a_to_b, c < v, v <= edge PROVE v \in S
  <2>1. v \in Int
    BY <1>2
  <2>2. D.lo <= v /\ v <= D.hi
    BY <1>1, <1>4, <2>1 DEF EdgeWithin, CursorWithin
  <2>3. v \in DOMAIN D.nets
    BY <2>2 DEF IsData
  <2> QED BY <1>4, <2>3 DEF Ahead
<1>5. \A v \in S : v \in DOMAIN D.nets /\ v \in Initialised(b) /\ v \in Ticks /\ v \in Int
                   /\ (IF a_to_b THEN edge <= v /\ v <= c ELSE c < v /\ v <= edge)
  BY <1>2 DEF Ahead
<1>6. target = Clamp(IF S # {} THEN (IF a_to_b THEN Max(S) ELSE Min(S)) ELSE IF a_to_b THEN edge ELSE edge + 1)
  BY DEF TargetTick
<1> HIDE DEF S
<1>7. CASE S # {} /\ a_to_b
  <2>1. S \in SUBSET Int /\ \A x \in S : x <= c
    BY <1>5, <1>7
  <2>2. Max(S) \in S /\ \A x \in S : x <= Max(S)
    BY <1>1, <1>7, <2>1, MaxChosen
  <2>3. target = Max(S)
    BY <1>5, <1>6, <1>7, <2>2, ClampBounds
  <2>4. ASSUME NEW v \in Initialised(b), target < v, v <= c PROVE FALSE
    <3>1. v \in Int /\ target \in Int /\ edge <= target
      BY <1>2, <1>5, <1>7, <2>2, <2>3
    <3>2. edge <= v
      BY <1>1, <2>4, <3>1
    <3>3. v \in S
      BY <1>3, <1>7, <2>4, <3>2
    <3> QED BY <2>2, <2>3, <2>4, <3>1, <3>3
  <2>5. Nearest(b, c, target, a_to_b)
    BY <1>5, <1>7, <2>2, <2>3, <2>4 DEF Nearest
  <2> QED BY <1>5, <1>7, <2>2, <2>3, <2>5 DEF S
<1>8. CASE S # {} /\ ~a_to_b
  <2>1. S \in SUBSET Int /\ \A x \in S : c <= x
    BY <1>1, <1>5, <1>8
  <2>2. Min(S) \in S /\ \A x \in S : Min(S) <= x
    BY <1>1, <1>8, <2>1, MinChosen
  <2>3. target = Min(S)
    BY <1>5, <1>6, <1>8, <2>2, ClampBounds
  <2>4. ASSUME NEW v \in Initialised(b), c < v, v < target PROVE FALSE
    <3>1. v \in Int /\ target \in Int /\ target <= edge
      BY <1>2, <1>5, <1>8, <2>2, <2>3
    <3>2. c < v /\ v <= edge
      BY <1>1, <2>4, <3>1
    <3>3. v \in S
      BY <1>8, <1>4, <2>4, <3>2
    <3> QED BY <2>2, <2>3, <2>4, <3>1, <3>3
  <2>5. Nearest(b, c, target, a_to_b)
    BY <1>5, <1>8, <2>2, <2>3, <2>4 DEF Nearest
  <2> QED BY <1>5, <1>8, <2>2, <2>3, <2>5 DEF S
<1>9. CASE S = {}
  <2>1. target = Clamp(IF a_to_b THEN edge ELSE edge + 1)
    BY <1>6, <1>9
  <2>2. (IF a_to_b THEN edge ELSE edge + 1) \in Int
    BY <1>1
  <2>3. target \in Ticks
    BY <2>1, <2>2, ClampBounds
  <2>4. Clear(b, c, edge, a_to_b)
    BY <1>3, <1>4, <1>9 DEF Clear
  <2> QED BY <1>9, <2>1, <2>3, <2>4 DEF S
<1> QED BY <1>7, <1>8, <1>9

-----------------------------------------------------------------------------
(* Walks                                                                    *)

WalkRecords == [status : {"walking", "done"}, remaining : Nat, sqrt_p : Nat, tick : Int, liq : Nat,
                out : Nat, cursor : Int, steps : Nat, fee : Fees]

OnItsWay(w, to, a_to_b, m) ==
    \E q \in Nat, r \in 0..w.remaining, o \in Nat :
        /\ m = [w EXCEPT !.sqrt_p = q, !.remaining = r, !.out = o]
        /\ Priced(q) /\ Toward(w.sqrt_p, q, a_to_b) /\ Toward(q, to, a_to_b)
        /\ r > 0 => q = to

\* A move within one range of liquidity fails, or goes on the way until it is there
\* or nothing is left.
LEMMA MovedForms ==
    ASSUME NEW pool, NEW w \in WalkRecords, w.status = "walking", Priced(w.sqrt_p), NEW to, Priced(to), NEW a_to_b \in BOOLEAN,
           Toward(w.sqrt_p, to, a_to_b), NEW rate \in 0..(PPM - 1),
           NEW m, m = Moved(pool, w, to, rate, a_to_b)
    PROVE  m.status = "none" \/ OnItsWay(w, to, a_to_b, m)
<1>1. /\ w.remaining \in Nat /\ w.out \in Nat /\ w.liq \in Nat /\ to \in Nat \ {0} /\ w.sqrt_p \in Nat \ {0}
  BY DEF WalkRecords, Priced
<1>2. Toward(to, to, a_to_b)
  BY <1>1 DEF Toward
<1>3. CASE w.sqrt_p = to \/ w.liq = 0
  <2>1. m = [w EXCEPT !.sqrt_p = to, !.remaining = w.remaining, !.out = w.out]
    BY <1>3 DEF Moved, WalkRecords
  <2>2. w.remaining \in 0..w.remaining /\ to \in Nat
    BY <1>1
  <2> QED BY <1>1, <1>2, <2>1, <2>2 DEF OnItsWay
<1>4. CASE ~(w.sqrt_p = to \/ w.liq = 0)
  <2> DEFINE s == swap_step(w.sqrt_p, to, w.liq, w.remaining, rate, a_to_b, fee_on_input(pool, a_to_b))
  <2>1. m = Taken(w, s)
    BY <1>4 DEF Moved
  <2>2. fee_on_input(pool, a_to_b) \in BOOLEAN
    BY DEF fee_on_input
  <2>3. CASE s = NoStep
    BY <2>1, <2>3 DEF Taken, Failed, WalkRecords
  <2>4. CASE s # NoStep
    <3>1. w.liq \in Nat \ {0}
      BY <1>1, <1>4
    <3>2. /\ s.next \in Nat \ {0} /\ Toward(w.sqrt_p, s.next, a_to_b) /\ Toward(s.next, to, a_to_b)
          /\ s.used \in 0..w.remaining /\ s.got \in Nat
          /\ s.used < w.remaining => s.next = to
      <4> DEFINE p == w.sqrt_p
                 l == w.liq
                 n == w.remaining
                 on == fee_on_input(pool, a_to_b)
      <4>1. p \in Nat \ {0} /\ l \in Nat \ {0} /\ n \in Nat /\ on \in BOOLEAN /\ to \in Nat \ {0} /\ Toward(p, to, a_to_b)
        BY <1>1, <2>2, <3>1
      <4>2. s = swap_step(p, to, l, n, rate, a_to_b, on) /\ s # NoStep
        BY <2>4
      <4> HIDE DEF p, l, n, on, s
      <4>3. s.next \in Nat \ {0}
        BY <4>1, <4>2, StepFair
      <4>4. Toward(p, s.next, a_to_b) /\ Toward(s.next, to, a_to_b)
        BY <4>1, <4>2, StepFair
      <4>5. s.used \in 0..n /\ s.got \in Nat
        BY <4>1, <4>2, StepFair
      <4>6. s.used < n => s.next = to
        BY <4>1, <4>2, StepFair
      <4> QED BY <4>3, <4>4, <4>5, <4>6 DEF p, n
    <3>3. m = [w EXCEPT !.sqrt_p = s.next, !.remaining = w.remaining - s.used, !.out = w.out + s.got]
      BY <2>1, <2>4 DEF Taken, WalkRecords
    <3> HIDE DEF s
    <3>4. Priced(s.next)
      <4>1. IF a_to_b THEN to <= s.next /\ s.next <= w.sqrt_p ELSE w.sqrt_p <= s.next /\ s.next <= to
        BY <3>2 DEF Toward
      <4>2. SqrtAt[MinTick] \in Nat /\ SqrtAt[MaxTick] \in Nat
        BY TickPrices DEF Priced
      <4> QED BY <1>1, <3>2, <4>1, <4>2 DEF Priced
    <3> DEFINE r == w.remaining - s.used
               o == w.out + s.got
    <3>5. r \in 0..w.remaining /\ o \in Nat /\ (r > 0 => s.next = to) /\ s.next \in Nat
      BY <1>1, <3>2
    <3>6. m = [w EXCEPT !.sqrt_p = s.next, !.remaining = r, !.out = o]
      BY <3>3
    <3> HIDE DEF r, o
    <3> QED BY <3>2, <3>4, <3>5, <3>6 DEF OnItsWay
  <2> QED BY <2>3, <2>4
<1> QED BY <1>3, <1>4

\* No position begins or ends before the next tick of the book.
LEMMA NextUnbroken ==
    ASSUME NEW b, IsBook(b), NEW t \in Int, NEW target \in Int, NEW a_to_b \in BOOLEAN, Nearest(b, t, target, a_to_b)
    PROVE  IF a_to_b THEN Unbroken(b, target, t + 1) ELSE Unbroken(b, t, target)
<1>1. \A p \in b.positions : p.lo \in Initialised(b) /\ p.hi \in Initialised(b) /\ p.lo \in Int /\ p.hi \in Int
  BY BookTypes
<1>2. CASE a_to_b
  <2>1. \A v \in Initialised(b) : ~(target < v /\ v <= t)
    BY <1>2 DEF Nearest
  <2>2. ASSUME NEW p \in b.positions PROVE ~(target < p.lo /\ p.lo < t + 1) /\ ~(target < p.hi /\ p.hi < t + 1)
    <3>1. ~(target < p.lo /\ p.lo <= t) /\ ~(target < p.hi /\ p.hi <= t)
      BY <1>1, <2>1
    <3> QED BY <1>1, <3>1
  <2> QED BY <1>2, <2>2 DEF Unbroken
<1>3. CASE ~a_to_b
  <2>1. \A v \in Initialised(b) : ~(t < v /\ v < target)
    BY <1>3 DEF Nearest
  <2> QED BY <1>1, <1>3, <2>1 DEF Unbroken
<1> QED BY <1>2, <1>3

\* The liquidity beyond the tick, and on this side of it.
LEMMA LiquidityBeyond ==
    ASSUME NEW b, IsBook(b), NEW t \in Int, NEW target \in Int, NEW a_to_b \in BOOLEAN, Nearest(b, t, target, a_to_b)
    PROVE  /\ LiquidityAt(b, t) + (IF a_to_b THEN -NetAt(b, target) ELSE NetAt(b, target))
              = LiquidityAt(b, IF a_to_b THEN target - 1 ELSE target)
           /\ LiquidityAt(b, t) = LiquidityAt(b, IF a_to_b THEN target ELSE target - 1)
           /\ NetAt(b, target) \in Int
<1>1. LiquidityAt(b, t) \in Nat /\ LiquidityAt(b, target) \in Nat /\ LiquidityAt(b, target - 1) \in Nat /\ NetAt(b, target) \in Int
  BY LiquidityTypes
<1>2. CASE a_to_b
  <2>1. target <= t /\ Unbroken(b, target, t + 1)
    BY <1>2, NextUnbroken DEF Nearest
  <2>2. LiquidityAt(b, t) = LiquidityAt(b, target)
    BY <2>1, LiquidityStays
  <2>3. Unbroken(b, target - 1, target)
    <3>1. \A p \in b.positions : p.lo \in Int /\ p.hi \in Int
      BY BookTypes
    <3> QED BY <3>1 DEF Unbroken
  <2>4. target - 1 \in Int /\ target - 1 < target
    OBVIOUS
  <2>5. LiquidityAt(b, target) = LiquidityAt(b, target - 1) + NetAt(b, target)
    BY <2>3, <2>4, LiquidityCrosses
  <2>6. LiquidityAt(b, t) + (-NetAt(b, target)) = LiquidityAt(b, target - 1)
    BY <1>1, <2>2, <2>5
  <2> QED BY <1>1, <1>2, <2>2, <2>6
<1>3. CASE ~a_to_b
  <2>1. t < target /\ Unbroken(b, t, target)
    BY <1>3, NextUnbroken DEF Nearest
  <2>2. LiquidityAt(b, target) = LiquidityAt(b, t) + NetAt(b, target)
    BY <2>1, LiquidityCrosses
  <2>3. target - 1 \in Int /\ t <= target - 1 /\ target - 1 + 1 = target
    BY <2>1
  <2>4. Unbroken(b, t, target - 1 + 1)
    BY <2>1, <2>3
  <2>5. LiquidityAt(b, target - 1) = LiquidityAt(b, t)
    BY <2>3, <2>4, LiquidityStays
  <2> QED BY <1>1, <1>3, <2>2, <2>5
<1> QED BY <1>2, <1>3

AcrossTick(w, b, target, a_to_b, c) ==
    \/ c.status = "none" /\ w.remaining > 0
    \/ \E r \in 0..w.remaining, o \in Nat, t \in {target - 1, target} :
          /\ c = [w EXCEPT !.remaining = r, !.out = o, !.liq = LiquidityAt(b, t), !.tick = t,
                           !.cursor = IF a_to_b THEN target - 1 ELSE target]
          /\ w.out <= o
          /\ r > 0 => t = IF a_to_b THEN target - 1 ELSE target

\* Crossing a tick fails, or leaves the liquidity of the book; with nothing left
\* to swap it does not fail.
LEMMA CrossedForms ==
    ASSUME NEW D, NEW b, IsData(D, b), NEW pool, NEW w \in WalkRecords, NEW target \in DOMAIN D.nets, NEW rate \in 0..(PPM - 1),
           NEW a_to_b \in BOOLEAN, Nearest(b, w.tick, target, a_to_b), w.liq = LiquidityAt(b, w.tick),
           NEW c, c = Crossed(pool, D, w, target, rate, a_to_b)
    PROVE  AcrossTick(w, b, target, a_to_b, c)
<1>1. /\ w.remaining \in Nat /\ w.out \in Nat /\ w.tick \in Int
  BY DEF WalkRecords
<1>2. target \in Initialised(b) /\ D.nets[target] = NetAt(b, target) /\ Unfilled(D, target) = OrdersAt(b, target) /\ IsBook(b)
  BY DEF IsData
<1>3. target \in Ticks /\ target \in Int /\ OrdersAt(b, target) \in Nat
  BY <1>2, BookTypes, TickPrices
<1> DEFINE on == fee_on_input(pool, a_to_b)
           u == Unfilled(D, target)
           f == Filled(pool, u, w.remaining, SqrtAt[target], rate, a_to_b, on)
           left == u - f.filled
           liq == w.liq + (IF a_to_b THEN -D.nets[target] ELSE D.nets[target])
<1>4. /\ f.used \in Nat /\ f.got \in Nat /\ f.filled \in 0..u
      /\ w.remaining = 0 => f.used = 0 /\ f.got = 0
  <2> DEFINE p == SqrtAt[target]
             n == w.remaining
  <2>1. on \in BOOLEAN /\ u \in Nat /\ n \in Nat
    BY <1>1, <1>2, <1>3 DEF fee_on_input
  <2>2. p \in Nat \ {0} /\ p * p >= Q64
    BY <1>3, TickPrices DEF Priced
  <2>3. f = Filled(pool, u, n, p, rate, a_to_b, on)
    OBVIOUS
  <2> HIDE DEF p, n, on, u, f
  <2>4. f.used \in Nat
    BY <2>1, <2>2, <2>3, FilledTypes
  <2>5. f.got \in Nat
    BY <2>1, <2>2, <2>3, FilledTypes
  <2>6. f.filled \in 0..u
    BY <2>1, <2>2, <2>3, FilledTypes
  <2>7. n = 0 => f.used = 0 /\ f.got = 0
    BY <2>1, <2>2, <2>3, FilledTypes
  <2> QED BY <2>4, <2>5, <2>6, <2>7 DEF n
<1>5. c = AfterOrders(w, target, f, left, liq, a_to_b)
  BY DEF Crossed, Orders
<1>6. left \in Nat
  <2>1. u \in Nat
    BY <1>2, <1>3
  <2> HIDE DEF f, u
  <2> QED BY <1>4, <2>1
<1>7. liq = LiquidityAt(b, IF a_to_b THEN target - 1 ELSE target) /\ liq \in Nat
      /\ w.liq = LiquidityAt(b, IF a_to_b THEN target ELSE target - 1)
  <2>1. liq = LiquidityAt(b, w.tick) + (IF a_to_b THEN -NetAt(b, target) ELSE NetAt(b, target))
    BY <1>2
  <2>2. (IF a_to_b THEN target - 1 ELSE target) \in Int
    BY <1>3
  <2> HIDE DEF liq
  <2>3. LiquidityAt(b, IF a_to_b THEN target - 1 ELSE target) \in Nat
    BY <1>2, <2>2, LiquidityTypes
  <2>4. LiquidityAt(b, w.tick) + (IF a_to_b THEN -NetAt(b, target) ELSE NetAt(b, target))
              = LiquidityAt(b, IF a_to_b THEN target - 1 ELSE target)
    BY <1>1, <1>2, <1>3, LiquidityBeyond
  <2>5. LiquidityAt(b, w.tick) = LiquidityAt(b, IF a_to_b THEN target ELSE target - 1)
    BY <1>1, <1>2, <1>3, LiquidityBeyond
  <2> QED BY <2>1, <2>3, <2>4, <2>5
<1> HIDE DEF f, left, liq, u, on
<1>8. CASE f.used > w.remaining \/ (left > 0 /\ w.remaining > f.used)
  <2>1. c.status = "none"
    BY <1>5, <1>8 DEF AfterOrders, Failed, WalkRecords
  <2>2. w.remaining > 0
    BY <1>1, <1>4, <1>8
  <2> QED BY <2>1, <2>2 DEF AcrossTick
<1>9. CASE ~(f.used > w.remaining \/ (left > 0 /\ w.remaining > f.used))
  <2> DEFINE r == w.remaining - f.used
             o == w.out + f.got
             t == IF a_to_b = (left = 0) THEN target - 1 ELSE target
             k == IF a_to_b THEN target - 1 ELSE target
             l == IF left = 0 THEN liq ELSE w.liq
  <2>1. r \in 0..w.remaining /\ o \in Nat /\ w.out <= o
    BY <1>1, <1>4, <1>9
  <2>2. ~(left = 0 /\ liq < 0)
    BY <1>7
  <2>3. c = [w EXCEPT !.remaining = r, !.out = o, !.liq = l, !.tick = t, !.cursor = k]
    BY <1>5, <1>9, <2>2 DEF AfterOrders, WalkRecords
  <2>4. r > 0 => left = 0
    BY <1>1, <1>4, <1>6, <1>9
  <2>5. CASE left = 0
    <3>1. t = k
      BY <2>5
    <3>2. l = LiquidityAt(b, t)
      BY <1>7, <2>5, <3>1
    <3>3. t \in {target - 1, target}
      OBVIOUS
    <3> HIDE DEF r, o, t, l
    <3> QED BY <2>1, <2>3, <3>1, <3>2, <3>3 DEF AcrossTick
  <2>6. CASE left # 0
    <3>1. t = IF a_to_b THEN target ELSE target - 1
      BY <2>6
    <3>2. l = LiquidityAt(b, t)
      BY <1>7, <2>6, <3>1
    <3>3. t \in {target - 1, target}
      OBVIOUS
    <3> HIDE DEF r, o, t, l
    <3> QED BY <2>1, <2>3, <2>4, <2>6, <3>2, <3>3 DEF AcrossTick
  <2> QED BY <2>5, <2>6
<1> QED BY <1>8, <1>9

\* Where a walk stands is where its tick says, and the liquidity is the book's.
StandsAt(p, tick, a_to_b) ==
    \A u \in Ticks : IF a_to_b THEN u > tick => p <= SqrtAt[u] ELSE u <= tick => SqrtAt[u] <= p

Sound(w, D, b, a_to_b) ==
    /\ w \in WalkRecords /\ w.remaining <= U64
    /\ Priced(w.sqrt_p) /\ Toward(w.sqrt_p, limit(a_to_b), a_to_b)
    /\ StandsAt(w.sqrt_p, w.tick, a_to_b)
    /\ w.liq = LiquidityAt(b, w.tick)
    /\ CursorWithin(D, w.cursor, a_to_b)
    /\ w.remaining > 0 => w.cursor = w.tick
    /\ w.remaining > 0 /\ w.sqrt_p # limit(a_to_b) => FeeAhead(w.fee, w.sqrt_p, a_to_b)

\* The fee a turn is made with.
Charged(w) == [w EXCEPT !.fee = IF @.kind = "static" THEN @ ELSE Volatile(@)]

\* The fee re-read before a turn leaves a sound walk sound.
LEMMA ChargedSound ==
    ASSUME NEW D, NEW b, NEW a_to_b \in BOOLEAN, NEW w, Sound(w, D, b, a_to_b)
    PROVE  Sound(Charged(w), D, b, a_to_b) /\ Charged(w) = [w EXCEPT !.fee = Charged(w).fee]
<1> DEFINE g == IF w.fee.kind = "static" THEN w.fee ELSE Volatile(w.fee)
<1>1. w.fee \in Fees /\ w \in WalkRecords
  BY DEF Sound, WalkRecords
<1>2. Charged(w) = [w EXCEPT !.fee = g]
  BY <1>1 DEF Charged
<1>3. g \in Fees /\ (\A p : FeeAhead(w.fee, p, a_to_b) => FeeAhead(g, p, a_to_b))
  <2>1. CASE w.fee.kind = "static"
    BY <1>1, <2>1
  <2>2. CASE w.fee.kind # "static"
    <3>1. w.fee \in DynamicFees
      BY <1>1, <2>2 DEF Fees, StaticFee
    <3>2. g = Volatile(w.fee)
      BY <2>2
    <3> HIDE DEF g
    <3>3. g \in DynamicFees /\ g.index = w.fee.index /\ g.size = w.fee.size
      BY <3>1, <3>2, VolatileTypes
    <3> QED BY <2>2, <3>3 DEF Fees, FeeAhead, Boundary
  <2> QED BY <2>1, <2>2
<1> HIDE DEF g
<1> QED BY <1>1, <1>2, <1>3 DEF Sound, WalkRecords

\* A price that does not go beyond the target nor the limit.
LEMMA BoundedOnWay ==
    ASSUME NEW target \in Ticks, NEW a_to_b \in BOOLEAN, NEW p, Priced(p), Toward(p, limit(a_to_b), a_to_b),
           Toward(p, SqrtAt[target], a_to_b)
    PROVE  /\ Priced(Bounded(SqrtAt[target], a_to_b))
           /\ Toward(p, Bounded(SqrtAt[target], a_to_b), a_to_b)
           /\ Toward(Bounded(SqrtAt[target], a_to_b), limit(a_to_b), a_to_b)
           /\ Toward(Bounded(SqrtAt[target], a_to_b), SqrtAt[target], a_to_b)
<1>1. Priced(SqrtAt[target]) /\ Priced(limit(a_to_b))
  BY TickPrices, LimitPriced
<1>2. SqrtAt[target] \in Nat /\ limit(a_to_b) \in Nat /\ p \in Nat
  BY <1>1 DEF Priced
<1>3. Bounded(SqrtAt[target], a_to_b) \in {SqrtAt[target], limit(a_to_b)}
  BY DEF Bounded, AtLeast, AtMost
<1>4. Priced(Bounded(SqrtAt[target], a_to_b))
  BY <1>1, <1>3
<1>5. Toward(p, Bounded(SqrtAt[target], a_to_b), a_to_b)
  BY <1>3
<1>6. Toward(Bounded(SqrtAt[target], a_to_b), limit(a_to_b), a_to_b)
  BY <1>2 DEF Bounded, AtLeast, AtMost, Toward
<1>7. Toward(Bounded(SqrtAt[target], a_to_b), SqrtAt[target], a_to_b)
  BY <1>2 DEF Bounded, AtLeast, AtMost, Toward
<1> QED BY <1>4, <1>5, <1>6, <1>7

\* A direction is transitive.
LEMMA TowardOnward ==
    ASSUME NEW p \in Nat, NEW q \in Nat, NEW r \in Nat, NEW a_to_b \in BOOLEAN, Toward(p, q, a_to_b), Toward(q, r, a_to_b)
    PROVE  Toward(p, r, a_to_b)
BY DEF Toward

\* A price that moves on is still where its tick says, or beyond it.
LEMMA StandsOnward ==
    ASSUME NEW p \in Nat, NEW q \in Nat, NEW tick, NEW a_to_b \in BOOLEAN, StandsAt(p, tick, a_to_b), Toward(p, q, a_to_b)
    PROVE  StandsAt(q, tick, a_to_b)
<1>1. \A u \in Ticks : SqrtAt[u] \in Nat
  BY TickPrices DEF Priced
<1> QED BY <1>1 DEF StandsAt, Toward

\* At the price of a tick, both that tick and the one below are where the price is.
LEMMA StandsAcross ==
    ASSUME NEW target \in Ticks, NEW t \in {target - 1, target}, NEW a_to_b \in BOOLEAN
    PROVE  StandsAt(SqrtAt[target], t, a_to_b)
<1>1. \A u \in Ticks : u \in Int /\ (SqrtAt[target] <= SqrtAt[u] <=> target <= u) /\ (SqrtAt[u] <= SqrtAt[target] <=> u <= target)
  BY TickPrices
<1>2. target \in Int
  BY TickPrices
<1> QED BY <1>1, <1>2 DEF StandsAt

-----------------------------------------------------------------------------
\* A walk on its way through a turn: where it may be after the move and the tick.
LEMMA ArrivedForms ==
    ASSUME NEW D, NEW b, IsData(D, b), NEW pool, NEW w \in WalkRecords, NEW target \in Ticks, NEW known \in BOOLEAN, NEW rate \in 0..(PPM - 1),
           NEW a_to_b \in BOOLEAN,
           known => target \in DOMAIN D.nets /\ Nearest(b, w.tick, target, a_to_b) /\ (IF a_to_b THEN target <= D.hi ELSE D.lo <= target),
           w.liq = LiquidityAt(b, w.tick), StandsAt(w.sqrt_p, w.tick, a_to_b), CursorWithin(D, w.cursor, a_to_b), w.cursor = w.tick,
           NEW c, c = Arrived(pool, D, w, target, known, rate, a_to_b)
    PROVE  \/ c.status = "none"
           \/ /\ c \in WalkRecords /\ c.sqrt_p = w.sqrt_p /\ c.fee = w.fee /\ c.steps = w.steps /\ c.remaining <= w.remaining
              /\ c.liq = LiquidityAt(b, c.tick) /\ StandsAt(c.sqrt_p, c.tick, a_to_b)
              /\ CursorWithin(D, c.cursor, a_to_b)
              /\ c.remaining > 0 => c.cursor = c.tick
<1>1. w.remaining \in Nat /\ target \in Int /\ w.status \in {"walking", "done"}
  BY TickPrices DEF WalkRecords
<1>2. CASE w.sqrt_p # SqrtAt[target]
  BY <1>1, <1>2 DEF Arrived
<1>3. CASE w.sqrt_p = SqrtAt[target] /\ ~known
  <2>1. c = Failed(w) \/ c = [w EXCEPT !.status = "done"]
    BY <1>1, <1>3 DEF Arrived
  <2>2. CASE c = Failed(w)
    BY <2>2 DEF Failed, WalkRecords
  <2>3. CASE c = [w EXCEPT !.status = "done"]
    BY <1>1, <2>3 DEF WalkRecords
  <2> QED BY <2>1, <2>2, <2>3
<1>4. CASE w.sqrt_p = SqrtAt[target] /\ known
  <2>1. c = Crossed(pool, D, w, target, rate, a_to_b)
    BY <1>1, <1>4 DEF Arrived
  <2>2. target \in DOMAIN D.nets /\ Nearest(b, w.tick, target, a_to_b) /\ (IF a_to_b THEN target <= D.hi ELSE D.lo <= target)
    BY <1>4
  <2>3. AcrossTick(w, b, target, a_to_b, c)
    <3>1. target \in DOMAIN D.nets /\ Nearest(b, w.tick, target, a_to_b)
      BY <2>2
    <3> QED BY <2>1, <3>1, CrossedForms
  <2>4. ASSUME NEW r \in 0..w.remaining, NEW o \in Nat, NEW t \in {target - 1, target},
               c = [w EXCEPT !.remaining = r, !.out = o, !.liq = LiquidityAt(b, t), !.tick = t,
                             !.cursor = IF a_to_b THEN target - 1 ELSE target],
               w.out <= o, r > 0 => t = IF a_to_b THEN target - 1 ELSE target
        PROVE  /\ c \in WalkRecords /\ c.sqrt_p = w.sqrt_p /\ c.fee = w.fee /\ c.steps = w.steps /\ c.remaining <= w.remaining
               /\ c.liq = LiquidityAt(b, c.tick) /\ StandsAt(c.sqrt_p, c.tick, a_to_b)
               /\ CursorWithin(D, c.cursor, a_to_b)
               /\ c.remaining > 0 => c.cursor = c.tick
    <3>1. t \in Int /\ r \in Nat /\ r <= w.remaining /\ (IF a_to_b THEN target - 1 ELSE target) \in Int
      BY <1>1
    <3>2. LiquidityAt(b, t) \in Nat
      BY <3>1, LiquidityTypes DEF IsData
    <3>3. /\ c.remaining = r /\ c.out = o /\ c.liq = LiquidityAt(b, t) /\ c.tick = t
          /\ c.cursor = IF a_to_b THEN target - 1 ELSE target
          /\ c.sqrt_p = w.sqrt_p /\ c.fee = w.fee /\ c.steps = w.steps
      BY <2>4 DEF WalkRecords
    <3>4. c \in WalkRecords
      BY <2>4, <3>1, <3>2 DEF WalkRecords
    <3>5. StandsAt(c.sqrt_p, c.tick, a_to_b)
      BY <1>4, <3>3, StandsAcross
    <3>6. CursorWithin(D, c.cursor, a_to_b)
      BY <1>1, <2>2, <3>1, <3>3 DEF CursorWithin, IsData
    <3>7. c.remaining > 0 => c.cursor = c.tick
      BY <2>4, <3>3
    <3> QED BY <3>1, <3>3, <3>4, <3>5, <3>6, <3>7
  <2> QED BY <2>3, <2>4 DEF AcrossTick
<1> QED BY <1>2, <1>3, <1>4

\* A turn that does not fail at once is on its way to its target, next on the book.
LEMMA TurnReady ==
    ASSUME NEW D, NEW b, IsData(D, b), NEW pool, NEW a_to_b \in BOOLEAN, NEW edge, EdgeWithin(D, edge, a_to_b),
           NEW w, Sound(w, D, b, a_to_b), w.remaining > 0,
           NEW target, target = TargetTick(w, D, a_to_b, edge), NEW known \in BOOLEAN, known <=> Ahead(w, D, a_to_b, edge) # {},
           NEW t, t = TurnTo(pool, D, Charged(w), target, known, a_to_b)
    PROVE  /\ target \in Ticks
           /\ known => /\ target \in DOMAIN D.nets /\ Nearest(b, w.tick, target, a_to_b)
                       /\ IF a_to_b THEN target <= D.hi ELSE D.lo <= target
           /\ \/ t.status = "none"
              \/ /\ t = Turned(pool, D, Charged(w), target, known,
                               PeriodTarget(Charged(w).fee, w.liq, Bounded(SqrtAt[target], a_to_b), a_to_b),
                               Rated(Charged(w).fee, pool.fee_ppm), a_to_b)
                 /\ Toward(w.sqrt_p, SqrtAt[target], a_to_b)
<1>1. w \in WalkRecords /\ CursorWithin(D, w.cursor, a_to_b) /\ w.cursor = w.tick /\ w.tick \in Int /\ w.sqrt_p \in Nat
  BY DEF Sound, WalkRecords
<1>2. target \in Ticks
  BY <1>1, TargetBounds
<1>3. known => target \in DOMAIN D.nets /\ target \in Initialised(b)
  BY <1>1, TargetBounds
<1>4. known => Nearest(b, w.cursor, target, a_to_b)
  BY <1>1, TargetBounds
<1>5. known => IF a_to_b THEN edge <= target ELSE target <= edge
  BY <1>1, TargetBounds
<1>6. known => Nearest(b, w.tick, target, a_to_b)
  BY <1>1, <1>4
<1>7. target \in Int /\ SqrtAt[target] \in Nat /\ D.lo \in Int /\ D.hi \in Int
  BY <1>2, TickPrices DEF Priced, IsData
<1>8. known => IF a_to_b THEN target <= D.hi ELSE D.lo <= target
  BY <1>1, <1>4, <1>5, <1>7 DEF CursorWithin, Nearest
<1>9. Charged(w) = [w EXCEPT !.fee = Charged(w).fee] /\ Charged(w).status = w.status /\ Charged(w).sqrt_p = w.sqrt_p
      /\ Charged(w).tick = w.tick /\ Charged(w).liq = w.liq
  BY <1>1, ChargedSound DEF WalkRecords
<1> DEFINE stuck == \/ a_to_b /\ (w.tick < target \/ w.sqrt_p < SqrtAt[target])
                    \/ ~a_to_b /\ (target <= w.tick \/ SqrtAt[target] < w.sqrt_p)
<1>10. CASE stuck
  <2>1. t = Failed(Charged(w))
    BY <1>9, <1>10 DEF TurnTo
  <2>2. t.status = "none"
    BY <1>1, <1>9, <2>1 DEF Failed, WalkRecords
  <2> QED BY <1>2, <1>3, <1>6, <1>8, <2>2
<1>11. CASE ~stuck
  <2>1. t = Turned(pool, D, Charged(w), target, known,
                   PeriodTarget(Charged(w).fee, w.liq, Bounded(SqrtAt[target], a_to_b), a_to_b),
                   Rated(Charged(w).fee, pool.fee_ppm), a_to_b)
    BY <1>9, <1>11 DEF TurnTo
  <2>2. Toward(w.sqrt_p, SqrtAt[target], a_to_b)
    BY <1>1, <1>7, <1>11 DEF Toward
  <2> QED BY <1>2, <1>3, <1>6, <1>8, <2>1, <2>2
<1> QED BY <1>10, <1>11

\* A turn fails, or leaves a sound walk sound.
LEMMA TurnSound ==
    ASSUME NEW D, NEW b, IsData(D, b), NEW pool, pool.fee_ppm \in 0..(PPM - 1), NEW a_to_b \in BOOLEAN,
           NEW edge, EdgeWithin(D, edge, a_to_b),
           NEW w, Sound(w, D, b, a_to_b), w.status = "walking", w.remaining > 0, w.sqrt_p # limit(a_to_b),
           NEW t, t = WalkStep(pool, D, w, a_to_b, edge)
    PROVE  t.status = "none" \/ Sound(t, D, b, a_to_b)
<1> DEFINE target == TargetTick(w, D, a_to_b, edge)
           known == Ahead(w, D, a_to_b, edge) # {}
           w0 == Charged(w)
           to == Bounded(SqrtAt[target], a_to_b)
           period == PeriodTarget(w0.fee, w.liq, to, a_to_b)
           rate == Rated(w0.fee, pool.fee_ppm)
           m == Moved(pool, w0, period.target, rate, a_to_b)
           c == Arrived(pool, D, m, target, known, rate, a_to_b)
           g == advance(w0.fee, period.skipped, c.sqrt_p, SqrtAt[target], target, c.tick, a_to_b)
           n == IF w0.sqrt_p # period.target THEN c.steps + 1 ELSE c.steps
<1>1. t = TurnTo(pool, D, w0, target, known, a_to_b)
  BY DEF WalkStep, Charged
<1>2. known \in BOOLEAN /\ (known <=> Ahead(w, D, a_to_b, edge) # {}) /\ target = TargetTick(w, D, a_to_b, edge)
  OBVIOUS
<1>3. t = Turned(pool, D, w0, target, known, period, rate, a_to_b) => t = [c EXCEPT !.fee = g, !.steps = n]
  BY DEF Turned, Advanced
<1>4. Sound(w0, D, b, a_to_b) /\ w0 = [w EXCEPT !.fee = w0.fee]
  BY ChargedSound
<1>5. /\ w \in WalkRecords /\ w.remaining \in Nat /\ w.cursor = w.tick /\ w.liq = LiquidityAt(b, w.tick) /\ w.remaining <= U64
      /\ Priced(w.sqrt_p) /\ w.sqrt_p \in Nat /\ StandsAt(w.sqrt_p, w.tick, a_to_b) /\ CursorWithin(D, w.cursor, a_to_b) /\ Toward(w.sqrt_p, limit(a_to_b), a_to_b)
  BY DEF Sound, WalkRecords, Priced
<1>6. /\ w0 \in WalkRecords /\ w0.fee \in Fees /\ w0.status = "walking" /\ w0.sqrt_p = w.sqrt_p /\ w0.remaining = w.remaining
      /\ w0.tick = w.tick /\ w0.cursor = w.cursor /\ w0.liq = w.liq /\ w0.out = w.out /\ w0.steps = w.steps
  BY <1>4, <1>5 DEF Sound, WalkRecords
<1>7. FeeAhead(w0.fee, w.sqrt_p, a_to_b)
  BY <1>4, <1>6 DEF Sound
<1>8. rate \in 0..(PPM - 1)
  BY <1>6, RatedType
<1> HIDE DEF target, known, w0
<1>9. target \in Ticks
  BY <1>1, <1>2, TurnReady
<1>10. known => /\ target \in DOMAIN D.nets /\ Nearest(b, w.tick, target, a_to_b)
                /\ IF a_to_b THEN target <= D.hi ELSE D.lo <= target
  BY <1>1, <1>2, TurnReady DEF w0
<1>11. t.status = "none" \/ (t = Turned(pool, D, w0, target, known, period, rate, a_to_b) /\ Toward(w.sqrt_p, SqrtAt[target], a_to_b))
  BY <1>1, <1>2, TurnReady DEF w0
<1>12. SUFFICES ASSUME t = [c EXCEPT !.fee = g, !.steps = n], Toward(w.sqrt_p, SqrtAt[target], a_to_b)
                PROVE  t.status = "none" \/ Sound(t, D, b, a_to_b)
  BY <1>3, <1>11
<1>13. Priced(to) /\ Toward(w.sqrt_p, to, a_to_b) /\ Toward(to, limit(a_to_b), a_to_b)
  BY <1>5, <1>9, <1>12, BoundedOnWay
<1> HIDE DEF period
<1>14. Priced(period.target) /\ Toward(w.sqrt_p, period.target, a_to_b) /\ Toward(period.target, to, a_to_b)
  <2> HIDE DEF to
  <2> QED BY <1>5, <1>6, <1>7, <1>13, PeriodOnWay DEF period
<1> HIDE DEF rate, m, c, g, n
<1>15. CASE m.status = "none"
  <2>1. c = m
    BY <1>15 DEF Arrived, c
  <2>2. t.status = "none"
    BY <1>12, <1>15, <2>1
  <2> QED BY <2>2
<1>16. CASE m.status # "none"
  <2> DEFINE p == period.target
  <2>0. Priced(p) /\ Toward(w0.sqrt_p, p, a_to_b) /\ m = Moved(pool, w0, p, rate, a_to_b)
    BY <1>6, <1>14 DEF m
  <2> HIDE DEF p
  <2>1. PICK q \in Nat, r \in 0..w0.remaining, o \in Nat :
                 /\ m = [w0 EXCEPT !.sqrt_p = q, !.remaining = r, !.out = o]
                 /\ Priced(q) /\ Toward(w0.sqrt_p, q, a_to_b) /\ Toward(q, p, a_to_b)
                 /\ r > 0 => q = p
    <3>1. w0.status = "walking" /\ Priced(w0.sqrt_p)
      BY <1>5, <1>6
    <3>2. OnItsWay(w0, p, a_to_b, m)
      BY <1>6, <1>8, <1>16, <2>0, <3>1, MovedForms
    <3> QED BY <3>2 DEF OnItsWay
  <2>2. r \in Nat /\ r <= w.remaining
    BY <1>5, <1>6
  <2>3. /\ m \in WalkRecords /\ m.sqrt_p = q /\ m.remaining = r /\ m.out = o /\ m.tick = w.tick /\ m.liq = w.liq /\ m.cursor = w.tick
        /\ m.fee = w0.fee
    BY <1>5, <1>6, <2>1, <2>2 DEF WalkRecords
  <2>4. StandsAt(m.sqrt_p, m.tick, a_to_b)
    BY <1>5, <1>6, <2>1, <2>3, StandsOnward
  <2>5. /\ known => /\ target \in DOMAIN D.nets /\ Nearest(b, m.tick, target, a_to_b)
                    /\ IF a_to_b THEN target <= D.hi ELSE D.lo <= target
        /\ m.liq = LiquidityAt(b, m.tick) /\ CursorWithin(D, m.cursor, a_to_b) /\ m.cursor = m.tick
        /\ known \in BOOLEAN /\ c = Arrived(pool, D, m, target, known, rate, a_to_b)
    BY <1>2, <1>5, <1>10, <2>3 DEF c
  <2>6. \/ c.status = "none"
        \/ /\ c \in WalkRecords /\ c.sqrt_p = m.sqrt_p /\ c.fee = m.fee /\ c.steps = m.steps /\ c.remaining <= m.remaining
           /\ c.liq = LiquidityAt(b, c.tick) /\ StandsAt(c.sqrt_p, c.tick, a_to_b)
           /\ CursorWithin(D, c.cursor, a_to_b)
           /\ c.remaining > 0 => c.cursor = c.tick
    BY <1>8, <1>9, <2>3, <2>4, <2>5, ArrivedForms
  <2>7. CASE c.status = "none"
    BY <1>12, <2>7
  <2>8. CASE c.status # "none"
    <3>1. c \in WalkRecords /\ c.tick \in Int /\ c.remaining \in Nat /\ c.steps \in Nat /\ c.sqrt_p = q /\ c.remaining <= r
      BY <2>3, <2>6, <2>8 DEF WalkRecords
    <3>2. g \in Fees
      <4> DEFINE tk == c.tick
      <4>1. tk \in Int /\ g = advance(w0.fee, period.skipped, q, SqrtAt[target], target, tk, a_to_b)
        BY <3>1 DEF g
      <4>2. period = PeriodTarget(w0.fee, w.liq, to, a_to_b)
        BY DEF period
      <4> HIDE DEF tk
      <4> QED BY <1>5, <1>6, <1>7, <1>9, <1>13, <2>1, <4>1, <4>2, FeeKept
    <3>3. q = p /\ q # limit(a_to_b) => FeeAhead(g, q, a_to_b)
      <4> DEFINE tk == c.tick
      <4>1. tk \in Int /\ g = advance(w0.fee, period.skipped, q, SqrtAt[target], target, tk, a_to_b)
        BY <3>1 DEF g
      <4> HIDE DEF tk
      <4> QED BY <1>5, <1>6, <1>7, <1>9, <1>13, <2>1, <4>1, FeeKept DEF period, p
    <3>4. n \in Nat
      BY <3>1 DEF n
    <3>5. /\ t \in WalkRecords /\ t.remaining = c.remaining /\ t.sqrt_p = q /\ t.tick = c.tick /\ t.liq = c.liq /\ t.cursor = c.cursor
          /\ t.fee = g
      BY <1>12, <3>1, <3>2, <3>4 DEF WalkRecords
    <3>6. Toward(q, limit(a_to_b), a_to_b)
      <4>1. q \in Nat /\ p \in Nat /\ to \in Nat /\ limit(a_to_b) \in Nat
        BY <1>13, <2>0, LimitPriced DEF Priced
      <4>2. Toward(p, to, a_to_b)
        BY <1>14 DEF p
      <4> QED BY <1>13, <2>1, <4>1, <4>2, TowardOnward
    <3>7. t.remaining <= U64
      BY <1>5, <2>2, <3>1, <3>5, SqrtPriceAssumption
    <3>8. t.remaining > 0 => q = p
      BY <2>1, <2>2, <3>1, <3>5
    <3>9. t.remaining > 0 /\ t.sqrt_p # limit(a_to_b) => FeeAhead(t.fee, t.sqrt_p, a_to_b)
      BY <3>3, <3>5, <3>8
    <3>10. /\ t.liq = LiquidityAt(b, t.tick) /\ StandsAt(t.sqrt_p, t.tick, a_to_b) /\ CursorWithin(D, t.cursor, a_to_b)
           /\ t.remaining > 0 => t.cursor = t.tick
      BY <2>3, <2>6, <2>8, <3>1, <3>5
    <3>11. Priced(t.sqrt_p)
      BY <2>1, <3>5
    <3> QED BY <3>5, <3>6, <3>7, <3>9, <3>10, <3>11 DEF Sound
  <2> QED BY <2>7, <2>8
<1> QED BY <1>15, <1>16

-----------------------------------------------------------------------------
(* Whole walks                                                              *)

\* The turns of a walk, one after the other.
Turns(walk, pool, D, start, a_to_b, edge) ==
    walk[0] = start /\ \A n \in 1..MaxTurns : walk[n] = Onward(pool, D, walk[n - 1], a_to_b, edge)

\* A walk unfolds to its turns.
LEMMA WalkUnfolds ==
    ASSUME NEW pool, NEW D, NEW start, NEW a_to_b, NEW edge
    PROVE  \E walk : /\ Walked(pool, D, start, a_to_b, edge) = Ended(walk[MaxTurns], a_to_b)
                     /\ Turns(walk, pool, D, start, a_to_b, edge)
<1> DEFINE Next1(f, n) == IF n = 0 THEN start ELSE Onward(pool, D, f[n - 1], a_to_b, edge)
           Recurs(f, m) == f = [n \in 0..m |-> Next1(f, n)]
           P == {m \in Nat : \E f : Recurs(f, m)}
<1>1. 0 \in P
  <2> DEFINE f == [n \in 0..0 |-> start]
  <2>1. Recurs(f, 0)
    OBVIOUS
  <2> HIDE DEF f, Recurs
  <2> QED BY <2>1
<1>2. ASSUME NEW m \in P PROVE m + 1 \in P
  <2>1. m \in Nat /\ \E f : Recurs(f, m)
    OBVIOUS
  <2>2. PICK f : Recurs(f, m)
    BY <2>1
  <2> DEFINE g == [n \in 0..(m + 1) |-> Next1(f, n)]
  <2>3. ASSUME NEW n \in 0..(m + 1) PROVE g[n] = Next1(g, n)
    <3>1. CASE n = 0
      BY <3>1
    <3>2. CASE n # 0
      <4>1. n - 1 \in 0..m /\ n - 1 \in 0..(m + 1)
        BY <2>1, <3>2
      <4>2. f[n - 1] = Next1(f, n - 1)
        <5>1. f = [k \in 0..m |-> Next1(f, k)]
          BY <2>2
        <5> HIDE DEF Next1
        <5> QED BY <4>1, <5>1
      <4>3. g[n - 1] = Next1(f, n - 1)
        <5> HIDE DEF Next1
        <5> QED BY <4>1
      <4>4. g[n] = Next1(f, n)
        <5> HIDE DEF Next1
        <5> QED OBVIOUS
      <4> HIDE DEF g
      <4> QED BY <3>2, <4>2, <4>3, <4>4
    <3> QED BY <3>1, <3>2
  <2>4. Recurs(g, m + 1)
    <3>1. \A n \in 0..(m + 1) : g[n] = Next1(g, n)
      BY <2>3
    <3>2. g = [n \in 0..(m + 1) |-> g[n]]
      OBVIOUS
    <3> HIDE DEF g, Next1
    <3> QED BY <3>1, <3>2
  <2> HIDE DEF Recurs, g
  <2> QED BY <2>1, <2>4
<1>3. P = Nat
  <2>1. P \in SUBSET Nat
    OBVIOUS
  <2> HIDE DEF P
  <2> QED BY <1>1, <1>2, <2>1, Induction
<1>4. \E f : Recurs(f, MaxTurns)
  <2>1. MaxTurns \in P
    BY <1>3, TicksAssumption
  <2> QED BY <2>1
<1> DEFINE walk == CHOOSE f : Recurs(f, MaxTurns)
<1>5. Recurs(walk, MaxTurns)
  BY <1>4
<1>6. Walked(pool, D, start, a_to_b, edge) = Ended(walk[MaxTurns], a_to_b)
  BY DEF Walked
<1> HIDE DEF walk
<1>7. walk[0] = start /\ \A n \in 1..MaxTurns : walk[n] = Onward(pool, D, walk[n - 1], a_to_b, edge)
  <2>1. MaxTurns \in Nat
    BY TicksAssumption
  <2>2. ASSUME NEW n \in 0..MaxTurns PROVE walk[n] = Next1(walk, n)
    <3>1. walk = [k \in 0..MaxTurns |-> Next1(walk, k)]
      BY <1>5
    <3> HIDE DEF Next1
    <3> QED BY <3>1
  <2>3. walk[0] = start
    BY <2>1, <2>2
  <2>4. ASSUME NEW n \in 1..MaxTurns PROVE walk[n] = Onward(pool, D, walk[n - 1], a_to_b, edge)
    <3>1. n \in 0..MaxTurns /\ n # 0
      BY <2>1
    <3> QED BY <2>2, <3>1
  <2> QED BY <2>3, <2>4
<1> QED BY <1>6, <1>7 DEF Turns

\* A walk fails or stays sound, turn by turn.
LEMMA OnwardSound ==
    ASSUME NEW D, NEW b, IsData(D, b), NEW pool, pool.fee_ppm \in 0..(PPM - 1), NEW a_to_b \in BOOLEAN,
           NEW edge, EdgeWithin(D, edge, a_to_b),
           NEW w, w.status = "none" \/ Sound(w, D, b, a_to_b)
    PROVE  /\ Onward(pool, D, w, a_to_b, edge).status = "none" \/ Sound(Onward(pool, D, w, a_to_b, edge), D, b, a_to_b)
           /\ Ended(w, a_to_b).status = "none" \/ Sound(Ended(w, a_to_b), D, b, a_to_b)
<1> DEFINE e == Ended(w, a_to_b)
<1>1. e.status = "none" \/ (Sound(e, D, b, a_to_b)
         /\ (e.status = "walking" => e = w /\ w.remaining > 0 /\ w.sqrt_p # limit(a_to_b)))
  <2>1. CASE w.status # "walking"
    BY <2>1 DEF Ended
  <2>2. CASE w.status = "walking"
    <3>1. Sound(w, D, b, a_to_b) /\ w \in WalkRecords /\ w.remaining \in Nat
      BY <2>2 DEF Sound, WalkRecords
    <3>2. CASE w.remaining = 0
      <4>1. e = [w EXCEPT !.status = "done"]
        BY <2>2, <3>2 DEF Ended
      <4>2. e \in WalkRecords /\ e.status = "done" /\ e.remaining = 0 /\ e.sqrt_p = w.sqrt_p /\ e.tick = w.tick /\ e.liq = w.liq /\ e.cursor = w.cursor
        BY <3>1, <3>2, <4>1 DEF WalkRecords
      <4> QED BY <3>1, <3>2, <4>2 DEF Sound
    <3>3. CASE w.remaining # 0 /\ w.sqrt_p = limit(a_to_b)
      <4>1. e = Failed(w)
        BY <2>2, <3>3 DEF Ended
      <4> QED BY <3>1, <4>1 DEF Failed, WalkRecords
    <3>4. CASE w.remaining # 0 /\ w.sqrt_p # limit(a_to_b)
      <4>1. e = w
        BY <2>2, <3>4 DEF Ended
      <4> QED BY <3>1, <3>4, <4>1
    <3> QED BY <3>2, <3>3, <3>4
  <2> QED BY <2>1, <2>2
<1> HIDE DEF e
<1>2. Onward(pool, D, w, a_to_b, edge).status = "none" \/ Sound(Onward(pool, D, w, a_to_b, edge), D, b, a_to_b)
  <2>1. CASE w.status # "walking"
    BY <2>1 DEF Onward
  <2>2. CASE w.status = "walking" /\ e.status # "walking"
    BY <1>1, <2>2 DEF Onward, Turn, e
  <2>3. CASE w.status = "walking" /\ e.status = "walking"
    <3>1. Sound(w, D, b, a_to_b) /\ e = w /\ w.remaining > 0 /\ w.sqrt_p # limit(a_to_b)
      BY <1>1, <2>3
    <3>2. Onward(pool, D, w, a_to_b, edge) = WalkStep(pool, D, w, a_to_b, edge)
      BY <2>3, <3>1 DEF Onward, Turn, e
    <3> QED BY <2>3, <3>1, <3>2, TurnSound
  <2> QED BY <2>1, <2>2, <2>3
<1> QED BY <1>1, <1>2 DEF e

\* A whole walk fails or is sound.
LEMMA WalkSound ==
    ASSUME NEW D, NEW b, IsData(D, b), NEW pool, pool.fee_ppm \in 0..(PPM - 1), NEW a_to_b \in BOOLEAN,
           NEW edge, EdgeWithin(D, edge, a_to_b), NEW start, Sound(start, D, b, a_to_b)
    PROVE  \/ Walked(pool, D, start, a_to_b, edge).status = "none"
           \/ Sound(Walked(pool, D, start, a_to_b, edge), D, b, a_to_b)
<1>1. PICK walk : /\ Walked(pool, D, start, a_to_b, edge) = Ended(walk[MaxTurns], a_to_b)
                  /\ Turns(walk, pool, D, start, a_to_b, edge)
  BY WalkUnfolds
<1> DEFINE P == {n \in Nat : n <= MaxTurns => walk[n].status = "none" \/ Sound(walk[n], D, b, a_to_b)}
<1>2. 0 \in P
  BY <1>1 DEF Turns
<1>3. ASSUME NEW n \in P PROVE n + 1 \in P
  <2>1. n \in Nat /\ MaxTurns \in Nat
    BY TicksAssumption
  <2> SUFFICES ASSUME n + 1 <= MaxTurns PROVE walk[n + 1].status = "none" \/ Sound(walk[n + 1], D, b, a_to_b)
    BY <2>1
  <2>2. n + 1 \in 1..MaxTurns /\ n + 1 - 1 = n /\ n <= MaxTurns
    BY <2>1
  <2>3. walk[n + 1] = Onward(pool, D, walk[n], a_to_b, edge)
    BY <1>1, <2>2 DEF Turns
  <2>4. walk[n].status = "none" \/ Sound(walk[n], D, b, a_to_b)
    BY <2>2
  <2> QED BY <2>3, <2>4, OnwardSound
<1>4. P = Nat
  <2>1. P \in SUBSET Nat
    OBVIOUS
  <2> HIDE DEF P
  <2> QED BY <1>2, <1>3, <2>1, Induction
<1>5. walk[MaxTurns].status = "none" \/ Sound(walk[MaxTurns], D, b, a_to_b)
  BY <1>4, TicksAssumption
<1> QED BY <1>1, <1>5, OnwardSound

-----------------------------------------------------------------------------
(* The arrays a plan reads                                                  *)

\* Factors are ordered as their multiples are.
LEMMA MultiplesOrder ==
    ASSUME NEW x \in Int, NEW y \in Int, NEW z \in Nat \ {0}, x * z < y * z
    PROVE  x + 1 <= y
<1> SUFFICES ASSUME ~(x + 1 <= y) PROVE FALSE
  OBVIOUS
<1>1. y <= x
  OBVIOUS
<1>2. y * z <= x * z /\ x * z \in Int /\ y * z \in Int
  BY <1>1, IntTimesMonotone
<1> QED BY <1>2

\* An array covers some ticks.
LEMMA SpanType ==
    ASSUME NEW pool, pool.spacing \in Nat \ {0}
    PROVE  span(pool) \in Nat \ {0}
<1>1. ArrayTicks \in Nat \ {0}
  BY TicksAssumption
<1>2. \A x \in Nat \ {0}, y \in Nat \ {0} : x * y \in Nat \ {0}
  OBVIOUS
<1> QED BY <1>1, <1>2 DEF span

\* A tick lies in the array that starts at its multiple of the span.
LEMMA ArrayOfTick ==
    ASSUME NEW pool, pool.spacing \in Nat \ {0}, NEW t \in Int
    PROVE  \E k \in Int : array_start(pool, t) = k * span(pool) /\ k * span(pool) \in Int /\ k * span(pool) <= t /\ t < (k + 1) * span(pool)
<1> DEFINE S == span(pool)
           k == index_of(t, S)
<1>1. S \in Nat \ {0}
  BY SpanType
<1> HIDE DEF S
<1>2. k \in Int /\ k * S <= t /\ t < k * S + S
  BY <1>1, IndexBounds
<1>3. array_start(pool, t) = k * S
  BY DEF array_start, S
<1> HIDE DEF k
<1>4. (k + 1) * S = k * S + S /\ k * S \in Int
  BY <1>1, <1>2
<1> QED BY <1>2, <1>3, <1>4 DEF S

\* Which of two arrays a tick lies in.
LEMMA ArraysOrder ==
    ASSUME NEW pool, pool.spacing \in Nat \ {0}, NEW t \in Int, NEW k \in Int
    PROVE  /\ array_start(pool, t) \in Int
           /\ k * span(pool) \in Int
           /\ k * span(pool) <= t => k * span(pool) <= array_start(pool, t)
           /\ t <= k * span(pool) + span(pool) - 1 => array_start(pool, t) <= k * span(pool)
<1> DEFINE S == span(pool)
<1>1. S \in Nat \ {0}
  BY SpanType
<1>2. PICK j \in Int : array_start(pool, t) = j * S /\ j * S \in Int /\ j * S <= t /\ t < (j + 1) * S
  BY ArrayOfTick
<1> HIDE DEF S
<1>3. k * S \in Int /\ (j + 1) * S \in Int /\ (k + 1) * S \in Int /\ (k + 1) * S = k * S + S
  BY <1>1
<1>4. ASSUME k * S <= t PROVE k * S <= j * S
  <2>1. k * S < (j + 1) * S
    BY <1>2, <1>3, <1>4
  <2>2. k + 1 <= j + 1
    BY <1>1, <2>1, MultiplesOrder
  <2>3. k <= j
    BY <2>2
  <2> QED BY <1>1, <2>3, IntTimesMonotone
<1>5. ASSUME t <= k * S + S - 1 PROVE j * S <= k * S
  <2>1. j * S < (k + 1) * S
    BY <1>1, <1>2, <1>3, <1>5
  <2>2. j + 1 <= k + 1
    BY <1>1, <2>1, MultiplesOrder
  <2>3. j <= k
    BY <2>2
  <2> QED BY <1>1, <2>3, IntTimesMonotone
<1> QED BY <1>2, <1>3, <1>4, <1>5 DEF S

\* A finite set of numbers has a last and a first.
LEMMA FiniteBounds ==
    ASSUME NEW S \in SUBSET Int, IsFiniteSet(S), S # {}
    PROVE  /\ Max(S) \in S /\ \A x \in S : x <= Max(S)
           /\ Min(S) \in S /\ \A x \in S : Min(S) <= x
<1> DEFINE P == {n \in Nat : \A T \in SUBSET S : T # {} /\ Cardinality(T) = n =>
                                  (\E m \in T : \A x \in T : x <= m) /\ (\E m \in T : \A x \in T : m <= x)}
<1>1. ASSUME NEW T \in SUBSET S PROVE IsFiniteSet(T) /\ Cardinality(T) \in Nat
  BY FS_Subset, FS_CardinalityType
<1>2. 0 \in P
  <2> SUFFICES ASSUME NEW T \in SUBSET S, T # {}, Cardinality(T) = 0 PROVE FALSE
    OBVIOUS
  <2> QED BY <1>1, FS_EmptySet
<1>3. ASSUME NEW n \in P PROVE n + 1 \in P
  <2>1. n \in Nat /\ \A T \in SUBSET S : T # {} /\ Cardinality(T) = n =>
                         (\E m \in T : \A x \in T : x <= m) /\ (\E m \in T : \A x \in T : m <= x)
    OBVIOUS
  <2> SUFFICES ASSUME NEW T \in SUBSET S, T # {}, Cardinality(T) = n + 1
               PROVE  (\E m \in T : \A x \in T : x <= m) /\ (\E m \in T : \A x \in T : m <= x)
    BY <2>1
  <2>2. PICK y \in T : TRUE
    OBVIOUS
  <2> DEFINE R == T \ {y}
  <2>3. R \in SUBSET S /\ Cardinality(R) = n
    BY <1>1, <2>1, FS_RemoveElement
  <2>4. y \in Int /\ \A x \in R : x \in Int
    OBVIOUS
  <2>5. T = R \cup {y}
    OBVIOUS
  <2> HIDE DEF R
  <2>6. CASE R = {}
    BY <2>4, <2>5, <2>6
  <2>7. CASE R # {}
    <3>1. PICK m \in R : \A x \in R : x <= m
      BY <2>1, <2>3, <2>7
    <3>2. PICK k \in R : \A x \in R : k <= x
      BY <2>1, <2>3, <2>7
    <3>3. \E a \in T : \A x \in T : x <= a
      <4>1. CASE y <= m
        BY <2>4, <2>5, <3>1, <4>1
      <4>2. CASE m <= y
        <5>1. \A x \in T : x <= y
          BY <2>4, <2>5, <3>1, <4>2
        <5> QED BY <5>1
      <4> QED BY <2>4, <4>1, <4>2
    <3>4. \E a \in T : \A x \in T : a <= x
      <4>1. CASE k <= y
        BY <2>4, <2>5, <3>2, <4>1
      <4>2. CASE y <= k
        <5>1. \A x \in T : y <= x
          BY <2>4, <2>5, <3>2, <4>2
        <5> QED BY <5>1
      <4> QED BY <2>4, <4>1, <4>2
    <3> QED BY <3>3, <3>4
  <2> QED BY <2>6, <2>7
<1>4. P = Nat
  <2>1. P \in SUBSET Nat
    OBVIOUS
  <2> HIDE DEF P
  <2> QED BY <1>2, <1>3, <2>1, Induction
<1>5. (\E m \in S : \A x \in S : x <= m) /\ (\E m \in S : \A x \in S : m <= x)
  BY <1>1, <1>4
<1>6. PICK hi \in S : \A x \in S : x <= hi
  BY <1>5
<1>7. PICK lo \in S : \A x \in S : lo <= x
  BY <1>5
<1>8. Max(S) \in S /\ \A x \in S : x <= Max(S)
  BY <1>6, MaxChosen
<1>9. Min(S) \in S /\ \A x \in S : Min(S) <= x
  BY <1>7, MinChosen
<1> QED BY <1>8, <1>9

\* Which of two arrays a walk in a direction meets first.
Before(r, s, a_to_b) == IF a_to_b THEN r > s ELSE r < s

\* A finite set of integers has a first and a last, in either direction.
LEMMA FirstAndLast ==
    ASSUME NEW T \in SUBSET Int, IsFiniteSet(T), T # {}, NEW a_to_b \in BOOLEAN
    PROVE  /\ \E m \in T : \A x \in T : x = m \/ Before(m, x, a_to_b)
           /\ \E m \in T : \A x \in T : x = m \/ Before(x, m, a_to_b)
<1>1. Max(T) \in T /\ \A x \in T : x <= Max(T)
  BY FiniteBounds
<1>2. Min(T) \in T /\ \A x \in T : Min(T) <= x
  BY FiniteBounds
<1>3. \A x \in T : x = Max(T) \/ x < Max(T)
  <2>1. \A m \in Int, x \in Int : x <= m => x = m \/ x < m
    OBVIOUS
  <2> QED BY <1>1, <2>1
<1>4. \A x \in T : x = Min(T) \/ Min(T) < x
  <2>1. \A m \in Int, x \in Int : m <= x => x = m \/ m < x
    OBVIOUS
  <2> QED BY <1>2, <2>1
<1>5. CASE a_to_b
  BY <1>1, <1>2, <1>3, <1>4, <1>5 DEF Before
<1>6. CASE ~a_to_b
  BY <1>1, <1>2, <1>3, <1>4, <1>6 DEF Before
<1> QED BY <1>5, <1>6

\* Nearer counts what comes before in a direction.
LEMMA NearerCounts ==
    ASSUME NEW S \in SUBSET Int, IsFiniteSet(S), NEW s, NEW a_to_b \in BOOLEAN
    PROVE  /\ Nearer(S, s, a_to_b) = Cardinality({r \in S : Before(r, s, a_to_b)})
           /\ Nearer(S, s, a_to_b) \in Nat
           /\ IsFiniteSet({r \in S : Before(r, s, a_to_b)})
<1>1. {r \in S : Before(r, s, a_to_b)} = {r \in S : IF a_to_b THEN r > s ELSE r < s}
  BY DEF Before
<1>2. IsFiniteSet({r \in S : Before(r, s, a_to_b)})
  BY FS_Subset
<1> QED BY <1>1, <1>2, FS_CardinalityType DEF Nearer

\* The n closest arrays are all there are, or the n that come first.
LEMMA ClosestCovers ==
    ASSUME NEW S \in SUBSET Int, IsFiniteSet(S), NEW n \in Nat \ {0}, NEW a_to_b \in BOOLEAN,
           NEW C, C = Closest(S, n, a_to_b)
    PROVE  /\ C \in SUBSET S
           /\ Cardinality(C) # n => C = S
           /\ Cardinality(C) = n => C # {} /\ \A s \in S : (IF a_to_b THEN Min(C) <= s ELSE s <= Max(C)) => s \in C
<1>1. C \in SUBSET S /\ IsFiniteSet(C) /\ Cardinality(C) \in Nat
  BY FS_Subset, FS_CardinalityType DEF Closest
<1>2. \A s \in S : s \in C <=> Nearer(S, s, a_to_b) < n
  BY DEF Closest
<1>3. ASSUME C # S PROVE Cardinality(C) = n
  <2> DEFINE R == S \ C
  <2>1. R \in SUBSET Int /\ IsFiniteSet(R) /\ R # {}
    BY <1>1, <1>3, FS_Subset
  <2>2. PICK x \in R : \A r \in R : r = x \/ Before(x, r, a_to_b)
    <3> HIDE DEF R
    <3> QED BY <2>1, FirstAndLast
  <2> DEFINE F == {r \in S : Before(r, x, a_to_b)}
  <2>3. F \in SUBSET C
    <3>1. ASSUME NEW r \in F, r \notin C PROVE FALSE
      <4>1. r = x \/ Before(x, r, a_to_b)
        BY <2>2, <3>1
      <4>2. Before(r, x, a_to_b) /\ r \in Int /\ x \in Int
        BY <2>1
      <4> QED BY <4>1, <4>2 DEF Before
    <3> QED BY <3>1
  <2>4. Cardinality(F) = Nearer(S, x, a_to_b) /\ Cardinality(F) \in Nat
    BY NearerCounts
  <2>5. ~(Nearer(S, x, a_to_b) < n)
    BY <1>2
  <2> HIDE DEF F
  <2>6. Cardinality(F) <= Cardinality(C)
    BY <1>1, <2>3, FS_Subset
  <2>7. n <= Cardinality(C)
    BY <1>1, <2>4, <2>5, <2>6
  <2>8. C # {}
    BY <2>7, FS_EmptySet
  <2>9. PICK l \in C : \A r \in C : r = l \/ Before(r, l, a_to_b)
    BY <1>1, <2>8, FirstAndLast
  <2> DEFINE G == {r \in S : Before(r, l, a_to_b)}
  <2>10. C \ {l} \in SUBSET G
    BY <1>1, <2>9
  <2>11. Cardinality(G) = Nearer(S, l, a_to_b) /\ Cardinality(G) \in Nat /\ IsFiniteSet(G)
    BY NearerCounts
  <2>12. Cardinality(G) < n
    BY <1>1, <1>2, <2>9, <2>11
  <2> HIDE DEF G
  <2>13. Cardinality(C \ {l}) <= Cardinality(G)
    BY <2>10, <2>11, FS_Subset
  <2>14. Cardinality(C \ {l}) = Cardinality(C) - 1
    BY <1>1, <2>9, FS_RemoveElement
  <2>15. Cardinality(C) <= n
    BY <1>1, <2>11, <2>12, <2>13, <2>14
  <2> QED BY <1>1, <2>7, <2>15
<1>4. ASSUME Cardinality(C) = n PROVE C # {}
  BY <1>4, FS_EmptySet
<1>5. ASSUME C # {}, NEW s \in S, IF a_to_b THEN Min(C) <= s ELSE s <= Max(C) PROVE s \in C
  <2> DEFINE l == IF a_to_b THEN Min(C) ELSE Max(C)
  <2>1. l \in C
    <3>1. C \in SUBSET Int
      BY <1>1
    <3>2. Min(C) \in C /\ Max(C) \in C
      BY <1>1, <1>5, <3>1, FiniteBounds
    <3> QED BY <3>2
  <2>2. s = l \/ Before(s, l, a_to_b)
    <3>1. l \in Int /\ s \in Int
      BY <1>1, <2>1
    <3>2. CASE a_to_b
      <4>1. l <= s
        BY <1>5, <3>2
      <4> HIDE DEF l
      <4>2. s = l \/ s > l
        BY <3>1, <4>1
      <4> QED BY <3>2, <4>2 DEF Before
    <3>3. CASE ~a_to_b
      <4>1. s <= l
        BY <1>5, <3>3
      <4> HIDE DEF l
      <4>2. s = l \/ s < l
        BY <3>1, <4>1
      <4> QED BY <3>3, <4>2 DEF Before
    <3> QED BY <3>2, <3>3
  <2> HIDE DEF l
  <2>3. CASE s = l
    BY <2>1, <2>3
  <2>4. CASE Before(s, l, a_to_b)
    <3> DEFINE F == {r \in S : Before(r, s, a_to_b)}
               G == {r \in S : Before(r, l, a_to_b)}
    <3>1. F \in SUBSET G
      <4>1. \A r \in S : r \in Int
        OBVIOUS
      <4>2. l \in Int /\ s \in Int
        BY <1>1, <2>1
      <4>3. ASSUME NEW r \in S, Before(r, s, a_to_b) PROVE Before(r, l, a_to_b)
        <5>1. r \in Int
          BY <4>1
        <5> QED BY <2>4, <4>2, <4>3, <5>1 DEF Before
      <4> QED BY <4>3
    <3>2. Cardinality(F) = Nearer(S, s, a_to_b) /\ Cardinality(F) \in Nat
      BY NearerCounts
    <3>3. Cardinality(G) = Nearer(S, l, a_to_b) /\ Cardinality(G) \in Nat /\ IsFiniteSet(G)
      BY NearerCounts
    <3>4. Cardinality(G) < n
      BY <1>1, <1>2, <2>1, <3>3
    <3> HIDE DEF F, G
    <3>5. Cardinality(F) <= Cardinality(G)
      BY <3>1, <3>3, FS_Subset
    <3>6. Nearer(S, s, a_to_b) < n
      BY <3>2, <3>3, <3>4, <3>5
    <3> QED BY <1>2, <3>6
  <2> QED BY <2>2, <2>3, <2>4
<1> QED BY <1>1, <1>3, <1>4, <1>5

\* Of three arrays and more, one is the third.
LEMMA ThirdExists ==
    ASSUME NEW S \in SUBSET Int, IsFiniteSet(S), ~(Cardinality(S) < 3), NEW a_to_b \in BOOLEAN
    PROVE  Third(S, a_to_b) \in S
<1>0. Cardinality(S) \in Nat /\ 3 <= Cardinality(S)
  BY FS_CardinalityType
<1>1. S # {}
  BY <1>0, FS_EmptySet
<1>2. PICK x \in S : \A r \in S : r = x \/ Before(x, r, a_to_b)
  BY <1>1, FirstAndLast
<1> DEFINE T == S \ {x}
<1>3. T \in SUBSET Int /\ IsFiniteSet(T) /\ Cardinality(T) = Cardinality(S) - 1
  BY <1>2, FS_RemoveElement
<1> HIDE DEF T
<1>4. T # {}
  BY <1>0, <1>3, FS_EmptySet
<1>5. PICK y \in T : \A r \in T : r = y \/ Before(y, r, a_to_b)
  BY <1>3, <1>4, FirstAndLast
<1> DEFINE U == T \ {y}
<1>6. U \in SUBSET Int /\ IsFiniteSet(U) /\ Cardinality(U) = Cardinality(T) - 1
  BY <1>3, <1>5, FS_RemoveElement
<1> HIDE DEF U
<1>7. U # {}
  BY <1>0, <1>3, <1>6, FS_EmptySet
<1>8. PICK z \in U : \A r \in U : r = z \/ Before(z, r, a_to_b)
  BY <1>6, <1>7, FirstAndLast
<1>9. z \in S /\ z # x /\ z # y /\ y \in S /\ y # x /\ x \in Int /\ y \in Int /\ z \in Int
  BY <1>2, <1>5, <1>8 DEF T, U
<1>10. {r \in S : Before(r, z, a_to_b)} = {x, y}
  <2>1. Before(x, z, a_to_b) /\ Before(y, z, a_to_b)
    BY <1>2, <1>5, <1>8, <1>9 DEF T, U
  <2>2. ASSUME NEW r \in S, Before(r, z, a_to_b) PROVE r \in {x, y}
    <3>1. SUFFICES ASSUME r # x, r # y PROVE FALSE
      OBVIOUS
    <3>2. r \in U
      BY <3>1 DEF T, U
    <3>3. r = z \/ Before(z, r, a_to_b)
      BY <1>8, <3>2
    <3>4. r \in Int
      OBVIOUS
    <3> QED BY <1>9, <2>2, <3>3, <3>4 DEF Before
  <2> QED BY <1>2, <1>9, <2>1, <2>2
<1>11. Cardinality({x, y}) = 2
  <2>1. IsFiniteSet({x}) /\ Cardinality({x}) = 1
    BY FS_Singleton
  <2>2. y \notin {x}
    BY <1>9
  <2>3. Cardinality({x} \cup {y}) = Cardinality({x}) + 1
    BY <2>1, <2>2, FS_AddElement
  <2>4. {x} \cup {y} = {x, y}
    OBVIOUS
  <2> QED BY <2>1, <2>3, <2>4
<1>12. Nearer(S, z, a_to_b) = 2
  BY <1>10, <1>11, NearerCounts
<1> QED BY <1>9, <1>12 DEF Third

\* The arrays of a book are finitely many.
LEMMA ArraysTypes ==
    ASSUME NEW pool, pool.spacing \in Nat \ {0}, NEW b, IsBook(b)
    PROVE  ArraysOf(pool, b) \in SUBSET Int /\ IsFiniteSet(ArraysOf(pool, b))
<1>1. \A t \in Initialised(b) : t \in Int /\ t \in Ticks
  BY BookTypes, TickPrices
<1>2. MinTick \in Int /\ MaxTick \in Int
  BY TicksAssumption
<1>3. ASSUME NEW t \in Initialised(b) PROVE array_start(pool, t) \in array_start(pool, MinTick)..MaxTick
  <2>1. PICK k \in Int : array_start(pool, MinTick) = k * span(pool) /\ k * span(pool) \in Int /\ k * span(pool) <= MinTick
    BY <1>2, ArrayOfTick
  <2>2. PICK j \in Int : array_start(pool, t) = j * span(pool) /\ j * span(pool) \in Int /\ j * span(pool) <= t
    BY <1>1, ArrayOfTick
  <2>3. MinTick <= t /\ t <= MaxTick /\ t \in Int
    BY <1>1, <1>2 DEF Ticks
  <2>4. k * span(pool) <= t
    BY <1>2, <2>1, <2>3
  <2>5. k * span(pool) <= array_start(pool, t)
    BY <2>3, <2>4, ArraysOrder
  <2> HIDE DEF array_start
  <2>6. array_start(pool, t) \in Int /\ array_start(pool, t) <= MaxTick
    BY <1>2, <2>2, <2>3
  <2> QED BY <2>1, <2>5, <2>6
<1>4. array_start(pool, MinTick) \in Int
  BY <1>2, ArrayOfTick
<1>5. ArraysOf(pool, b) \in SUBSET (array_start(pool, MinTick)..MaxTick)
  BY <1>3 DEF ArraysOf
<1> DEFINE lo == array_start(pool, MinTick)
<1>6. IsFiniteSet(lo..MaxTick) /\ lo..MaxTick \in SUBSET Int
  <2> HIDE DEF lo
  <2>1. lo \in Int
    BY <1>4 DEF lo
  <2> QED BY <1>2, <2>1, FS_Interval
<1> QED BY <1>5, <1>6, FS_Subset

\* The window reads the arrays of the range it makes known.
LEMMA WindowCovers ==
    ASSUME NEW pool, pool.spacing \in Nat \ {0}, pool.tick \in Int, NEW plan, plan = window_plan(pool)
    PROVE  /\ plan.lo \in Int /\ plan.hi \in Int
           /\ \A t \in Int : plan.lo <= t /\ t <= plan.hi => array_start(pool, t) \in plan.starts
<1> DEFINE S == span(pool)
           n == ArraysEachSide
<1>1. S \in Nat \ {0} /\ n \in Nat \ {0}
  BY SpanType, WorldsAssumption
<1>2. PICK k \in Int : array_start(pool, pool.tick) = k * S /\ k * S \in Int
  BY ArrayOfTick
<1>3. /\ plan.lo = k * S - n * S /\ plan.hi = k * S + n * S + S - 1
      /\ plan.starts = {k * S + i * S : i \in (-n)..n}
  BY <1>2 DEF window_plan
<1>4. ASSUME NEW t \in Int, plan.lo <= t, t <= plan.hi PROVE array_start(pool, t) \in plan.starts
  <2>1. PICK j \in Int : array_start(pool, t) = j * S /\ j * S \in Int /\ j * S <= t /\ t < (j + 1) * S
    BY ArrayOfTick
  <2> HIDE DEF S, n
  <2>2. (k - n) * S = k * S - n * S /\ (k + n + 1) * S = k * S + n * S + S /\ n * S \in Int /\ (j + 1) * S \in Int
    BY <1>1
  <2>3. (k - n) * S < (j + 1) * S
    BY <1>1, <1>2, <1>3, <1>4, <2>1, <2>2
  <2>4. j * S < (k + n + 1) * S
    BY <1>1, <1>2, <1>3, <1>4, <2>1, <2>2
  <2>5. k - n \in Int /\ k + n + 1 \in Int /\ j + 1 \in Int
    BY <1>1
  <2>6. k - n + 1 <= j + 1
    BY <1>1, <2>3, <2>5, MultiplesOrder
  <2>7. j + 1 <= k + n + 1
    BY <1>1, <2>4, <2>5, MultiplesOrder
  <2>8. j - k \in (-n)..n
    BY <1>1, <2>6, <2>7
  <2>9. j * S = k * S + (j - k) * S
    BY <1>1
  <2> QED BY <1>3, <2>1, <2>8, <2>9
<1>5. plan.lo \in Int /\ plan.hi \in Int
  <2> HIDE DEF S, n
  <2>1. n * S \in Int
    BY <1>1
  <2> QED BY <1>1, <1>2, <1>3, <2>1
<1> QED BY <1>4, <1>5

\* So does the plan of a bitmap, of the arrays that hold a tick of the book it was recorded in.
LEMMA BitmapCovers ==
    ASSUME NEW pool, pool.spacing \in Nat \ {0}, pool.tick \in Int, NEW b, IsBook(b), bitmap.starts = ArraysOf(pool, b),
           NEW plan, plan = bitmap_plan(pool)
    PROVE  /\ plan.lo \in Int /\ plan.hi \in Int
           /\ \A t \in Initialised(b) : plan.lo <= t /\ t <= plan.hi => array_start(pool, t) \in plan.starts
<1> DEFINE n == ArraysEachSide
           S == span(pool)
           cur == array_start(pool, pool.tick)
           B == {s \in bitmap.starts : s <= cur}
           A == {s \in bitmap.starts : s >= cur}
           below == Closest(B, n, TRUE)
           above == Closest(A, n, FALSE)
           least == IF Cardinality(below) = n THEN Min(below) ELSE FirstArray(pool)
           most == IF Cardinality(above) = n THEN Max(above) ELSE LastArray(pool)
<1>1. S \in Nat \ {0} /\ n \in Nat \ {0} /\ cur \in Int
  BY SpanType, WorldsAssumption, ArrayOfTick
<1>2. plan.starts = below \cup above /\ plan.lo = least /\ plan.hi = most + S - 1
  BY DEF bitmap_plan
<1>3. bitmap.starts \in SUBSET Int /\ IsFiniteSet(bitmap.starts)
  BY ArraysTypes
<1>4. B \in SUBSET Int /\ IsFiniteSet(B) /\ A \in SUBSET Int /\ IsFiniteSet(A)
  BY <1>3, FS_Subset
<1>5. \A t \in Initialised(b) : t \in Int
  BY BookTypes, TickPrices
<1>6. \A s \in bitmap.starts : \E t \in Initialised(b) : s = array_start(pool, t)
  BY DEF ArraysOf
<1>7. MinTick \in Int /\ MaxTick \in Int
  BY TicksAssumption
<1> HIDE DEF n, S, cur
<1>8. /\ below \in SUBSET B /\ (Cardinality(below) # n => below = B)
      /\ Cardinality(below) = n => below # {} /\ \A s \in B : Min(below) <= s => s \in below
  <2> HIDE DEF B, below
  <2> DEFINE down == TRUE
  <2>1. down \in BOOLEAN /\ below = Closest(B, n, down)
    BY DEF below
  <2> HIDE DEF down
  <2>2. below \in SUBSET B
    BY <1>1, <1>4, <2>1, ClosestCovers
  <2>3. Cardinality(below) # n => below = B
    BY <1>1, <1>4, <2>1, ClosestCovers
  <2>4. Cardinality(below) = n => below # {} /\ \A s \in B : (IF down THEN Min(below) <= s ELSE s <= Max(below)) => s \in below
    BY <1>1, <1>4, <2>1, ClosestCovers
  <2> QED BY <2>2, <2>3, <2>4 DEF down
<1>9. /\ above \in SUBSET A /\ (Cardinality(above) # n => above = A)
      /\ Cardinality(above) = n => above # {} /\ \A s \in A : s <= Max(above) => s \in above
  <2> HIDE DEF A, above
  <2> DEFINE down == FALSE
  <2>1. down \in BOOLEAN /\ above = Closest(A, n, down)
    BY DEF above
  <2> HIDE DEF down
  <2>2. above \in SUBSET A
    BY <1>1, <1>4, <2>1, ClosestCovers
  <2>3. Cardinality(above) # n => above = A
    BY <1>1, <1>4, <2>1, ClosestCovers
  <2>4. Cardinality(above) = n => above # {} /\ \A s \in A : (IF down THEN Min(above) <= s ELSE s <= Max(above)) => s \in above
    BY <1>1, <1>4, <2>1, ClosestCovers
  <2> QED BY <2>2, <2>3, <2>4 DEF down
<1>10. Cardinality(below) = n => Min(below) \in below
  <2>1. below \in SUBSET Int /\ IsFiniteSet(below)
    BY <1>4, <1>8, FS_Subset
  <2> HIDE DEF below
  <2> QED BY <1>8, <2>1, FiniteBounds
<1>11. Cardinality(above) = n => Max(above) \in above
  <2>1. above \in SUBSET Int /\ IsFiniteSet(above)
    BY <1>4, <1>9, FS_Subset
  <2> HIDE DEF above
  <2> QED BY <1>9, <2>1, FiniteBounds
<1>12. FirstArray(pool) \in Int /\ LastArray(pool) \in Int
  BY <1>7, ArrayOfTick DEF FirstArray, LastArray
<1>13. least \in Int /\ most \in Int
  <2>1. Cardinality(below) = n => Min(below) \in Int
    BY <1>4, <1>8, <1>10
  <2>2. Cardinality(above) = n => Max(above) \in Int
    BY <1>4, <1>9, <1>11
  <2> HIDE DEF below, above
  <2> QED BY <1>12, <2>1, <2>2
<1>14. ASSUME NEW t \in Initialised(b), plan.lo <= t, t <= plan.hi PROVE array_start(pool, t) \in below \cup above
  <2> DEFINE s == array_start(pool, t)
  <2>1. s \in bitmap.starts /\ t \in Int /\ s \in Int
    BY <1>3, <1>5 DEF ArraysOf
  <2> HIDE DEF s, below, above
  <2>2. CASE s <= cur
    <3>1. s \in B
      BY <2>1, <2>2
    <3>2. CASE Cardinality(below) # n
      BY <1>8, <3>1, <3>2 DEF s
    <3>3. CASE Cardinality(below) = n
      <4>1. Min(below) \in bitmap.starts
        BY <1>8, <1>10, <3>3
      <4>2. PICK v \in Initialised(b) : Min(below) = array_start(pool, v)
        BY <1>6, <4>1
      <4>3. PICK k \in Int : array_start(pool, v) = k * span(pool)
        BY <1>5, ArrayOfTick
      <4>4. Min(below) <= t
        BY <1>2, <1>14, <3>3
      <4>5. k * span(pool) <= t
        BY <4>2, <4>3, <4>4
      <4>6. Min(below) <= s
        BY <2>1, <4>2, <4>3, <4>5, ArraysOrder DEF s
      <4> QED BY <1>8, <3>1, <3>3, <4>6 DEF s
    <3> QED BY <3>2, <3>3
  <2>3. CASE s >= cur
    <3>1. s \in A
      BY <2>1, <2>3
    <3>2. CASE Cardinality(above) # n
      BY <1>9, <3>1, <3>2 DEF s
    <3>3. CASE Cardinality(above) = n
      <4>1. Max(above) \in bitmap.starts
        BY <1>9, <1>11, <3>3
      <4>2. PICK v \in Initialised(b) : Max(above) = array_start(pool, v)
        BY <1>6, <4>1
      <4>3. PICK k \in Int : array_start(pool, v) = k * span(pool)
        BY <1>5, ArrayOfTick
      <4>4. t <= Max(above) + S - 1
        BY <1>2, <1>14, <3>3
      <4>5. t <= k * span(pool) + span(pool) - 1
        BY <4>2, <4>3, <4>4 DEF S
      <4>6. s <= Max(above)
        BY <2>1, <4>2, <4>3, <4>5, ArraysOrder DEF s
      <4> QED BY <1>9, <3>1, <3>3, <4>6 DEF s
    <3> QED BY <3>2, <3>3
  <2>4. s <= cur \/ s >= cur
    BY <1>1, <2>1
  <2> QED BY <2>2, <2>3, <2>4
<1> HIDE DEF below, above, least, most
<1> QED BY <1>1, <1>2, <1>13, <1>14

\* What is loaded are the ticks of the book it is loaded from.
LEMMA LoadedData ==
    ASSUME NEW pool, pool.spacing \in Nat \ {0}, NEW b, IsBook(b), NEW planned, NEW starts, NEW lo \in Int, NEW hi \in Int,
           NEW fee \in Fees, NEW D, D = TickData(pool, b, fee, planned, starts, lo, hi)
    PROVE  /\ D.arrays \in SUBSET Int /\ IsFiniteSet(D.arrays) /\ D.book = b /\ D.planned = planned /\ D.lo = lo /\ D.hi = hi
           /\ D.adaptive_fee \in Fees
           /\ (\A t \in Initialised(b) : lo <= t /\ t <= hi => array_start(pool, t) \in starts) => IsData(D, b)
<1> DEFINE known == {t \in Initialised(b) : array_start(pool, t) \in starts}
           filled == {u \in known : OrdersAt(b, u) > 0}
<1>1. /\ D.nets = [t \in known |-> NetAt(b, t)] /\ D.orders = [t \in filled |-> OrdersAt(b, t)]
      /\ D.arrays = ArraysOf(pool, b) \cap starts /\ D.lo = lo /\ D.hi = hi /\ D.book = b /\ D.planned = planned
      /\ D.adaptive_fee = IF fee.kind = "orca" THEN fee ELSE StaticFee
  BY DEF TickData
<1>2. D.arrays \in SUBSET Int /\ IsFiniteSet(D.arrays)
  BY <1>1, ArraysTypes, FS_Subset
<1>6. D.adaptive_fee \in Fees
  <2>1. StaticFee \in Fees
    BY DEF Fees
  <2> QED BY <1>1, <2>1
<1>3. DOMAIN D.nets = known /\ (\A t \in known : D.nets[t] = NetAt(b, t)) /\ DOMAIN D.orders = filled /\ \A t \in filled : D.orders[t] = OrdersAt(b, t)
  BY <1>1
<1>4. ASSUME NEW t \in known PROVE Unfilled(D, t) = OrdersAt(b, t)
  <2>1. OrdersAt(b, t) \in Nat
    BY BookTypes
  <2>2. CASE t \in filled
    BY <1>3, <2>2 DEF Unfilled
  <2>3. CASE t \notin filled
    <3>1. OrdersAt(b, t) = 0
      BY <2>1, <2>3
    <3> HIDE DEF filled
    <3> QED BY <1>3, <2>3, <3>1 DEF Unfilled
  <2> QED BY <2>2, <2>3
<1>5. ASSUME \A t \in Initialised(b) : lo <= t /\ t <= hi => array_start(pool, t) \in starts
      PROVE  IsData(D, b)
  <2>1. \A t \in Initialised(b) : D.lo <= t /\ t <= D.hi => t \in DOMAIN D.nets
    BY <1>1, <1>3, <1>5
  <2>2. \A t \in DOMAIN D.nets : t \in Initialised(b) /\ D.nets[t] = NetAt(b, t) /\ Unfilled(D, t) = OrdersAt(b, t)
    BY <1>3, <1>4
  <2> QED BY <1>1, <2>1, <2>2 DEF IsData
<1> QED BY <1>1, <1>2, <1>5, <1>6

\* Every tick of a book, as tick data, holds the whole range.
LEMMA EveryTickData ==
    ASSUME NEW pool, pool.spacing \in Nat \ {0}, pool.charged \in Fees, NEW b, IsBook(b), NEW D, D = EveryTick(pool, b)
    PROVE  IsData(D, b) /\ D.lo = MinTick /\ D.hi = MaxTick
<1>1. MinTick \in Int /\ MaxTick \in Int
  BY TicksAssumption
<1>2. D = TickData(pool, b, pool.charged, b, ArraysOf(pool, b), MinTick, MaxTick)
  BY DEF EveryTick
<1>3. \A t \in Initialised(b) : MinTick <= t /\ t <= MaxTick => array_start(pool, t) \in ArraysOf(pool, b)
  BY DEF ArraysOf
<1> DEFINE fee == pool.charged
           starts == ArraysOf(pool, b)
<1>4. fee \in Fees
  OBVIOUS
<1>5. D = TickData(pool, b, fee, b, starts, MinTick, MaxTick)
  BY <1>2
<1>6. \A t \in Initialised(b) : MinTick <= t /\ t <= MaxTick => array_start(pool, t) \in starts
  BY <1>3
<1> HIDE DEF fee, starts
<1>7. /\ D.lo = MinTick /\ D.hi = MaxTick
      /\ (\A t \in Initialised(b) : MinTick <= t /\ t <= MaxTick => array_start(pool, t) \in starts) => IsData(D, b)
  BY <1>1, <1>4, <1>5, LoadedData, Z3
<1> QED BY <1>6, <1>7

\* What the positions of a book hold is counted in u64.
Holds(b) ==
    \A t, u \in Ticks : t < u /\ Unbroken(b, t, u) =>
        /\ amount0_delta(SqrtAt[t], SqrtAt[u], LiquidityAt(b, t), FALSE) <= U64
        /\ amount1_delta(SqrtAt[t], SqrtAt[u], LiquidityAt(b, t), FALSE) <= U64

\* A book that a pool can have.
Fair(b) == IsBook(b) /\ Holds(b)

\* A state as a read of the pool account gives it.
Good(pool) ==
    /\ pool = [layout |-> pool.layout, spacing |-> pool.spacing, fee_ppm |-> pool.fee_ppm, fee_on |-> pool.fee_on,
               fee |-> pool.fee, charged |-> pool.charged, sqrt_p |-> pool.sqrt_p, tick |-> pool.tick,
               liq |-> pool.liq, book |-> pool.book]
    /\ pool.spacing \in Nat \ {0} /\ pool.fee_ppm \in 0..(PPM - 1) /\ pool.fee \in Fees /\ pool.charged \in Fees
    /\ pool.layout \in {"raydium", "orca", "fusion"}
    /\ pool.sqrt_p \in LimitLow..LimitHigh /\ pool.tick = TickAt(pool.sqrt_p)
    /\ Fair(pool.book) /\ pool.liq = LiquidityAt(pool.book, pool.tick)

\* The books the pool may change to are fair.
LEMMA BooksFair == \A b \in Books : Fair(b)
<1>1. ASSUME NEW b \in Books PROVE Fair(b)
  <2>1. IsBook(b)
    BY WorldsAssumption
  <2>2. Holds(b)
    BY HoldingsAssumption DEF Holds, Unbroken
  <2> QED BY <2>1, <2>2 DEF Fair
<1> QED BY <1>1

\* Filling orders leaves the positions.
LEMMA PassedFair ==
    ASSUME NEW b, Fair(b), NEW from, NEW to
    PROVE  Fair(Passed(b, from, to))
<1> DEFINE c == Passed(b, from, to)
           left == {o \in b.orders : SqrtAt[o.tick] < AtMost(from, to) \/ SqrtAt[o.tick] > AtLeast(from, to)}
<1>1. b = [positions |-> b.positions, orders |-> b.orders] /\ IsFiniteSet(b.orders) /\ b.orders \subseteq [tick : Ticks, amount : Nat]
  BY DEF Fair, IsBook
<1>2. c = [b EXCEPT !.orders = left]
  BY DEF Passed
<1>3. left \in SUBSET b.orders
  OBVIOUS
<1>4. IsFiniteSet(left) /\ left \subseteq [tick : Ticks, amount : Nat]
  BY <1>1, <1>3, FS_Subset
<1> HIDE DEF left, c
<1>5. c.positions = b.positions /\ c.orders = left /\ c = [positions |-> c.positions, orders |-> c.orders]
  BY <1>1, <1>2
<1>6. IsBook(c)
  BY <1>4, <1>5 DEF Fair, IsBook
<1>7. \A t : LiquidityAt(c, t) = LiquidityAt(b, t)
  BY <1>5 DEF LiquidityAt, Liquidity
<1>8. Holds(c)
  <2>1. \A t, u : Unbroken(c, t, u) <=> Unbroken(b, t, u)
    BY <1>5 DEF Unbroken
  <2> QED BY <1>7, <2>1 DEF Fair, Holds
<1> QED BY <1>6, <1>8 DEF Fair, c

\* A price within the limits is on its way to either.
LEMMA LimitTypes ==
    ASSUME NEW p \in LimitLow..LimitHigh
    PROVE  Priced(p) /\ \A a_to_b \in BOOLEAN : Toward(p, limit(a_to_b), a_to_b)
<1>1. LimitLow \in SqrtAt[MinTick]..SqrtAt[MaxTick] /\ LimitHigh \in SqrtAt[MinTick]..SqrtAt[MaxTick]
  BY TicksAssumption
<1>2. Priced(SqrtAt[MinTick]) /\ Priced(SqrtAt[MaxTick])
  BY TickPrices
<1>3. SqrtAt[MinTick] \in Nat \ {0} /\ SqrtAt[MaxTick] \in Nat
  BY <1>2 DEF Priced
<1> QED BY <1>1, <1>3 DEF Priced, Toward, limit

\* The walk of a quote starts where the state is.
LEMMA StartSound ==
    ASSUME NEW pool, Good(pool), NEW amount \in 1..U64, NEW a_to_b \in BOOLEAN, NEW D, D.lo \in Int, D.hi \in Int,
           D.lo <= pool.tick, pool.tick <= D.hi
    PROVE  Sound(Start(pool, amount), D, pool.book, a_to_b)
<1> DEFINE w == Start(pool, amount)
           p == pool.sqrt_p
           t == pool.tick
           f == IF pool.fee.kind = "static" THEN pool.fee ELSE update_reference(pool.fee, index_of(t, pool.fee.size))
<1>1. Priced(p) /\ Toward(p, limit(a_to_b), a_to_b) /\ p \in Nat
  BY LimitTypes DEF Good, Priced
<1>2. IsTickAt(t, p)
  BY <1>1, TickAtPrice DEF Good
<1>3. t \in Ticks /\ t \in Int /\ SqrtAt[t] <= p /\ \A u \in Ticks : u > t => p < SqrtAt[u]
  BY <1>2, TickPrices DEF IsTickAt
<1>4. IsBook(pool.book) /\ pool.liq = LiquidityAt(pool.book, t) /\ pool.liq \in Nat
  BY <1>3, LiquidityTypes DEF Good, Fair
<1>5. StandsAt(p, t, a_to_b)
  <2>1. \A u \in Ticks : u \in Int /\ SqrtAt[u] \in Nat /\ (u <= t => SqrtAt[u] <= SqrtAt[t])
    BY <1>3, TickPrices DEF Priced
  <2>2. ASSUME NEW u \in Ticks, u <= t PROVE SqrtAt[u] <= p
    BY <1>1, <1>3, <2>1, <2>2
  <2>3. ASSUME NEW u \in Ticks, u > t PROVE p <= SqrtAt[u]
    BY <1>1, <1>3, <2>1, <2>3
  <2> HIDE DEF p, t
  <2> QED BY <2>2, <2>3 DEF StandsAt
<1>6. f \in Fees /\ FeeAhead(f, p, a_to_b)
  <2>1. CASE pool.fee.kind = "static"
    BY <2>1 DEF Good, FeeAhead
  <2>2. CASE pool.fee.kind # "static"
    <3>1. pool.fee \in DynamicFees
      BY <2>2 DEF Good, Fees, StaticFee
    <3>2. f = update_reference(pool.fee, index_of(t, pool.fee.size))
      BY <2>2
    <3> DEFINE size == pool.fee.size
               g == pool.fee
    <3>3. size \in Nat \ {0}
      BY <3>1 DEF DynamicFees
    <3> HIDE DEF f, g, t
    <3>4. f \in DynamicFees /\ f.size = size /\ f.index = index_of(t, size)
      BY <1>3, <3>1, <3>2, ReferenceTypes DEF g
    <3> HIDE DEF size
    <3>5. index_of(t, size) \in Int /\ index_of(t, size) * size <= t
      BY <1>3, <3>3, IndexBounds
    <3>6. CASE a_to_b
      <4> DEFINE c == Clamp(index_of(t, size) * size)
      <4>1. index_of(t, size) * size \in Int
        BY <3>3, <3>5
      <4>2. c \in Ticks /\ c <= t
        BY <1>3, <3>5, <4>1, ClampBounds
      <4>3. SqrtAt[c] <= SqrtAt[t] /\ SqrtAt[c] \in Nat /\ SqrtAt[t] \in Nat
        BY <1>3, <4>2, TickPrices DEF Priced
      <4>4. Boundary(f, a_to_b) = SqrtAt[c]
        BY <3>4, <3>6 DEF Boundary
      <4> HIDE DEF c, p
      <4>5. SqrtAt[c] <= p
        BY <1>1, <1>3, <4>3
      <4>6. Toward(p, Boundary(f, a_to_b), a_to_b)
        BY <3>6, <4>4, <4>5 DEF Toward
      <4> QED BY <3>4, <4>6 DEF Fees, FeeAhead
    <3>7. CASE ~a_to_b
      <4> DEFINE last == index_of(t, size) - 1
      <4>1. last \in Int /\ f.index = last + (IF a_to_b THEN -1 ELSE 1)
        BY <3>4, <3>5, <3>7
      <4>2. IF a_to_b THEN last <= index_of(t, f.size) ELSE index_of(t, f.size) - 1 <= last
        BY <3>4, <3>5, <3>7
      <4> HIDE DEF last, p
      <4>3. f \in DynamicFees /\ Priced(p) /\ IsTickAt(t, p) /\ last \in Int
        BY <1>1, <1>2, <3>4, <4>1
      <4>4. f.size = f.size /\ f.index = last + (IF a_to_b THEN -1 ELSE 1)
        BY <4>1
      <4>5. Toward(p, Boundary(f, a_to_b), a_to_b)
        BY <4>2, <4>3, <4>4, NextBoundary
      <4> QED BY <3>4, <4>5 DEF Fees, FeeAhead
    <3> QED BY <3>6, <3>7
  <2> QED BY <2>1, <2>2
<1>7. amount \in Nat /\ amount <= U64
  BY SqrtPriceAssumption
<1>8. w = [status |-> "walking", remaining |-> amount, sqrt_p |-> p, tick |-> t, liq |-> pool.liq, out |-> 0, cursor |-> t, steps |-> 0, fee |-> f]
  BY DEF Start
<1> HIDE DEF f, p, t, w
<1>9. w \in WalkRecords
  BY <1>1, <1>3, <1>4, <1>6, <1>7, <1>8 DEF WalkRecords
<1>10. CursorWithin(D, w.cursor, a_to_b)
  BY <1>3, <1>8 DEF CursorWithin, t
<1> QED BY <1>1, <1>4, <1>5, <1>6, <1>7, <1>8, <1>9, <1>10 DEF Sound, w

-----------------------------------------------------------------------------
(* States                                                                   *)

\* Loaded ticks are those of a book; if their arrays were chosen in that book,
\* they are all the ticks of the range they claim.
Loaded(D) ==
    /\ D.arrays \in SUBSET Int /\ IsFiniteSet(D.arrays) /\ D.adaptive_fee \in Fees
    /\ D.planned = D.book => IsData(D, D.book)

TicksInv ==
    /\ world \in Worlds
    /\ chain.sqrt_p \in Prices /\ Fair(chain.book) /\ chain.fee \in world.fees
    /\ parsed # NoPool => Good(parsed.pool) /\ parsed.pool.spacing = world.spacing
    /\ cached # NoPool => Good(cached) /\ cached.spacing = world.spacing
    /\ bitmap.starts = {} \/ (Fair(bitmap.book) /\ bitmap.starts = ArraysOf(world, bitmap.book))
    /\ ticks # NoTicks => Loaded(ticks)

\* TicksInv holds at first.
LEMMA TicksInvInit == TicksInit => TicksInv
<1> SUFFICES ASSUME TicksInit PROVE TicksInv
  OBVIOUS
<1>1. world \in Worlds /\ chain \in [sqrt_p : Prices, book : {world.book}, fee : world.fees] /\ parsed = NoPool /\ cached = NoPool
      /\ bitmap = [starts |-> {}, book |-> world.book] /\ ticks = NoTicks
  BY DEF TicksInit
<1>2. world.book \in Books
  BY <1>1, WorldsAssumption
<1> QED BY <1>1, <1>2, BooksFair DEF TicksInv

\* The pool charges a fee it can have.
LEMMA FeesTypes == TicksInv => chain.fee \in Fees
  BY WorldsAssumption DEF TicksInv

\* What a read of the pool account gives is good.
LEMMA SnapshotGood ==
    ASSUME TicksInv
    PROVE  Good(Snapshot) /\ Snapshot.spacing = world.spacing
<1>1. world \in Worlds /\ chain.sqrt_p \in LimitLow..LimitHigh /\ Fair(chain.book)
  BY WorldsAssumption DEF TicksInv
<1>2. /\ world.spacing \in Nat \ {0} /\ world.fee_ppm \in 0..(PPM - 1)
      /\ world.layout \in {"raydium", "orca", "fusion"}
  BY <1>1, WorldsAssumption
<1>3. chain.fee \in Fees /\ StaticFee \in Fees
  BY FeesTypes DEF Fees
<1> QED BY <1>1, <1>2, <1>3 DEF Good, Snapshot

\* Every step keeps TicksInv.
LEMMA TicksInvNext == TicksInv /\ [TicksNext]_ticks_vars => TicksInv'
<1> SUFFICES ASSUME TicksInv, [TicksNext]_ticks_vars PROVE TicksInv'
  OBVIOUS
<1>0. /\ world \in Worlds
      /\ chain.sqrt_p \in Prices /\ Fair(chain.book) /\ chain.fee \in world.fees
      /\ parsed # NoPool => Good(parsed.pool) /\ parsed.pool.spacing = world.spacing
      /\ cached # NoPool => Good(cached) /\ cached.spacing = world.spacing
      /\ bitmap.starts = {} \/ (Fair(bitmap.book) /\ bitmap.starts = ArraysOf(world, bitmap.book))
      /\ ticks # NoTicks => Loaded(ticks)
  BY DEF TicksInv
<1>1. CASE UNCHANGED ticks_vars
  BY <1>0, <1>1 DEF ticks_vars, TicksInv
<1>2. CASE ChainSwap
  <2>1. PICK p \in Prices, f \in world.fees :
          chain' = [sqrt_p |-> p, book |-> Passed(chain.book, chain.sqrt_p, p), fee |-> f]
    BY <1>2 DEF ChainSwap
  <2>2. UNCHANGED <<world, parsed, cached, bitmap, ticks>>
    BY <1>2 DEF ChainSwap, Change
  <2>3. chain'.sqrt_p \in Prices /\ Fair(chain'.book) /\ chain'.fee \in world'.fees
    BY <1>0, <2>1, <2>2, PassedFair
  <2> QED BY <1>0, <2>2, <2>3 DEF TicksInv
<1>3. CASE ChainLiquidity
  <2>1. PICK b \in Books : chain' = [chain EXCEPT !.book = b]
    BY <1>3 DEF ChainLiquidity
  <2>2. UNCHANGED <<world, parsed, cached, bitmap, ticks>>
    BY <1>3 DEF ChainLiquidity, Change
  <2> QED BY <1>0, <2>1, <2>2, BooksFair DEF TicksInv
<1>4. CASE ReadState
  <2>1. /\ parsed' = [pool |-> Snapshot, todo |-> {"ticks", "state"}]
        /\ bitmap' = [starts |-> ArraysOf(Snapshot, chain.book), book |-> chain.book]
        /\ UNCHANGED <<world, chain, cached, ticks>>
    BY <1>4 DEF ReadState
  <2>2. Good(Snapshot) /\ Snapshot.spacing = world.spacing
    BY SnapshotGood
  <2>3. ArraysOf(Snapshot, chain.book) = ArraysOf(world, chain.book)
    BY <2>2 DEF ArraysOf, array_start, span
  <2> QED BY <1>0, <2>1, <2>2, <2>3 DEF TicksInv
<1>5. ASSUME NEW todo, parsed # NoPool, parsed' = Finished(todo)
      PROVE  parsed' # NoPool => Good(parsed'.pool) /\ parsed'.pool.spacing = world.spacing
  <2>1. CASE todo = {}
    BY <1>5, <2>1 DEF Finished
  <2>2. CASE todo # {}
    <3>1. parsed'.pool = parsed.pool
      BY <1>5, <2>2 DEF Finished
    <3> QED BY <1>0, <1>5, <3>1
  <2> QED BY <2>1, <2>2
<1>6. CASE LoadTicks
  <2> DEFINE pool == parsed.pool
             plan == tick_fetch_plan(pool)
             planned == IF Mapped(pool) THEN bitmap.book ELSE chain.book
             D == TickData(pool, chain.book, chain.fee, planned, plan.starts, plan.lo, plan.hi)
  <2>1. parsed # NoPool /\ ticks' = D /\ parsed' = Finished(parsed.todo \ {"ticks"}) /\ UNCHANGED <<world, chain, cached, bitmap>>
    BY <1>6 DEF LoadTicks
  <2>2. Good(pool) /\ pool.spacing = world.spacing /\ pool.spacing \in Nat \ {0} /\ pool.tick \in Int
    <3>1. Good(pool) /\ pool.spacing = world.spacing
      BY <1>0, <2>1
    <3>2. Priced(pool.sqrt_p)
      BY <3>1, LimitTypes DEF Good
    <3>3. IsTickAt(pool.tick, pool.sqrt_p)
      BY <3>1, <3>2, TickAtPrice DEF Good
    <3> QED BY <3>1, <3>3, TickPrices DEF Good, IsTickAt
  <2>3. IsBook(chain.book)
    BY <1>0 DEF Fair
  <2> HIDE DEF pool
  <2>4. plan.lo \in Int /\ plan.hi \in Int
        /\ (planned = chain.book => \A t \in Initialised(chain.book) : plan.lo <= t /\ t <= plan.hi => array_start(pool, t) \in plan.starts)
    <3>1. CASE Mapped(pool)
      <4>1. plan = bitmap_plan(pool) /\ planned = bitmap.book
        BY <3>1 DEF tick_fetch_plan
      <4>2. IsBook(bitmap.book) /\ bitmap.starts = ArraysOf(world, bitmap.book)
        BY <1>0, <3>1 DEF Mapped, Fair
      <4>3. bitmap.starts = ArraysOf(pool, bitmap.book)
        BY <2>2, <4>2 DEF ArraysOf, array_start, span
      <4> HIDE DEF plan, planned
      <4> DEFINE b == bitmap.book
      <4>4. IsBook(b) /\ bitmap.starts = ArraysOf(pool, b)
        BY <4>2, <4>3
      <4> HIDE DEF b
      <4>5. plan.lo \in Int /\ plan.hi \in Int
        BY <2>2, <4>1, <4>4, BitmapCovers
      <4>6. \A t \in Initialised(b) : plan.lo <= t /\ t <= plan.hi => array_start(pool, t) \in plan.starts
        BY <2>2, <4>1, <4>4, BitmapCovers
      <4> QED BY <4>1, <4>5, <4>6 DEF b
    <3>2. CASE ~Mapped(pool)
      <4>1. plan = window_plan(pool)
        BY <3>2 DEF tick_fetch_plan
      <4>2. \A t \in Initialised(chain.book) : t \in Int
        BY <2>3, BookTypes, TickPrices
      <4> HIDE DEF plan, planned
      <4>3. plan.lo \in Int /\ plan.hi \in Int
        BY <2>2, <4>1, WindowCovers
      <4>4. \A t \in Int : plan.lo <= t /\ t <= plan.hi => array_start(pool, t) \in plan.starts
        BY <2>2, <4>1, WindowCovers
      <4> QED BY <4>2, <4>3, <4>4
    <3> QED BY <3>1, <3>2
  <2>5. Loaded(ticks')
    <3> DEFINE b == chain.book
               lo == plan.lo
               hi == plan.hi
               starts == plan.starts
    <3>1. D = TickData(pool, b, chain.fee, planned, starts, lo, hi) /\ IsBook(b) /\ lo \in Int /\ hi \in Int
      BY <2>3, <2>4
    <3>5. chain.fee \in Fees
      BY FeesTypes
    <3>2. planned = b => \A t \in Initialised(b) : lo <= t /\ t <= hi => array_start(pool, t) \in starts
      BY <2>4
    <3> HIDE DEF b, lo, hi, starts, D, planned
    <3>3. D.arrays \in SUBSET Int /\ IsFiniteSet(D.arrays) /\ D.book = b /\ D.planned = planned /\ D.adaptive_fee \in Fees
      BY <2>2, <3>1, <3>5, LoadedData
    <3>4. (\A t \in Initialised(b) : lo <= t /\ t <= hi => array_start(pool, t) \in starts) => IsData(D, b)
      BY <2>2, <3>1, <3>5, LoadedData
    <3> QED BY <2>1, <3>2, <3>3, <3>4 DEF Loaded
  <2>6. parsed' # NoPool => Good(parsed'.pool) /\ parsed'.pool.spacing = world.spacing
    BY <1>5, <2>1
  <2> QED BY <1>0, <2>1, <2>5, <2>6 DEF TicksInv
<1>7. CASE LoadTicksFails
  <2>1. parsed # NoPool /\ parsed' = Finished(parsed.todo \ {"ticks"}) /\ UNCHANGED <<world, chain, cached, bitmap, ticks>>
    BY <1>7 DEF LoadTicksFails
  <2> QED BY <1>0, <1>5, <2>1 DEF TicksInv
<1>8. CASE InsertState
  <2>1. parsed # NoPool /\ cached' = parsed.pool /\ parsed' = Finished(parsed.todo \ {"state"}) /\ UNCHANGED <<world, chain, bitmap, ticks>>
    BY <1>8 DEF InsertState
  <2> QED BY <1>0, <1>5, <2>1 DEF TicksInv
<1> QED BY <1>1, <1>2, <1>3, <1>4, <1>6, <1>7, <1>8 DEF TicksNext

\* The states read, cached and on chain are ones a pool can be in, and tick data that
\* was chosen and read in one book holds all ticks of its range.
THEOREM TicksInvariant == TicksSpec => []TicksInv
BY TicksInvInit, TicksInvNext, PTL DEF TicksSpec

\* A good state stands at its tick.
LEMMA GoodTypes ==
    ASSUME NEW pool, Good(pool)
    PROVE  /\ pool.tick \in Ticks /\ pool.tick \in Int /\ pool.spacing \in Nat \ {0} /\ IsBook(pool.book)
           /\ Priced(pool.sqrt_p) /\ IsTickAt(pool.tick, pool.sqrt_p)
<1>1. Priced(pool.sqrt_p)
  BY LimitTypes DEF Good
<1>2. IsTickAt(pool.tick, pool.sqrt_p)
  BY <1>1, TickAtPrice DEF Good
<1> QED BY <1>1, <1>2, TickPrices DEF Good, Fair, IsTickAt

\* The same state at another fee.
LEMMA Refeed ==
    ASSUME NEW pool, Good(pool), NEW f \in Fees, NEW q, q = [pool EXCEPT !.fee = f]
    PROVE  /\ Good(q) /\ q.fee = f /\ q.tick = pool.tick /\ q.book = pool.book
<1>1. q = [layout |-> pool.layout, spacing |-> pool.spacing, fee_ppm |-> pool.fee_ppm, fee_on |-> pool.fee_on,
           fee |-> f, charged |-> pool.charged, sqrt_p |-> pool.sqrt_p, tick |-> pool.tick,
           liq |-> pool.liq, book |-> pool.book]
  BY DEF Good
<1> QED BY <1>1 DEF Good

\* A quote walks the cached state, at the fee of the state or of the ticks.
LEMMA WalkedPool ==
    ASSUME NEW state, Good(state), NEW D, Loaded(D), NEW q, q = ClmmPool(state, D)
    PROVE  /\ Good(q) /\ q.tick = state.tick /\ q.book = state.book
           /\ q = [state EXCEPT !.fee = q.fee]
<1> DEFINE f == IF state.fee.kind = "raydium" THEN state.fee ELSE D.adaptive_fee
<1>1. f \in Fees
  BY DEF Good, Loaded
<1>2. q = [state EXCEPT !.fee = f]
  BY DEF ClmmPool
<1> HIDE DEF f
<1>3. Good(q) /\ q.fee = f /\ q.tick = state.tick /\ q.book = state.book
  BY <1>1, <1>2, Refeed
<1> QED BY <1>2, <1>3

\* How far the arrays of the instruction reach is a tick.
LEMMA BoundType ==
    ASSUME NEW pool, Good(pool), NEW D, Loaded(D), NEW a_to_b \in BOOLEAN
    PROVE  swap_tick_bound(pool, D, a_to_b) \in Int
<1> DEFINE S == span(pool)
           C == Carried(pool, D, a_to_b)
           cur == array_start(pool, pool.tick)
           ahead == array_start(pool, pool.tick + pool.spacing)
<1>1. S \in Nat \ {0} /\ S \in Int
  BY GoodTypes, SpanType
<1>2. cur \in Int
  BY GoodTypes, ArrayOfTick
<1>3. ahead \in Int
  <2> DEFINE t == pool.tick + pool.spacing
  <2>1. t \in Int /\ pool.spacing \in Nat \ {0}
    BY GoodTypes
  <2> HIDE DEF t
  <2>2. array_start(pool, t) \in Int
    BY <2>1, ArrayOfTick
  <2> QED BY <2>2 DEF t
<1>4. C \in SUBSET Int /\ IsFiniteSet(C)
  BY FS_Subset DEF Loaded, Carried
<1> HIDE DEF S, C, cur, ahead
<1>5. ~(Cardinality(C) < 3) => Third(C, a_to_b) \in Int
  BY <1>4, ThirdExists
<1>6. NoBound(a_to_b) \in Int
  BY TicksAssumption DEF NoBound
<1>7. CASE pool.layout = "raydium"
  <2>1. swap_tick_bound(pool, D, a_to_b) = IF Cardinality(C) < 3 THEN NoBound(a_to_b)
            ELSE IF a_to_b THEN Third(C, a_to_b) ELSE Third(C, a_to_b) + S - 1
    BY <1>7 DEF swap_tick_bound, C, S
  <2> QED BY <1>1, <1>5, <1>6, <2>1
<1>8. CASE pool.layout = "orca"
  <2>1. swap_tick_bound(pool, D, a_to_b) = IF a_to_b THEN cur - 2 * S ELSE ahead + 3 * S - 1
    BY <1>8 DEF swap_tick_bound, cur, ahead, S
  <2> QED BY <1>1, <1>2, <1>3, <2>1
<1>9. CASE pool.layout = "fusion"
  <2>1. swap_tick_bound(pool, D, a_to_b) = IF a_to_b THEN cur - S ELSE cur + 2 * S - 1
    BY <1>9 DEF swap_tick_bound, cur, S
  <2> QED BY <1>1, <1>2, <2>1
<1> QED BY <1>7, <1>8, <1>9 DEF Good

\* The edge is within the range that is known.
LEMMA EdgeType ==
    ASSUME NEW D, D.lo \in Int, D.hi \in Int, NEW bound \in Int, NEW a_to_b \in BOOLEAN
    PROVE  EdgeWithin(D, Edge(D, a_to_b, bound), a_to_b)
BY DEF EdgeWithin, Edge, AtLeast, AtMost

\* In a state that a quote may start from, both walks fail or stay sound.
LEMMA MemoryWalkSound ==
    ASSUME TicksInv, SameBook, cached.tick \in ticks.lo..ticks.hi, NEW a_to_b \in BOOLEAN, NEW amount \in Amounts,
           NEW w, w = MemoryWalk(a_to_b, amount)
    PROVE  w.status = "none" \/ Sound(w, ticks, cached.book, a_to_b)
<1> DEFINE D == ticks
           b == cached.book
           state == cached
           pool == ClmmPool(state, D)
           start == Start(pool, amount)
           edge == Edge(D, a_to_b, swap_tick_bound(state, D, a_to_b))
<1>0. Good(state) /\ Loaded(D) /\ D.book = b /\ D.planned = D.book
  BY DEF TicksInv, SameBook, Quotable
<1>1. Good(pool) /\ pool.tick = state.tick /\ pool.book = state.book
  BY <1>0, WalkedPool
<1>2. IsData(D, b) /\ D.lo \in Int /\ D.hi \in Int
  BY <1>0 DEF Loaded, IsData
<1>3. amount \in 1..U64
  BY WorldsAssumption
<1>4. D.lo <= pool.tick /\ pool.tick <= D.hi
  BY <1>1, <1>2
<1>5. b = pool.book /\ w = Walked(pool, D, start, a_to_b, edge)
  BY <1>1 DEF MemoryWalk, swap_exact_in_pool_within
<1> HIDE DEF D, b, state, pool
<1>6. EdgeWithin(D, edge, a_to_b)
  BY <1>0, <1>2, BoundType, EdgeType
<1>7. Sound(start, D, b, a_to_b)
  BY <1>1, <1>2, <1>3, <1>4, <1>5, StartSound
<1>8. pool.fee_ppm \in 0..(PPM - 1)
  BY <1>1 DEF Good
<1> HIDE DEF start, edge
<1>9. w.status = "none" \/ Sound(w, D, b, a_to_b)
  BY <1>2, <1>5, <1>6, <1>7, <1>8, WalkSound
<1> QED BY <1>9 DEF D, b

\* The walk over every tick fails or is sound.
LEMMA ChainWalkSound ==
    ASSUME NEW pool, Good(pool), NEW a_to_b \in BOOLEAN, NEW amount \in 1..U64, NEW w, w = ChainWalk(pool, a_to_b, amount)
    PROVE  w.status = "none" \/ Sound(w, EveryTick(pool, pool.book), pool.book, a_to_b)
<1> DEFINE b == pool.book
           D == EveryTick(pool, b)
           q == [pool EXCEPT !.fee = pool.charged]
           start == Start(q, amount)
           edge == Edge(D, a_to_b, NoBound(a_to_b))
<1>0. Good(q) /\ q.tick = pool.tick /\ q.book = b
  <2>1. pool.charged \in Fees
    BY DEF Good
  <2> HIDE DEF b
  <2> QED BY <2>1, Refeed DEF b
<1>1. pool.tick \in Ticks /\ pool.spacing \in Nat \ {0} /\ IsBook(b) /\ pool.charged \in Fees
  BY GoodTypes DEF Good
<1>2. IsData(D, b) /\ D.lo = MinTick /\ D.hi = MaxTick
  <2> HIDE DEF b
  <2> QED BY <1>1, EveryTickData
<1>3. D.lo \in Int /\ D.hi \in Int /\ D.lo <= pool.tick /\ pool.tick <= D.hi /\ NoBound(a_to_b) \in Int
  BY <1>1, <1>2, TicksAssumption DEF Ticks, NoBound
<1>4. w = Walked(q, D, start, a_to_b, edge)
  BY DEF ChainWalk, swap_exact_in_pool_within
<1> HIDE DEF D, q
<1>5. EdgeWithin(D, edge, a_to_b)
  BY <1>3, EdgeType
<1>6. Sound(start, D, b, a_to_b)
  BY <1>0, <1>3, StartSound
<1>7. q.fee_ppm \in 0..(PPM - 1)
  BY <1>0 DEF Good
<1> HIDE DEF start, edge, b
<1>8. w.status = "none" \/ Sound(w, D, b, a_to_b)
  BY <1>2, <1>4, <1>5, <1>6, <1>7, WalkSound
<1> QED BY <1>8 DEF D, b

\* However far a walk over the ticks in memory goes, the liquidity it ends with is the
\* liquidity the pool has there.
THEOREM LiquidityFollows == TicksSpec => []LiquidityAgrees
<1>1. ASSUME TicksInv PROVE LiquidityAgrees
  <2> SUFFICES ASSUME SameBook, cached.tick \in ticks.lo..ticks.hi, NEW a_to_b \in BOOLEAN, NEW amount \in Amounts,
                      NEW w \in {MemoryWalk(a_to_b, amount), ChainWalk(cached, a_to_b, amount)}, w.status = "done"
               PROVE  w.liq = LiquidityAt(cached.book, w.tick)
    BY DEF LiquidityAgrees
  <2>1. amount \in 1..U64 /\ Good(cached)
    BY <1>1, WorldsAssumption DEF SameBook, Quotable, TicksInv
  <2>2. CASE w = MemoryWalk(a_to_b, amount)
    <3>1. Sound(w, ticks, cached.book, a_to_b)
      BY <1>1, <2>2, MemoryWalkSound
    <3> QED BY <3>1 DEF Sound
  <2>3. CASE w = ChainWalk(cached, a_to_b, amount)
    <3> DEFINE pool == cached
    <3>1. Good(pool) /\ w = ChainWalk(pool, a_to_b, amount)
      BY <2>1, <2>3
    <3> HIDE DEF pool
    <3>2. Sound(w, EveryTick(pool, pool.book), pool.book, a_to_b)
      BY <2>1, <3>1, ChainWalkSound
    <3> QED BY <3>2 DEF Sound, pool
  <2> QED BY <2>2, <2>3
<1> QED BY <1>1, TicksInvariant, PTL

-----------------------------------------------------------------------------
(* Two walks, one over fewer ticks than the other                           *)

\* The output from farther back is as large.
LEMMA DeltaFrom ==
    ASSUME NEW s \in Nat \ {0}, NEW p \in Nat \ {0}, NEW u \in Nat \ {0}, NEW liquidity \in Nat \ {0}, NEW a_to_b \in BOOLEAN,
           Toward(s, p, a_to_b), Toward(p, u, a_to_b)
    PROVE  deltas_to(p, u, liquidity, a_to_b).out <= deltas_to(s, u, liquidity, a_to_b).out
<1> DEFINE c == deltas_to(p, u, liquidity, a_to_b).out
           L == liquidity * Q64
<1>1. c \in Nat /\ L \in Nat /\ Q64 \in Nat \ {0}
  BY DeltaTypes, SqrtPriceAssumption
<1>2. CASE a_to_b
  <2>1. u <= p /\ p <= s
    BY <1>2 DEF Toward
  <2>2. c = amount1_delta(u, p, liquidity, FALSE)
    BY <1>2 DEF deltas_to
  <2> HIDE DEF c
  <2>3. c * Q64 <= liquidity * (p - u)
    <3>1. c <= amount1_delta(u, p, liquidity, FALSE)
      <4>1. c \in Nat /\ c <= c
        BY <1>1
      <4> QED BY <2>2, <4>1
    <3> QED BY <1>1, <2>1, <3>1, Amount1Bounds
  <2>4. liquidity * (p - u) <= liquidity * (s - u)
    <3>1. p - u \in Nat /\ s - u \in Nat /\ p - u <= s - u
      BY <2>1
    <3> QED BY <3>1, TimesMonotone
  <2>5. c * Q64 <= liquidity * (s - u)
    <3>1. c * Q64 \in Int /\ liquidity * (p - u) \in Int /\ liquidity * (s - u) \in Int
      BY <1>1
    <3> QED BY <2>3, <2>4, <3>1
  <2>6. u <= s
    BY <2>1
  <2>7. c <= amount1_delta(u, s, liquidity, FALSE)
    BY <1>1, <2>5, <2>6, Amount1Bounds
  <2> QED BY <1>2, <2>7 DEF deltas_to, c
<1>3. CASE ~a_to_b
  <2>1. s <= p /\ p <= u
    BY <1>3 DEF Toward
  <2>2. c = amount0_delta(p, u, liquidity, FALSE)
    BY <1>3 DEF deltas_to
  <2> HIDE DEF c
  <2>3. c * (p * u) <= L * (u - p)
    <3>1. c <= amount0_delta(p, u, liquidity, FALSE)
      <4>1. c \in Nat /\ c <= c
        BY <1>1
      <4> QED BY <2>2, <4>1
    <3> QED BY <1>1, <2>1, <3>1, Amount0Bounds
  <2> HIDE DEF L
  <2>4. L * (u - p) <= L * (u - s)
    <3>1. u - p \in Nat /\ u - s \in Nat /\ u - p <= u - s
      BY <2>1
    <3> QED BY <1>1, <3>1, TimesMonotone
  <2>5. c * (s * u) <= c * (p * u)
    <3>1. s * u \in Nat /\ p * u \in Nat /\ s * u <= p * u
      BY <2>1, TimesMonotone
    <3> QED BY <1>1, <3>1, TimesMonotone
  <2>6. c * (s * u) <= L * (u - s)
    <3>1. c * (s * u) \in Int /\ c * (p * u) \in Int /\ L * (u - p) \in Int /\ L * (u - s) \in Int
      BY <1>1
    <3> QED BY <2>3, <2>4, <2>5, <3>1
  <2>7. s <= u
    BY <2>1
  <2>8. c <= amount0_delta(s, u, liquidity, FALSE)
    BY <1>1, <2>6, <2>7, Amount0Bounds DEF L
  <2> QED BY <1>3, <2>8 DEF deltas_to, c
<1> QED BY <1>2, <1>3

\* Where there is liquidity, a position holds it.
LEMMA LiquidityCovers ==
    ASSUME NEW b, IsBook(b), NEW t \in Int, LiquidityAt(b, t) # 0
    PROVE  t \in Ticks /\ t + 1 \in Ticks
<1> DEFINE S == {p \in b.positions : p.lo <= t /\ t < p.hi}
<1>1. S # {}
  <2>1. S \in SUBSET b.positions
    OBVIOUS
  <2>2. LiquidityAt(b, t) = SumFunctionOnSet(Liquidity(b), S)
    BY DEF LiquidityAt
  <2> HIDE DEF S
  <2>3. IsFiniteSet(S) /\ Counts(Liquidity(b), S)
    BY <2>1, PartSum
  <2>4. S = {} => SumFunctionOnSet(Liquidity(b), S) = 0
    BY <2>3, SumRemoves
  <2> QED BY <2>2, <2>4
<1>2. PICK p \in b.positions : p.lo <= t /\ t < p.hi
  BY <1>1
<1>3. p.lo \in Ticks /\ p.hi \in Ticks
  BY DEF IsBook
<1> QED BY <1>2, <1>3, TicksAssumption DEF Ticks

\* No position begins or ends between the walk and the tick.
Open(b, t, target, a_to_b) ==
    IF a_to_b THEN target <= t /\ Unbroken(b, target, t + 1) ELSE t < target /\ Unbroken(b, t, target)

\* What a step within one range of liquidity yields is held there.
LEMMA OutWithin ==
    ASSUME NEW b, Fair(b), NEW p, Priced(p), NEW t \in Int, NEW a_to_b \in BOOLEAN, StandsAt(p, t, a_to_b),
           NEW l \in Nat \ {0}, l = LiquidityAt(b, t), NEW target \in Ticks, Open(b, t, target, a_to_b),
           NEW u \in Nat \ {0}, Toward(p, u, a_to_b), Toward(u, SqrtAt[target], a_to_b)
    PROVE  deltas_to(p, u, l, a_to_b).out <= U64
<1> DEFINE x == SqrtAt[target]
<1>1. x \in Nat \ {0} /\ p \in Nat \ {0} /\ target \in Int
  BY TickPrices DEF Priced
<1>2. Toward(p, x, a_to_b)
  BY <1>1, TowardOnward
<1>3. t \in Ticks /\ t + 1 \in Ticks /\ IsBook(b)
  BY LiquidityCovers DEF Fair
<1>4. SqrtAt[t] \in Nat \ {0} /\ SqrtAt[t + 1] \in Nat \ {0}
  BY <1>3, TickPrices DEF Priced
<1>5. deltas_to(p, u, l, a_to_b).out <= deltas_to(p, x, l, a_to_b).out
  <2> HIDE DEF x
  <2>1. Toward(u, x, a_to_b)
    BY DEF x
  <2> QED BY <1>1, <2>1, DeltasMonotone
<1> DEFINE s == IF a_to_b THEN SqrtAt[t + 1] ELSE SqrtAt[t]
<1>6. s \in Nat \ {0} /\ Toward(s, p, a_to_b)
  <2>1. t < t + 1 /\ t <= t
    OBVIOUS
  <2>2. a_to_b => p <= SqrtAt[t + 1]
    BY <1>3, <2>1 DEF StandsAt
  <2>3. ~a_to_b => SqrtAt[t] <= p
    BY <1>3, <2>1 DEF StandsAt
  <2> QED BY <1>4, <2>2, <2>3 DEF Toward
<1>7. deltas_to(p, x, l, a_to_b).out <= deltas_to(s, x, l, a_to_b).out
  <2> HIDE DEF x, s
  <2> QED BY <1>1, <1>2, <1>6, DeltaFrom
<1>8. deltas_to(s, x, l, a_to_b).out <= U64
  <2>1. CASE a_to_b
    <3>1. target <= t /\ Unbroken(b, target, t + 1)
      BY <2>1 DEF Open
    <3>2. LiquidityAt(b, t) = LiquidityAt(b, target)
      BY <1>1, <1>3, <3>1, LiquidityStays
    <3>3. target < t + 1
      BY <1>1, <3>1
    <3>4. amount1_delta(x, SqrtAt[t + 1], l, FALSE) <= U64
      BY <1>3, <3>1, <3>2, <3>3 DEF Fair, Holds
    <3> QED BY <2>1, <3>4 DEF deltas_to
  <2>2. CASE ~a_to_b
    <3>1. t < target /\ Unbroken(b, t, target)
      BY <2>2 DEF Open
    <3>2. amount0_delta(SqrtAt[t], x, l, FALSE) <= U64
      BY <1>3, <3>1 DEF Fair, Holds
    <3> QED BY <2>2, <3>2 DEF deltas_to
  <2> QED BY <2>1, <2>2
<1> DEFINE d1 == deltas_to(p, u, l, a_to_b).out
           d2 == deltas_to(p, x, l, a_to_b).out
           d3 == deltas_to(s, x, l, a_to_b).out
<1>9. d1 \in Nat /\ d2 \in Nat /\ d3 \in Nat
  <2> HIDE DEF x, s
  <2> QED BY <1>1, <1>6, DeltaTypes
<1> HIDE DEF d1, d2, d3
<1>10. d1 <= U64
  BY <1>5, <1>7, <1>8, <1>9, SqrtPriceAssumption DEF d1, d2, d3
<1> QED BY <1>10 DEF d1

\* A walk that has not come to its target does not tell one target from another.
LEMMA AdvanceSame ==
    ASSUME NEW f, NEW skipped, NEW q \in Nat, NEW x \in Ticks, NEW y \in Ticks, q # SqrtAt[x], q # SqrtAt[y], NEW tick, NEW a_to_b \in BOOLEAN
    PROVE  advance(f, skipped, q, SqrtAt[x], x, tick, a_to_b) = advance(f, skipped, q, SqrtAt[y], y, tick, a_to_b)
<1>1. Landed(f, q, SqrtAt[x], x, tick, a_to_b) = Landed(f, q, SqrtAt[y], y, tick, a_to_b)
  BY DEF Landed
<1> QED BY <1>1 DEF advance

\* With nothing left to swap the tick is crossed, whatever rests there.
LEMMA ArrivedEmpty ==
    ASSUME NEW D, NEW b, IsData(D, b), NEW pool, NEW w \in WalkRecords, NEW target \in Ticks, NEW known \in BOOLEAN, NEW rate \in 0..(PPM - 1),
           NEW a_to_b \in BOOLEAN, known => target \in DOMAIN D.nets /\ Nearest(b, w.tick, target, a_to_b),
           w.liq = LiquidityAt(b, w.tick), w.remaining = 0,
           NEW c, c = Arrived(pool, D, w, target, known, rate, a_to_b)
    PROVE  c.status \in {"walking", "done"} /\ c.remaining = 0 /\ c.out \in Nat /\ w.out <= c.out
<1>1. w.out \in Nat /\ w.status \in {"walking", "done"}
  BY DEF WalkRecords
<1>2. CASE w.sqrt_p # SqrtAt[target]
  BY <1>1, <1>2 DEF Arrived
<1>3. CASE w.sqrt_p = SqrtAt[target] /\ ~known
  <2>1. c = [w EXCEPT !.status = "done"]
    BY <1>1, <1>3 DEF Arrived
  <2> QED BY <1>1, <2>1 DEF WalkRecords
<1>4. CASE w.sqrt_p = SqrtAt[target] /\ known
  <2>1. c = Crossed(pool, D, w, target, rate, a_to_b)
    BY <1>1, <1>4 DEF Arrived
  <2>2. target \in DOMAIN D.nets /\ Nearest(b, w.tick, target, a_to_b)
    BY <1>4
  <2>3. AcrossTick(w, b, target, a_to_b, c)
    BY <2>1, <2>2, CrossedForms
  <2>4. PICK r \in 0..w.remaining, o \in Nat, t \in {target - 1, target} :
          /\ c = [w EXCEPT !.remaining = r, !.out = o, !.liq = LiquidityAt(b, t), !.tick = t,
                           !.cursor = IF a_to_b THEN target - 1 ELSE target]
          /\ w.out <= o
          /\ r > 0 => t = IF a_to_b THEN target - 1 ELSE target
    <3>1. ~(w.remaining > 0)
      OBVIOUS
    <3> QED BY <2>3, <3>1 DEF AcrossTick
  <2>5. r = 0
    OBVIOUS
  <2>6. c.status = w.status /\ c.remaining = r /\ c.out = o
    BY <2>4 DEF WalkRecords
  <2> QED BY <1>1, <2>4, <2>5, <2>6
<1> QED BY <1>2, <1>3, <1>4

\* A walk over the ticks of a book as far as the last.
Whole(D, b, a_to_b, edge) == IsData(D, b) /\ D.lo = MinTick /\ D.hi = MaxTick /\ edge = NoBound(a_to_b)

\* A walk over every tick has the last tick as its edge.
LEMMA WholeEdge ==
    ASSUME NEW D, NEW b, NEW a_to_b \in BOOLEAN, NEW edge, Whole(D, b, a_to_b, edge)
    PROVE  EdgeWithin(D, edge, a_to_b) /\ edge \in Int /\ IsData(D, b) /\ edge \in Ticks
BY TicksAssumption, TickPrices DEF Whole, EdgeWithin, NoBound

\* The next tick in memory is the next tick of the pool.
LEMMA KnownSame ==
    ASSUME NEW b, NEW D, IsData(D, b), NEW a_to_b \in BOOLEAN, NEW edge, EdgeWithin(D, edge, a_to_b),
           NEW E, NEW last, Whole(E, b, a_to_b, last),
           NEW w, CursorWithin(D, w.cursor, a_to_b), CursorWithin(E, w.cursor, a_to_b),
           Ahead(w, D, a_to_b, edge) # {}
    PROVE  Ahead(w, E, a_to_b, last) # {} /\ TargetTick(w, E, a_to_b, last) = TargetTick(w, D, a_to_b, edge)
<1> DEFINE x == TargetTick(w, D, a_to_b, edge)
           y == TargetTick(w, E, a_to_b, last)
<1>1. x \in Ticks /\ x \in Initialised(b) /\ Nearest(b, w.cursor, x, a_to_b)
  BY TargetBounds
<1>2. EdgeWithin(E, last, a_to_b) /\ last \in Int /\ IsData(E, b)
  BY WholeEdge
<1>3. w.cursor \in Int /\ x \in Int /\ MinTick <= x /\ x <= MaxTick
  BY <1>1, TickPrices, TicksAssumption DEF CursorWithin, Ticks
<1>4. x \in DOMAIN E.nets
  BY <1>1, <1>3 DEF Whole, IsData
<1> HIDE DEF x, y
<1>5. x \in Ahead(w, E, a_to_b, last)
  BY <1>1, <1>3, <1>4 DEF Ahead, Whole, NoBound, Nearest
<1>6. Ahead(w, E, a_to_b, last) # {}
  BY <1>5
<1>7. y \in Ticks /\ y \in Initialised(b) /\ Nearest(b, w.cursor, y, a_to_b)
  BY <1>2, <1>6, TargetBounds DEF y
<1>8. y \in Int
  BY <1>7, TickPrices
<1>9. x = y
  BY <1>1, <1>3, <1>7, <1>8 DEF Nearest
<1> QED BY <1>6, <1>9 DEF x, y

\* A walk that goes on to the edge of the ticks in memory goes on, over all of them, as far at least.
LEMMA UnknownFarther ==
    ASSUME NEW b, NEW D, IsData(D, b), NEW a_to_b \in BOOLEAN, NEW edge, EdgeWithin(D, edge, a_to_b),
           NEW E, NEW last, Whole(E, b, a_to_b, last),
           NEW w, CursorWithin(D, w.cursor, a_to_b), CursorWithin(E, w.cursor, a_to_b),
           Ahead(w, D, a_to_b, edge) = {},
           NEW x, x = TargetTick(w, D, a_to_b, edge), NEW y, y = TargetTick(w, E, a_to_b, last)
    PROVE  /\ x \in Ticks /\ y \in Ticks
           /\ IF a_to_b THEN y <= x ELSE x <= y
<1>1. x \in Ticks /\ x = Clamp(IF a_to_b THEN edge ELSE edge + 1) /\ Clear(b, w.cursor, edge, a_to_b)
  BY TargetBounds
<1>2. EdgeWithin(E, last, a_to_b) /\ last \in Int /\ IsData(E, b) /\ last \in Ticks
  BY WholeEdge
<1>3. y \in Ticks
  BY <1>2, TargetBounds
<1>4. edge \in Int /\ w.cursor \in Int /\ y \in Int /\ x \in Int /\ MinTick <= x /\ x <= MaxTick /\ MinTick \in Int /\ MaxTick \in Int
  BY <1>1, <1>3, TickPrices, TicksAssumption DEF EdgeWithin, CursorWithin, Ticks
<1>5. Ahead(w, E, a_to_b, last) # {} => y \in Initialised(b) /\ Nearest(b, w.cursor, y, a_to_b)
  BY <1>2, TargetBounds
<1>6. Ahead(w, E, a_to_b, last) = {} => y = Clamp(IF a_to_b THEN last ELSE last + 1)
  BY <1>2, TargetBounds
<1>7. CASE a_to_b
  <2>1. x = Clamp(edge)
    BY <1>1, <1>7
  <2>2. ASSUME Ahead(w, E, a_to_b, last) # {} PROVE y <= x
    <3>1. y \in Initialised(b) /\ y <= w.cursor
      BY <1>5, <1>7, <2>2 DEF Nearest
    <3>2. ~(edge <= y /\ y <= w.cursor)
      BY <1>1, <1>7, <3>1 DEF Clear
    <3>3. y <= edge
      BY <1>4, <3>1, <3>2
    <3> QED BY <1>3, <1>4, <2>1, <3>3, ClampBounds
  <2>3. ASSUME Ahead(w, E, a_to_b, last) = {} PROVE y <= x
    <3>1. last = MinTick
      BY <1>7 DEF Whole, NoBound
    <3>2. y = Clamp(MinTick)
      BY <1>6, <1>7, <2>3, <3>1
    <3>3. y = MinTick
      BY <3>2, ClampBounds, TickPrices
    <3> QED BY <1>4, <3>3
  <2>4. y <= x
    BY <2>2, <2>3
  <2> QED BY <1>1, <1>3, <1>7, <2>4
<1>8. CASE ~a_to_b
  <2>1. x = Clamp(edge + 1) /\ edge + 1 \in Int
    BY <1>1, <1>4, <1>8
  <2>2. ASSUME Ahead(w, E, a_to_b, last) # {} PROVE x <= y
    <3>1. y \in Initialised(b) /\ w.cursor < y
      BY <1>5, <1>8, <2>2 DEF Nearest
    <3>2. ~(w.cursor < y /\ y <= edge)
      BY <1>1, <1>8, <3>1 DEF Clear
    <3>3. edge + 1 <= y
      BY <1>4, <3>1, <3>2
    <3> QED BY <1>3, <1>4, <2>1, <3>3, ClampBounds
  <2>3. ASSUME Ahead(w, E, a_to_b, last) = {} PROVE x <= y
    <3>1. last = MaxTick
      BY <1>8 DEF Whole, NoBound
    <3>2. y = Clamp(MaxTick + 1)
      BY <1>6, <1>8, <2>3, <3>1
    <3>3. y = MaxTick
      BY <1>4, <3>2, ClampBounds
    <3> QED BY <1>4, <3>3
  <2>4. x <= y
    BY <2>2, <2>3
  <2> QED BY <1>1, <1>3, <1>8, <2>4
<1> QED BY <1>7, <1>8

\* StandsAt a walk and the target no position begins or ends.
LEMMA TargetOpen ==
    ASSUME NEW b, NEW E, NEW a_to_b \in BOOLEAN, NEW last, Whole(E, b, a_to_b, last),
           NEW w, CursorWithin(E, w.cursor, a_to_b), w.cursor = w.tick,
           NEW y, y = TargetTick(w, E, a_to_b, last), IF a_to_b THEN y <= w.tick ELSE w.tick < y
    PROVE  Open(b, w.tick, y, a_to_b)
<1>1. EdgeWithin(E, last, a_to_b) /\ last \in Int /\ IsData(E, b) /\ last \in Ticks /\ IsBook(b)
  BY WholeEdge DEF IsData
<1>2. y \in Ticks /\ y \in Int /\ w.tick \in Int
  BY <1>1, TargetBounds, TickPrices DEF CursorWithin
<1>3. CASE Ahead(w, E, a_to_b, last) # {}
  <2>1. Nearest(b, w.tick, y, a_to_b)
    BY <1>1, <1>3, TargetBounds
  <2>2. IF a_to_b THEN Unbroken(b, y, w.tick + 1) ELSE Unbroken(b, w.tick, y)
    BY <1>1, <1>2, <2>1, NextUnbroken
  <2> QED BY <2>2 DEF Open
<1>4. CASE Ahead(w, E, a_to_b, last) = {}
  <2>1. y = Clamp(IF a_to_b THEN last ELSE last + 1) /\ Clear(b, w.tick, last, a_to_b)
    BY <1>1, <1>4, TargetBounds
  <2>2. \A v \in Initialised(b) : v \in Int /\ MinTick <= v /\ v <= MaxTick
    BY <1>1, BookTypes, TickPrices, TicksAssumption DEF Ticks
  <2>3. last = IF a_to_b THEN MinTick ELSE MaxTick
    BY DEF Whole, NoBound
  <2>4. MinTick <= y /\ y <= MaxTick /\ MinTick \in Int /\ MaxTick \in Int
    BY <1>2, TicksAssumption DEF Ticks
  <2>5. Nearest(b, w.tick, y, a_to_b)
    BY <1>2, <2>1, <2>2, <2>3, <2>4 DEF Nearest, Clear
  <2>6. IF a_to_b THEN Unbroken(b, y, w.tick + 1) ELSE Unbroken(b, w.tick, y)
    BY <1>1, <1>2, <2>5, NextUnbroken
  <2> QED BY <2>6 DEF Open
<1> QED BY <1>3, <1>4

\* A turn to a tick that both data hold is the same turn.
LEMMA TurnToSame ==
    ASSUME NEW b, NEW D, IsData(D, b), NEW E, IsData(E, b), NEW x \in DOMAIN D.nets, x \in DOMAIN E.nets,
           NEW pool, NEW w, NEW known, NEW a_to_b
    PROVE  TurnTo(pool, D, w, x, known, a_to_b) = TurnTo(pool, E, w, x, known, a_to_b)
<1>1. D.nets[x] = E.nets[x] /\ Unfilled(D, x) = Unfilled(E, x)
  BY DEF IsData
<1>2. \A v, rate : Crossed(pool, D, v, x, rate, a_to_b) = Crossed(pool, E, v, x, rate, a_to_b)
  BY <1>1 DEF Crossed, Orders
<1>3. \A v, rate : Arrived(pool, D, v, x, known, rate, a_to_b) = Arrived(pool, E, v, x, known, rate, a_to_b)
  BY <1>2 DEF Arrived
<1> QED BY <1>3 DEF TurnTo, Turned

\* All that was left is used up at the price q.
UsedUp(w, v, least) ==
    \E q \in Nat, o \in Nat : v = [w EXCEPT !.sqrt_p = q, !.remaining = 0, !.out = o] /\ least <= o

\* A move with a farther target is the same move, or has used at least as much where the near one ends.
LEMMA MovedFarther ==
    ASSUME NEW pool, NEW w \in WalkRecords, w.status = "walking", w.remaining > 0, w.remaining <= U64, Priced(w.sqrt_p),
           NEW rate \in 0..(PPM - 1), NEW a_to_b \in BOOLEAN,
           NEW g, Priced(g), NEW h, Priced(h), Toward(w.sqrt_p, g, a_to_b), Toward(g, h, a_to_b), g # h,
           w.liq # 0 => deltas_to(w.sqrt_p, h, w.liq, a_to_b).out <= U64,
           NEW m, m = Moved(pool, w, g, rate, a_to_b), m.status # "none",
           NEW c, c = Moved(pool, w, h, rate, a_to_b)
    PROVE  \/ m = c /\ m.sqrt_p # g /\ w.sqrt_p # g
           \/ m.sqrt_p = g /\ m.remaining > 0
           \/ m.sqrt_p = g /\ m.remaining = 0 /\ m.out \in Nat /\ UsedUp(w, c, m.out)
<1> DEFINE p == w.sqrt_p
           l == w.liq
           n == w.remaining
           on == fee_on_input(pool, a_to_b)
           near == swap_step(p, g, l, n, rate, a_to_b, on)
           far == swap_step(p, h, l, n, rate, a_to_b, on)
<1>1. /\ p \in Nat \ {0} /\ l \in Nat /\ n \in Nat /\ n \in 0..U64 /\ on \in BOOLEAN /\ g \in Nat \ {0} /\ h \in Nat \ {0} /\ w.out \in Nat
  <2>1. l \in Nat /\ n \in Nat /\ w.out \in Nat
    BY DEF WalkRecords
  <2>2. p \in Nat \ {0} /\ g \in Nat \ {0} /\ h \in Nat \ {0}
    BY DEF Priced
  <2>3. on \in BOOLEAN
    BY DEF fee_on_input
  <2>4. n \in 0..U64
    BY <2>1, SqrtPriceAssumption
  <2> QED BY <2>1, <2>2, <2>3, <2>4
<1>2. CASE p = g \/ l = 0
  <2>1. m = [w EXCEPT !.sqrt_p = g]
    BY <1>2 DEF Moved, WalkRecords
  <2>2. m.sqrt_p = g /\ m.remaining = n
    BY <2>1 DEF WalkRecords
  <2> QED BY <2>2
<1>3. CASE ~(p = g \/ l = 0)
  <2>1. p # h
    <3>1. p \in Nat /\ g \in Nat /\ h \in Nat
      BY <1>1
    <3> HIDE DEF p
    <3>2. Toward(p, g, a_to_b) /\ Toward(g, h, a_to_b) /\ g # h /\ p # g
      BY <1>3 DEF p
    <3> QED BY <3>1, <3>2 DEF Toward
  <2>2. m = Taken(w, near) /\ c = Taken(w, far)
    BY <1>3, <2>1 DEF Moved
  <2>3. near # NoStep
    BY <2>2 DEF Taken, Failed, WalkRecords
  <2>4. l \in Nat \ {0} /\ deltas_to(p, h, l, a_to_b).out <= U64 /\ Toward(p, g, a_to_b)
    BY <1>1, <1>3
  <2>5. near = swap_step(p, g, l, n, rate, a_to_b, on) /\ far = swap_step(p, h, l, n, rate, a_to_b, on)
    OBVIOUS
  <2>6. w.sqrt_p = p /\ w.remaining = n /\ w.liq = l /\ n > 0
    OBVIOUS
  <2> HIDE DEF p, l, n, on, near, far
  <2>7. far # NoStep
    BY <1>1, <2>3, <2>4, <2>5, StepFarther
  <2>8. \/ near.next # g /\ far = near /\ far.next # h
        \/ near.next = g /\ near.used <= far.used /\ near.got <= far.got
    BY <1>1, <2>3, <2>4, <2>5, StepFarther
  <2>9. near.used \in 0..n /\ near.got \in Nat /\ near.next \in Nat \ {0}
    <3>1. near.used \in 0..n /\ near.got \in Nat
      BY <1>1, <2>3, <2>4, <2>5, StepFair
    <3>2. near.next \in Nat \ {0}
      BY <1>1, <2>3, <2>4, <2>5, StepFair
    <3> QED BY <3>1, <3>2
  <2>10. far.used \in 0..n /\ far.got \in Nat /\ far.next \in Nat \ {0}
    <3>0. Toward(p, h, a_to_b) /\ p \in Nat /\ g \in Nat /\ h \in Nat
      <4>1. p \in Nat /\ g \in Nat /\ h \in Nat
        BY <1>1
      <4> QED BY <2>4, <4>1, TowardOnward
    <3>1. far.used \in 0..n /\ far.got \in Nat
      BY <1>1, <2>4, <2>5, <2>7, <3>0, StepFair
    <3>2. far.next \in Nat \ {0}
      BY <1>1, <2>4, <2>5, <2>7, <3>0, StepFair
    <3> QED BY <3>1, <3>2
  <2>11. m = [w EXCEPT !.sqrt_p = near.next, !.remaining = n - near.used, !.out = w.out + near.got]
    BY <2>2, <2>3, <2>6 DEF Taken, WalkRecords
  <2>12. c = [w EXCEPT !.sqrt_p = far.next, !.remaining = n - far.used, !.out = w.out + far.got]
    BY <2>2, <2>6, <2>7 DEF Taken, WalkRecords
  <2>13. m.sqrt_p = near.next /\ m.remaining = n - near.used /\ m.out = w.out + near.got
    BY <2>11 DEF WalkRecords
  <2>14. CASE near.next # g
    <3>1. far = near
      BY <2>8, <2>14
    <3> QED BY <1>3, <2>6, <2>11, <2>12, <2>13, <2>14, <3>1
  <2>15. CASE near.next = g /\ near.used # n
    <3>1. n - near.used > 0
      BY <1>1, <2>9, <2>15
    <3> QED BY <2>13, <2>15, <3>1
  <2>16. CASE near.next = g /\ near.used = n
    <3>1. near.used <= far.used /\ near.got <= far.got
      BY <2>8, <2>16
    <3>2. n - far.used = 0 /\ n - near.used = 0
      BY <1>1, <2>10, <2>16, <3>1
    <3> DEFINE q == far.next
               o == w.out + far.got
    <3>3. q \in Nat /\ o \in Nat /\ m.out \in Nat /\ m.out <= o
      BY <1>1, <2>9, <2>10, <2>13, <3>1
    <3>4. c = [w EXCEPT !.sqrt_p = q, !.remaining = 0, !.out = o]
      BY <2>12, <3>2
    <3> HIDE DEF q, o
    <3> QED BY <2>13, <2>16, <3>2, <3>3, <3>4 DEF UsedUp
  <2> QED BY <2>14, <2>15, <2>16
<1> QED BY <1>2, <1>3

\* Both walks are at an end, and the second has no less.
BothAtEnd(m, c) ==
    /\ m.status \in {"walking", "done"} /\ c.status \in {"walking", "done"} /\ m.remaining = 0 /\ c.remaining = 0
    /\ m.out \in Nat /\ c.out \in Nat /\ m.out <= c.out

\* The walk over the ticks in memory fails, or does as the walk over all of them does,
\* or both have nothing left to swap and the other has no less.
Follows(m, c, D, E, b, a_to_b) ==
    \/ m.status = "none"
    \/ /\ Sound(m, D, b, a_to_b) /\ Sound(c, E, b, a_to_b)
       /\ m = c \/ (m.remaining = 0 /\ c.remaining = 0 /\ m.out <= c.out)

\* A price before another in the direction of the walk is not one beyond it.
LEMMA NotReached ==
    ASSUME NEW q \in Nat, NEW g \in Nat, NEW x \in Nat, NEW y \in Nat, NEW a_to_b \in BOOLEAN,
           Toward(q, g, a_to_b), Toward(g, x, a_to_b), Toward(x, y, a_to_b), q # x
    PROVE  q # y
BY DEF Toward

\* A turn to the edge of the ticks in memory, and the turn that goes on beyond it.
EdgeTurns(b, D, E, pool, w, x, y, known, rate, near, far, m, c, a_to_b) ==
    /\ Fair(b) /\ IsData(D, b) /\ IsData(E, b)
    /\ Sound(w, E, b, a_to_b) /\ w.status = "walking" /\ w.remaining > 0 /\ w.sqrt_p # limit(a_to_b)
    /\ FeeAhead(w.fee, w.sqrt_p, a_to_b)
    /\ x \in Ticks /\ y \in Ticks /\ Toward(SqrtAt[x], SqrtAt[y], a_to_b) /\ Toward(w.sqrt_p, SqrtAt[x], a_to_b)
    /\ Open(b, w.tick, y, a_to_b)
    /\ known \in BOOLEAN /\ (known => y \in DOMAIN E.nets /\ Nearest(b, w.tick, y, a_to_b))
    /\ rate \in 0..(PPM - 1)
    /\ near = PeriodTarget(w.fee, w.liq, Bounded(SqrtAt[x], a_to_b), a_to_b)
    /\ far = PeriodTarget(w.fee, w.liq, Bounded(SqrtAt[y], a_to_b), a_to_b)
    /\ m = Turned(pool, D, w, x, FALSE, near, rate, a_to_b) /\ m.status # "none"
    /\ c = Turned(pool, E, w, y, known, far, rate, a_to_b)

\* The first of such turns is the second, or both are at an end.
LEMMA EdgeFollows ==
    ASSUME NEW b, NEW D, NEW E, NEW a_to_b \in BOOLEAN, NEW pool, NEW w, NEW x \in Ticks, NEW y \in Ticks, NEW known \in BOOLEAN,
           NEW rate \in 0..(PPM - 1), NEW near, NEW far, NEW m, NEW c,
           EdgeTurns(b, D, E, pool, w, x, y, known, rate, near, far, m, c, a_to_b)
    PROVE  m = c \/ BothAtEnd(m, c)
<1> USE DEF EdgeTurns
<1> DEFINE to == Bounded(SqrtAt[x], a_to_b)
           beyond == Bounded(SqrtAt[y], a_to_b)
           g == near.target
           h == far.target
           m1 == Moved(pool, w, g, rate, a_to_b)
           c1 == Moved(pool, w, h, rate, a_to_b)
           m2 == Arrived(pool, D, m1, x, FALSE, rate, a_to_b)
           c2 == Arrived(pool, E, c1, y, known, rate, a_to_b)
           mf == advance(w.fee, near.skipped, m2.sqrt_p, SqrtAt[x], x, m2.tick, a_to_b)
           cf == advance(w.fee, far.skipped, c2.sqrt_p, SqrtAt[y], y, c2.tick, a_to_b)
           mn == IF w.sqrt_p # g THEN m2.steps + 1 ELSE m2.steps
           cn == IF w.sqrt_p # h THEN c2.steps + 1 ELSE c2.steps
<1>1. /\ w \in WalkRecords /\ w.fee \in Fees /\ w.remaining \in Nat /\ w.remaining <= U64 /\ w.tick \in Int /\ w.liq \in Nat /\ w.steps \in Nat
      /\ Priced(w.sqrt_p) /\ Toward(w.sqrt_p, limit(a_to_b), a_to_b) /\ StandsAt(w.sqrt_p, w.tick, a_to_b) /\ w.liq = LiquidityAt(b, w.tick)
  BY DEF Sound, WalkRecords
<1>2. Priced(SqrtAt[x]) /\ Priced(SqrtAt[y]) /\ Priced(limit(a_to_b))
  BY TickPrices, LimitPriced
<1>3. SqrtAt[x] \in Nat /\ SqrtAt[y] \in Nat /\ limit(a_to_b) \in Nat /\ w.sqrt_p \in Nat
  BY <1>1, <1>2 DEF Priced
<1>4. Priced(to) /\ Toward(w.sqrt_p, to, a_to_b) /\ Toward(to, limit(a_to_b), a_to_b) /\ Toward(to, SqrtAt[x], a_to_b)
  BY <1>1, BoundedOnWay
<1>5. Toward(w.sqrt_p, SqrtAt[y], a_to_b)
  BY <1>3, TowardOnward
<1>6. Priced(beyond) /\ Toward(w.sqrt_p, beyond, a_to_b) /\ Toward(beyond, limit(a_to_b), a_to_b) /\ Toward(beyond, SqrtAt[y], a_to_b)
  BY <1>1, <1>5, BoundedOnWay
<1>7. Toward(to, beyond, a_to_b)
  BY <1>3 DEF Bounded, AtLeast, AtMost, Toward
<1>8. to = limit(a_to_b) \/ to = SqrtAt[x]
  BY DEF Bounded, AtLeast, AtMost
<1> HIDE DEF to, beyond
<1>9. Priced(g) /\ Toward(w.sqrt_p, g, a_to_b) /\ Toward(g, to, a_to_b)
  BY <1>1, <1>4, PeriodOnWay DEF to
<1>10. Priced(h) /\ Toward(w.sqrt_p, h, a_to_b) /\ Toward(h, beyond, a_to_b)
  BY <1>1, <1>6, PeriodOnWay DEF beyond
<1>11. near.skipped = far.skipped /\ (g = h \/ (g = to /\ Toward(to, h, a_to_b)))
  BY <1>1, <1>4, <1>6, <1>7, PeriodFarther DEF to, beyond
<1>12. g \in Nat /\ h \in Nat /\ to \in Nat /\ beyond \in Nat
  BY <1>4, <1>6, <1>9, <1>10 DEF Priced
<1>13. m = [m2 EXCEPT !.fee = mf, !.steps = mn] /\ c = [c2 EXCEPT !.fee = cf, !.steps = cn]
  BY DEF Turned, Advanced
<1>14. m1.status = "none" \/ OnItsWay(w, g, a_to_b, m1)
  <2> DEFINE z == g
  <2>1. Priced(z) /\ Toward(w.sqrt_p, z, a_to_b) /\ m1 = Moved(pool, w, z, rate, a_to_b)
    BY <1>9
  <2> HIDE DEF z, m1
  <2> QED BY <1>1, <2>1, MovedForms DEF z
<1> HIDE DEF g, h, m1, c1, m2, c2, mf, cf, mn, cn
<1>15. m1.status # "none"
  <2> SUFFICES ASSUME m1.status = "none" PROVE FALSE
    OBVIOUS
  <2>1. m2 = m1
    BY DEF Arrived, m2
  <2>2. m1 = w \/ m1 = [w EXCEPT !.sqrt_p = g] \/ \E s : m1 = Taken(w, s)
    BY DEF m1, Moved
  <2>3. "status" \in DOMAIN m1
    BY <1>1, <2>2 DEF Taken, Failed, WalkRecords
  <2>4. m.status = m2.status
    BY <1>13, <2>1, <2>3
  <2> QED BY <2>1, <2>4
<1>16. PICK q \in Nat, r \in 0..w.remaining, o \in Nat :
          /\ m1 = [w EXCEPT !.sqrt_p = q, !.remaining = r, !.out = o]
          /\ Priced(q) /\ Toward(w.sqrt_p, q, a_to_b) /\ Toward(q, g, a_to_b)
          /\ r > 0 => q = g
  BY <1>14, <1>15 DEF OnItsWay
<1>17. /\ m1 \in WalkRecords /\ r \in Nat /\ m1.sqrt_p = q /\ m1.remaining = r /\ m1.out = o /\ m1.tick = w.tick /\ m1.liq = w.liq
       /\ m1.status = "walking" /\ m1.steps = w.steps
  <2>1. r \in Nat
    BY <1>1
  <2>2. q \in Nat /\ o \in Nat
    OBVIOUS
  <2>3. w \in WalkRecords /\ w.status = "walking"
    BY <1>1
  <2> QED BY <1>16, <2>1, <2>2, <2>3 DEF WalkRecords
<1>18. q = SqrtAt[x] => r = 0
  <2> SUFFICES ASSUME q = SqrtAt[x], r # 0 PROVE FALSE
    OBVIOUS
  <2>1. m2 = Failed(m1)
    BY <1>17 DEF Arrived, m2
  <2>2. m2.status = "none" /\ "status" \in DOMAIN m2
    BY <1>17, <2>1 DEF Failed, WalkRecords
  <2>3. m.status = m2.status
    BY <1>13, <2>2
  <2> QED BY <2>2, <2>3
  \* With nothing left, both are at an end.
<1>19. ASSUME q = SqrtAt[x], UsedUp(w, c1, m1.out)
       PROVE  BothAtEnd(m, c)
  <2>1. m2 = [m1 EXCEPT !.status = "done"]
    BY <1>17, <1>18, <1>19 DEF Arrived, m2
  <2>2. m.status = "done" /\ m.remaining = 0 /\ m.out = o
    BY <1>13, <1>17, <1>18, <1>19, <2>1 DEF WalkRecords
  <2>3. PICK u \in Nat, k \in Nat : c1 = [w EXCEPT !.sqrt_p = u, !.remaining = 0, !.out = k] /\ o <= k
    BY <1>17, <1>19 DEF UsedUp
  <2>4. c1 \in WalkRecords /\ c1.remaining = 0 /\ c1.tick = w.tick /\ c1.liq = w.liq /\ c1.out = k
    BY <1>1, <2>3 DEF WalkRecords
  <2>5. /\ known => y \in DOMAIN E.nets /\ Nearest(b, c1.tick, y, a_to_b)
        /\ c1.liq = LiquidityAt(b, c1.tick) /\ c2 = Arrived(pool, E, c1, y, known, rate, a_to_b)
    BY <1>1, <2>4 DEF c2
  <2>6. c2.status \in {"walking", "done"} /\ c2.remaining = 0 /\ c2.out \in Nat /\ c1.out <= c2.out
    BY <2>4, <2>5, ArrivedEmpty
  <2>7. c.status = c2.status /\ c.remaining = c2.remaining /\ c.out = c2.out
    BY <1>13
  <2>8. o <= c.out
    BY <2>3, <2>4, <2>6, <2>7
  <2> QED BY <2>2, <2>6, <2>7, <2>8 DEF BothAtEnd
  \* The same move that does not end at the edge is followed by nothing that differs.
<1>20. ASSUME q # SqrtAt[x], m1 = c1, (w.sqrt_p = g) = (w.sqrt_p = h)
       PROVE  m = c
  <2>1. q # SqrtAt[y]
    <3>1. Toward(g, SqrtAt[x], a_to_b)
      BY <1>3, <1>4, <1>9, <1>12, TowardOnward
    <3> QED BY <1>3, <1>12, <1>16, <1>20, <3>1, NotReached
  <2>2. m2 = m1 /\ c2 = m1
    BY <1>17, <1>20, <2>1 DEF Arrived, m2, c2
  <2>3. mf = cf
    <3> DEFINE skipped == near.skipped
               f == w.fee
               tick == m1.tick
    <3>1. mf = advance(f, skipped, q, SqrtAt[x], x, tick, a_to_b) /\ cf = advance(f, skipped, q, SqrtAt[y], y, tick, a_to_b)
      <4>1. m2.sqrt_p = q /\ c2.sqrt_p = q /\ m2.tick = tick /\ c2.tick = tick
        BY <1>17, <2>2
      <4>2. near.skipped = skipped /\ far.skipped = skipped
        BY <1>11
      <4> QED BY <4>1, <4>2 DEF mf, cf
    <3> HIDE DEF skipped, f, tick
    <3>2. q # SqrtAt[x] /\ q # SqrtAt[y]
      BY <1>20, <2>1
    <3>3. advance(f, skipped, q, SqrtAt[x], x, tick, a_to_b) = advance(f, skipped, q, SqrtAt[y], y, tick, a_to_b)
      BY <3>2, AdvanceSame
    <3> QED BY <3>1, <3>3
  <2>4. mn = cn
    BY <1>20, <2>2 DEF mn, cn
  <2> QED BY <1>13, <2>2, <2>3, <2>4
<1>21. CASE g = h
  <2>1. c1 = m1
    BY <1>21 DEF c1, m1, g, h
  <2>2. CASE q # SqrtAt[x]
    BY <1>20, <1>21, <2>1, <2>2
  <2>3. CASE q = SqrtAt[x]
    <3>1. UsedUp(w, c1, m1.out)
      <4>1. c1 = [w EXCEPT !.sqrt_p = q, !.remaining = 0, !.out = o]
        BY <1>16, <1>18, <2>1, <2>3
      <4>2. q \in Nat /\ o \in Nat /\ m1.out <= o
        BY <1>17
      <4> QED BY <4>1, <4>2 DEF UsedUp
    <3> QED BY <1>19, <2>3, <3>1
  <2> QED BY <2>2, <2>3
<1>22. CASE g # h
  <2>1. g = to /\ Toward(g, h, a_to_b)
    BY <1>11, <1>22
  <2>2. to = SqrtAt[x]
    <3>1. Toward(h, limit(a_to_b), a_to_b)
      BY <1>3, <1>6, <1>10, <1>12, TowardOnward
    <3>2. g # limit(a_to_b)
      BY <1>3, <1>12, <1>22, <2>1, <3>1 DEF Toward
    <3> QED BY <1>8, <2>1, <3>2
  <2>3. w.liq # 0 => deltas_to(w.sqrt_p, h, w.liq, a_to_b).out <= U64
    <3> SUFFICES ASSUME w.liq # 0 PROVE deltas_to(w.sqrt_p, h, w.liq, a_to_b).out <= U64
      OBVIOUS
    <3> DEFINE p == w.sqrt_p
               t == w.tick
               l == w.liq
    <3>1. Priced(p) /\ t \in Int /\ StandsAt(p, t, a_to_b) /\ l \in Nat \ {0} /\ l = LiquidityAt(b, t) /\ Open(b, t, y, a_to_b)
      BY <1>1
    <3>2. h \in Nat \ {0} /\ Toward(p, h, a_to_b) /\ Toward(h, SqrtAt[y], a_to_b)
      <4>1. h \in Nat \ {0}
        BY <1>10 DEF Priced
      <4>2. Toward(h, SqrtAt[y], a_to_b)
        BY <1>3, <1>6, <1>10, <1>12, TowardOnward
      <4> QED BY <1>10, <4>1, <4>2
    <3> HIDE DEF p, t, l
    <3>3. deltas_to(p, h, l, a_to_b).out <= U64
      BY <3>1, <3>2, OutWithin
    <3> QED BY <3>3 DEF p, l
  <2>4. \/ m1 = c1 /\ m1.sqrt_p # g /\ w.sqrt_p # g
        \/ m1.sqrt_p = g /\ m1.remaining > 0
        \/ m1.sqrt_p = g /\ m1.remaining = 0 /\ m1.out \in Nat /\ UsedUp(w, c1, m1.out)
    <3>1. m1 = Moved(pool, w, g, rate, a_to_b) /\ c1 = Moved(pool, w, h, rate, a_to_b)
      BY DEF m1, c1
    <3> QED BY <1>1, <1>9, <1>10, <1>15, <1>22, <2>1, <2>3, <3>1, MovedFarther
  <2>5. CASE m1 = c1 /\ m1.sqrt_p # g /\ w.sqrt_p # g
    <3>1. w.sqrt_p # h
      BY <1>3, <1>9, <1>12, <2>1, <2>5, <1>22 DEF Toward
    <3>2. q # SqrtAt[x]
      BY <1>17, <2>1, <2>2, <2>5
    <3> QED BY <1>20, <2>5, <3>1, <3>2
  <2>6. CASE m1.sqrt_p = g /\ m1.remaining > 0
    BY <1>17, <1>18, <2>1, <2>2, <2>6
  <2>7. CASE m1.sqrt_p = g /\ m1.remaining = 0 /\ m1.out \in Nat /\ UsedUp(w, c1, m1.out)
    BY <1>17, <1>19, <2>1, <2>2, <2>7
  <2> QED BY <2>4, <2>5, <2>6, <2>7
<1> QED BY <1>21, <1>22

\* A turn over the ticks in memory, and the same turn over all of them.
LEMMA TurnFollows ==
    ASSUME NEW b, Fair(b), NEW D, IsData(D, b), NEW a_to_b \in BOOLEAN, NEW edge, EdgeWithin(D, edge, a_to_b),
           NEW E, NEW last, Whole(E, b, a_to_b, last), NEW pool, pool.fee_ppm \in 0..(PPM - 1),
           NEW w, Sound(w, D, b, a_to_b), Sound(w, E, b, a_to_b),
           w.status = "walking", w.remaining > 0, w.sqrt_p # limit(a_to_b),
           NEW m, m = WalkStep(pool, D, w, a_to_b, edge), NEW c, c = WalkStep(pool, E, w, a_to_b, last)
    PROVE  Follows(m, c, D, E, b, a_to_b)
<1> DEFINE w0 == Charged(w)
           x == TargetTick(w, D, a_to_b, edge)
           y == TargetTick(w, E, a_to_b, last)
           here == Ahead(w, D, a_to_b, edge) # {}
           known == Ahead(w, E, a_to_b, last) # {}
           rate == Rated(w0.fee, pool.fee_ppm)
           near == PeriodTarget(w0.fee, w0.liq, Bounded(SqrtAt[x], a_to_b), a_to_b)
           far == PeriodTarget(w0.fee, w0.liq, Bounded(SqrtAt[y], a_to_b), a_to_b)
<1>1. EdgeWithin(E, last, a_to_b) /\ IsData(E, b)
  BY WholeEdge
<1>2. m = TurnTo(pool, D, w0, x, here, a_to_b) /\ c = TurnTo(pool, E, w0, y, known, a_to_b)
  BY DEF WalkStep, Charged
<1>3. m.status = "none" \/ Sound(m, D, b, a_to_b)
  BY TurnSound
<1>4. c.status = "none" \/ Sound(c, E, b, a_to_b)
  BY <1>1, TurnSound
<1>5. here \in BOOLEAN /\ known \in BOOLEAN /\ (here <=> Ahead(w, D, a_to_b, edge) # {}) /\ (known <=> Ahead(w, E, a_to_b, last) # {})
      /\ x = TargetTick(w, D, a_to_b, edge) /\ y = TargetTick(w, E, a_to_b, last)
  OBVIOUS
<1>6. /\ CursorWithin(D, w.cursor, a_to_b) /\ CursorWithin(E, w.cursor, a_to_b) /\ w.cursor = w.tick /\ w.tick \in Int
      /\ w \in WalkRecords /\ Priced(w.sqrt_p) /\ w.sqrt_p \in Nat /\ w.fee \in Fees
  BY DEF Sound, WalkRecords, Priced
<1>7. Sound(w0, E, b, a_to_b) /\ w0 = [w EXCEPT !.fee = w0.fee]
  BY ChargedSound
<1>8. w0 \in WalkRecords /\ w0.fee \in Fees
  BY <1>7 DEF Sound, WalkRecords
<1>9. w0.status = "walking" /\ w0.sqrt_p = w.sqrt_p /\ w0.remaining = w.remaining /\ w0.tick = w.tick /\ w0.liq = w.liq
  BY <1>6, <1>7 DEF WalkRecords
<1>10. rate \in 0..(PPM - 1)
  BY <1>8, RatedType
<1>11. FeeAhead(w0.fee, w0.sqrt_p, a_to_b)
  BY <1>7, <1>9 DEF Sound
<1> HIDE DEF w0, x, y, here, known
<1>12. x \in Ticks /\ y \in Ticks
  BY <1>1, <1>5, <1>6, TargetBounds
<1>13. here => x \in DOMAIN D.nets
  BY <1>5, <1>6, TargetBounds
<1>14. known => y \in DOMAIN E.nets /\ Nearest(b, w.cursor, y, a_to_b)
  BY <1>1, <1>5, <1>6, TargetBounds
<1>15. SUFFICES ASSUME m.status # "none" PROVE Follows(m, c, D, E, b, a_to_b)
  BY DEF Follows
<1>16. SUFFICES m = c \/ BothAtEnd(m, c)
  BY <1>3, <1>4, <1>15 DEF Follows, BothAtEnd
<1>17. CASE here
  <2>1. known /\ y = x
    BY <1>5, <1>6, <1>17, KnownSame
  <2>2. x \in DOMAIN D.nets /\ x \in DOMAIN E.nets
    BY <1>13, <1>14, <1>17, <2>1
  <2>3. TurnTo(pool, D, w0, x, here, a_to_b) = TurnTo(pool, E, w0, x, here, a_to_b)
    BY <1>1, <2>2, TurnToSame
  <2>4. here = known
    BY <1>5, <1>17, <2>1
  <2> QED BY <1>2, <2>1, <2>3, <2>4
<1>18. CASE ~here
  <2> HIDE DEF rate, near, far
  <2>1. IF a_to_b THEN y <= x ELSE x <= y
    BY <1>5, <1>6, <1>18, UnknownFarther
  <2>2. x \in Int /\ y \in Int /\ SqrtAt[x] \in Nat /\ SqrtAt[y] \in Nat
    BY <1>12, TickPrices DEF Priced
  <2>3. Toward(SqrtAt[x], SqrtAt[y], a_to_b)
    BY <1>12, <2>1, <2>2, TickPrices DEF Toward
  <2>4. /\ a_to_b => ~(w.tick < x) /\ ~(w.sqrt_p < SqrtAt[x])
        /\ ~a_to_b => ~(x <= w.tick) /\ ~(SqrtAt[x] < w.sqrt_p)
    <3>1. Failed(w0).status = "none"
      BY <1>8 DEF Failed, WalkRecords
    <3>2. m # Failed(w0)
      BY <1>15, <3>1
    <3> QED BY <1>2, <1>9, <3>2 DEF TurnTo
  <2>5. Toward(w.sqrt_p, SqrtAt[x], a_to_b)
    BY <1>6, <2>2, <2>4 DEF Toward
  <2>6. /\ a_to_b => ~(w.tick < y) /\ ~(w.sqrt_p < SqrtAt[y])
        /\ ~a_to_b => ~(y <= w.tick) /\ ~(SqrtAt[y] < w.sqrt_p)
    BY <1>6, <2>1, <2>2, <2>3, <2>4 DEF Toward
  <2>7. m = Turned(pool, D, w0, x, here, near, rate, a_to_b)
    BY <1>2, <1>9, <2>4 DEF TurnTo, near, rate
  <2>8. c = Turned(pool, E, w0, y, known, far, rate, a_to_b)
    BY <1>2, <1>9, <2>6 DEF TurnTo, far, rate
  <2>9. m = Turned(pool, D, w0, x, FALSE, near, rate, a_to_b)
    BY <1>5, <1>18, <2>7
  <2>10. IF a_to_b THEN y <= w.tick ELSE w.tick < y
    BY <1>6, <2>2, <2>6
  <2>11. Open(b, w.tick, y, a_to_b)
    BY <1>5, <1>6, <2>10, TargetOpen
  <2>12. known => y \in DOMAIN E.nets /\ Nearest(b, w0.tick, y, a_to_b)
    BY <1>6, <1>9, <1>14
  <2>13. /\ w0.remaining > 0 /\ w0.sqrt_p # limit(a_to_b) /\ Toward(w0.sqrt_p, SqrtAt[x], a_to_b) /\ Open(b, w0.tick, y, a_to_b)
         /\ near = PeriodTarget(w0.fee, w0.liq, Bounded(SqrtAt[x], a_to_b), a_to_b)
         /\ far = PeriodTarget(w0.fee, w0.liq, Bounded(SqrtAt[y], a_to_b), a_to_b)
    BY <1>9, <2>5, <2>11 DEF near, far
  <2>14. /\ Sound(w0, E, b, a_to_b) /\ w0.status = "walking" /\ FeeAhead(w0.fee, w0.sqrt_p, a_to_b) /\ IsData(E, b)
         /\ known \in BOOLEAN /\ rate \in 0..(PPM - 1) /\ x \in Ticks /\ y \in Ticks
    BY <1>1, <1>5, <1>7, <1>9, <1>10, <1>11, <1>12
  <2>15. EdgeTurns(b, D, E, pool, w0, x, y, known, rate, near, far, m, c, a_to_b)
    BY <1>15, <2>3, <2>8, <2>9, <2>12, <2>13, <2>14 DEF EdgeTurns
  <2> QED BY <2>14, <2>15, EdgeFollows
<1> QED BY <1>17, <1>18

\* A sound walk at the head of the loop: it goes on, or it is over.
LEMMA EndedForms ==
    ASSUME NEW D, NEW b, NEW a_to_b \in BOOLEAN, NEW w, Sound(w, D, b, a_to_b), NEW e, e = Ended(w, a_to_b)
    PROVE  \/ e.status = "none"
           \/ e = w /\ w.status = "walking" /\ w.remaining > 0 /\ w.sqrt_p # limit(a_to_b)
           \/ e.status = "done" /\ e.remaining = w.remaining /\ e.out = w.out /\ Sound(e, D, b, a_to_b)
<1>1. w \in WalkRecords /\ w.remaining \in Nat /\ w.status \in {"walking", "done"}
  BY DEF Sound, WalkRecords
<1>2. CASE w.status = "done"
  <2>1. e = w
    BY <1>2 DEF Ended
  <2> QED BY <1>2, <2>1
<1>3. CASE w.status = "walking" /\ w.remaining = 0
  <2>1. e = [w EXCEPT !.status = "done"]
    BY <1>3 DEF Ended
  <2>2. e \in WalkRecords /\ e.status = "done" /\ e.remaining = 0 /\ e.sqrt_p = w.sqrt_p /\ e.tick = w.tick /\ e.liq = w.liq
        /\ e.cursor = w.cursor /\ e.out = w.out
    BY <1>1, <1>3, <2>1 DEF WalkRecords
  <2> QED BY <1>1, <1>3, <2>2 DEF Sound
<1>4. CASE w.status = "walking" /\ w.remaining # 0 /\ w.sqrt_p = limit(a_to_b)
  <2>1. e = Failed(w)
    BY <1>4 DEF Ended
  <2> QED BY <1>1, <2>1 DEF Failed, WalkRecords
<1>5. CASE w.status = "walking" /\ w.remaining # 0 /\ w.sqrt_p # limit(a_to_b)
  <2>1. e = w
    BY <1>5 DEF Ended
  <2> QED BY <1>1, <1>5, <2>1
<1> QED BY <1>1, <1>2, <1>3, <1>4, <1>5

\* The walk over the ticks in memory follows the walk over all of them, turn by turn.
LEMMA OnwardFollows ==
    ASSUME NEW b, Fair(b), NEW D, IsData(D, b), NEW a_to_b \in BOOLEAN, NEW edge, EdgeWithin(D, edge, a_to_b),
           NEW E, NEW last, Whole(E, b, a_to_b, last), NEW pool, pool.fee_ppm \in 0..(PPM - 1),
           NEW m, NEW c, Follows(m, c, D, E, b, a_to_b)
    PROVE  /\ Follows(Onward(pool, D, m, a_to_b, edge), Onward(pool, E, c, a_to_b, last), D, E, b, a_to_b)
           /\ Follows(Ended(m, a_to_b), Ended(c, a_to_b), D, E, b, a_to_b)
<1> DEFINE em == Ended(m, a_to_b)
           ec == Ended(c, a_to_b)
           om == Onward(pool, D, m, a_to_b, edge)
           oc == Onward(pool, E, c, a_to_b, last)
<1>1. /\ om = IF m.status = "walking" /\ em.status = "walking" THEN WalkStep(pool, D, em, a_to_b, edge)
              ELSE IF m.status = "walking" THEN em ELSE m
      /\ oc = IF c.status = "walking" /\ ec.status = "walking" THEN WalkStep(pool, E, ec, a_to_b, last)
              ELSE IF c.status = "walking" THEN ec ELSE c
  BY DEF Onward, Turn
<1>2. (m.status # "walking" => em = m) /\ (c.status # "walking" => ec = c)
  BY DEF Ended
<1>3. m = c => em = ec
  OBVIOUS
<1>4. em = Ended(m, a_to_b) /\ ec = Ended(c, a_to_b)
  OBVIOUS
<1> HIDE DEF em, ec, om, oc
<1>5. CASE em.status = "none"
  <2>1. om = em
    BY <1>1, <1>2, <1>5
  <2>2. Follows(em, ec, D, E, b, a_to_b) /\ Follows(om, oc, D, E, b, a_to_b)
    BY <1>5, <2>1 DEF Follows
  <2> QED BY <2>2 DEF em, ec, om, oc
<1>6. CASE em.status # "none"
  <2>1. /\ Sound(m, D, b, a_to_b) /\ Sound(c, E, b, a_to_b)
        /\ m = c \/ (m.remaining = 0 /\ c.remaining = 0 /\ m.out <= c.out)
    BY <1>2, <1>6 DEF Follows
  <2>2. \/ em = m /\ m.status = "walking" /\ m.remaining > 0 /\ m.sqrt_p # limit(a_to_b)
        \/ em.status = "done" /\ em.remaining = m.remaining /\ em.out = m.out /\ Sound(em, D, b, a_to_b)
    BY <1>4, <1>6, <2>1, EndedForms
  <2>3. \/ ec.status = "none"
        \/ ec = c /\ c.status = "walking" /\ c.remaining > 0 /\ c.sqrt_p # limit(a_to_b)
        \/ ec.status = "done" /\ ec.remaining = c.remaining /\ ec.out = c.out /\ Sound(ec, E, b, a_to_b)
    BY <1>4, <2>1, EndedForms
  <2>4. CASE em.status = "done"
    <3>1. Sound(em, D, b, a_to_b) /\ em.remaining = m.remaining /\ em.out = m.out
      BY <2>2, <2>4
    <3>2. ec.status = "done"
      <4>1. CASE m = c
        BY <1>3, <2>4, <4>1
      <4>2. CASE m # c
        <5>1. c.remaining = 0 /\ c.status \in {"walking", "done"}
          BY <2>1, <4>2 DEF Sound, WalkRecords
        <5>2. CASE c.status = "done"
          BY <1>2, <5>2
        <5>3. CASE c.status = "walking"
          <6>1. ec = [c EXCEPT !.status = "done"]
            BY <1>4, <5>1, <5>3 DEF Ended
          <6> QED BY <2>1, <6>1 DEF Sound, WalkRecords
        <5> QED BY <5>1, <5>2, <5>3
      <4> QED BY <4>1, <4>2
    <3>3. Sound(ec, E, b, a_to_b) /\ ec.remaining = c.remaining /\ ec.out = c.out
      BY <1>2, <2>1, <2>3, <3>2
    <3>4. em = ec \/ (em.remaining = 0 /\ ec.remaining = 0 /\ em.out <= ec.out)
      BY <1>3, <2>1, <3>1, <3>3
    <3>5. Follows(em, ec, D, E, b, a_to_b)
      BY <3>1, <3>3, <3>4 DEF Follows
    <3>6. om = em /\ oc = ec
      BY <1>1, <1>2, <2>4, <3>2
    <3> QED BY <3>5, <3>6 DEF em, ec, om, oc
  <2>5. CASE em.status # "done"
    <3>1. em = m /\ m.status = "walking" /\ m.remaining > 0 /\ m.sqrt_p # limit(a_to_b)
      BY <2>2, <2>5
    <3>2. m = c
      BY <2>1, <3>1
    <3>3. ec = m
      BY <1>3, <3>1, <3>2
    <3>4. om = WalkStep(pool, D, m, a_to_b, edge) /\ oc = WalkStep(pool, E, m, a_to_b, last)
      BY <1>1, <3>1, <3>2, <3>3
    <3>5. Sound(m, D, b, a_to_b) /\ Sound(m, E, b, a_to_b)
      BY <2>1, <3>2
    <3>6. Follows(om, oc, D, E, b, a_to_b)
      BY <3>1, <3>4, <3>5, TurnFollows
    <3>7. Follows(em, ec, D, E, b, a_to_b)
      BY <3>1, <3>3, <3>5 DEF Follows
    <3> QED BY <3>6, <3>7 DEF em, ec, om, oc
  <2> QED BY <2>4, <2>5
<1> QED BY <1>5, <1>6

\* A whole walk over the ticks in memory follows the whole walk over all of them.
LEMMA WalkFollows ==
    ASSUME NEW b, Fair(b), NEW D, IsData(D, b), NEW a_to_b \in BOOLEAN, NEW edge, EdgeWithin(D, edge, a_to_b),
           NEW E, NEW last, Whole(E, b, a_to_b, last), NEW pool, pool.fee_ppm \in 0..(PPM - 1),
           NEW start, Sound(start, D, b, a_to_b), Sound(start, E, b, a_to_b)
    PROVE  Follows(Walked(pool, D, start, a_to_b, edge), Walked(pool, E, start, a_to_b, last), D, E, b, a_to_b)
<1>1. PICK near : /\ Walked(pool, D, start, a_to_b, edge) = Ended(near[MaxTurns], a_to_b)
                  /\ Turns(near, pool, D, start, a_to_b, edge)
  BY WalkUnfolds
<1>2. PICK far : /\ Walked(pool, E, start, a_to_b, last) = Ended(far[MaxTurns], a_to_b)
                 /\ Turns(far, pool, E, start, a_to_b, last)
  BY WalkUnfolds
<1> DEFINE P == {n \in Nat : n <= MaxTurns => Follows(near[n], far[n], D, E, b, a_to_b)}
<1>3. 0 \in P
  <2>1. near[0] = start /\ far[0] = start
    BY <1>1, <1>2 DEF Turns
  <2>2. Follows(near[0], far[0], D, E, b, a_to_b)
    BY <2>1 DEF Follows
  <2> QED BY <2>2
<1>4. ASSUME NEW n \in P PROVE n + 1 \in P
  <2>1. n \in Nat /\ MaxTurns \in Nat
    BY TicksAssumption
  <2> SUFFICES ASSUME n + 1 <= MaxTurns PROVE Follows(near[n + 1], far[n + 1], D, E, b, a_to_b)
    BY <2>1
  <2>2. n + 1 \in 1..MaxTurns /\ n + 1 - 1 = n /\ n <= MaxTurns
    BY <2>1
  <2>3. near[n + 1] = Onward(pool, D, near[n], a_to_b, edge) /\ far[n + 1] = Onward(pool, E, far[n], a_to_b, last)
    BY <1>1, <1>2, <2>2 DEF Turns
  <2>4. Follows(near[n], far[n], D, E, b, a_to_b)
    BY <2>2
  <2>5. Follows(Onward(pool, D, near[n], a_to_b, edge), Onward(pool, E, far[n], a_to_b, last), D, E, b, a_to_b)
    BY <2>4, OnwardFollows
  <2> QED BY <2>3, <2>5
<1>5. P = Nat
  <2>1. P \in SUBSET Nat
    OBVIOUS
  <2> HIDE DEF P
  <2> QED BY <1>3, <1>4, <2>1, Induction
<1>6. Follows(near[MaxTurns], far[MaxTurns], D, E, b, a_to_b)
  BY <1>5, TicksAssumption
<1>7. Follows(Ended(near[MaxTurns], a_to_b), Ended(far[MaxTurns], a_to_b), D, E, b, a_to_b)
  BY <1>6, OnwardFollows
<1> QED BY <1>1, <1>2, <1>7

\* A walk that is not failed and has nothing left to swap is done.
LEMMA WalkedDone ==
    ASSUME NEW v, NEW a_to_b \in BOOLEAN, NEW e, e = Ended(v, a_to_b), e \in WalkRecords, e.remaining = 0
    PROVE  e.status = "done"
<1>1. e.status \in {"walking", "done"} /\ "status" \in DOMAIN e
  BY DEF WalkRecords
<1>2. CASE v.status # "walking"
  BY <1>1, <1>2 DEF Ended
<1>3. CASE v.status = "walking" /\ v.remaining = 0
  BY <1>1, <1>3 DEF Ended
<1>4. CASE v.status = "walking" /\ v.remaining # 0
  BY <1>1, <1>4 DEF Ended, Failed
<1> QED BY <1>2, <1>3, <1>4

\* In a state that a quote may start from, the walk over the ticks in memory follows
\* the walk over all of them.
LEMMA MemoryFollows ==
    ASSUME TicksInv, SameBook, SameFee, cached.tick \in ticks.lo..ticks.hi, NEW a_to_b \in BOOLEAN, NEW amount \in Amounts,
           NEW m, m = MemoryWalk(a_to_b, amount), NEW c, c = ChainWalk(cached, a_to_b, amount)
    PROVE  /\ Follows(m, c, ticks, EveryTick(cached, cached.book), cached.book, a_to_b)
           /\ c.remaining = 0 /\ c \in WalkRecords => c.status = "done"
<1> DEFINE D == ticks
           b == cached.book
           state == cached
           pool == ClmmPool(state, D)
           E == EveryTick(state, b)
           start == Start(pool, amount)
           edge == Edge(D, a_to_b, swap_tick_bound(state, D, a_to_b))
           last == Edge(E, a_to_b, NoBound(a_to_b))
<1>0. Good(state) /\ Loaded(D) /\ D.book = b /\ D.planned = D.book
  BY DEF TicksInv, SameBook, Quotable
<1>1. Good(pool) /\ pool.tick = state.tick /\ pool.book = state.book /\ pool = [state EXCEPT !.fee = pool.fee]
  BY <1>0, WalkedPool
<1>17. pool = [state EXCEPT !.fee = state.charged]
  BY <1>1 DEF SameFee
<1>2. IsData(D, b) /\ D.lo \in Int /\ D.hi \in Int
  BY <1>0 DEF Loaded, IsData
<1>3. amount \in 1..U64
  BY WorldsAssumption
<1>4. D.lo <= pool.tick /\ pool.tick <= D.hi
  BY <1>1, <1>2
<1>5. b = pool.book /\ m = Walked(pool, D, start, a_to_b, edge) /\ c = Walked(pool, E, start, a_to_b, last)
  BY <1>1, <1>17 DEF MemoryWalk, ChainWalk, swap_exact_in_pool_within
<1>6. Fair(b)
  BY <1>1 DEF Good
<1> HIDE DEF D, state, pool
<1>7. pool.tick \in Ticks /\ state.spacing \in Nat \ {0} /\ IsBook(b) /\ state.charged \in Fees
  BY <1>0, <1>1, <1>5, GoodTypes DEF Good
<1>8. IsData(E, b) /\ E.lo = MinTick /\ E.hi = MaxTick
  <2> HIDE DEF b
  <2> QED BY <1>7, EveryTickData
<1> HIDE DEF E, b
<1>9. last = NoBound(a_to_b)
  BY <1>8, TicksAssumption DEF Edge, AtLeast, AtMost, NoBound
<1>10. Whole(E, b, a_to_b, last)
  BY <1>8, <1>9 DEF Whole
<1>11. EdgeWithin(D, edge, a_to_b)
  BY <1>0, <1>2, BoundType, EdgeType
<1>12. Sound(start, D, b, a_to_b)
  BY <1>1, <1>2, <1>3, <1>4, <1>5, StartSound
<1>13. Sound(start, E, b, a_to_b)
  <2>1. E.lo \in Int /\ E.hi \in Int /\ E.lo <= pool.tick /\ pool.tick <= E.hi
    BY <1>7, <1>8, TicksAssumption DEF Ticks
  <2> QED BY <1>1, <1>3, <1>5, <2>1, StartSound
<1>14. pool.fee_ppm \in 0..(PPM - 1)
  BY <1>1 DEF Good
<1> HIDE DEF start, edge, last
<1>15. Follows(m, c, D, E, b, a_to_b)
  BY <1>2, <1>5, <1>6, <1>10, <1>11, <1>12, <1>13, <1>14, WalkFollows
<1>16. c.remaining = 0 /\ c \in WalkRecords => c.status = "done"
  <2>1. \E v : c = Ended(v, a_to_b)
    BY <1>5, WalkUnfolds
  <2> QED BY <2>1, WalkedDone
<1> QED BY <1>15, <1>16 DEF D, E, b, state

\* A quote from the ticks in memory is never more than the pool pays, in whichever order
\* the state and the ticks were read and published and whatever happened on chain in
\* between, as long as it starts where ticks are known and the volatility that Orca's
\* ticks were read with is that of the state.
THEOREM QuotesNotOptimistic == TicksSpec => []NeverOptimistic
<1>1. ASSUME TicksInv PROVE NeverOptimistic
  <2> SUFFICES ASSUME SameBook, SameFee, cached.tick \in ticks.lo..ticks.hi, NEW a_to_b \in BOOLEAN, NEW amount \in Amounts
               PROVE  ~(clmm_walk(cached, ticks, a_to_b, amount) > Paid(ChainWalk(cached, a_to_b, amount)))
    BY DEF NeverOptimistic, Optimistic
  <2> DEFINE m == MemoryWalk(a_to_b, amount)
             c == ChainWalk(cached, a_to_b, amount)
             E == EveryTick(cached, cached.book)
  <2>1. clmm_walk(cached, ticks, a_to_b, amount) = AmountOut(m)
    BY DEF clmm_walk, MemoryWalk
  <2>2. amount \in 1..U64 /\ Good(cached)
    BY <1>1, WorldsAssumption DEF SameBook, Quotable, TicksInv
  <2>3. m = MemoryWalk(a_to_b, amount) /\ c = ChainWalk(cached, a_to_b, amount)
    OBVIOUS
  <2> HIDE DEF m, c
  <2>4. c.status = "none" \/ Sound(c, E, cached.book, a_to_b)
    <3> DEFINE pool == cached
    <3>1. Good(pool) /\ c = ChainWalk(pool, a_to_b, amount)
      BY <2>2, <2>3
    <3> HIDE DEF pool
    <3>2. c.status = "none" \/ Sound(c, EveryTick(pool, pool.book), pool.book, a_to_b)
      BY <2>2, <3>1, ChainWalkSound
    <3> QED BY <3>2 DEF pool
  <2>5. Follows(m, c, ticks, E, cached.book, a_to_b) /\ (c.remaining = 0 /\ c \in WalkRecords => c.status = "done")
    BY <1>1, <2>3, MemoryFollows
  <2> HIDE DEF E
  <2>6. c.status # "none" => c \in WalkRecords /\ c.out \in Nat
    BY <2>4 DEF Sound, WalkRecords
  <2>7. Paid(c) \in Nat
    BY <2>6 DEF Paid
  <2>8. AmountOut(m) <= Paid(c)
    <3>1. CASE m.status # "done"
      BY <2>7, <3>1 DEF AmountOut
    <3>2. CASE m.status = "done"
      <4>1. /\ m \in WalkRecords /\ c \in WalkRecords /\ m.out \in Nat /\ c.out \in Nat
            /\ m = c \/ (m.remaining = 0 /\ c.remaining = 0 /\ m.out <= c.out)
        BY <2>5, <3>2 DEF Follows, Sound, WalkRecords
      <4>2. c.status = "done" /\ m.out <= c.out
        BY <2>5, <3>2, <4>1
      <4> QED BY <2>7, <3>2, <4>1, <4>2 DEF AmountOut, Paid
    <3> QED BY <3>1, <3>2
  <2>9. AmountOut(m) \in Nat
    <3>1. m.status = "done" => m.out \in Nat
      BY <2>5 DEF Follows, Sound, WalkRecords
    <3> QED BY <3>1 DEF AmountOut
  <2> QED BY <2>1, <2>3, <2>7, <2>8, <2>9
<1> QED BY <1>1, TicksInvariant, PTL
=============================================================================
