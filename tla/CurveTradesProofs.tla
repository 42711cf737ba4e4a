------------------------- MODULE CurveTradesProofs -------------------------
(***************************************************************************)
(* What the quotes of every venue promise, for every pool, amount, fee and *)
(* number of trades.                                                       *)
(*                                                                         *)
(* First the arithmetic: what a division leaves out stays in the pool, so  *)
(* no quote lowers the product of the reserves, none pays what is owed to  *)
(* somebody else, and more in brings no less out.  Then every venue: a     *)
(* product that does not fall (FairOn); where a price walks over segments  *)
(* of liquidity, vaults that hold what the positions hold at the price it  *)
(* has reached (OnRange); where bins are filled, vaults that have taken    *)
(* for each bin what it holds more (OnLadder).  TradeInv says so of every  *)
(* sequence of trades.                                                     *)
(***************************************************************************)
EXTENDS CurveTrades, TLAPS, FiniteSetTheorems, WellFoundedInduction

-----------------------------------------------------------------------------
(* Division and products                                                    *)

\* What is left after a division is less than the divisor.
LEMMA DivBounds ==
    ASSUME NEW x \in Nat, NEW y \in Nat \ {0}
    PROVE  /\ x \div y \in Nat
           /\ (x \div y) * y <= x
           /\ x < (x \div y) * y + y
OBVIOUS

\* A product grows with its factor.
LEMMA TimesMonotone ==
    ASSUME NEW x \in Nat, NEW y \in Nat, NEW z \in Nat, x <= y
    PROVE  /\ x * z \in Nat /\ y * z \in Nat
           /\ x * z <= y * z
           /\ z * x <= z * y
OBVIOUS

\* A common factor can be cancelled.
LEMMA TimesCancel ==
    ASSUME NEW x \in Nat, NEW y \in Nat, NEW z \in Nat \ {0}, x * z <= y * z
    PROVE  x <= y
OBVIOUS

\* A quotient is at most what the dividend is a multiple of, and at least.
LEMMA DivAtMost ==
    ASSUME NEW x \in Nat, NEW y \in Nat \ {0}, NEW q \in Nat, x <= q * y
    PROVE  x \div y <= q
OBVIOUS
\* A quotient is as large as any number whose product fits.
LEMMA DivAtLeast ==
    ASSUME NEW x \in Nat, NEW y \in Nat \ {0}, NEW q \in Nat, q * y <= x
    PROVE  q <= x \div y
OBVIOUS

\* A quotient rounded up is at most what covers the dividend.
LEMMA DivCeilAtMost ==
    ASSUME NEW x \in Nat, NEW y \in Nat \ {0}, NEW q \in Nat, x <= q * y
    PROVE  div_ceil(x, y) \in Nat /\ div_ceil(x, y) <= q
<1> DEFINE n == x + y - 1
           c == n \div y
<1>1. n \in Nat /\ n < q * y + y
  <2>1. q * y \in Nat
    OBVIOUS
  <2> QED BY <2>1
<1> HIDE DEF n
<1>2. c \in Nat /\ c * y <= n
  BY <1>1, DivBounds
<1> HIDE DEF c
<1>3. c <= q
  <2>1. SUFFICES ASSUME q + 1 <= c PROVE FALSE
    BY <1>2
  <2>2. (q + 1) * y <= c * y
    BY <1>2, <2>1, TimesMonotone
  <2>3. (q + 1) * y = q * y + y /\ q * y \in Nat /\ c * y \in Nat
    BY <1>2
  <2> QED BY <1>1, <1>2, <2>2, <2>3
<1> QED BY <1>2, <1>3 DEF div_ceil, c, n

-----------------------------------------------------------------------------
(* x * y = k on any reserves: what is paid for an input                     *)

\* The curve with the input weighted by k and the reserve by scale.
Curve(reserve_in, reserve_out, x, scale) == (reserve_out * x) \div (reserve_in * scale + x)

\* It never pays its last token, and the product of the reserves, with the
\* weighted input in, does not fall.
LEMMA CurveKeeps ==
    ASSUME NEW r \in Nat \ {0}, NEW s \in Nat \ {0}, NEW x \in Nat, NEW scale \in Nat \ {0}
    PROVE  LET out == Curve(r, s, x, scale)
           IN  /\ out \in Nat /\ out < s
               /\ r * scale * s <= (r * scale + x) * (s - out)
<1> DEFINE d == r * scale + x
           out == (s * x) \div d
<1>1. r * scale \in Nat \ {0} /\ s * x \in Nat
  OBVIOUS
<1>2. d \in Nat \ {0} /\ x < d
  BY <1>1
<1>3. d = r * scale + x
  OBVIOUS
<1> HIDE DEF d
<1>4. out \in Nat /\ out * d <= s * x
  BY <1>1, <1>2, DivBounds
<1> HIDE DEF out
<1>5. s * x < s * d
  BY <1>2
<1>6. out < s
  <2>1. SUFFICES ASSUME s <= out PROVE FALSE
    BY <1>4
  <2>2. s * d <= out * d
    BY <1>2, <1>4, <2>1, TimesMonotone
  <2> QED BY <1>1, <1>2, <1>4, <1>5, <2>2
<1>7. r * scale * s <= d * (s - out)
  <2>1. d * (s - out) = s * d - out * d
    BY <1>2, <1>4
  <2>2. s * d = r * scale * s + s * x
    BY <1>1, <1>3
  <2> QED BY <1>1, <1>2, <1>4, <2>1, <2>2
<1> QED BY <1>3, <1>4, <1>6, <1>7 DEF Curve, d, out

\* More in pays no less.
LEMMA CurveMonotone ==
    ASSUME NEW r \in Nat \ {0}, NEW s \in Nat, NEW x \in Nat, NEW y \in Nat, x <= y, NEW scale \in Nat \ {0}
    PROVE  Curve(r, s, x, scale) <= Curve(r, s, y, scale)
<1> DEFINE e == r * scale
           out == (s * x) \div (e + x)
<1>1. e \in Nat \ {0} /\ s * x \in Nat /\ s * y \in Nat /\ s * x <= s * y
  BY TimesMonotone
<1> HIDE DEF e
<1>2. out \in Nat /\ out * (e + x) <= s * x
  <2>1. e + x \in Nat \ {0}
    BY <1>1
  <2> QED BY <1>1, <2>1, DivBounds
<1>3. out <= s
  <2>1. s * x <= s * (e + x)
    BY <1>1, TimesMonotone
  <2> QED BY <1>1, <2>1, DivAtMost
<1> HIDE DEF out
<1>4. out * (y - x) <= s * (y - x)
  BY <1>2, <1>3, TimesMonotone
<1>5. out * (e + y) <= s * y
  <2>1. out * (e + y) = out * (e + x) + out * (y - x)
    BY <1>1, <1>2
  <2>2. s * y = s * x + s * (y - x)
    OBVIOUS
  <2> QED BY <1>1, <1>2, <1>4, <2>1, <2>2
<1>6. out <= (s * y) \div (e + y)
  BY <1>1, <1>2, <1>5, DivAtLeast
<1> QED BY <1>6 DEF Curve, out, e

-----------------------------------------------------------------------------
(* quote/math.rs and the default branch of price_cp                         *)

\* What the fee leaves of an input, in basis points of an atom.
AfterFee(amount, fee_bps) == amount * (BasisPoints - AtMost(fee_bps, BasisPoints))

\* What is left of an amount after the fee is between nothing and the amount.
LEMMA AfterFeeBounds ==
    ASSUME NEW a \in Nat, NEW f \in Nat
    PROVE  AfterFee(a, f) \in Nat /\ AfterFee(a, f) <= a * BasisPoints
<1> DEFINE k == BasisPoints - AtMost(f, BasisPoints)
<1>1. k \in Nat /\ k <= BasisPoints /\ BasisPoints \in Nat
  BY DEF BasisPoints, AtMost
<1> HIDE DEF k
<1>2. a * k \in Nat /\ a * k <= a * BasisPoints
  BY <1>1, TimesMonotone
<1> QED BY <1>2 DEF AfterFee, k

\* A quote is none or what the curve pays for the input after its fee.
LEMMA OutIsCurve ==
    ASSUME NEW r \in Nat, NEW s \in Nat, NEW a \in Nat, NEW f \in Nat,
           compute_constant_product_out(r, s, a, f) # 0
    PROVE  /\ r # 0 /\ s # 0
           /\ compute_constant_product_out(r, s, a, f) = Curve(r, s, AfterFee(a, f), BasisPoints)
BY DEF compute_constant_product_out, Curve, AfterFee

\* Whatever the reserves, the input and the fee, a quote leaves the pool at least one
\* atom of what it pays, and never lowers the product of its reserves
\* (quote/math.rs compute_constant_product_out).
THEOREM ProductKept ==
    ASSUME NEW r \in Nat, NEW s \in Nat, NEW a \in Nat, NEW f \in Nat,
           NEW out, out = compute_constant_product_out(r, s, a, f), out # 0
    PROVE  /\ out \in Nat /\ out < s
           /\ r * s <= (r + a) * (s - out)
<1> DEFINE x == AfterFee(a, f)
<1>1. r \in Nat \ {0} /\ s \in Nat \ {0} /\ out = Curve(r, s, x, BasisPoints)
  BY OutIsCurve
<1>2. x \in Nat /\ x <= a * BasisPoints
  BY AfterFeeBounds
<1> HIDE DEF x
<1>3. BasisPoints \in Nat \ {0}
  BY DEF BasisPoints
<1>4. out \in Nat /\ out < s /\ r * BasisPoints * s <= (r * BasisPoints + x) * (s - out)
  BY <1>1, <1>2, <1>3, CurveKeeps
<1>5. r * s <= (r + a) * (s - out)
  <2>1. r * BasisPoints + x \in Nat /\ (r + a) * BasisPoints \in Nat /\ s - out \in Nat
    BY <1>1, <1>2, <1>3, <1>4
  <2>2. r * BasisPoints + x <= (r + a) * BasisPoints
    BY <1>1, <1>2 DEF BasisPoints
  <2>3. (r * BasisPoints + x) * (s - out) <= ((r + a) * BasisPoints) * (s - out)
    BY <2>1, <2>2, TimesMonotone
  <2>4. (r * s) * BasisPoints = r * BasisPoints * s
    BY <1>3
  <2>5. ((r + a) * BasisPoints) * (s - out) = ((r + a) * (s - out)) * BasisPoints
    BY <1>3, <2>1
  <2>6. (r * s) * BasisPoints <= ((r + a) * (s - out)) * BasisPoints
    <3>1. (r * s) * BasisPoints \in Nat /\ (r * BasisPoints + x) * (s - out) \in Nat /\ ((r + a) * (s - out)) * BasisPoints \in Nat
      BY <1>3, <2>1
    <3> QED BY <3>1, <1>4, <2>3, <2>4, <2>5
  <2>7. r * s \in Nat /\ (r + a) * (s - out) \in Nat
    BY <2>1
  <2> QED BY <1>3, <2>6, <2>7, TimesCancel
<1> QED BY <1>4, <1>5

\* More in brings no less out, unless the larger input is not quoted at all
\* (quote/math.rs compute_constant_product_out).
THEOREM OutMonotone ==
    ASSUME NEW r \in Nat, NEW s \in Nat, NEW f \in Nat, NEW a \in Nat, NEW b \in Nat, a <= b,
           compute_constant_product_out(r, s, b, f) # 0
    PROVE  compute_constant_product_out(r, s, a, f) <= compute_constant_product_out(r, s, b, f)
<1> DEFINE k == BasisPoints - AtMost(f, BasisPoints)
           x == a * k
           y == b * k
<1>0. k \in Nat
  BY DEF BasisPoints, AtMost
<1> HIDE DEF k
<1>1. r \in Nat \ {0} /\ compute_constant_product_out(r, s, b, f) = Curve(r, s, AfterFee(b, f), BasisPoints)
  BY OutIsCurve
<1>2. x \in Nat /\ y \in Nat /\ x <= y
  BY <1>0, TimesMonotone
<1>3. AfterFee(a, f) = x /\ AfterFee(b, f) = y
  BY DEF AfterFee, k
<1> HIDE DEF x, y
<1>4. Curve(r, s, x, BasisPoints) <= Curve(r, s, y, BasisPoints)
  BY <1>1, <1>2, CurveMonotone DEF BasisPoints
<1>5. CASE compute_constant_product_out(r, s, a, f) = 0
  <2>1. Curve(r, s, y, BasisPoints) \in Nat
    <3>1. s \in Nat \ {0} /\ BasisPoints \in Nat \ {0}
      BY OutIsCurve DEF BasisPoints
    <3> QED BY <3>1, <1>1, <1>2, CurveKeeps
  <2> QED BY <2>1, <1>1, <1>3, <1>5
<1>6. CASE compute_constant_product_out(r, s, a, f) # 0
  BY <1>1, <1>3, <1>4, <1>6, OutIsCurve
<1> QED BY <1>5, <1>6

\* Rounding up covers what rounding down would miss.
LEMMA DivCeilCovers ==
    ASSUME NEW x \in Nat, NEW y \in Nat \ {0}
    PROVE  div_ceil(x, y) \in Nat /\ x <= div_ceil(x, y) * y
<1> DEFINE n == x + y - 1
           q == n \div y
<1>1. n \in Nat /\ x = n - y + 1
  OBVIOUS
<1> HIDE DEF n
<1>2. q \in Nat /\ n < q * y + y
  BY <1>1, DivBounds
<1> HIDE DEF q
<1>3. q * y \in Nat
  BY <1>2
<1>4. x <= q * y
  BY <1>1, <1>2, <1>3
<1> QED BY <1>2, <1>4 DEF div_ceil, q, n

\* The input computed for an output buys that output or more, wherever it is priced at
\* all: below the widths a round trip through the two formulas never falls short
\* (quote/math.rs compute_constant_product_in, compute_constant_product_out).
THEOREM ReverseBuys ==
    ASSUME NEW r \in Nat, NEW s \in Nat, NEW wanted \in Nat, NEW f \in Nat,
           NEW in, in = compute_constant_product_in(r, s, wanted, f), in # 0,
           compute_constant_product_out(r, s, in, f) # 0
    PROVE  wanted <= compute_constant_product_out(r, s, in, f)
<1> DEFINE k == BasisPoints - f
           den == (s - wanted) * k
           num == r * wanted * BasisPoints
           d == r * BasisPoints + in * k
<1>1. r \in Nat \ {0} /\ s \in Nat \ {0} /\ wanted < s /\ f < BasisPoints /\ in = div_ceil(num, den)
  BY DEF compute_constant_product_in, BasisPoints
<1>2. k \in Nat \ {0} /\ BasisPoints \in Nat \ {0} /\ s - wanted \in Nat \ {0}
  BY <1>1 DEF BasisPoints
<1>3. AtMost(f, BasisPoints) = f
  BY <1>1 DEF AtMost
<1> HIDE DEF k
<1>4. den \in Nat \ {0} /\ num \in Nat /\ num = r * wanted * BasisPoints /\ den = (s - wanted) * k
  BY <1>2
<1> HIDE DEF den, num
<1>5. in \in Nat /\ num <= in * den
  BY <1>1, <1>4, DivCeilCovers
<1>6. compute_constant_product_out(r, s, in, f) = (s * (in * k)) \div d
  BY <1>1, <1>3, <1>5, OutIsCurve DEF Curve, AfterFee, k
<1>7. d \in Nat \ {0} /\ d = r * BasisPoints + in * k
  BY <1>1, <1>2, <1>5
<1>8. in * k \in Nat /\ s * (in * k) \in Nat
  BY <1>2, <1>5
<1> HIDE DEF d
<1>9. wanted * d <= s * (in * k)
  <2> DEFINE m == in * k
  <2>1. in * den = (s - wanted) * m
    BY <1>2, <1>4, <1>5
  <2>2. m \in Nat /\ d = r * BasisPoints + m
    BY <1>7, <1>8
  <2> HIDE DEF m
  <2>3. (s - wanted) * m = s * m - wanted * m
    BY <2>2
  <2>4. wanted * d = r * wanted * BasisPoints + wanted * m
    BY <1>2, <2>2
  <2>5. r * wanted * BasisPoints <= s * m - wanted * m
    BY <1>4, <1>5, <2>1, <2>3
  <2>6. s * m \in Nat /\ wanted * m \in Nat /\ r * wanted * BasisPoints \in Nat
    BY <1>2, <2>2
  <2>7. wanted * d <= s * m
    BY <2>4, <2>5, <2>6
  <2> QED BY <2>7 DEF m
<1>10. wanted <= (s * (in * k)) \div d
  BY <1>7, <1>8, <1>9, DivAtLeast
<1> QED BY <1>6, <1>10

\* A swap and the swap of its output back bring at most what was put in, at any fees,
\* and whether or not they differ (quote/math.rs compute_constant_product_out).
THEOREM RoundTripGainsNothing ==
    ASSUME NEW r \in Nat, NEW s \in Nat, NEW a \in Nat, NEW f \in Nat, NEW g \in Nat,
           NEW out, out = compute_constant_product_out(r, s, a, f), out # 0,
           NEW back, back = compute_constant_product_out(s - out, r + a, out, g)
    PROVE  back <= a
<1>1. out \in Nat /\ out < s /\ r * s <= (r + a) * (s - out)
  BY ProductKept
<1>2. CASE back = 0
  BY <1>2
<1>3. CASE back # 0
  <2>1. s - out \in Nat /\ r + a \in Nat /\ s - out + out = s
    BY <1>1
  <2> DEFINE u == s - out
             v == r + a
  <2>2. back \in Nat /\ back < v /\ u * v <= (u + out) * (v - back)
    <3>1. u \in Nat /\ v \in Nat /\ back = compute_constant_product_out(u, v, out, g)
      BY <2>1
    <3> HIDE DEF u, v
    <3> QED BY <1>1, <1>3, <3>1, ProductKept
  <2>3. r * s <= (v - back) * s
    <3>1. r * s <= v * u /\ v * u = u * v
      BY <1>1, <2>1
    <3>2. u * v <= s * (v - back)
      BY <2>1, <2>2
    <3>3. s * (v - back) = (v - back) * s
      BY <2>1, <2>2
    <3>4. v - back \in Nat /\ r * s \in Nat /\ u * v \in Nat /\ (v - back) * s \in Nat
      BY <2>1, <2>2
    <3> QED BY <3>1, <3>2, <3>3, <3>4
  <2>4. r <= v - back
    BY <1>1, <2>1, <2>2, <2>3, TimesCancel
  <2> QED BY <2>1, <2>2, <2>4
<1> QED BY <1>2, <1>3

-----------------------------------------------------------------------------
(* The venues priced on their vaults                                        *)

\* The output leaves at least the product behind.
LEMMA ConstantProductKeeps ==
    ASSUME NEW r \in Nat, NEW s \in Nat, NEW x \in Nat, ConstantProduct(r, s, x) # 0
    PROVE  /\ ConstantProduct(r, s, x) \in Nat
           /\ ConstantProduct(r, s, x) <= s
           /\ r # 0 => ConstantProduct(r, s, x) < s
           /\ r * s <= (r + x) * (s - ConstantProduct(r, s, x))
<1> DEFINE out == ConstantProduct(r, s, x)
<1>1. r + x \in Nat \ {0} /\ out = (s * x) \div (r + x) /\ s * x \in Nat
  BY DEF ConstantProduct
<1>2. out \in Nat /\ out * (r + x) <= s * x
  BY <1>1, DivBounds
<1> HIDE DEF out
<1>3. out <= s
  <2>1. s * x <= s * (r + x)
    BY TimesMonotone
  <2> QED BY <1>1, <2>1, DivAtMost
<1>4. r # 0 => out < s
  <2>1. SUFFICES ASSUME r # 0, out = s PROVE FALSE
    BY <1>2, <1>3
  <2>2. s # 0
    BY <2>1 DEF out
  <2>3. s * (r + x) = s * r + s * x /\ s * r > 0
    BY <2>1, <2>2
  <2> QED BY <1>1, <1>2, <2>1, <2>3
<1>5. r * s <= (r + x) * (s - out)
  <2>1. (r + x) * (s - out) = r * s + s * x - out * (r + x)
    BY <1>2
  <2>2. r * s \in Nat /\ out * (r + x) \in Nat
    BY <1>2
  <2> QED BY <1>1, <1>2, <2>1, <2>2
<1> QED BY <1>2, <1>3, <1>4, <1>5 DEF out

\* A fee rounded up is a natural number.
LEMMA CeilPpmType ==
    ASSUME NEW amount \in Nat, NEW ppm \in Nat
    PROVE  ceil_ppm(amount, ppm) \in Nat
BY DivCeilCovers DEF ceil_ppm, PPM

\* A quote with a measured fee leaves the product of the vaults where it was or higher
\* (quote/router.rs price_cp, an observed fee).
THEOREM ObservedKeepsProduct ==
    ASSUME NEW p, NEW v \in [Sides -> Nat], NEW side \in Sides, NEW amount \in Nat,
           p.ppm \in Nat,
           NEW q, q = ObservedFee(p, v, side, amount), q.out # 0
    PROVE  /\ q.debit \in Nat /\ q.debit <= v[Across(side)]
           /\ v[side] * v[Across(side)] <= (v[side] + q.credit) * (v[Across(side)] - q.debit)
<1> DEFINE fee == ceil_ppm(amount, p.ppm)
           r == v[side]
           s == v[Across(side)]
           out == ConstantProduct(r, s, amount - fee)
<1>1. fee \in Nat /\ r \in Nat /\ s \in Nat
  BY CeilPpmType DEF Sides, Across
<1>2. fee <= amount /\ q.out = out /\ q.credit = amount /\ q.debit = out
  BY <1>1 DEF ObservedFee, Quoting, NoQuote
<1>3. out \in Nat /\ out <= s /\ r * s <= (r + (amount - fee)) * (s - out)
  BY <1>1, <1>2, ConstantProductKeeps
<1> HIDE DEF fee, r, s, out
<1>4. r * s <= (r + amount) * (s - out)
  <2>1. r + (amount - fee) \in Nat /\ r + amount \in Nat /\ s - out \in Nat /\ r + (amount - fee) <= r + amount
    BY <1>1, <1>2, <1>3
  <2>2. (r + (amount - fee)) * (s - out) <= (r + amount) * (s - out)
    BY <2>1, TimesMonotone
  <2>3. r * s \in Nat /\ (r + (amount - fee)) * (s - out) \in Nat /\ (r + amount) * (s - out) \in Nat
    BY <1>1, <2>1
  <2> QED BY <1>3, <2>2, <2>3
<1> QED BY <1>2, <1>3, <1>4 DEF r, s

\* Fees that lie in the vaults of a Raydium CPMM pool stay there: a quote pays out of
\* the curve's own reserve only, and the product of those reserves does not fall
\* (quote/router.rs price_cp, RaydiumCpmm).
THEOREM AccruedFeesStay ==
    ASSUME NEW p, NEW v \in [Sides -> Nat], NEW side \in Sides, NEW amount \in Nat,
           p.accrued \in [Sides -> Nat], \A t \in Sides : p.accrued[t] <= v[t],
           p.trade_ppm \in Nat, p.creator_ppm \in Nat,
           p.creator_fee_on \in {"both", "base", "quote"},
           NEW q, q = RaydiumCpmm(p, v, side, amount), q.out # 0
    PROVE  LET r == v[side] - p.accrued[side]
               s == v[Across(side)] - p.accrued[Across(side)]
           IN  /\ q.debit \in Nat
               /\ v[Across(side)] - q.debit >= p.accrued[Across(side)]
               /\ r * s <= (r + q.credit) * (s - q.debit)
<1> DEFINE r == v[side] - p.accrued[side]
           s == v[Across(side)] - p.accrued[Across(side)]
           on_input == CASE p.creator_fee_on = "both" -> TRUE
                         [] p.creator_fee_on = "base" -> side = "base"
                         [] p.creator_fee_on = "quote" -> side = "quote"
           fee == ceil_ppm(amount, p.trade_ppm) + (IF on_input THEN ceil_ppm(amount, p.creator_ppm) ELSE 0)
           gross == ConstantProduct(r, s, amount - fee)
           creator_out == IF on_input THEN 0 ELSE ceil_ppm(gross, p.creator_ppm)
<1>1. r \in Nat /\ s \in Nat /\ Across(side) \in Sides
  BY DEF Sides, Across
<1>2. AtLeast(v[side] - p.accrued[side], 0) = r /\ AtLeast(v[Across(side)] - p.accrued[Across(side)], 0) = s
  BY <1>1 DEF AtLeast
<1>3. q = IF fee > amount THEN NoQuote ELSE Quoting(gross - creator_out, amount - fee, gross)
  BY <1>2 DEF RaydiumCpmm
<1> HIDE DEF r, s, on_input
<1>4. fee \in Nat
  <2>1. ceil_ppm(amount, p.trade_ppm) \in Nat /\ ceil_ppm(amount, p.creator_ppm) \in Nat
    BY CeilPpmType
  <2>2. CASE on_input
    BY <2>1, <2>2
  <2>3. CASE ~on_input
    BY <2>1, <2>3
  <2> QED BY <2>2, <2>3
<1> HIDE DEF fee
<1>5. fee <= amount /\ q = Quoting(gross - creator_out, amount - fee, gross)
  BY <1>3, <1>4 DEF NoQuote
<1>6. gross - creator_out > 0 /\ q.credit = amount - fee /\ q.debit = gross
  BY <1>5 DEF Quoting, NoQuote
<1>7. gross # 0
  <2>1. SUFFICES ASSUME gross = 0 PROVE FALSE
    OBVIOUS
  <2>2. creator_out \in Nat
    <3>1. ceil_ppm(gross, p.creator_ppm) \in Nat
      <4> HIDE DEF gross
      <4> QED BY <2>1, CeilPpmType
    <3> QED BY <3>1
  <2> QED BY <1>6, <2>1, <2>2
<1>8. gross \in Nat /\ gross <= s /\ r * s <= (r + (amount - fee)) * (s - gross)
  BY <1>1, <1>4, <1>5, <1>7, ConstantProductKeeps
<1> HIDE DEF gross
<1>9. v[Across(side)] - gross >= p.accrued[Across(side)]
  BY <1>1, <1>8 DEF s
<1> QED BY <1>6, <1>8, <1>9 DEF r, s

\* A fee rounded up is a natural number.
LEMMA CeilBpsType ==
    ASSUME NEW amount \in Nat, NEW bps \in Nat
    PROVE  ceil_bps(amount, bps) \in Nat
BY DivCeilCovers DEF ceil_bps, BasisPoints

\* An input of which the curve is credited more than it is priced for.
LEMMA CreditKeeps ==
    ASSUME NEW r \in Nat \ {0}, NEW s \in Nat \ {0}, NEW x \in Nat, NEW credit \in Nat, x <= credit,
           NEW out, out = ConstantProduct(r, s, x), out # 0
    PROVE  /\ out \in Nat /\ out < s
           /\ r * s <= (r + credit) * (s - out)
<1>1. out \in Nat /\ out < s /\ r * s <= (r + x) * (s - out)
  BY ConstantProductKeeps
<1>2. r + x \in Nat /\ r + credit \in Nat /\ s - out \in Nat /\ r + x <= r + credit
  BY <1>1
<1>3. (r + x) * (s - out) <= (r + credit) * (s - out)
  BY <1>2, TimesMonotone
<1>4. r * s \in Nat /\ (r + x) * (s - out) \in Nat /\ (r + credit) * (s - out) \in Nat
  BY <1>2
<1> QED BY <1>1, <1>3, <1>4

-----------------------------------------------------------------------------
(* What a quote does to the vaults it is paid from                          *)

\* What the curve of a pool with these vaults prices on.
Reserve(p, v, s) == v[s] + Beside(p, s)

\* The most a launch sells and raises.
Cap(p, s) == IF s = "base" THEN p.total_base_sell ELSE p.total_quote_fund_raising

\* Vaults that hold what is owed, of a curve that has something of both sides.
Solvent(p, v) ==
    /\ v \in Amount
    /\ \A s \in Sides : p.accrued[s] <= v[s] /\ Reserve(p, v, s) > 0
    /\ p.kind = "launchlab" => \A s \in Sides : v[s] <= Cap(p, s)

\* A quote is paid from what the vaults do not owe, and leaves the product of the
\* reserves where it was or higher.
FairOn(p, v, side, amount, q) ==
    LET r == Reserve(p, v, side)
        s == Reserve(p, v, Across(side))
    IN  /\ q.out \in Nat /\ q.credit \in Nat /\ q.debit \in Nat
        /\ q.credit <= amount /\ q.out <= q.debit
        /\ p.accrued[Across(side)] <= v[Across(side)] - q.debit
        /\ q.debit < s
        /\ r * s <= (r + q.credit) * (s - q.debit)
        /\ p.kind = "launchlab" => v[side] + q.credit <= Cap(p, side)

\* What is beside a vault is a number.
LEMMA BesideType ==
    ASSUME NEW p, WellFormed(p), NEW s \in Sides
    PROVE  Beside(p, s) \in Int
<1>1. p.accrued[s] \in Nat
  BY DEF WellFormed, Amount
<1>2. p.kind \in {"pump_curve", "pump_amm", "launchlab"} => p.virtual_base \in Nat /\ p.virtual_quote \in Nat
  BY DEF WellFormed
<1>3. p.kind = "launchlab" => p.total_base_sell \in Nat
  BY DEF WellFormed
<1> QED BY <1>1, <1>2, <1>3 DEF Beside

\* Both sides of a pool are there.
LEMMA SolventReserves ==
    ASSUME NEW p, WellFormed(p), NEW v, Solvent(p, v), NEW side \in Sides
    PROVE  /\ Across(side) \in Sides /\ Across(side) # side
           /\ v[side] \in Nat /\ v[Across(side)] \in Nat
           /\ p.accrued[side] \in Nat /\ p.accrued[Across(side)] \in Nat
           /\ p.accrued[side] <= v[side] /\ p.accrued[Across(side)] <= v[Across(side)]
           /\ Reserve(p, v, side) \in Nat \ {0} /\ Reserve(p, v, Across(side)) \in Nat \ {0}
<1>1. Across(side) \in Sides /\ Across(side) # side
  BY DEF Sides, Across
<1>2. \A s \in Sides : v[s] \in Nat /\ p.accrued[s] \in Nat /\ p.accrued[s] <= v[s] /\ Reserve(p, v, s) > 0
  BY DEF Solvent, WellFormed, Amount
<1>3. \A s \in Sides : Beside(p, s) \in Int
  BY BesideType
<1>4. \A s \in Sides : Reserve(p, v, s) \in Nat \ {0}
  BY <1>2, <1>3 DEF Reserve
<1> QED BY <1>1, <1>2, <1>4

\* Nothing beside the vaults, where the venue prices on them alone.
LEMMA NothingBeside ==
    ASSUME NEW p, WellFormed(p), p.kind \in {"default", "observed", "spl", "damm"}, NEW v, NEW s \in Sides, v[s] \in Nat
    PROVE  Reserve(p, v, s) = v[s] /\ p.accrued[s] = 0
<1>1. Beside(p, s) = 0
  BY DEF Beside
<1>2. p.accrued[s] = 0
  BY DEF WellFormed
<1> QED BY <1>1, <1>2 DEF Reserve

\* A quote of the default branch is fair: it prices on the vaults alone.
LEMMA DefaultFair ==
    ASSUME NEW p, WellFormed(p), p.kind = "default", NEW v, Solvent(p, v), NEW side \in Sides, NEW amount \in Nat,
           NEW q, q = leg_out(p, v, side, amount), q.out # 0
    PROVE  FairOn(p, v, side, amount, q)
<1> DEFINE r == v[side]
           s == v[Across(side)]
           out == compute_constant_product_out(r, s, amount, p.fee_bps)
<1>1. p.kind \in Products /\ p.fee_bps \in Nat
  BY DEF Products, WellFormed, RatesOf
<1>2. r \in Nat /\ s \in Nat /\ Across(side) \in Sides
  BY <1>1, SolventReserves
<1>3. Reserve(p, v, side) = r /\ Reserve(p, v, Across(side)) = s /\ p.accrued[Across(side)] = 0
  BY <1>2, NothingBeside
<1>4. q.out = out /\ q.credit = amount /\ q.debit = out
  BY DEF leg_out, Quoting, NoQuote
<1> HIDE DEF out, r, s
<1>5. out # 0
  BY <1>4
<1>6. out \in Nat /\ out < s /\ r * s <= (r + amount) * (s - out)
  BY <1>1, <1>2, <1>5, ProductKept DEF out
<1>7. p.accrued[Across(side)] <= v[Across(side)] - q.debit
  BY <1>2, <1>3, <1>4, <1>6 DEF s
<1> QED BY <1>3, <1>4, <1>6, <1>7 DEF FairOn

\* A quote from the product of the reserves is fair if the curve is credited at least
\* what it is priced for, the trader gets no more than is paid and nothing owed is.
LEMMA ProductFair ==
    ASSUME NEW p, WellFormed(p), NEW v, Solvent(p, v), NEW side \in Sides, NEW amount \in Nat,
           NEW x \in Nat, NEW credit \in Nat, x <= credit, credit <= amount,
           NEW out, out = ConstantProduct(Reserve(p, v, side), Reserve(p, v, Across(side)), x), out # 0,
           NEW net \in Nat, net <= out,
           p.accrued[Across(side)] <= v[Across(side)] - out,
           p.kind = "launchlab" => v[side] + credit <= Cap(p, side),
           NEW q, q.out = net, q.credit = credit, q.debit = out
    PROVE  FairOn(p, v, side, amount, q)
<1> DEFINE r == Reserve(p, v, side)
           s == Reserve(p, v, Across(side))
<1>1. r \in Nat \ {0} /\ s \in Nat \ {0}
  BY SolventReserves
<1> HIDE DEF r, s
<1>2. out \in Nat /\ out < s /\ r * s <= (r + credit) * (s - out)
  BY <1>1, CreditKeeps DEF r, s
<1>3. /\ q.out \in Nat /\ q.credit \in Nat /\ q.debit \in Nat
      /\ q.credit <= amount /\ q.out <= q.debit
      /\ p.accrued[Across(side)] <= v[Across(side)] - q.debit
      /\ p.kind = "launchlab" => v[side] + q.credit <= Cap(p, side)
  BY <1>2
<1>4. q.debit < s /\ r * s <= (r + q.credit) * (s - q.debit)
  BY <1>2
<1> QED BY <1>3, <1>4 DEF FairOn, r, s

\* So is one with a measured fee.
LEMMA ObservedFair ==
    ASSUME NEW p, WellFormed(p), p.kind = "observed", NEW v, Solvent(p, v), NEW side \in Sides, NEW amount \in Nat,
           NEW q, q = ObservedFee(p, v, side, amount), q.out # 0
    PROVE  FairOn(p, v, side, amount, q)
<1> DEFINE fee == ceil_ppm(amount, p.ppm)
           x == amount - fee
           out == ConstantProduct(v[side], v[Across(side)], x)
<1>1. p.kind \in Products /\ p.ppm \in Nat
  BY DEF Products, WellFormed, RatesOf
<1>2. v[side] \in Nat /\ v[Across(side)] \in Nat /\ Across(side) \in Sides /\ v[side] # 0
  BY <1>1, SolventReserves, NothingBeside
<1>3. Reserve(p, v, side) = v[side] /\ Reserve(p, v, Across(side)) = v[Across(side)] /\ p.accrued[Across(side)] = 0
  BY <1>2, NothingBeside
<1>4. fee \in Nat
  BY <1>1, CeilPpmType
<1>5. ~(x < 0) /\ q.out = out /\ q.credit = amount /\ q.debit = out /\ out # 0
  BY DEF ObservedFee, Quoting, NoQuote
<1> HIDE DEF fee
<1>6. x \in Nat /\ x <= amount
  BY <1>4, <1>5
<1> HIDE DEF x
<1>7. out \in Nat /\ out <= v[Across(side)]
  BY <1>2, <1>5, <1>6, ConstantProductKeeps
<1>8. out = ConstantProduct(Reserve(p, v, side), Reserve(p, v, Across(side)), x)
  BY <1>3
<1> HIDE DEF out
<1>9. p.accrued[Across(side)] <= v[Across(side)] - out
  BY <1>2, <1>3, <1>7
<1> QED BY <1>1, <1>5, <1>6, <1>7, <1>8, <1>9, ProductFair

\* A rate of the input, of at least one token, is a natural number.
LEMMA FlooredFeeType ==
    ASSUME NEW amount \in Nat, NEW num \in Nat, NEW den \in Nat
    PROVE  FlooredFee(amount, num, den) \in Nat
<1>1. CASE num = 0 \/ den = 0
  BY <1>1 DEF FlooredFee
<1>2. CASE num # 0 /\ den # 0
  <2>1. amount * num \in Nat /\ den \in Nat \ {0}
    BY <1>2
  <2>2. (amount * num) \div den \in Nat
    BY <2>1, DivBounds
  <2> QED BY <1>2, <2>2 DEF FlooredFee, AtLeast
<1> QED BY <1>1, <1>2

\* So is one less two fees that are rounded down.
LEMMA SplFair ==
    ASSUME NEW p, WellFormed(p), p.kind = "spl", NEW v, Solvent(p, v), NEW side \in Sides, NEW amount \in Nat,
           NEW q, q = SplSwap(p, v, side, amount), q.out # 0
    PROVE  FairOn(p, v, side, amount, q)
<1> DEFINE fee == FlooredFee(amount, p.num, p.den)
           owner == FlooredFee(amount, p.owner_num, p.owner_den)
           x == amount - fee - owner
           out == ConstantProduct(v[side], v[Across(side)], x)
<1>1. p.kind \in Products /\ p.num \in Nat /\ p.den \in Nat /\ p.owner_num \in Nat /\ p.owner_den \in Nat
  BY DEF Products, WellFormed, RatesOf
<1>2. v[side] \in Nat /\ v[Across(side)] \in Nat /\ Across(side) \in Sides
  BY <1>1, SolventReserves
<1>3. Reserve(p, v, side) = v[side] /\ Reserve(p, v, Across(side)) = v[Across(side)] /\ p.accrued[Across(side)] = 0
  BY <1>2, NothingBeside
<1>4. fee \in Nat /\ owner \in Nat
  BY <1>1, FlooredFeeType
<1>5. ~(x < 0) /\ q.out = out /\ q.credit = amount /\ q.debit = out /\ out # 0
  BY DEF SplSwap, Quoting, NoQuote
<1> HIDE DEF fee, owner
<1>6. x \in Nat /\ x <= amount
  BY <1>4, <1>5
<1> HIDE DEF x
<1>7. out \in Nat /\ out <= v[Across(side)]
  BY <1>2, <1>5, <1>6, ConstantProductKeeps
<1>8. out = ConstantProduct(Reserve(p, v, side), Reserve(p, v, Across(side)), x)
  BY <1>3
<1> HIDE DEF out
<1>9. p.accrued[Across(side)] <= v[Across(side)] - out
  BY <1>2, <1>3, <1>7
<1> QED BY <1>1, <1>5, <1>6, <1>7, <1>8, <1>9, ProductFair

\* What is owed is beside the vaults that hold it.
LEMMA OwedBeside ==
    ASSUME NEW p, p.kind \in {"cpmm", "v4"}, NEW v, NEW s \in Sides, v[s] \in Nat, p.accrued[s] \in Nat
    PROVE  Reserve(p, v, s) = v[s] - p.accrued[s]
<1>1. Beside(p, s) = -p.accrued[s]
  BY DEF Beside
<1> QED BY <1>1 DEF Reserve

\* Raydium CPMM prices on what has not accrued and credits the curve the input less its fees.
LEMMA CpmmFair ==
    ASSUME NEW p, WellFormed(p), p.kind = "cpmm", NEW v, Solvent(p, v), NEW side \in Sides, NEW amount \in Nat,
           NEW q, q = RaydiumCpmm(p, v, side, amount), q.out # 0
    PROVE  FairOn(p, v, side, amount, q)
<1> DEFINE r == v[side] - p.accrued[side]
           s == v[Across(side)] - p.accrued[Across(side)]
           on_input == CASE p.creator_fee_on = "both" -> TRUE
                         [] p.creator_fee_on = "base" -> side = "base"
                         [] p.creator_fee_on = "quote" -> side = "quote"
           fee == ceil_ppm(amount, p.trade_ppm) + (IF on_input THEN ceil_ppm(amount, p.creator_ppm) ELSE 0)
           x == amount - fee
           gross == ConstantProduct(r, s, x)
           creator_out == IF on_input THEN 0 ELSE ceil_ppm(gross, p.creator_ppm)
<1>1. /\ p.kind \in Products /\ p.trade_ppm \in Nat /\ p.creator_ppm \in Nat
      /\ p.creator_fee_on \in {"both", "base", "quote"}
  BY DEF Products, WellFormed, RatesOf
<1>2. /\ v[side] \in Nat /\ v[Across(side)] \in Nat /\ Across(side) \in Sides
      /\ p.accrued[side] \in Nat /\ p.accrued[Across(side)] \in Nat
      /\ p.accrued[side] <= v[side] /\ p.accrued[Across(side)] <= v[Across(side)]
  BY <1>1, SolventReserves
<1>3. Reserve(p, v, side) = r /\ Reserve(p, v, Across(side)) = s
  BY <1>2, OwedBeside
<1>4. r \in Nat /\ s \in Nat /\ AtLeast(r, 0) = r /\ AtLeast(s, 0) = s
  BY <1>2 DEF AtLeast
<1>5. q = IF fee > amount THEN NoQuote ELSE Quoting(gross - creator_out, x, gross)
  BY <1>4 DEF RaydiumCpmm
<1> HIDE DEF r, s, on_input
<1>6. fee \in Nat
  <2>1. ceil_ppm(amount, p.trade_ppm) \in Nat /\ ceil_ppm(amount, p.creator_ppm) \in Nat
    BY <1>1, CeilPpmType
  <2>2. CASE on_input
    BY <2>1, <2>2
  <2>3. CASE ~on_input
    BY <2>1, <2>3
  <2> QED BY <2>2, <2>3
<1> HIDE DEF fee
<1>7. x \in Nat /\ x <= amount
  BY <1>5, <1>6 DEF NoQuote
<1> HIDE DEF x
<1>8. /\ gross - creator_out > 0
      /\ q.out = gross - creator_out /\ q.credit = x /\ q.debit = gross
  BY <1>5 DEF Quoting, NoQuote
<1>9. creator_out \in Nat /\ gross \in Nat /\ gross <= s /\ gross # 0
  <2>1. gross \in Nat /\ gross <= s
    <3>1. CASE gross = 0
      BY <1>4, <3>1
    <3>2. CASE gross # 0
      BY <1>4, <1>7, <3>2, ConstantProductKeeps
    <3> QED BY <3>1, <3>2
  <2> HIDE DEF gross
  <2>2. ceil_ppm(gross, p.creator_ppm) \in Nat
    BY <1>1, <2>1, CeilPpmType
  <2>3. creator_out \in Nat
    BY <2>2
  <2> HIDE DEF creator_out
  <2> QED BY <1>8, <2>1, <2>3
<1>10. gross = ConstantProduct(Reserve(p, v, side), Reserve(p, v, Across(side)), x)
  BY <1>3
<1> HIDE DEF gross, creator_out
<1>11. p.accrued[Across(side)] <= v[Across(side)] - gross
  BY <1>2, <1>9 DEF s
<1>12. q.out \in Nat /\ q.out <= gross
  BY <1>8, <1>9
<1> QED BY <1>1, <1>7, <1>8, <1>9, <1>10, <1>11, <1>12, ProductFair

\* Raydium V4 prices on what is not owed as profit.
LEMMA V4Fair ==
    ASSUME NEW p, WellFormed(p), p.kind = "v4", NEW v, Solvent(p, v), NEW side \in Sides, NEW amount \in Nat,
           NEW q, q = RaydiumV4(p, v, side, amount), q.out # 0
    PROVE  FairOn(p, v, side, amount, q)
<1> DEFINE r == v[side] - p.accrued[side]
           s == v[Across(side)] - p.accrued[Across(side)]
           fee == div_ceil(amount * p.num, p.den)
           x == amount - fee
           out == ConstantProduct(r, s, x)
<1>1. p.kind \in Products /\ p.num \in Nat /\ p.den \in Nat
  BY DEF Products, WellFormed, RatesOf
<1>2. /\ v[side] \in Nat /\ v[Across(side)] \in Nat /\ Across(side) \in Sides
      /\ p.accrued[side] \in Nat /\ p.accrued[Across(side)] \in Nat
      /\ p.accrued[side] <= v[side] /\ p.accrued[Across(side)] <= v[Across(side)]
  BY <1>1, SolventReserves
<1>3. Reserve(p, v, side) = r /\ Reserve(p, v, Across(side)) = s /\ r \in Nat /\ s \in Nat
  BY <1>2, OwedBeside
<1>4. p.den # 0 /\ ~(fee > amount) /\ q.out = out /\ q.credit = amount /\ q.debit = out /\ out # 0
  BY DEF RaydiumV4, Quoting, NoQuote
<1>5. fee \in Nat
  <2>1. amount * p.num \in Nat /\ p.den \in Nat \ {0}
    BY <1>1, <1>4
  <2> QED BY <2>1, DivCeilCovers
<1> HIDE DEF fee, r, s
<1>6. x \in Nat /\ x <= amount
  BY <1>4, <1>5
<1> HIDE DEF x
<1>7. out \in Nat /\ out <= s
  BY <1>3, <1>4, <1>6, ConstantProductKeeps
<1>8. out = ConstantProduct(Reserve(p, v, side), Reserve(p, v, Across(side)), x)
  BY <1>3
<1> HIDE DEF out
<1>9. p.accrued[Across(side)] <= v[Across(side)] - out
  BY <1>2, <1>7 DEF s
<1> QED BY <1>1, <1>4, <1>6, <1>7, <1>8, <1>9, ProductFair

-----------------------------------------------------------------------------
(* Choices                                                                  *)

\* A set of numbers that is not empty has a least one.
LEMMA LeastNatural ==
    ASSUME NEW S \in SUBSET Nat, S # {}
    PROVE  \E m \in S : \A k \in S : m <= k
<1> DEFINE R == OpToRel(<, Nat)
<1>1. IsWellFoundedOn(R, Nat)
  BY NatLessThanWellFounded
<1>2. PICK m \in S : \A k \in S : ~ (<<k, m>> \in R)
  <2> HIDE DEF R
  <2> QED BY <1>1, WFMin
<1>3. \A k \in S : ~ (k < m)
  BY <1>2 DEF OpToRel
<1> QED BY <1>3

\* Induction, the property being given as the set of numbers that have it.
LEMMA Induction ==
    ASSUME NEW P \in SUBSET Nat, 0 \in P, \A k \in P : k + 1 \in P
    PROVE  P = Nat
<1> SUFFICES ASSUME Nat \ P # {} PROVE FALSE
  OBVIOUS
<1>1. PICK m \in Nat \ P : \A k \in Nat \ P : m <= k
  BY LeastNatural
<1>2. m # 0 /\ m - 1 \in Nat /\ m - 1 < m
  BY <1>1
<1>3. m - 1 \in P
  BY <1>1, <1>2
<1>4. m - 1 + 1 = m
  BY <1>1
<1> QED BY <1>1, <1>3, <1>4

\* Numbers with a bound have a greatest among them, and it is chosen.
LEMMA GreatestChosen ==
    ASSUME NEW n \in Nat, NEW S \in SUBSET (0..n), S # {}
    PROVE  LET x == CHOOSE x \in S : \A y \in S : y <= x
           IN  x \in S /\ x \in Nat /\ \A y \in S : y <= x
<1> DEFINE D == {n - x : x \in S}
<1>1. D \in SUBSET Nat /\ D # {}
  <2>1. \A x \in S : x \in Nat /\ n - x \in Nat
    OBVIOUS
  <2>2. PICK x \in S : TRUE
    OBVIOUS
  <2> QED BY <2>1, <2>2
<1>2. PICK m \in D : \A k \in D : m <= k
  <2> HIDE DEF D
  <2> QED BY <1>1, LeastNatural
<1>3. PICK g \in S : m = n - g
  BY <1>2
<1>4. \A y \in S : y <= g
  <2> SUFFICES ASSUME NEW y \in S PROVE y <= g
    OBVIOUS
  <2>1. n - y \in D /\ y \in Nat /\ g \in Nat
    OBVIOUS
  <2>2. n - g <= n - y
    BY <1>2, <1>3, <2>1
  <2> QED BY <2>1, <2>2
<1>5. \E x \in S : \A y \in S : y <= x
  BY <1>4
<1> DEFINE c == CHOOSE x \in S : \A y \in S : y <= x
<1>6. c \in S /\ \A y \in S : y <= c
  BY <1>5
<1> HIDE DEF c
<1>7. c \in Nat
  BY <1>6
<1> QED BY <1>6, <1>7 DEF c

\* A schedule has a dearest tier.
LEMMA DearestTier ==
    ASSUME NEW tiers \in Seq(FeeTier), tiers # <<>>
    PROVE  \E i \in DOMAIN tiers : \A j \in DOMAIN tiers : TotalRate(tiers[j]) <= TotalRate(tiers[i])
<1> DEFINE rate(i) == TotalRate(tiers[i])
           P == {n \in Nat : n < Len(tiers) => \E i \in 1..(n + 1) : \A j \in 1..(n + 1) : rate(j) <= rate(i)}
<1>1. DOMAIN tiers = 1..Len(tiers) /\ Len(tiers) \in Nat /\ Len(tiers) > 0
  OBVIOUS
<1>2. \A i \in 1..Len(tiers) : rate(i) \in Nat
  <2> SUFFICES ASSUME NEW i \in 1..Len(tiers) PROVE TotalRate(tiers[i]) \in Nat
    OBVIOUS
  <2>1. tiers[i] \in FeeTier
    BY <1>1
  <2>2. tiers[i].lp \in Nat /\ tiers[i].protocol \in Nat /\ tiers[i].creator \in Nat
    BY <2>1, SMTT(30) DEF FeeTier
  <2> QED BY <2>2 DEF TotalRate
<1> HIDE DEF rate
<1>3. 0 \in P
  <2>1. rate(1) \in Nat
    BY <1>1, <1>2
  <2>2. 1 \in 1..1 /\ \A j \in 1..1 : rate(j) <= rate(1)
    BY <2>1
  <2> QED BY <2>2
<1>4. \A k \in P : k + 1 \in P
  <2> SUFFICES ASSUME NEW k \in P, k + 1 < Len(tiers)
               PROVE  \E i \in 1..(k + 2) : \A j \in 1..(k + 2) : rate(j) <= rate(i)
    <3>1. \A k \in P : k \in Nat /\ k + 1 \in Nat /\ k + 1 + 1 = k + 2
      OBVIOUS
    <3> QED BY <3>1
  <2>1. PICK i \in 1..(k + 1) : \A j \in 1..(k + 1) : rate(j) <= rate(i)
    <3>1. k < Len(tiers)
      BY <1>1
    <3> QED BY <3>1
  <2>2. i \in 1..(k + 2) /\ k + 2 \in 1..(k + 2) /\ rate(i) \in Nat /\ rate(k + 2) \in Nat
    BY <1>1, <1>2
  <2>3. CASE rate(k + 2) <= rate(i)
    BY <2>1, <2>2, <2>3
  <2>4. CASE rate(i) <= rate(k + 2)
    <3>1. ASSUME NEW j \in 1..(k + 2) PROVE rate(j) <= rate(k + 2)
      <4>1. CASE j = k + 2
        BY <2>2, <4>1
      <4>2. CASE j # k + 2
        <5>1. j \in 1..(k + 1)
          BY <4>2
        <5>2. rate(j) <= rate(i) /\ rate(j) \in Nat
          BY <1>1, <1>2, <2>1, <5>1
        <5> QED BY <2>2, <2>4, <5>2
      <4> QED BY <4>1, <4>2
    <3> QED BY <2>2, <3>1
  <2> QED BY <2>2, <2>3, <2>4
<1>5. P = Nat
  <2>1. P \in SUBSET Nat
    OBVIOUS
  <2> HIDE DEF P
  <2> QED BY <1>3, <1>4, <2>1, Induction
<1>6. Len(tiers) - 1 \in P
  BY <1>1, <1>5
<1>7. Len(tiers) - 1 + 1 = Len(tiers)
  BY <1>1
<1> QED BY <1>1, <1>6, <1>7 DEF rate

\* The rates of a tier are taken from the schedule.
LEMMA TierType ==
    ASSUME NEW tiers \in Seq(FeeTier), tiers # <<>>, NEW known \in BOOLEAN, NEW market_cap
    PROVE  \E i \in DOMAIN tiers : tier_for(tiers, known, market_cap) = tiers[i]
<1> DEFINE reached == {i \in DOMAIN tiers : market_cap >= tiers[i].market_cap}
           dearest == {i \in DOMAIN tiers : \A j \in DOMAIN tiers : TotalRate(tiers[j]) <= TotalRate(tiers[i])}
           pick == IF ~known THEN dearest ELSE IF reached = {} THEN {1} ELSE reached
           i == CHOOSE x \in pick : \A y \in pick : y <= x
<1>1. DOMAIN tiers = 1..Len(tiers) /\ Len(tiers) \in Nat /\ Len(tiers) > 0
  OBVIOUS
<1>2. dearest # {} /\ dearest \subseteq DOMAIN tiers /\ reached \subseteq DOMAIN tiers
  BY DearestTier
<1> HIDE DEF dearest, reached
<1>3. pick \in SUBSET (0..Len(tiers)) /\ pick # {} /\ pick \subseteq DOMAIN tiers
  BY <1>1, <1>2
<1> HIDE DEF pick
<1>4. i \in pick
  BY <1>1, <1>3, GreatestChosen
<1>5. tier_for(tiers, known, market_cap) = tiers[i]
  BY DEF tier_for, pick, dearest, reached
<1> HIDE DEF i
<1> QED BY <1>3, <1>4, <1>5

\* The fees of a pump pool are natural numbers, and a curve has no fee for its LPs.
LEMMA PumpFeesType ==
    ASSUME NEW p, WellFormed(p), p.kind \in {"pump_curve", "pump_amm"}, NEW base, NEW quote_,
           NEW rates, rates = PumpRates(p, base, quote_)
    PROVE  /\ rates.lp \in Nat /\ rates.protocol \in Nat /\ rates.creator \in Nat
           /\ p.kind = "pump_curve" => rates.lp = 0
           /\ TotalRate(rates) \in Nat
           /\ \A x \in Nat : pamm_fees(rates, x) \in Nat
<1>1. p.tiers \in Seq(FeeTier) /\ p.tiers # <<>> /\ p.creator_bps \in Nat
  BY DEF WellFormed, RatesOf
<1> DEFINE tier == tier_for(p.tiers, p.supply > 0, (quote_ * p.supply) \div base)
<1>2. tier \in FeeTier /\ (p.kind = "pump_curve" => tier.lp = 0)
  <2>1. (p.supply > 0) \in BOOLEAN
    OBVIOUS
  <2>2. PICK i \in DOMAIN p.tiers : tier = p.tiers[i]
    BY <1>1, <2>1, TierType
  <2>3. p.kind = "pump_curve" => p.tiers[i].lp = 0
    BY DEF WellFormed, RatesOf
  <2> HIDE DEF tier
  <2> QED BY <1>1, <2>2, <2>3
<1>3. rates = [lp |-> tier.lp, protocol |-> tier.protocol,
               creator |-> IF ~p.has_creator THEN 0 ELSE IF p.creator_bps > 0 THEN p.creator_bps ELSE tier.creator]
  BY DEF PumpRates
<1> HIDE DEF tier
<1>4. /\ rates.lp \in Nat /\ rates.protocol \in Nat /\ rates.creator \in Nat
      /\ p.kind = "pump_curve" => rates.lp = 0
  BY <1>1, <1>2, <1>3 DEF FeeTier
<1>5. TotalRate(rates) \in Nat
  BY <1>4 DEF TotalRate
<1>6. ASSUME NEW x \in Nat PROVE pamm_fees(rates, x) \in Nat
  <2>1. ceil_bps(x, rates.lp) \in Nat /\ ceil_bps(x, rates.protocol) \in Nat /\ ceil_bps(x, rates.creator) \in Nat
    BY <1>4, CeilBpsType
  <2> QED BY <2>1 DEF pamm_fees
<1> QED BY <1>4, <1>5, <1>6

\* What a buy is priced for is in the amount, with its fees.
LEMMA FeeBaseBounds ==
    ASSUME NEW rates, TotalRate(rates) \in Nat, \A x \in Nat : pamm_fees(rates, x) \in Nat, NEW amount \in Nat
    PROVE  FeeBase(rates, amount) \in Nat /\ FeeBase(rates, amount) <= amount
<1> DEFINE share_ == (amount * BasisPoints) \div (BasisPoints + TotalRate(rates))
           fits == {0} \cup {x \in 1..share_ : x + pamm_fees(rates, x) <= amount}
           base == CHOOSE x \in fits : \A y \in fits : y <= x
<1>1. share_ \in Nat
  <2>1. amount * BasisPoints \in Nat /\ BasisPoints + TotalRate(rates) \in Nat \ {0}
    BY DEF BasisPoints
  <2> QED BY <2>1, DivBounds
<1>2. FeeBase(rates, amount) = base
  BY DEF FeeBase
<1> HIDE DEF share_
<1>3. fits \in SUBSET (0..share_) /\ fits # {}
  BY <1>1
<1>4. \A x \in fits : x <= amount
  <2> SUFFICES ASSUME NEW x \in fits PROVE x <= amount
    OBVIOUS
  <2>1. CASE x = 0
    BY <2>1
  <2>2. CASE x # 0
    <3>1. x \in Nat /\ x + pamm_fees(rates, x) <= amount
      BY <1>1, <2>2
    <3>2. pamm_fees(rates, x) \in Nat
      BY <3>1
    <3> QED BY <3>1, <3>2
  <2> QED BY <2>1, <2>2
<1> HIDE DEF fits
<1>5. base \in fits /\ base \in Nat
  BY <1>1, <1>3, GreatestChosen
<1> HIDE DEF base
<1> QED BY <1>2, <1>4, <1>5

\* A purchase from pump.fun is priced one token below what it is credited for, or as much.
LEMMA PumpBuyFair ==
    ASSUME NEW p, WellFormed(p), p.kind \in {"pump_curve", "pump_amm"}, NEW v, Solvent(p, v), NEW amount \in Nat,
           NEW q, q = PumpBuy(p, v, amount), q.out # 0
    PROVE  FairOn(p, v, "quote", amount, q)
<1> DEFINE base == v.base + p.virtual_base
           other == v.quote + p.virtual_quote
           rates == PumpRates(p, base, other)
           x == FeeBase(rates, amount)
           out == ConstantProduct(other, base, x - 1)
           credit == IF p.kind = "pump_curve" THEN x ELSE x - 1
<1>1. p.kind \in Products /\ "quote" \in Sides /\ Across("quote") = "base"
  BY DEF Products, Sides, Across
<1>2. v.base \in Nat /\ v.quote \in Nat /\ p.accrued["base"] = 0
  BY <1>1, SolventReserves DEF WellFormed, Sides
<1>3. Reserve(p, v, "quote") = other /\ Reserve(p, v, "base") = base
  BY DEF Reserve, Beside
<1>4. TotalRate(rates) \in Nat /\ \A y \in Nat : pamm_fees(rates, y) \in Nat
  <2> HIDE DEF base, other
  <2> QED BY PumpFeesType
<1>5. ~(x <= 1 \/ out >= v.base) /\ q = Quoting(out, credit, out)
  BY DEF PumpBuy, NoQuote
<1> HIDE DEF base, other, rates
<1>6. x \in Nat /\ x <= amount
  BY <1>4, FeeBaseBounds
<1>7. out # 0 /\ q.out = out /\ q.credit = credit /\ q.debit = out
  BY <1>5 DEF Quoting, NoQuote
<1> HIDE DEF x
<1>8. x - 1 \in Nat /\ credit \in Nat /\ x - 1 <= credit /\ credit <= amount
  BY <1>5, <1>6
<1> HIDE DEF credit
<1>9. out = ConstantProduct(Reserve(p, v, "quote"), Reserve(p, v, Across("quote")), x - 1)
  BY <1>1, <1>3
<1>10. out \in Nat
  <2>1. other \in Nat /\ base \in Nat
    BY <1>1, <1>3, SolventReserves
  <2> QED BY <1>7, <1>8, <2>1, ConstantProductKeeps
<1> HIDE DEF out
<1>11. p.accrued[Across("quote")] <= v[Across("quote")] - out
  BY <1>1, <1>2, <1>5, <1>10
<1>12. q.out \in Nat /\ q.out <= out
  BY <1>7, <1>10
<1>13. p.kind # "launchlab"
  OBVIOUS
<1> QED BY <1>1, <1>7, <1>8, <1>9, <1>11, <1>12, <1>13, ProductFair

\* A sale to pump.fun takes its fees off what the curve gives up.
LEMMA PumpSellFair ==
    ASSUME NEW p, WellFormed(p), p.kind \in {"pump_curve", "pump_amm"}, NEW v, Solvent(p, v), NEW amount \in Nat,
           NEW q, q = PumpSell(p, v, amount), q.out # 0
    PROVE  FairOn(p, v, "base", amount, q)
<1> DEFINE base == v.base + p.virtual_base
           other == v.quote + p.virtual_quote
           rates == PumpRates(p, base, other)
           gross == ConstantProduct(base, other, amount)
           fees == pamm_fees(rates, gross)
<1>1. p.kind \in Products /\ "base" \in Sides /\ Across("base") = "quote"
  BY DEF Products, Sides, Across
<1>2. v.base \in Nat /\ v.quote \in Nat /\ p.accrued["quote"] = 0
  BY <1>1, SolventReserves DEF WellFormed, Sides
<1>3. Reserve(p, v, "quote") = other /\ Reserve(p, v, "base") = base
  BY DEF Reserve, Beside
<1>4. TotalRate(rates) \in Nat /\ \A y \in Nat : pamm_fees(rates, y) \in Nat
  <2> HIDE DEF base, other
  <2> QED BY PumpFeesType
<1>5. (gross <= v.quote \/ gross < v.quote) /\ q = Quoting(gross - fees, amount, gross)
  BY DEF PumpSell, NoQuote
<1>6. gross - fees > 0 /\ q.out = gross - fees /\ q.credit = amount /\ q.debit = gross
  BY <1>5 DEF Quoting, NoQuote
<1>7. base \in Nat /\ other \in Nat
  BY <1>1, <1>3, SolventReserves
<1> HIDE DEF base, other, rates
<1>8. gross \in Nat
  <2>1. CASE gross = 0
    BY <2>1
  <2>2. CASE gross # 0
    BY <1>7, <2>2, ConstantProductKeeps
  <2> QED BY <2>1, <2>2
<1>9. gross = ConstantProduct(Reserve(p, v, "base"), Reserve(p, v, Across("base")), amount)
  BY <1>1, <1>3
<1> HIDE DEF gross
<1>10. fees \in Nat
  BY <1>4, <1>8
<1> HIDE DEF fees
<1>11. gross # 0 /\ gross - fees \in Nat /\ gross - fees <= gross
  BY <1>6, <1>8, <1>10
<1>12. p.accrued[Across("base")] <= v[Across("base")] - gross
  BY <1>1, <1>2, <1>5, <1>8
<1>13. p.kind # "launchlab" /\ amount <= amount
  OBVIOUS
<1> QED BY <1>1, <1>6, <1>8, <1>9, <1>11, <1>12, <1>13, ProductFair

\* A launch sells no more than it has left and raises no more than it may.
LEMMA LaunchLabFair ==
    ASSUME NEW p, WellFormed(p), p.kind = "launchlab", NEW v, Solvent(p, v), NEW side \in Sides, NEW amount \in Nat,
           NEW q, q = LaunchLab(p, v, side, amount), q.out # 0
    PROVE  FairOn(p, v, side, amount, q)
<1> DEFINE base == p.virtual_base - real_base(p, v)
           other == p.virtual_quote + v.quote
<1>1. p.kind \in Products /\ "base" \in Sides /\ "quote" \in Sides
  BY DEF Products, Sides
<1>2. /\ v.base \in Nat /\ v.quote \in Nat /\ p.accrued["base"] = 0 /\ p.accrued["quote"] = 0
      /\ p.virtual_base \in Nat /\ p.virtual_quote \in Nat
      /\ p.total_base_sell \in Nat /\ p.total_quote_fund_raising \in Nat
      /\ p.protocol_ppm + p.platform_ppm + p.creator_ppm \in Nat
  <2>1. v.base \in Nat /\ v.quote \in Nat
    BY <1>1, SolventReserves
  <2>2. p.accrued["base"] = 0 /\ p.accrued["quote"] = 0
    BY <1>1 DEF WellFormed
  <2>3. /\ p.virtual_base \in Nat /\ p.virtual_quote \in Nat
        /\ p.total_base_sell \in Nat /\ p.total_quote_fund_raising \in Nat
    BY DEF WellFormed
  <2>4. p.protocol_ppm \in Nat /\ p.platform_ppm \in Nat /\ p.creator_ppm \in Nat
    BY DEF WellFormed, RatesOf
  <2> QED BY <2>1, <2>2, <2>3, <2>4
<1>3. Beside(p, "quote") = p.virtual_quote /\ Beside(p, "base") = p.virtual_base - p.total_base_sell
  BY DEF Beside
<1>4. Reserve(p, v, "quote") = other /\ Reserve(p, v, "base") = base
  BY <1>2, <1>3 DEF Reserve, real_base
<1>5. base \in Nat /\ other \in Nat
  BY <1>1, <1>4, SolventReserves
<1>6. \A y \in Nat : total_fee(p, y) \in Nat
  BY <1>2, CeilPpmType DEF total_fee
<1>7. real_base(p, v) = p.total_base_sell - v.base
  BY DEF real_base
<1>8. CASE side = "quote"
  <2> DEFINE less == amount - total_fee(p, amount)
             out == ConstantProduct(other, base, less)
  <2>1. q = LaunchLabBuy(p, v, amount)
    BY <1>8 DEF LaunchLab, NoQuote
  <2>2. /\ ~(less < 0) /\ ~(v.quote + less > p.total_quote_fund_raising) /\ ~(real_base(p, v) + out > p.total_base_sell)
        /\ q = Quoting(out, less, out)
    BY <2>1 DEF LaunchLabBuy, NoQuote
  <2>3. out # 0 /\ q.out = out /\ q.credit = less /\ q.debit = out
    BY <2>2 DEF Quoting, NoQuote
  <2> HIDE DEF base, other
  <2>4. less \in Nat /\ less <= amount
    <3>1. total_fee(p, amount) \in Nat
      BY <1>6
    <3> QED BY <2>2, <3>1
  <2> HIDE DEF less
  <2>5. out \in Nat
    BY <1>5, <2>3, <2>4, ConstantProductKeeps
  <2>6. Across(side) = "base" /\ out = ConstantProduct(Reserve(p, v, side), Reserve(p, v, Across(side)), less)
    BY <1>4, <1>8 DEF Across
  <2> HIDE DEF out
  <2>7. p.accrued[Across(side)] <= v[Across(side)] - out
    BY <1>2, <1>7, <2>2, <2>5, <2>6
  <2>8. Cap(p, side) = p.total_quote_fund_raising
    BY <1>8 DEF Cap
  <2>9. v[side] + less <= Cap(p, side)
    BY <1>2, <1>8, <2>2, <2>4, <2>8
  <2>10. less <= less /\ out <= out
    BY <2>4, <2>5
  <2> QED BY <1>1, <2>3, <2>4, <2>5, <2>6, <2>7, <2>9, <2>10, ProductFair
<1>9. CASE side = "base"
  <2> DEFINE gross == ConstantProduct(base, other, amount)
             fee == total_fee(p, gross)
  <2>1. q = LaunchLabSell(p, v, amount)
    BY <1>9 DEF LaunchLab, NoQuote
  <2>2. ~(amount > real_base(p, v)) /\ ~(gross > v.quote) /\ q = Quoting(gross - fee, amount, gross)
    BY <2>1 DEF LaunchLabSell, NoQuote
  <2>3. gross - fee > 0 /\ q.out = gross - fee /\ q.credit = amount /\ q.debit = gross
    BY <2>2 DEF Quoting, NoQuote
  <2> HIDE DEF base, other
  <2>4. gross \in Nat
    <3>1. CASE gross = 0
      BY <3>1
    <3>2. CASE gross # 0
      BY <1>5, <3>2, ConstantProductKeeps
    <3> QED BY <3>1, <3>2
  <2>5. Across(side) = "quote" /\ gross = ConstantProduct(Reserve(p, v, side), Reserve(p, v, Across(side)), amount)
    BY <1>4, <1>9 DEF Across
  <2> HIDE DEF gross
  <2>6. fee \in Nat
    BY <1>6, <2>4
  <2> HIDE DEF fee
  <2>7. gross # 0 /\ gross - fee \in Nat /\ gross - fee <= gross
    BY <2>3, <2>4, <2>6
  <2>8. p.accrued[Across(side)] <= v[Across(side)] - gross
    BY <1>2, <2>2, <2>4, <2>5
  <2>9. v[side] + amount <= Cap(p, side)
    BY <1>2, <1>7, <1>9, <2>2 DEF Cap
  <2> QED BY <1>1, <2>3, <2>4, <2>5, <2>7, <2>8, <2>9, ProductFair
<1> QED BY <1>8, <1>9 DEF Sides

\* Whatever pool is traded is quoted fairly, if its venue prices a product of reserves.
LEMMA OnVaultsFair ==
    ASSUME WellFormed(pool), pool.kind \in Products, Solvent(pool, vault), NEW side \in Sides, NEW amount \in Nat,
           NEW q, q = OnVaults(side, amount), q.out # 0
    PROVE  FairOn(pool, vault, side, amount, q)
<1>1. CASE pool.kind = "default"
  <2>1. q = leg_out(pool, vault, side, amount)
    BY <1>1 DEF OnVaults
  <2> QED BY <1>1, <2>1, DefaultFair
<1>2. CASE pool.kind = "observed"
  <2>1. q = ObservedFee(pool, vault, side, amount)
    BY <1>2 DEF OnVaults
  <2> QED BY <1>2, <2>1, ObservedFair
<1>3. CASE pool.kind = "cpmm"
  <2>1. q = RaydiumCpmm(pool, vault, side, amount)
    BY <1>3 DEF OnVaults
  <2> QED BY <1>3, <2>1, CpmmFair
<1>4. CASE pool.kind = "v4"
  <2>1. q = RaydiumV4(pool, vault, side, amount)
    BY <1>4 DEF OnVaults
  <2> QED BY <1>4, <2>1, V4Fair
<1>5. CASE pool.kind = "spl"
  <2>1. q = SplSwap(pool, vault, side, amount)
    BY <1>5 DEF OnVaults
  <2> QED BY <1>5, <2>1, SplFair
<1>6. CASE pool.kind \in {"pump_curve", "pump_amm"}
  <2>1. q = PumpFun(pool, vault, side, amount)
    BY <1>6 DEF OnVaults
  <2>2. CASE side = "quote"
    <3>1. q = PumpBuy(pool, vault, amount)
      BY <2>1, <2>2 DEF PumpFun, NoQuote
    <3> QED BY <1>6, <2>2, <3>1, PumpBuyFair
  <2>3. CASE side = "base"
    <3>1. q = PumpSell(pool, vault, amount)
      BY <2>1, <2>3 DEF PumpFun, NoQuote
    <3> QED BY <1>6, <2>3, <3>1, PumpSellFair
  <2> QED BY <2>2, <2>3 DEF Sides
<1>7. CASE pool.kind = "launchlab"
  <2>1. q = LaunchLab(pool, vault, side, amount)
    BY <1>7 DEF OnVaults
  <2> QED BY <1>7, <2>1, LaunchLabFair
<1> QED BY <1>1, <1>2, <1>3, <1>4, <1>5, <1>6, <1>7 DEF Products

-----------------------------------------------------------------------------
(* Transfer fees                                                            *)

\* A quote is a record of what is paid out, credited and taken.
IsQuote(q) == \E out, credit, debit : q = [out |-> out, credit |-> credit, debit |-> debit]

\* Every branch of the pricing quotes, or quotes nothing.
LEMMA OnVaultsQuotes ==
    ASSUME pool.kind \in Products \cup {"meteora"}, NEW side, NEW amount
    PROVE  IsQuote(OnVaults(side, amount))
<1>1. IsQuote(NoQuote)
  BY DEF IsQuote, NoQuote
<1>2. \A x, y, z : IsQuote(Quoting(x, y, z))
  BY <1>1 DEF IsQuote, Quoting
<1> HIDE DEF IsQuote
<1>3. CASE pool.kind = "default"
  BY <1>2, <1>3 DEF OnVaults, leg_out
<1>4. CASE pool.kind = "observed"
  BY <1>1, <1>2, <1>4 DEF OnVaults, ObservedFee
<1>5. CASE pool.kind = "cpmm"
  BY <1>1, <1>2, <1>5 DEF OnVaults, RaydiumCpmm
<1>6. CASE pool.kind = "v4"
  BY <1>1, <1>2, <1>6 DEF OnVaults, RaydiumV4
<1>7. CASE pool.kind = "spl"
  BY <1>1, <1>2, <1>7 DEF OnVaults, SplSwap
<1>8. CASE pool.kind \in {"pump_curve", "pump_amm"}
  <2>1. IsQuote(PumpBuy(pool, vault, amount))
    BY <1>1, <1>2 DEF PumpBuy
  <2>2. IsQuote(PumpSell(pool, vault, amount))
    BY <1>1, <1>2 DEF PumpSell
  <2>3. IsQuote(PumpFun(pool, vault, side, amount))
    BY <1>1, <2>1, <2>2 DEF PumpFun
  <2> QED BY <1>8, <2>3 DEF OnVaults
<1>9. CASE pool.kind = "launchlab"
  <2>1. IsQuote(LaunchLabBuy(pool, vault, amount))
    BY <1>1, <1>2 DEF LaunchLabBuy
  <2>2. IsQuote(LaunchLabSell(pool, vault, amount))
    BY <1>1, <1>2 DEF LaunchLabSell
  <2>3. IsQuote(LaunchLab(pool, vault, side, amount))
    BY <1>1, <2>1, <2>2 DEF LaunchLab
  <2> QED BY <1>9, <2>3 DEF OnVaults
<1>10. CASE pool.kind = "meteora"
  BY <1>1, <1>2, <1>10 DEF OnVaults, MeteoraStd
<1> QED BY <1>3, <1>4, <1>5, <1>6, <1>7, <1>8, <1>9, <1>10 DEF Products

\* What is left of an amount is at most the amount.
LEMMA NetBounds ==
    ASSUME WellFormed(pool), NEW side \in Sides, NEW amount \in Nat
    PROVE  net_of_transfer_fee(side, amount) \in Nat /\ net_of_transfer_fee(side, amount) <= amount
<1>1. pool.tax[side].bps \in Nat /\ pool.tax[side].maximum \in Nat
  <2>1. pool.tax[side] \in [bps : Nat, maximum : Nat]
    BY DEF WellFormed
  <2> QED BY <2>1
<1>2. ceil_bps(amount, pool.tax[side].bps) \in Nat
  BY <1>1, CeilBpsType
<1>3. transfer_fee(side, amount) \in Nat
  BY <1>1, <1>2 DEF transfer_fee, AtMost
<1> QED BY <1>3 DEF net_of_transfer_fee, AtLeast

\* What the trader is quoted is what the venue is, less what the mints withhold.
LEMMA PricedQuote ==
    ASSUME WellFormed(pool), pool.kind \in Products \cup {"meteora"}, NEW i, NEW side \in Sides, NEW amount \in Nat,
           NEW net, net = net_of_transfer_fee(side, amount),
           NEW q, q = OnVaults(side, net),
           NEW paid, paid = priced(i, side, amount).quote
    PROVE  /\ paid.out = net_of_transfer_fee(Across(side), q.out)
           /\ paid.credit = q.credit /\ paid.debit = q.debit
           /\ priced(i, side, amount).market = market
<1>1. pool.kind \notin Markets
  BY DEF Products, Markets
<1>2. PricedAt(pool.times[i], side, net) = [quote |-> q, market |-> market]
  BY <1>1 DEF PricedAt
<1>3. PICK out, credit, debit : q = [out |-> out, credit |-> credit, debit |-> debit]
  BY OnVaultsQuotes DEF IsQuote
<1>4. priced(i, side, amount) =
        [quote |-> [out |-> net_of_transfer_fee(Across(side), out), credit |-> credit, debit |-> debit],
         market |-> market]
  BY <1>2, <1>3 DEF priced
<1> QED BY <1>3, <1>4

\* So what the trader is quoted is fair.
LEMMA PricedFair ==
    ASSUME WellFormed(pool), pool.kind \in Products, Solvent(pool, vault), NEW i, NEW side \in Sides, NEW amount \in Nat,
           NEW q, q = priced(i, side, amount).quote, q.out > 0
    PROVE  FairOn(pool, vault, side, amount, q)
<1> DEFINE net == net_of_transfer_fee(side, amount)
           Q == OnVaults(side, net)
<1>1. net \in Nat /\ net <= amount /\ Across(side) \in Sides
  BY NetBounds DEF Sides, Across
<1>2. q.out = net_of_transfer_fee(Across(side), Q.out) /\ q.credit = Q.credit /\ q.debit = Q.debit
  BY PricedQuote
<1> HIDE DEF net
<1>3. Q.out # 0
  <2>1. 0 \in Nat
    OBVIOUS
  <2>2. net_of_transfer_fee(Across(side), 0) <= 0 /\ net_of_transfer_fee(Across(side), 0) \in Nat
    BY <1>1, <2>1, NetBounds
  <2> QED BY <1>2, <2>2
<1>4. FairOn(pool, vault, side, net, Q)
  BY <1>1, <1>3, OnVaultsFair
<1> HIDE DEF Q
<1>5. Q.out \in Nat /\ Q.credit \in Nat /\ Q.debit \in Nat /\ Q.credit <= net /\ Q.out <= Q.debit
  BY <1>4 DEF FairOn
<1>6. q.out \in Nat /\ q.out <= q.debit /\ q.credit <= amount
  <2>1. q.out \in Nat /\ q.out <= Q.out
    BY <1>1, <1>2, <1>5, NetBounds
  <2> QED BY <1>1, <1>2, <1>5, <2>1
<1> QED BY <1>2, <1>4, <1>5, <1>6 DEF FairOn

\* The two sides are a side and the one across.
LEMMA BothSides ==
    ASSUME NEW side \in Sides
    PROVE  /\ Across(side) \in Sides /\ Across(side) # side
           /\ \A s \in Sides : s = side \/ s = Across(side)
BY DEF Sides, Across

-----------------------------------------------------------------------------
(* Reciprocals of prices                                                    *)

\* A unit that every price up to n divides, and how often.  With it the tokens of
\* side base between two prices are a difference, as those of side quote are.
Reciprocal(n, unit, of) ==
    /\ n \in Nat /\ unit \in Nat \ {0} /\ of \in [1..n -> Nat]
    /\ \A x \in 1..n : x * of[x] = unit

\* There is one for every bound on the prices.
LEMMA ReciprocalExists ==
    ASSUME NEW n \in Nat
    PROVE  \E unit, of : Reciprocal(n, unit, of)
<1> DEFINE P == {m \in Nat : \E unit, of : Reciprocal(m, unit, of)}
<1>1. 0 \in P
  <2>1. Reciprocal(0, 1, [x \in 1..0 |-> 0])
    BY DEF Reciprocal
  <2> QED BY <2>1
<1>2. ASSUME NEW m \in P
      PROVE  m + 1 \in P
  <2>1. m \in Nat
    OBVIOUS
  <2>2. PICK unit, of : Reciprocal(m, unit, of)
    OBVIOUS
  <2>3. unit \in Nat \ {0} /\ of \in [1..m -> Nat] /\ \A x \in 1..m : x * of[x] = unit
    BY <2>2 DEF Reciprocal
  <2> DEFINE next == [x \in 1..(m + 1) |-> IF x = m + 1 THEN unit ELSE of[x] * (m + 1)]
  <2>4. ASSUME NEW x \in 1..(m + 1)
        PROVE  next[x] \in Nat /\ x * next[x] = unit * (m + 1)
    <3>1. CASE x = m + 1
      BY <2>1, <2>3, <3>1
    <3>2. CASE x # m + 1
      <4>1. x \in 1..m /\ of[x] \in Nat /\ x \in Nat /\ x * of[x] = unit
        BY <2>1, <2>3, <3>2
      <4>2. next[x] = of[x] * (m + 1)
        BY <3>2
      <4>3. x * (of[x] * (m + 1)) = (x * of[x]) * (m + 1)
        BY <2>1, <4>1
      <4> QED BY <2>1, <4>1, <4>2, <4>3
    <3> QED BY <3>1, <3>2
  <2>5. unit * (m + 1) \in Nat \ {0}
    BY <2>1, <2>3
  <2>6. Reciprocal(m + 1, unit * (m + 1), next)
    BY <2>4, <2>5 DEF Reciprocal
  <2> HIDE DEF next
  <2>7. \E u, o : Reciprocal(m + 1, u, o)
    BY <2>6
  <2> QED BY <2>1, <2>7
<1>3. P = Nat
  <2>1. P \in SUBSET Nat
    OBVIOUS
  <2> HIDE DEF P
  <2> QED BY <1>1, <1>2, <2>1, Induction
<1> QED BY <1>3

\* A reciprocal falls as the price rises.
LEMMA ReciprocalFalls ==
    ASSUME NEW n, NEW unit, NEW of, Reciprocal(n, unit, of), NEW p \in 1..n, NEW q \in 1..n
    PROVE  /\ of[p] \in Nat \ {0} /\ of[q] \in Nat \ {0}
           /\ p < q => of[q] < of[p]
<1>1. /\ unit \in Nat \ {0} /\ of[p] \in Nat /\ of[q] \in Nat /\ p \in Nat \ {0} /\ q \in Nat \ {0}
      /\ p * of[p] = unit /\ q * of[q] = unit
  BY DEF Reciprocal
<1> DEFINE x == of[p]
           y == of[q]
<1>2. x \in Nat /\ y \in Nat /\ p * x = unit /\ q * y = unit
  BY <1>1
<1> HIDE DEF x, y
<1>3. x # 0 /\ y # 0
  BY <1>1, <1>2
<1>4. ASSUME p < q, x <= y PROVE FALSE
  <2>1. p * x <= p * y
    BY <1>1, <1>2, <1>4, TimesMonotone
  <2>2. p * y < q * y
    BY <1>1, <1>2, <1>3, <1>4
  <2>3. p * x \in Nat /\ p * y \in Nat /\ q * y \in Nat
    BY <1>1, <1>2
  <2> QED BY <1>2, <2>1, <2>2, <2>3
<1>5. p < q => y < x
  BY <1>2, <1>4
<1> QED BY <1>2, <1>3, <1>5 DEF x, y

\* Two numbers compare as they do in another unit.
LEMMA UnitsAgree ==
    ASSUME NEW a \in Int, NEW b \in Int, NEW x \in Int, NEW y \in Int, NEW t \in Nat \ {0}, NEW m \in Nat \ {0},
           a * t = x * m, b * t = y * m
    PROVE  /\ a <= b => x <= y
           /\ a < b => x < y
           /\ b <= a => y <= x
<1>1. ASSUME a <= b, y < x PROVE FALSE
  <2>1. y * m < x * m /\ a * t <= b * t
    BY <1>1
  <2> QED BY <2>1
<1>2. ASSUME a < b, y <= x PROVE FALSE
  <2>1. y * m <= x * m /\ a * t < b * t
    BY <1>2
  <2> QED BY <2>1
<1>3. ASSUME b <= a, x < y PROVE FALSE
  <2>1. x * m < y * m /\ b * t <= a * t
    BY <1>3
  <2> QED BY <2>1
<1> QED BY <1>1, <1>2, <1>3

\* What liquidity gives between two prices, in the unit: x is at most, less than
\* or at least that many tokens.
LEMMA ScaledBetween ==
    ASSUME NEW n, NEW unit, NEW of, Reciprocal(n, unit, of), NEW p \in 1..n, NEW q \in 1..n,
           NEW liquidity \in Nat, NEW x \in Int
    PROVE  /\ x * (p * q) <= liquidity * (q - p) => x * unit <= liquidity * (of[p] - of[q])
           /\ x * (p * q) < liquidity * (q - p) => x * unit < liquidity * (of[p] - of[q])
           /\ liquidity * (q - p) < x * (p * q) => liquidity * (of[p] - of[q]) < x * unit
           /\ liquidity * (q - p) <= x * (p * q) => liquidity * (of[p] - of[q]) <= x * unit
<1> DEFINE u == of[p]
           v == of[q]
<1>1. /\ unit \in Nat \ {0} /\ u \in Nat \ {0} /\ v \in Nat \ {0} /\ p \in Nat /\ q \in Nat
      /\ p * u = unit /\ q * v = unit
  BY ReciprocalFalls DEF Reciprocal
<1> HIDE DEF u, v
<1>2. u * v \in Nat \ {0}
  BY <1>1
<1>3. (x * (p * q)) * (u * v) = (x * unit) * unit
  <2>1. (x * (p * q)) * (u * v) = x * ((p * u) * (q * v))
    BY <1>1
  <2>2. x * (unit * unit) = (x * unit) * unit
    BY <1>1
  <2> QED BY <1>1, <2>1, <2>2
<1>4. (liquidity * (q - p)) * (u * v) = (liquidity * (u - v)) * unit
  <2>1. (q - p) * (u * v) = (q * v) * u - (p * u) * v
    BY <1>1
  <2>2. (q * v) * u - (p * u) * v = (u - v) * unit
    BY <1>1
  <2>3. (liquidity * (q - p)) * (u * v) = liquidity * ((q - p) * (u * v))
    BY <1>1
  <2>4. liquidity * ((u - v) * unit) = (liquidity * (u - v)) * unit
    BY <1>1
  <2> QED BY <2>1, <2>2, <2>3, <2>4
<1> DEFINE a == x * (p * q)
           b == liquidity * (q - p)
           c == x * unit
           d == liquidity * (u - v)
<1>5. a \in Int /\ b \in Int /\ c \in Int /\ d \in Int
  BY <1>1
<1>6. a * (u * v) = c * unit /\ b * (u * v) = d * unit
  BY <1>3, <1>4
<1> HIDE DEF a, b, c, d
<1> DEFINE t == u * v
<1>7. t \in Nat \ {0} /\ a * t = c * unit /\ b * t = d * unit
  BY <1>2, <1>6
<1> HIDE DEF t
<1>8. (a <= b => c <= d) /\ (a < b => c < d) /\ (b <= a => d <= c)
  BY <1>1, <1>5, <1>7, UnitsAgree
<1>9. b < a => d < c
  BY <1>1, <1>5, <1>7, UnitsAgree
<1> QED BY <1>8, <1>9 DEF a, b, c, d, u, v

-----------------------------------------------------------------------------
(* What a segment holds                                                     *)

\* x is h units and less than one more.
Floors(h, x, unit) == h \in Nat /\ h * unit <= x /\ x < (h + 1) * unit

\* A difference, and what it is rounded up and down to.
LEMMA RoundedDelta ==
    ASSUME NEW x \in Nat, NEW y \in Nat \ {0}
    PROVE  /\ Floors(x \div y, x, y)
           /\ div_ceil(x, y) \in Nat /\ x <= div_ceil(x, y) * y /\ (div_ceil(x, y) - 1) * y < x
<1>1. x + y - 1 \in Nat /\ div_ceil(x, y) = (x + y - 1) \div y
  BY DEF div_ceil
<1> DEFINE c == div_ceil(x, y)
           d == x \div y
<1>2. c \in Nat /\ c * y <= x + y - 1 /\ x + y - 1 < c * y + y
  BY <1>1, DivBounds
<1>3. d \in Nat /\ d * y <= x /\ x < d * y + y
  BY DivBounds
<1> HIDE DEF c, d
<1>4. (d + 1) * y = d * y + y /\ (c - 1) * y = c * y - y /\ c * y \in Nat /\ d * y \in Nat
  BY <1>2, <1>3
<1>5. x <= c * y /\ (c - 1) * y < x
  BY <1>2, <1>4
<1>6. Floors(d, x, y)
  BY <1>3, <1>4 DEF Floors
<1> QED BY <1>2, <1>5, <1>6 DEF c, d

\* Token a between two prices, in the unit.
LEMMA DeltaA ==
    ASSUME NEW n, NEW unit, NEW of, Reciprocal(n, unit, of), NEW p \in 1..n, NEW q \in 1..n, p <= q,
           NEW liquidity \in Nat
    PROVE  /\ Floors(delta_a(p, q, liquidity, FALSE), liquidity * (of[p] - of[q]), unit)
           /\ delta_a(p, q, liquidity, TRUE) \in Nat
           /\ liquidity * (of[p] - of[q]) <= delta_a(p, q, liquidity, TRUE) * unit
<1> DEFINE x == liquidity * (q - p)
           y == p * q
           d == x \div y
           c == div_ceil(x, y)
<1>1. x \in Nat /\ y \in Nat \ {0}
  BY TimesMonotone
<1>2. delta_a(p, q, liquidity, FALSE) = d /\ delta_a(p, q, liquidity, TRUE) = c
  BY DEF delta_a
<1>3. Floors(d, x, y) /\ c \in Nat /\ x <= c * y
  BY <1>1, RoundedDelta
<1> HIDE DEF d, c
<1>4. d \in Nat /\ d * (p * q) <= liquidity * (q - p) /\ liquidity * (q - p) < (d + 1) * (p * q)
  BY <1>3 DEF Floors
<1>5. d * unit <= liquidity * (of[p] - of[q])
  BY <1>4, ScaledBetween
<1>6. liquidity * (of[p] - of[q]) < (d + 1) * unit
  <2>1. d + 1 \in Int
    BY <1>4
  <2> QED BY <1>4, <2>1, ScaledBetween
<1>7. liquidity * (of[p] - of[q]) <= c * unit
  BY <1>3, ScaledBetween
<1> QED BY <1>2, <1>3, <1>4, <1>5, <1>6, <1>7 DEF Floors

\* Token b is a difference of prices as it is.
LEMMA DeltaB ==
    ASSUME NEW p \in Nat, NEW q \in Nat, p <= q, NEW liquidity \in Nat
    PROVE  /\ Floors(delta_b(p, q, liquidity, FALSE), liquidity * (q - p), Q64 * Q64)
           /\ delta_b(p, q, liquidity, TRUE) \in Nat
           /\ liquidity * (q - p) <= delta_b(p, q, liquidity, TRUE) * (Q64 * Q64)
<1>1. Q64 * Q64 \in Nat \ {0}
  BY DammAssumption
<1>2. liquidity * (q - p) \in Nat
  BY TimesMonotone
<1> QED BY <1>1, <1>2, RoundedDelta DEF delta_b

\* A segment whose prices are among the first n.
Among(segment, n) ==
    /\ segment.lower \in Nat \ {0} /\ segment.upper \in Nat /\ segment.upper <= n
    /\ segment.liquidity \in Nat \ {0}

\* What a segment holds of a side at a price, in the unit of the side.
Exactly(segment, of, price, side) ==
    LET lower == IF side = "base" THEN AtLeast(segment.lower, price) ELSE segment.lower
        upper == IF side = "base" THEN segment.upper ELSE AtMost(segment.upper, price)
    IN  IF lower >= upper THEN 0
        ELSE segment.liquidity * (IF side = "base" THEN of[lower] - of[upper] ELSE upper - lower)

UnitOf(unit, side) == IF side = "base" THEN unit ELSE Q64 * Q64

\* A segment holds whole tokens of it.
LEMMA HeldFloors ==
    ASSUME NEW n, NEW unit, NEW of, Reciprocal(n, unit, of), NEW segment, Among(segment, n),
           NEW price \in 1..n, NEW side \in Sides
    PROVE  /\ Exactly(segment, of, price, side) \in Int
           /\ Floors(HeldBy(segment, price, side), Exactly(segment, of, price, side), UnitOf(unit, side))
<1> DEFINE lower == IF side = "base" THEN AtLeast(segment.lower, price) ELSE segment.lower
           upper == IF side = "base" THEN segment.upper ELSE AtMost(segment.upper, price)
           k == segment.liquidity
<1>1. lower \in Nat \ {0} /\ upper \in Nat /\ upper <= n /\ k \in Nat /\ n \in Nat
  BY DEF Among, AtLeast, AtMost, Reciprocal
<1>2. /\ lower >= upper => Exactly(segment, of, price, side) = 0 /\ HeldBy(segment, price, side) = 0
      /\ ~(lower >= upper) /\ side = "base" =>
            /\ Exactly(segment, of, price, side) = k * (of[lower] - of[upper])
            /\ HeldBy(segment, price, side) = delta_a(lower, upper, k, FALSE)
      /\ ~(lower >= upper) /\ side # "base" =>
            /\ Exactly(segment, of, price, side) = k * (upper - lower)
            /\ HeldBy(segment, price, side) = delta_b(lower, upper, k, FALSE)
  BY DEF Exactly, HeldBy
<1> HIDE DEF lower, upper, k
<1>4. UnitOf(unit, side) \in Nat \ {0}
  BY DammAssumption DEF UnitOf, Reciprocal
<1>5. CASE lower >= upper
  BY <1>2, <1>4, <1>5 DEF Floors
<1>6. CASE ~(lower >= upper) /\ side = "base"
  <2>1. lower \in 1..n /\ upper \in 1..n /\ lower <= upper
    BY <1>1, <1>6
  <2>2. of[lower] \in Nat /\ of[upper] \in Nat
    BY <2>1 DEF Reciprocal
  <2>3. Floors(delta_a(lower, upper, k, FALSE), k * (of[lower] - of[upper]), unit)
    BY <1>1, <2>1, DeltaA
  <2>4. k * (of[lower] - of[upper]) \in Int
    BY <1>1, <2>2
  <2> QED BY <1>2, <1>6, <2>3, <2>4 DEF UnitOf
<1>7. CASE ~(lower >= upper) /\ side # "base"
  <2>1. lower <= upper
    BY <1>1, <1>7
  <2>2. Floors(delta_b(lower, upper, k, FALSE), k * (upper - lower), Q64 * Q64)
    BY <1>1, <2>1, DeltaB
  <2>3. k * (upper - lower) \in Int
    BY <1>1
  <2> QED BY <1>2, <1>7, <2>2, <2>3 DEF UnitOf
<1> QED BY <1>5, <1>6, <1>7

\* Whole tokens that come in keep up with what is held.
LEMMA FloorsFollow ==
    ASSUME NEW unit \in Nat \ {0}, NEW x \in Int, NEW y \in Int, NEW g, NEW h, Floors(g, x, unit), Floors(h, y, unit),
           NEW change \in Int, y - x <= change * unit
    PROVE  h <= g + change
<1>1. g \in Nat /\ h \in Nat /\ x < (g + 1) * unit /\ h * unit <= y
  BY DEF Floors
<1> SUFFICES ASSUME g + change < h PROVE FALSE
  BY <1>1
<1>2. g + change + 1 <= h
  BY <1>1
<1>3. (g + change + 1) * unit <= h * unit
  BY <1>1, <1>2
<1>4. (g + change + 1) * unit = (g + 1) * unit + change * unit
  BY <1>1
<1> QED BY <1>1, <1>3, <1>4

\* Between two prices of a segment it holds the difference.
LEMMA HeldBetween ==
    ASSUME NEW n, NEW unit, NEW of, Reciprocal(n, unit, of), NEW segment, Among(segment, n),
           NEW p \in segment.lower..segment.upper, NEW q \in segment.lower..segment.upper
    PROVE  /\ Exactly(segment, of, q, "base") - Exactly(segment, of, p, "base") = segment.liquidity * (of[q] - of[p])
           /\ Exactly(segment, of, q, "quote") - Exactly(segment, of, p, "quote") = segment.liquidity * (q - p)
<1> DEFINE lower == segment.lower
           upper == segment.upper
           k == segment.liquidity
<1>1. lower \in Nat \ {0} /\ upper \in Nat /\ upper <= n /\ k \in Nat /\ n \in Nat
  BY DEF Among, Reciprocal
<1>2. p \in 1..n /\ q \in 1..n /\ lower <= p /\ p <= upper /\ lower <= q /\ q <= upper /\ upper \in 1..n
  BY <1>1
<1>3. \A x \in 1..n : of[x] \in Nat
  BY DEF Reciprocal
<1>4. ASSUME NEW x \in 1..n, lower <= x, x <= upper
      PROVE  /\ Exactly(segment, of, x, "base") = k * (of[x] - of[upper])
             /\ Exactly(segment, of, x, "quote") = k * (x - lower)
  <2>1. AtLeast(lower, x) = x /\ AtMost(upper, x) = x
    BY <1>1, <1>4 DEF AtLeast, AtMost
  <2>2. /\ x >= upper => Exactly(segment, of, x, "base") = 0
        /\ ~(x >= upper) => Exactly(segment, of, x, "base") = k * (of[x] - of[upper])
    BY <2>1 DEF Exactly
  <2>3. /\ lower >= x => Exactly(segment, of, x, "quote") = 0
        /\ ~(lower >= x) => Exactly(segment, of, x, "quote") = k * (x - lower)
    BY <2>1 DEF Exactly
  <2> HIDE DEF lower, upper, k
  <2>4. x >= upper => x = upper /\ k * (of[x] - of[upper]) = 0
    BY <1>1, <1>2, <1>3, <1>4
  <2>5. lower >= x => x = lower /\ k * (x - lower) = 0
    BY <1>1, <1>4
  <2> QED BY <2>2, <2>3, <2>4, <2>5
<1> HIDE DEF lower, upper, k
<1>5. /\ Exactly(segment, of, q, "base") = k * (of[q] - of[upper]) /\ Exactly(segment, of, p, "base") = k * (of[p] - of[upper])
      /\ Exactly(segment, of, q, "quote") = k * (q - lower) /\ Exactly(segment, of, p, "quote") = k * (p - lower)
  BY <1>2, <1>4
<1> DEFINE a == of[p]
           b == of[q]
           c == of[upper]
<1>6. a \in Nat /\ b \in Nat /\ c \in Nat /\ p \in Int /\ q \in Int
  BY <1>2, <1>3
<1> HIDE DEF a, b, c
<1>7. k * (b - c) - k * (a - c) = k * (b - a) /\ k * (q - lower) - k * (p - lower) = k * (q - p)
  BY <1>1, <1>6
<1> QED BY <1>5, <1>7 DEF a, b, c, k

\* Outside of it, nothing changes.
LEMMA HeldOutside ==
    ASSUME NEW n, NEW of, NEW segment, Among(segment, n), NEW p \in Nat, NEW q \in Nat,
           (p <= segment.lower /\ q <= segment.lower) \/ (segment.upper <= p /\ segment.upper <= q), NEW side \in Sides
    PROVE  /\ Exactly(segment, of, q, side) = Exactly(segment, of, p, side)
           /\ HeldBy(segment, q, side) = HeldBy(segment, p, side)
<1>1. segment.lower \in Nat \ {0} /\ segment.upper \in Nat
  BY DEF Among
<1>2. CASE p <= segment.lower /\ q <= segment.lower
  <2>1. AtLeast(segment.lower, p) = segment.lower /\ AtLeast(segment.lower, q) = segment.lower
    BY <1>1, <1>2 DEF AtLeast
  <2>2. segment.lower >= AtMost(segment.upper, p) /\ segment.lower >= AtMost(segment.upper, q)
    BY <1>1, <1>2 DEF AtMost
  <2> QED BY <2>1, <2>2 DEF Exactly, HeldBy
<1>3. CASE segment.upper <= p /\ segment.upper <= q
  <2>1. AtMost(segment.upper, p) = segment.upper /\ AtMost(segment.upper, q) = segment.upper
    BY <1>1, <1>3 DEF AtMost
  <2>2. AtLeast(segment.lower, p) >= segment.upper /\ AtLeast(segment.lower, q) >= segment.upper
    BY <1>1, <1>3 DEF AtLeast
  <2> QED BY <2>1, <2>2 DEF Exactly, HeldBy
<1> QED BY <1>2, <1>3

-----------------------------------------------------------------------------
(* Sums over the segments                                                   *)

\* A sum is reached one term at a time.
LEMMA SumUnfolds ==
    ASSUME NEW n \in Nat, NEW f
    PROVE  \E t : /\ t[0] = 0
                  /\ \A k \in 1..n : t[k] = t[k - 1] + f[k]
                  /\ SumTo(n, f) = t[n]
<1> DEFINE Recurs(t, m) == t = [k \in 0..m |-> IF k = 0 THEN 0 ELSE t[k - 1] + f[k]]
           P == {m \in Nat : \E t : Recurs(t, m)}
<1>1. 0 \in P
  BY Recurs([k \in 0..0 |-> 0], 0)
<1>2. ASSUME NEW m \in P
      PROVE  m + 1 \in P
  <2>1. m \in Nat /\ \E t : Recurs(t, m)
    OBVIOUS
  <2>2. PICK t : Recurs(t, m)
    BY <2>1
  <2> DEFINE g == [k \in 0..(m + 1) |-> IF k = m + 1 THEN t[m] + f[m + 1] ELSE t[k]]
  <2>3. ASSUME NEW k \in 0..(m + 1)
        PROVE  g[k] = IF k = 0 THEN 0 ELSE g[k - 1] + f[k]
    <3>1. CASE k = m + 1
      BY <3>1, <2>1
    <3>2. CASE k # m + 1
      BY <3>2, <2>1, <2>2
    <3> QED BY <3>1, <3>2
  <2>4. Recurs(g, m + 1)
    BY <2>3
  <2> HIDE DEF g
  <2>5. \E h : Recurs(h, m + 1)
    BY <2>4
  <2> HIDE DEF Recurs
  <2> QED BY <2>1, <2>5
<1>3. P = Nat
  <2>1. P \in SUBSET Nat
    OBVIOUS
  <2> HIDE DEF P
  <2> QED BY <1>1, <1>2, <2>1, Induction
<1>4. \E t : Recurs(t, n)
  BY <1>3
<1> DEFINE t == CHOOSE t : Recurs(t, n)
<1>5. Recurs(t, n)
  BY Zenon, <1>4
<1>6. SumTo(n, f) = t[n]
  BY DEF SumTo
<1> HIDE DEF t
<1> QED BY <1>5, <1>6

\* A sum of integers is one, and of naturals.
LEMMA SumType ==
    ASSUME NEW n \in Nat, NEW f
    PROVE  /\ (\A k \in 1..n : f[k] \in Int) => SumTo(n, f) \in Int
           /\ (\A k \in 1..n : f[k] \in Nat) => SumTo(n, f) \in Nat
<1>1. PICK t : t[0] = 0 /\ (\A k \in 1..n : t[k] = t[k - 1] + f[k]) /\ SumTo(n, f) = t[n]
  BY SumUnfolds
<1>2. ASSUME NEW S, S = Int \/ S = Nat, \A k \in 1..n : f[k] \in S
      PROVE  t[n] \in S
  <2> DEFINE P == {m \in Nat : m <= n => t[m] \in S}
  <2>1. 0 \in P
    BY <1>1, <1>2
  <2>2. ASSUME NEW m \in P PROVE m + 1 \in P
    <3>1. m \in Nat /\ (m <= n => t[m] \in S)
      OBVIOUS
    <3>2. m + 1 <= n => m + 1 \in 1..n /\ m + 1 - 1 = m /\ m <= n
      BY <3>1
    <3>3. m + 1 <= n => t[m + 1] = t[m] + f[m + 1] /\ t[m] \in S /\ f[m + 1] \in S
      BY <1>1, <1>2, <3>1, <3>2
    <3> QED BY <1>2, <3>1, <3>3
  <2>3. P = Nat
    <3>1. P \in SUBSET Nat
      OBVIOUS
    <3> HIDE DEF P
    <3> QED BY <2>1, <2>2, <3>1, Induction
  <2> QED BY <2>3
<1> QED BY <1>1, <1>2

\* Where no other term falls, a sum grows as much as one term does.
LEMMA SumGrows ==
    ASSUME NEW n \in Nat, NEW f, NEW g, \A k \in 1..n : f[k] \in Int /\ g[k] \in Int,
           NEW i \in 1..n, \A k \in 1..n : k # i => f[k] <= g[k]
    PROVE  SumTo(n, f) + (g[i] - f[i]) <= SumTo(n, g)
<1>1. PICK t : t[0] = 0 /\ (\A k \in 1..n : t[k] = t[k - 1] + f[k]) /\ SumTo(n, f) = t[n]
  BY SumUnfolds
<1>2. PICK u : u[0] = 0 /\ (\A k \in 1..n : u[k] = u[k - 1] + g[k]) /\ SumTo(n, g) = u[n]
  BY SumUnfolds
<1> DEFINE Grown(m) == /\ t[m] \in Int /\ u[m] \in Int
                       /\ t[m] + (IF m < i THEN 0 ELSE g[i] - f[i]) <= u[m]
           P == {m \in Nat : m <= n => Grown(m)}
<1>3. f[i] \in Int /\ g[i] \in Int /\ i \in Nat \ {0} /\ i <= n
  OBVIOUS
<1>4. 0 \in P
  BY <1>1, <1>2, <1>3
<1>5. ASSUME NEW m \in P PROVE m + 1 \in P
  <2>1. m \in Nat /\ (m <= n => Grown(m))
    OBVIOUS
  <2> SUFFICES ASSUME m + 1 <= n PROVE Grown(m + 1)
    BY <2>1
  <2>2. m + 1 \in 1..n /\ m + 1 - 1 = m /\ m <= n
    BY <2>1
  <2>3. /\ t[m + 1] = t[m] + f[m + 1] /\ u[m + 1] = u[m] + g[m + 1]
        /\ f[m + 1] \in Int /\ g[m + 1] \in Int /\ (m + 1 # i => f[m + 1] <= g[m + 1])
    BY <1>1, <1>2, <2>2
  <2>4. CASE m + 1 = i
    BY <1>3, <2>1, <2>2, <2>3, <2>4
  <2>5. CASE m + 1 # i
    BY <1>3, <2>1, <2>2, <2>3, <2>5
  <2> QED BY <2>4, <2>5
<1>6. P = Nat
  <2>1. P \in SUBSET Nat
    OBVIOUS
  <2> HIDE DEF P
  <2> QED BY <1>4, <1>5, <2>1, Induction
<1>7. Grown(n) /\ ~(n < i)
  BY <1>3, <1>6
<1> QED BY <1>1, <1>2, <1>7

\* Where no other term changes, it changes as much.
LEMMA SumChanges ==
    ASSUME NEW n \in Nat, NEW f, NEW g, \A k \in 1..n : f[k] \in Int /\ g[k] \in Int,
           NEW i \in 1..n, \A k \in 1..n : k # i => f[k] = g[k]
    PROVE  /\ SumTo(n, f) \in Int /\ SumTo(n, g) \in Int
           /\ SumTo(n, g) - SumTo(n, f) = g[i] - f[i]
<1>1. SumTo(n, f) \in Int /\ SumTo(n, g) \in Int /\ f[i] \in Int /\ g[i] \in Int
  BY SumType
<1>2. \A k \in 1..n : k # i => f[k] <= g[k] /\ g[k] <= f[k]
  OBVIOUS
<1>3. SumTo(n, f) + (g[i] - f[i]) <= SumTo(n, g)
  BY <1>2, SumGrows
<1>4. SumTo(n, g) + (f[i] - g[i]) <= SumTo(n, f)
  <2>1. \A k \in 1..n : k # i => g[k] <= f[k]
    BY <1>2
  <2>2. \A k \in 1..n : g[k] \in Int /\ f[k] \in Int
    OBVIOUS
  <2> QED BY <2>1, <2>2, SumGrows
<1> QED BY <1>1, <1>3, <1>4

-----------------------------------------------------------------------------
(* Moves along a curve of segments                                          *)

Lowest(p) == Segment(p, 1).lower
Highest(p) == Segment(p, Segments(p)).upper

\* What a sequence of some set has in its places.
LEMMA Elements ==
    ASSUME NEW S, NEW s \in Seq(S)
    PROVE  Len(s) \in Nat /\ DOMAIN s = 1..Len(s) /\ \A k \in 1..Len(s) : s[k] \in S
OBVIOUS

\* The prices of a bonding curve rise.
LEMMA CurveRises ==
    ASSUME NEW p, WellFormed(p), p.kind = "dbc", NEW i \in 1..Len(p.curve), NEW j \in 1..Len(p.curve), i <= j
    PROVE  p.curve[i].price \in Nat /\ p.curve[j].price \in Nat /\ p.curve[i].price <= p.curve[j].price
<1>1. /\ Len(p.curve) \in Nat /\ DOMAIN p.curve = 1..Len(p.curve)
      /\ \A k \in 1..Len(p.curve) : p.curve[k].price \in Nat
      /\ \A k \in 2..Len(p.curve) : p.curve[k - 1].price < p.curve[k].price
  <2>1. p.curve \in Seq([price : Nat, liquidity : Nat \ {0}])
    BY DEF WellFormed
  <2> DEFINE Points == [price : Nat, liquidity : Nat \ {0}]
             c == p.curve
  <2>0. c \in Seq(Points)
    BY <2>1
  <2> HIDE DEF Points, c
  <2>2. Len(c) \in Nat /\ DOMAIN c = 1..Len(c) /\ \A k \in 1..Len(c) : c[k] \in Points
    BY <2>0, Elements
  <2> USE DEF c
  <2>3. \A k \in 1..Len(p.curve) : p.curve[k].price \in Nat
    BY <2>2 DEF Points
  <2>4. \A k \in DOMAIN p.curve : (IF k = 1 THEN p.sqrt_start ELSE p.curve[k - 1].price) < p.curve[k].price
    BY DEF WellFormed
  <2>5. \A k \in 2..Len(p.curve) : k \in DOMAIN p.curve /\ k # 1
    BY <2>2
  <2>6. \A k \in 2..Len(p.curve) : p.curve[k - 1].price < p.curve[k].price
    BY <2>4, <2>5
  <2> QED BY <2>2, <2>3, <2>6
<1> DEFINE P == {m \in Nat : i + m <= Len(p.curve) => p.curve[i].price <= p.curve[i + m].price}
<1>2. 0 \in P
  BY <1>1
<1>3. ASSUME NEW m \in P PROVE m + 1 \in P
  <2>1. m \in Nat /\ (i + m <= Len(p.curve) => p.curve[i].price <= p.curve[i + m].price)
    OBVIOUS
  <2> SUFFICES ASSUME i + (m + 1) <= Len(p.curve) PROVE p.curve[i].price <= p.curve[i + (m + 1)].price
    BY <2>1
  <2>2. i + m \in 1..Len(p.curve) /\ i + (m + 1) \in 2..Len(p.curve) /\ i + (m + 1) - 1 = i + m
    BY <1>1, <2>1
  <2> DEFINE k == i + (m + 1)
  <2>5. k \in 2..Len(p.curve) /\ k - 1 = i + m
    BY <2>2
  <2> HIDE DEF k
  <2>6. p.curve[k - 1].price < p.curve[k].price
    BY <1>1, <2>5
  <2>3. p.curve[i + m].price < p.curve[i + (m + 1)].price
    BY <2>5, <2>6 DEF k
  <2>4. p.curve[i].price \in Nat /\ p.curve[i + m].price \in Nat /\ p.curve[i + (m + 1)].price \in Nat
    BY <1>1, <2>2, SMTT(30)
  <2>7. p.curve[i].price <= p.curve[i + m].price
    BY <2>1, <2>2
  <2>8. \A x, y, z \in Nat : x <= y /\ y < z => x <= z
    OBVIOUS
  <2> QED BY Zenon, <2>3, <2>4, <2>7, <2>8
<1>4. P = Nat
  <2>1. P \in SUBSET Nat
    OBVIOUS
  <2> HIDE DEF P
  <2> QED BY <1>2, <1>3, <2>1, Induction
<1>5. j - i \in Nat /\ i + (j - i) = j
  BY <1>1
<1>6. j - i \in P
  <2> HIDE DEF P
  <2> QED BY <1>4, <1>5
<1>7. p.curve[i].price <= p.curve[i + (j - i)].price
  BY <1>1, <1>5, <1>6
<1> QED BY <1>1, <1>5, <1>7

\* The segments follow each other up to the highest price.
LEMMA SegmentsFollow ==
    ASSUME NEW p, WellFormed(p), Ranged(p)
    PROVE  /\ Segments(p) \in Nat \ {0} /\ Lowest(p) \in Nat \ {0} /\ Highest(p) \in Nat
           /\ \A i \in 1..Segments(p) : Among(Segment(p, i), Highest(p))
           /\ \A i, j \in 1..Segments(p) : i < j => Segment(p, i).upper <= Segment(p, j).lower
<1>1. CASE p.kind = "dbc"
  <2> DEFINE n == Len(p.curve)
  <2>1. /\ p.sqrt_start \in Nat \ {0} /\ p.stop \in Nat /\ n \in Nat \ {0} /\ DOMAIN p.curve = 1..n
        /\ \A i \in 1..n : p.curve[i] \in [price : Nat, liquidity : Nat \ {0}]
    <3>1. p.curve \in Seq([price : Nat, liquidity : Nat \ {0}]) /\ p.curve # <<>>
      BY <1>1 DEF WellFormed
    <3>2. p.sqrt_start \in Nat \ {0} /\ p.stop \in Nat
      BY <1>1 DEF WellFormed
    <3> DEFINE Points == [price : Nat, liquidity : Nat \ {0}]
               c == p.curve
    <3>3. c \in Seq(Points) /\ c # <<>>
      BY <3>1
    <3> HIDE DEF Points, c
    <3>4. Len(c) \in Nat /\ DOMAIN c = 1..Len(c) /\ \A k \in 1..Len(c) : c[k] \in Points
      BY <3>3, Elements
    <3>5. Len(c) # 0
      BY <3>3
    <3> QED BY <3>2, <3>4, <3>5 DEF Points, c
  <2>2. \A i \in 1..n : /\ Segment(p, i).lower = IF i = 1 THEN p.sqrt_start ELSE p.curve[i - 1].price
                        /\ Segment(p, i).upper = AtMost(p.curve[i].price, p.stop)
                        /\ Segment(p, i).liquidity = p.curve[i].liquidity
    BY <1>1 DEF Segment
  <2>3. Segments(p) = n
    BY <1>1 DEF Segments
  <2>4. \A i \in 1..n : (IF i = 1 THEN p.sqrt_start ELSE p.curve[i - 1].price) < p.curve[i].price
    BY <1>1, <2>1 DEF WellFormed
  <2>5. \A i, j \in 1..n : i <= j => p.curve[i].price \in Nat /\ p.curve[i].price <= p.curve[j].price
    BY <1>1, CurveRises
  <2> HIDE DEF n
  <2>6. \A i \in 1..n : p.curve[i].price > 0 /\ p.curve[i].price \in Nat /\ p.curve[i].liquidity \in Nat \ {0}
    <3> SUFFICES ASSUME NEW i \in 1..n
                 PROVE  p.curve[i].price > 0 /\ p.curve[i].price \in Nat /\ p.curve[i].liquidity \in Nat \ {0}
      OBVIOUS
    <3>1. p.curve[i].price \in Nat /\ p.curve[i].liquidity \in Nat \ {0}
      BY <2>1
    <3>2. CASE i = 1
      BY <2>1, <2>4, <3>1, <3>2
    <3>3. CASE i # 1
      <4>1. i - 1 \in 1..n
        BY <2>1, <3>3
      <4>2. p.curve[i - 1].price \in Nat /\ p.curve[i - 1].price < p.curve[i].price
        BY <2>4, <2>5, <3>3, <4>1
      <4> QED BY <3>1, <4>2
    <3> QED BY <3>2, <3>3
  <2>7. \A i \in 1..n : Segment(p, i).lower \in Nat \ {0} /\ Segment(p, i).upper \in Nat /\ Segment(p, i).upper <= p.stop
    <3> SUFFICES ASSUME NEW i \in 1..n
                 PROVE  Segment(p, i).lower \in Nat \ {0} /\ Segment(p, i).upper \in Nat /\ Segment(p, i).upper <= p.stop
      OBVIOUS
    <3>1. i # 1 => i - 1 \in 1..n
      BY <2>1
    <3>2. i # 1 => p.curve[i - 1].price \in Nat \ {0}
      BY <2>6, <3>1
    <3>3. p.curve[i].price \in Nat
      BY <2>6, SMTT(30)
    <3>4. Segment(p, i).lower \in Nat \ {0}
      BY <2>1, <2>2, <3>2
    <3>5. Segment(p, i).upper = AtMost(p.curve[i].price, p.stop) /\ p.stop \in Nat
      BY <2>1, <2>2
    <3> QED BY <3>3, <3>4, <3>5 DEF AtMost
  <2>8. ASSUME NEW i \in 1..n, NEW j \in 1..n, i <= j
        PROVE  Segment(p, i).upper <= Segment(p, j).upper /\ (i < j => Segment(p, i).upper <= Segment(p, j).lower)
    <3>1. p.curve[i].price \in Nat /\ p.curve[j].price \in Nat /\ p.curve[i].price <= p.curve[j].price
      BY <2>5, <2>8
    <3>2. Segment(p, i).upper <= Segment(p, j).upper
      <4>1. Segment(p, i).upper = AtMost(p.curve[i].price, p.stop) /\ Segment(p, j).upper = AtMost(p.curve[j].price, p.stop)
        BY <2>2
      <4>2. p.stop \in Nat
        BY <2>1
      <4> QED BY <3>1, <4>1, <4>2 DEF AtMost
    <3>3. ASSUME i < j PROVE Segment(p, i).upper <= Segment(p, j).lower
      <4>1. j # 1 /\ j - 1 \in 1..n /\ i <= j - 1
        BY <2>1, <3>3
      <4>2. p.curve[i].price <= p.curve[j - 1].price /\ p.curve[j - 1].price \in Nat
        BY <2>5, <2>6, <4>1
      <4>3. Segment(p, j).lower = p.curve[j - 1].price
        BY <2>2, <4>1, SMTT(30)
      <4>4. Segment(p, i).upper <= p.curve[i].price
        BY <2>1, <2>2, <3>1 DEF AtMost
      <4>5. Segment(p, i).upper \in Nat
        BY <2>7
      <4> QED BY <3>1, <4>2, <4>3, <4>4, <4>5
    <3> QED BY <3>2, <3>3
  <2>9. Highest(p) = Segment(p, n).upper /\ n \in 1..n /\ 1 \in 1..n
    BY <2>1, <2>3 DEF Highest
  <2>10. \A i \in 1..n : Among(Segment(p, i), Highest(p))
    <3> SUFFICES ASSUME NEW i \in 1..n PROVE Among(Segment(p, i), Highest(p))
      OBVIOUS
    <3>1. Segment(p, i).upper <= Segment(p, n).upper
      BY <2>1, <2>8, <2>9
    <3> QED BY <2>2, <2>6, <2>7, <2>9, <3>1 DEF Among
  <2>11. Lowest(p) \in Nat \ {0} /\ Highest(p) \in Nat
    BY <2>7, <2>9 DEF Lowest
  <2>12. \A i, j \in 1..n : i < j => Segment(p, i).upper <= Segment(p, j).lower
    <3> SUFFICES ASSUME NEW i \in 1..n, NEW j \in 1..n, i < j PROVE Segment(p, i).upper <= Segment(p, j).lower
      OBVIOUS
    <3>1. i <= j
      BY <2>1
    <3> QED BY <2>8, <3>1
  <2>13. n \in Nat \ {0}
    BY <2>1
  <2> QED BY <2>3, <2>10, <2>11, <2>12, <2>13
<1>2. CASE p.kind # "dbc"
  <2>1. Segments(p) = 1
    BY <1>2 DEF Segments
  <2>2. /\ Segment(p, 1).lower = p.sqrt_min /\ Segment(p, 1).upper = p.sqrt_max
        /\ Segment(p, 1).liquidity = IF p.kind = "byreal" THEN p.liquidity * Q64 ELSE p.liquidity
    BY <1>2 DEF Segment
  <2>3. p.sqrt_min \in Nat \ {0} /\ p.sqrt_max \in Nat /\ p.liquidity \in Nat \ {0} /\ Q64 \in Nat \ {0}
    BY <1>2, DammAssumption DEF WellFormed, Ranged
  <2>4. Segment(p, 1).liquidity \in Nat \ {0}
    BY <2>2, <2>3
  <2>5. Highest(p) = Segment(p, 1).upper /\ Lowest(p) = Segment(p, 1).lower
    BY <2>1 DEF Highest, Lowest
  <2>6. Among(Segment(p, 1), Highest(p)) /\ Highest(p) \in Nat /\ Lowest(p) \in Nat \ {0}
    BY <2>2, <2>3, <2>4, <2>5 DEF Among
  <2>7. \A i \in 1..1 : i = 1
    OBVIOUS
  <2> QED BY <2>1, <2>6, <2>7
<1> QED BY <1>1, <1>2

\* The unit of a pool's prices and how often each divides it.
Unit(p) == CHOOSE unit : \E of : Reciprocal(Highest(p), unit, of)
Of(p) == CHOOSE of : Reciprocal(Highest(p), Unit(p), of)

\* The unit and the reciprocals of a pool are ones of each other.
LEMMA PoolReciprocal ==
    ASSUME NEW p, WellFormed(p), Ranged(p)
    PROVE  Reciprocal(Highest(p), Unit(p), Of(p))
<1>1. \E unit, of : Reciprocal(Highest(p), unit, of)
  BY SegmentsFollow, ReciprocalExists
<1>2. \E of : Reciprocal(Highest(p), Unit(p), of)
  BY <1>1 DEF Unit
<1> QED BY <1>2 DEF Of

Units(p, side) == UnitOf(Unit(p), side)

\* What all the segments hold of a side at a price, before rounding.
Whole(p, price, side) ==
    SumTo(Segments(p), [i \in 1..Segments(p) |-> Exactly(Segment(p, i), Of(p), price, side)])

\* A price moved while the vault of a side changed: by at least what the segments
\* hold more, rounded or not.
Kept(p, from, to, side, change) ==
    /\ Whole(p, to, side) - Whole(p, from, side) <= change * Units(p, side)
    /\ Standing(p, to, side) <= Standing(p, from, side) + change

Prices(p) == Lowest(p)..Highest(p)

\* A price of a pool is not zero.
LEMMA PriceType ==
    ASSUME NEW p, WellFormed(p), Ranged(p), NEW price \in Prices(p)
    PROVE  price \in 1..Highest(p) /\ price \in Nat \ {0}
BY SegmentsFollow DEF Prices

\* What a side holds at a price is counted in integers.
LEMMA WholeType ==
    ASSUME NEW p, WellFormed(p), Ranged(p), NEW price \in 1..Highest(p), NEW side \in Sides
    PROVE  Whole(p, price, side) \in Int /\ Standing(p, price, side) \in Nat /\ Units(p, side) \in Nat \ {0}
<1>1. /\ Segments(p) \in Nat /\ Highest(p) \in Nat /\ Lowest(p) \in Nat \ {0}
      /\ \A i \in 1..Segments(p) : Among(Segment(p, i), Highest(p))
  BY SegmentsFollow
<1>3. \A i \in 1..Segments(p) : /\ Exactly(Segment(p, i), Of(p), price, side) \in Int
                                /\ HeldBy(Segment(p, i), price, side) \in Nat
  BY <1>1, PoolReciprocal, HeldFloors DEF Floors
<1> DEFINE f == [i \in 1..Segments(p) |-> Exactly(Segment(p, i), Of(p), price, side)]
           g == [i \in 1..Segments(p) |-> HeldBy(Segment(p, i), price, side)]
<1>4. (\A i \in 1..Segments(p) : f[i] \in Int) /\ (\A i \in 1..Segments(p) : g[i] \in Nat)
  BY <1>3
<1>5. Whole(p, price, side) = SumTo(Segments(p), f) /\ Standing(p, price, side) = SumTo(Segments(p), g)
  BY DEF Whole, Standing
<1> HIDE DEF f, g
<1>6. SumTo(Segments(p), f) \in Int /\ SumTo(Segments(p), g) \in Nat
  BY <1>1, <1>4, SumType
<1>7. Units(p, side) \in Nat \ {0}
  BY PoolReciprocal, DammAssumption DEF Units, UnitOf, Reciprocal
<1> QED BY <1>5, <1>6, <1>7

\* A move within a segment is kept up with where the segment is.
LEMMA SegmentKeeps ==
    ASSUME NEW p, WellFormed(p), Ranged(p), NEW i \in 1..Segments(p), NEW side \in Sides,
           NEW from \in Segment(p, i).lower..Segment(p, i).upper, NEW to \in Segment(p, i).lower..Segment(p, i).upper,
           NEW change \in Int,
           Exactly(Segment(p, i), Of(p), to, side) - Exactly(Segment(p, i), Of(p), from, side) <= change * Units(p, side)
    PROVE  Kept(p, from, to, side, change)
<1> DEFINE n == Segments(p)
<1>1. /\ n \in Nat /\ Highest(p) \in Nat
      /\ \A k \in 1..n : Among(Segment(p, k), Highest(p))
      /\ \A k, j \in 1..n : k < j => Segment(p, k).upper <= Segment(p, j).lower
  BY SegmentsFollow
<1>2. Reciprocal(Highest(p), Unit(p), Of(p)) /\ Units(p, side) \in Nat \ {0}
  BY PoolReciprocal, DammAssumption DEF Units, UnitOf, Reciprocal
<1>3. from \in 1..Highest(p) /\ to \in 1..Highest(p)
  BY <1>1 DEF Among
<1>4. ASSUME NEW price \in 1..Highest(p), NEW k \in 1..n
      PROVE  /\ Exactly(Segment(p, k), Of(p), price, side) \in Int /\ HeldBy(Segment(p, k), price, side) \in Int
             /\ Floors(HeldBy(Segment(p, k), price, side), Exactly(Segment(p, k), Of(p), price, side), Units(p, side))
  BY <1>1, <1>2, HeldFloors DEF Floors, Units
<1>5. ASSUME NEW k \in 1..n, k # i
      PROVE  /\ Exactly(Segment(p, k), Of(p), to, side) = Exactly(Segment(p, k), Of(p), from, side)
             /\ HeldBy(Segment(p, k), to, side) = HeldBy(Segment(p, k), from, side)
  <2>1. Among(Segment(p, k), Highest(p)) /\ Among(Segment(p, i), Highest(p)) /\ from \in Nat /\ to \in Nat
    BY <1>1, <1>3
  <2>2. k < i => Segment(p, k).upper <= from /\ Segment(p, k).upper <= to
    BY <1>1, <2>1 DEF Among
  <2>3. i < k => from <= Segment(p, k).lower /\ to <= Segment(p, k).lower
    BY <1>1, <2>1 DEF Among
  <2>4. k < i \/ i < k
    BY <1>1, <1>5
  <2>5. CASE k < i
    <3>1. Segment(p, k).upper <= from /\ Segment(p, k).upper <= to
      BY <2>2, <2>5
    <3> HIDE DEF n
    <3> QED BY <2>1, <3>1, HeldOutside
  <2>6. CASE i < k
    <3>1. from <= Segment(p, k).lower /\ to <= Segment(p, k).lower
      BY <2>3, <2>6
    <3> HIDE DEF n
    <3> QED BY <2>1, <3>1, HeldOutside
  <2> QED BY <2>4, <2>5, <2>6
<1> HIDE DEF n
<1> DEFINE f == [k \in 1..n |-> Exactly(Segment(p, k), Of(p), from, side)]
           g == [k \in 1..n |-> Exactly(Segment(p, k), Of(p), to, side)]
           h == [k \in 1..n |-> HeldBy(Segment(p, k), from, side)]
           l == [k \in 1..n |-> HeldBy(Segment(p, k), to, side)]
<1>6. i \in 1..n
  BY DEF n
<1>7. /\ Whole(p, from, side) = SumTo(n, f) /\ Whole(p, to, side) = SumTo(n, g)
      /\ Standing(p, from, side) = SumTo(n, h) /\ Standing(p, to, side) = SumTo(n, l)
  BY DEF Whole, Standing, n
<1>8. /\ \A k \in 1..n : f[k] \in Int /\ g[k] \in Int
      /\ \A k \in 1..n : h[k] \in Int /\ l[k] \in Int
      /\ \A k \in 1..n : k # i => f[k] = g[k]
      /\ \A k \in 1..n : k # i => h[k] = l[k]
  BY <1>3, <1>4, <1>5
<1>9. g[i] - f[i] <= change * Units(p, side)
  BY <1>6
<1>10. Floors(h[i], f[i], Units(p, side)) /\ Floors(l[i], g[i], Units(p, side)) /\ f[i] \in Int /\ g[i] \in Int
  BY <1>3, <1>4, <1>6
<1> HIDE DEF f, g, h, l
<1>11. l[i] <= h[i] + change /\ l[i] \in Int /\ h[i] \in Int
  BY <1>2, <1>6, <1>8, <1>9, <1>10, FloorsFollow
<1>12. SumTo(n, f) \in Int /\ SumTo(n, g) \in Int /\ SumTo(n, g) - SumTo(n, f) = g[i] - f[i]
  BY <1>1, <1>6, <1>8, SumChanges
<1>13. SumTo(n, h) \in Int /\ SumTo(n, l) \in Int /\ SumTo(n, l) - SumTo(n, h) = l[i] - h[i]
  BY <1>1, <1>6, <1>8, SumChanges
<1>14. SumTo(n, l) <= SumTo(n, h) + change
  BY <1>11, <1>13
<1> QED BY <1>7, <1>9, <1>12, <1>14 DEF Kept

\* What a swap leaves behind: the vaults keep up with the segments on both sides.
Paid(p, from, to, side, credit, debit) ==
    /\ credit \in Nat /\ debit \in Nat
    /\ Kept(p, from, to, side, credit)
    /\ Kept(p, from, to, Across(side), -debit)

\* One move keeps up if its two parts do.
LEMMA KeptOnward ==
    ASSUME NEW p, WellFormed(p), Ranged(p), NEW a \in 1..Highest(p), NEW b \in 1..Highest(p), NEW c \in 1..Highest(p),
           NEW side \in Sides, NEW x \in Int, NEW y \in Int, Kept(p, a, b, side, x), Kept(p, b, c, side, y)
    PROVE  Kept(p, a, c, side, x + y)
<1> DEFINE wa == Whole(p, a, side)
           wb == Whole(p, b, side)
           wc == Whole(p, c, side)
           sa == Standing(p, a, side)
           sb == Standing(p, b, side)
           sc == Standing(p, c, side)
           u == Units(p, side)
<1>1. wa \in Int /\ wb \in Int /\ wc \in Int /\ sa \in Nat /\ sb \in Nat /\ sc \in Nat /\ u \in Nat \ {0}
  BY WholeType
<1>2. wb - wa <= x * u /\ wc - wb <= y * u /\ sb <= sa + x /\ sc <= sb + y
  BY DEF Kept
<1> HIDE DEF wa, wb, wc, sa, sb, sc, u
<1>3. x * u + y * u = (x + y) * u /\ x * u \in Int /\ y * u \in Int
  BY <1>1
<1>4. wc - wa <= (x + y) * u /\ sc <= sa + (x + y)
  BY <1>1, <1>2, <1>3
<1> QED BY <1>4 DEF Kept, wa, wc, sa, sc, u

\* What is paid for two moves on end is paid for the whole.
LEMMA PaidOnward ==
    ASSUME NEW p, WellFormed(p), Ranged(p), NEW a \in 1..Highest(p), NEW b \in 1..Highest(p), NEW c \in 1..Highest(p),
           NEW side \in Sides, NEW x, NEW y, NEW v, NEW w, Paid(p, a, b, side, x, v), Paid(p, b, c, side, y, w)
    PROVE  Paid(p, a, c, side, x + y, v + w)
<1>1. /\ x \in Nat /\ y \in Nat /\ v \in Nat /\ w \in Nat
      /\ Kept(p, a, b, side, x) /\ Kept(p, b, c, side, y)
      /\ Kept(p, a, b, Across(side), -v) /\ Kept(p, b, c, Across(side), -w)
  BY DEF Paid
<1>2. Kept(p, a, c, side, x + y)
  BY <1>1, KeptOnward
<1>3. -v \in Int /\ -w \in Int /\ Across(side) \in Sides /\ (-v) + (-w) = -(v + w)
  BY <1>1 DEF Sides, Across
<1>4. Kept(p, a, c, Across(side), (-v) + (-w))
  BY <1>1, <1>3, KeptOnward
<1> QED BY <1>1, <1>2, <1>3, <1>4 DEF Paid

\* More may be paid in, and less out.
LEMMA PaidMore ==
    ASSUME NEW p, WellFormed(p), Ranged(p), NEW a \in 1..Highest(p), NEW b \in 1..Highest(p),
           NEW side \in Sides, NEW x, NEW y \in Nat, NEW v, NEW w \in Nat, Paid(p, a, b, side, x, v), x <= y, w <= v
    PROVE  Paid(p, a, b, side, y, w)
<1>1. /\ x \in Nat /\ v \in Nat
      /\ Kept(p, a, b, side, x) /\ Kept(p, a, b, Across(side), -v)
  BY DEF Paid
<1>2. ASSUME NEW s \in Sides, NEW g \in Int, NEW h \in Int, g <= h, Kept(p, a, b, s, g)
      PROVE  Kept(p, a, b, s, h)
  <2> DEFINE wa == Whole(p, a, s)
             wb == Whole(p, b, s)
             sa == Standing(p, a, s)
             sb == Standing(p, b, s)
             u == Units(p, s)
  <2>1. wa \in Int /\ wb \in Int /\ sa \in Nat /\ sb \in Nat /\ u \in Nat \ {0}
    BY WholeType
  <2>2. wb - wa <= g * u /\ sb <= sa + g
    BY <1>2 DEF Kept
  <2> HIDE DEF wa, wb, sa, sb, u
  <2>3. g * u <= h * u /\ g * u \in Int /\ h * u \in Int
    BY <1>2, <2>1
  <2>4. wb - wa <= h * u /\ sb <= sa + h
    BY <1>2, <2>1, <2>2, <2>3
  <2> QED BY <2>4 DEF Kept, wa, wb, sa, sb, u
<1>3. Kept(p, a, b, side, y)
  BY <1>1, <1>2
<1>4. -v \in Int /\ -w \in Int /\ -v <= -w /\ Across(side) \in Sides
  BY <1>1 DEF Sides, Across
<1>5. Kept(p, a, b, Across(side), -w)
  BY <1>1, <1>2, <1>4
<1> QED BY <1>3, <1>5 DEF Paid

\* Where the price stays nothing need be paid.
LEMMA PaidNothing ==
    ASSUME NEW p, WellFormed(p), Ranged(p), NEW a \in 1..Highest(p), NEW side \in Sides, NEW none \in Nat, none <= 0
    PROVE  Paid(p, a, a, side, none, none)
<1>1. ASSUME NEW s \in Sides, NEW x \in Int, x >= 0 PROVE Kept(p, a, a, s, x)
  <2> DEFINE wa == Whole(p, a, s)
             sa == Standing(p, a, s)
             u == Units(p, s)
  <2>1. wa \in Int /\ sa \in Nat /\ u \in Nat \ {0}
    BY WholeType
  <2> HIDE DEF wa, sa, u
  <2>2. 0 <= x * u
    BY <1>1, <2>1
  <2>3. wa - wa <= x * u /\ sa <= sa + x
    BY <1>1, <2>1, <2>2
  <2> QED BY <2>3 DEF Kept, wa, sa, u
<1>2. Across(side) \in Sides
  BY DEF Sides, Across
<1>3. -none \in Int /\ -none >= 0
  OBVIOUS
<1>4. Kept(p, a, a, Across(side), -none) /\ Kept(p, a, a, side, none)
  BY <1>1, <1>2, <1>3
<1> QED BY <1>4 DEF Paid

\* A swap of base down a segment.
LEMMA PaidDown ==
    ASSUME NEW p, WellFormed(p), Ranged(p), NEW i \in 1..Segments(p),
           NEW from \in Segment(p, i).lower..Segment(p, i).upper, NEW to \in Segment(p, i).lower..Segment(p, i).upper,
           NEW credit \in Nat, NEW debit \in Nat,
           Segment(p, i).liquidity * (from - to) <= credit * (from * to),
           debit * (Q64 * Q64) <= Segment(p, i).liquidity * (from - to)
    PROVE  Paid(p, from, to, "base", credit, debit)
<1> DEFINE n == Highest(p)
           unit == Unit(p)
           of == Of(p)
           segment == Segment(p, i)
           k == segment.liquidity
<1>1. Among(segment, n) /\ Reciprocal(n, unit, of)
  BY SegmentsFollow, PoolReciprocal
<1>2. /\ segment.lower \in Nat \ {0} /\ segment.upper \in Nat /\ segment.upper <= n /\ k \in Nat \ {0}
      /\ n \in Nat /\ unit \in Nat \ {0}
  BY <1>1 DEF Among, Reciprocal
<1>3. from \in 1..n /\ to \in 1..n /\ from \in Nat /\ to \in Nat
  BY <1>2
<1>4. "base" \in Sides /\ "quote" \in Sides /\ Across("base") = "quote"
  BY DEF Sides, Across
<1>5. Exactly(segment, of, to, "base") - Exactly(segment, of, from, "base") <= credit * Units(p, "base")
  <2>1. Exactly(segment, of, to, "base") - Exactly(segment, of, from, "base") = k * (of[to] - of[from])
    BY <1>1, HeldBetween
  <2> HIDE DEF n, unit, of, segment, k
  <2>2. from * to = to * from
    BY <1>3
  <2>3. k * (from - to) <= credit * (to * from)
    BY <2>2 DEF k, segment
  <2>6. k \in Nat /\ credit \in Int /\ Reciprocal(n, unit, of) /\ from \in 1..n /\ to \in 1..n
    BY <1>1, <1>2, <1>3
  <2>4. k * (of[to] - of[from]) <= credit * unit
    BY <2>3, <2>6, ScaledBetween
  <2>5. Units(p, "base") = unit
    BY DEF Units, UnitOf, unit
  <2> QED BY <2>1, <2>4, <2>5
<1>6. Exactly(segment, of, to, "quote") - Exactly(segment, of, from, "quote") <= (-debit) * Units(p, "quote")
  <2>1. Exactly(segment, of, to, "quote") - Exactly(segment, of, from, "quote") = k * (to - from)
    BY <1>1, HeldBetween
  <2> DEFINE QQ == Q64 * Q64
  <2>2. QQ \in Nat
    BY DammAssumption
  <2>3. Units(p, "quote") = QQ /\ debit * QQ <= k * (from - to)
    BY DEF Units, UnitOf
  <2> HIDE DEF QQ, k
  <2>4. k * (to - from) = -(k * (from - to)) /\ (-debit) * QQ = -(debit * QQ) /\ k * (from - to) \in Int /\ debit * QQ \in Int
    BY <1>2, <1>3, <2>2
  <2> QED BY <2>1, <2>3, <2>4
<1>7. Kept(p, from, to, "base", credit)
  BY <1>4, <1>5, SegmentKeeps
<1>8. Kept(p, from, to, "quote", -debit)
  <2>1. -debit \in Int
    OBVIOUS
  <2> QED BY <1>4, <1>6, <2>1, SegmentKeeps
<1> QED BY <1>4, <1>7, <1>8 DEF Paid

\* A swap of quote up a segment.
LEMMA PaidUp ==
    ASSUME NEW p, WellFormed(p), Ranged(p), NEW i \in 1..Segments(p),
           NEW from \in Segment(p, i).lower..Segment(p, i).upper, NEW to \in Segment(p, i).lower..Segment(p, i).upper,
           NEW credit \in Nat, NEW debit \in Nat,
           Segment(p, i).liquidity * (to - from) <= credit * (Q64 * Q64),
           debit * (from * to) <= Segment(p, i).liquidity * (to - from)
    PROVE  Paid(p, from, to, "quote", credit, debit)
<1> DEFINE n == Highest(p)
           unit == Unit(p)
           of == Of(p)
           segment == Segment(p, i)
           k == segment.liquidity
<1>1. Among(segment, n) /\ Reciprocal(n, unit, of)
  BY SegmentsFollow, PoolReciprocal
<1>2. /\ segment.lower \in Nat \ {0} /\ segment.upper \in Nat /\ segment.upper <= n /\ k \in Nat \ {0}
      /\ n \in Nat /\ unit \in Nat \ {0}
  BY <1>1 DEF Among, Reciprocal
<1>3. from \in 1..n /\ to \in 1..n /\ from \in Nat /\ to \in Nat
  BY <1>2
<1>4. "base" \in Sides /\ "quote" \in Sides /\ Across("quote") = "base"
  BY DEF Sides, Across
<1>5. Exactly(segment, of, to, "quote") - Exactly(segment, of, from, "quote") <= credit * Units(p, "quote")
  <2>1. Exactly(segment, of, to, "quote") - Exactly(segment, of, from, "quote") = k * (to - from)
    BY <1>1, HeldBetween
  <2>2. Units(p, "quote") = Q64 * Q64
    BY DEF Units, UnitOf
  <2> QED BY <2>1, <2>2
<1>6. Exactly(segment, of, to, "base") - Exactly(segment, of, from, "base") <= (-debit) * Units(p, "base")
  <2>1. Exactly(segment, of, to, "base") - Exactly(segment, of, from, "base") = k * (of[to] - of[from])
    BY <1>1, HeldBetween
  <2>2. of[to] \in Nat /\ of[from] \in Nat
    BY <1>1, <1>3 DEF Reciprocal
  <2> HIDE DEF n, unit, of, segment, k
  <2>3. debit * (from * to) <= k * (to - from)
    BY DEF k, segment
  <2>9. k \in Nat /\ debit \in Int /\ Reciprocal(n, unit, of) /\ from \in 1..n /\ to \in 1..n
    BY <1>1, <1>2, <1>3
  <2>4. debit * unit <= k * (of[from] - of[to])
    BY <2>3, <2>9, ScaledBetween
  <2> DEFINE a == of[from]
             b == of[to]
  <2>5. a \in Nat /\ b \in Nat /\ debit * unit <= k * (a - b)
    BY <2>2, <2>4
  <2> HIDE DEF a, b
  <2>6. k * (b - a) = -(k * (a - b)) /\ (-debit) * unit = -(debit * unit) /\ k * (a - b) \in Int /\ debit * unit \in Int
    BY <1>2, <2>5
  <2>7. Units(p, "base") = unit
    BY DEF Units, UnitOf, unit
  <2>8. k * (b - a) <= (-debit) * unit
    BY <2>5, <2>6
  <2> QED BY <2>1, <2>7, <2>8 DEF a, b
<1>7. Kept(p, from, to, "quote", credit)
  BY <1>4, <1>5, SegmentKeeps
<1>8. Kept(p, from, to, "base", -debit)
  <2>1. -debit \in Int
    OBVIOUS
  <2> QED BY <1>4, <1>6, <2>1, SegmentKeeps
<1> QED BY <1>4, <1>7, <1>8 DEF Paid

-----------------------------------------------------------------------------
(* Steps of a price                                                         *)

\* What a step down gives and what it costs.
LEMMA DeltasDown ==
    ASSUME NEW from \in Nat \ {0}, NEW to \in Nat \ {0}, to <= from, NEW liquidity \in Nat
    PROVE  /\ delta_b(to, from, liquidity, FALSE) \in Nat
           /\ delta_b(to, from, liquidity, FALSE) * (Q64 * Q64) <= liquidity * (from - to)
           /\ delta_a(to, from, liquidity, TRUE) \in Nat
           /\ liquidity * (from - to) <= delta_a(to, from, liquidity, TRUE) * (from * to)
<1> DEFINE x == liquidity * (from - to)
           y == to * from
           z == Q64 * Q64
<1>1. x \in Nat /\ y \in Nat \ {0} /\ z \in Nat \ {0} /\ from * to = y
  BY DammAssumption, TimesMonotone
<1>2. delta_b(to, from, liquidity, FALSE) = x \div z /\ delta_a(to, from, liquidity, TRUE) = div_ceil(x, y)
  BY DEF delta_a, delta_b
<1> HIDE DEF x, y, z
<1>3. x \div z \in Nat /\ (x \div z) * z <= x
  BY <1>1, DivBounds
<1>4. div_ceil(x, y) \in Nat /\ x <= div_ceil(x, y) * y
  BY <1>1, DivCeilCovers
<1> QED BY <1>1, <1>2, <1>3, <1>4 DEF x, z

\* And a step up.
LEMMA DeltasUp ==
    ASSUME NEW from \in Nat \ {0}, NEW to \in Nat \ {0}, from <= to, NEW liquidity \in Nat
    PROVE  /\ delta_a(from, to, liquidity, FALSE) \in Nat
           /\ delta_a(from, to, liquidity, FALSE) * (from * to) <= liquidity * (to - from)
           /\ delta_b(from, to, liquidity, TRUE) \in Nat
           /\ liquidity * (to - from) <= delta_b(from, to, liquidity, TRUE) * (Q64 * Q64)
<1> DEFINE x == liquidity * (to - from)
           y == from * to
           z == Q64 * Q64
<1>1. x \in Nat /\ y \in Nat \ {0} /\ z \in Nat \ {0}
  BY DammAssumption, TimesMonotone
<1>2. delta_a(from, to, liquidity, FALSE) = x \div y /\ delta_b(from, to, liquidity, TRUE) = div_ceil(x, z)
  BY DEF delta_a, delta_b
<1> HIDE DEF x, y, z
<1>3. x \div y \in Nat /\ (x \div y) * y <= x
  BY <1>1, DivBounds
<1>4. div_ceil(x, z) \in Nat /\ x <= div_ceil(x, z) * z
  BY <1>1, DivCeilCovers
<1> QED BY <1>2, <1>3, <1>4 DEF x, y, z

\* An amount of base takes the price down by no more than it pays for.
LEMMA NextDown ==
    ASSUME NEW price \in Nat \ {0}, NEW liquidity \in Nat \ {0}, NEW amount \in Nat
    PROVE  LET next == next_sqrt_price_from_a(price, liquidity, amount)
           IN  /\ next \in Nat \ {0} /\ next <= price
               /\ liquidity * (price - next) <= amount * (price * next)
<1> DEFINE x == liquidity * price
           y == liquidity + amount * price
           next == div_ceil(x, y)
<1>1. amount * price \in Nat /\ x \in Nat \ {0} /\ y \in Nat \ {0}
  BY TimesMonotone
<1>2. next_sqrt_price_from_a(price, liquidity, amount) = next
  BY DEF next_sqrt_price_from_a
<1>3. price * y = x + (amount * price) * price /\ (amount * price) * price \in Nat
  BY <1>1
<1>4. x <= price * y
  BY <1>1, <1>3
<1> HIDE DEF x, y
<1>5. next \in Nat /\ next <= price /\ x <= next * y
  BY <1>1, <1>4, DivCeilAtMost, DivCeilCovers
<1>6. next # 0
  BY <1>1, <1>5
<1> HIDE DEF next
<1>7. next * y = liquidity * next + amount * (price * next)
  <2>1. next * (liquidity + amount * price) = next * liquidity + next * (amount * price)
    BY <1>1, <1>5
  <2>2. next * liquidity = liquidity * next /\ next * (amount * price) = amount * (price * next)
    BY <1>5
  <2> QED BY <2>1, <2>2 DEF y
<1>8. liquidity * (price - next) = liquidity * price - liquidity * next
  BY <1>5
<1>9. liquidity * price \in Nat /\ liquidity * next \in Nat /\ amount * (price * next) \in Nat
  BY <1>5
<1>10. liquidity * (price - next) <= amount * (price * next)
  BY <1>5, <1>7, <1>8, <1>9 DEF x
<1> QED BY <1>2, <1>5, <1>6, <1>10

\* An amount that does not reach a point below stays above it.
LEMMA NextAbove ==
    ASSUME NEW price \in Nat \ {0}, NEW point \in Nat \ {0}, point < price, NEW liquidity \in Nat \ {0},
           NEW amount \in Nat, amount < delta_a(point, price, liquidity, TRUE)
    PROVE  point <= next_sqrt_price_from_a(price, liquidity, amount)
<1> DEFINE x == liquidity * price
           y == liquidity + amount * price
           next == div_ceil(x, y)
           gap == liquidity * (price - point)
           d == div_ceil(gap, point * price)
<1>1. amount * price \in Nat /\ x \in Nat \ {0} /\ y \in Nat \ {0} /\ gap \in Nat /\ point * price \in Nat \ {0}
  BY TimesMonotone
<1>2. next_sqrt_price_from_a(price, liquidity, amount) = next /\ delta_a(point, price, liquidity, TRUE) = d
  BY DEF next_sqrt_price_from_a, delta_a
<1>3. amount * (point * price) < gap
  <2> HIDE DEF gap
  <2>1. SUFFICES ASSUME gap <= amount * (point * price) PROVE FALSE
    BY <1>1
  <2> DEFINE z == point * price
  <2>2. z \in Nat \ {0} /\ gap <= amount * z
    BY <1>1, <2>1
  <2> HIDE DEF z
  <2>3. div_ceil(gap, z) <= amount /\ div_ceil(gap, z) \in Nat
    BY <1>1, <2>2, DivCeilAtMost
  <2>4. d <= amount /\ d \in Nat
    BY <2>3 DEF z
  <2> HIDE DEF d
  <2>5. amount < d
    BY <1>2
  <2> QED BY <2>4, <2>5
<1>4. point * y = point * liquidity + amount * (point * price)
  <2>1. point * (liquidity + amount * price) = point * liquidity + point * (amount * price)
    BY <1>1
  <2>2. point * (amount * price) = amount * (point * price)
    OBVIOUS
  <2> QED BY <2>1, <2>2
<1>5. gap = x - point * liquidity
  OBVIOUS
<1>6. point * y < x
  <2>1. point * liquidity \in Nat /\ amount * (point * price) \in Nat
    OBVIOUS
  <2> HIDE DEF x, y, gap
  <2> QED BY <1>1, <1>3, <1>4, <1>5, <2>1
<1> HIDE DEF x, y, gap, d
<1>7. next \in Nat /\ x <= next * y
  BY <1>1, DivCeilCovers
<1> HIDE DEF next
<1>8. SUFFICES ASSUME next <= point PROVE FALSE
  BY <1>2, <1>7
<1>9. next * y <= point * y /\ next * y \in Nat /\ point * y \in Nat
  BY <1>1, <1>7, <1>8, TimesMonotone
<1> QED BY <1>1, <1>6, <1>7, <1>9

\* An amount of quote takes it up by no more than it pays for.
LEMMA NextUp ==
    ASSUME NEW price \in Nat \ {0}, NEW liquidity \in Nat \ {0}, NEW amount \in Nat
    PROVE  LET next == next_sqrt_price_from_b(price, liquidity, amount)
           IN  /\ next \in Nat \ {0} /\ price <= next
               /\ liquidity * (next - price) <= amount * (Q64 * Q64)
<1> DEFINE x == amount * Q64 * Q64
           d == x \div liquidity
<1>1. x \in Nat /\ x = amount * (Q64 * Q64)
  BY DammAssumption
<1>2. next_sqrt_price_from_b(price, liquidity, amount) = price + d
  BY DEF next_sqrt_price_from_b
<1> HIDE DEF x
<1>3. d \in Nat /\ d * liquidity <= x
  BY <1>1, DivBounds
<1> HIDE DEF d
<1>4. price + d - price = d /\ liquidity * d = d * liquidity
  BY <1>3
<1> QED BY <1>1, <1>2, <1>3, <1>4

\* An amount that does not reach a point above stays below it.
LEMMA NextBelow ==
    ASSUME NEW price \in Nat \ {0}, NEW point \in Nat, price < point, NEW liquidity \in Nat \ {0},
           NEW amount \in Nat, amount < delta_b(price, point, liquidity, TRUE)
    PROVE  next_sqrt_price_from_b(price, liquidity, amount) <= point
<1> DEFINE x == amount * Q64 * Q64
           z == Q64 * Q64
           gap == point - price
<1>1. x \in Nat /\ x = amount * z /\ z \in Nat \ {0} /\ gap \in Nat
  BY DammAssumption
<1>2. next_sqrt_price_from_b(price, liquidity, amount) = price + (x \div liquidity)
      /\ delta_b(price, point, liquidity, TRUE) = div_ceil(liquidity * gap, z)
  BY DEF next_sqrt_price_from_b, delta_b
<1> HIDE DEF x, z
<1>3. amount * z < liquidity * gap
  <2>1. liquidity * gap \in Nat
    BY <1>1
  <2>2. SUFFICES ASSUME liquidity * gap <= amount * z PROVE FALSE
    BY <1>1, <2>1
  <2> HIDE DEF gap
  <2> DEFINE g == liquidity * gap
  <2>3. g \in Nat /\ g <= amount * z
    BY <2>1, <2>2
  <2> HIDE DEF g
  <2>4. div_ceil(g, z) <= amount /\ div_ceil(g, z) \in Nat
    BY <1>1, <2>3, DivCeilAtMost
  <2> DEFINE d == div_ceil(liquidity * gap, z)
  <2>5. d <= amount /\ d \in Nat
    BY <2>4 DEF g
  <2>6. amount < d
    BY <1>2
  <2> HIDE DEF d
  <2> QED BY <2>5, <2>6
<1>4. x <= gap * liquidity
  <2>1. liquidity * gap = gap * liquidity /\ liquidity * gap \in Nat
    BY <1>1
  <2> QED BY <1>1, <1>3, <2>1
<1> HIDE DEF gap
<1>5. x \div liquidity <= gap
  BY <1>1, <1>4, DivAtMost
<1>6. x \div liquidity \in Nat
  BY <1>1, DivBounds
<1> QED BY <1>2, <1>5, <1>6 DEF gap

-----------------------------------------------------------------------------
(* What the venues pay                                                      *)

\* A fee is part of the amount it is taken from.
LEMMA FeeWithin ==
    ASSUME NEW amount \in Nat, NEW rate \in 0..FeeScale
    PROVE  ceil_fee(amount, rate) \in Nat /\ ceil_fee(amount, rate) <= amount
<1>1. FeeScale \in Nat \ {0} /\ rate \in Nat /\ rate <= FeeScale
  BY DammAssumption
<1>2. amount * rate \in Nat /\ amount * rate <= amount * FeeScale
  BY <1>1, TimesMonotone
<1> DEFINE x == amount * rate
<1> HIDE DEF x
<1>3. x \in Nat /\ x <= amount * FeeScale
  BY <1>2 DEF x
<1>4. div_ceil(x, FeeScale) \in Nat /\ div_ceil(x, FeeScale) <= amount
  BY <1>1, <1>3, DivCeilAtMost
<1> QED BY <1>4 DEF x, ceil_fee

\* A quote that its pool can pay: the price stays on the curve, the segments keep
\* their tokens, and a launch stays short of its threshold.
FairMove(p, v, from, to, side, amount, q) ==
    /\ q.out \in Nat /\ q.out <= q.debit /\ q.credit <= amount
    /\ to \in Prices(p)
    /\ Paid(p, from, to, side, q.credit, q.debit)
    /\ p.kind = "dbc" => v.quote < p.threshold /\ (side = "quote" => v.quote + q.credit < p.threshold)

\* DAMM v2's one segment.
LEMMA ConcentratedPaid ==
    ASSUME NEW p, WellFormed(p), Ranged(p), p.kind = "damm", NEW price \in Prices(p), NEW side \in Sides,
           NEW actual_in \in Nat, NEW raw, raw = Concentrated(p, price, side, actual_in)
    PROVE  raw.price \in Prices(p) /\ Paid(p, price, raw.price, side, actual_in, raw.out)
<1> DEFINE k == p.liquidity
           next == NextPrice(p, price, side, actual_in)
<1>1. /\ Segments(p) = 1 /\ Segment(p, 1).lower = p.sqrt_min /\ Segment(p, 1).upper = p.sqrt_max
      /\ Segment(p, 1).liquidity = k
      /\ Lowest(p) = p.sqrt_min /\ Highest(p) = p.sqrt_max
  BY DEF Segments, Segment, Lowest, Highest
<1>2. k \in Nat \ {0} /\ p.sqrt_min \in Nat \ {0} /\ p.sqrt_max \in Nat
  BY DEF WellFormed
<1>3. price \in Nat \ {0} /\ price \in 1..Highest(p) /\ p.sqrt_min <= price /\ price <= p.sqrt_max /\ 1 \in 1..Segments(p)
  BY <1>1, <1>2 DEF Prices
<1>4. CASE OutOfRange(p, side, next)
  <2>1. raw = [out |-> 0, price |-> price]
    BY <1>4 DEF Concentrated
  <2>2. Paid(p, price, price, side, 0, 0)
    BY <1>3, PaidNothing
  <2>3. Paid(p, price, price, side, actual_in, 0)
    BY <1>3, <2>2, PaidMore
  <2> QED BY <2>1, <2>3
<1>5. CASE ~OutOfRange(p, side, next) /\ side = "base"
  <2>1. raw = [out |-> delta_b(next, price, k, FALSE), price |-> next] /\ next = next_sqrt_price_from_a(price, k, actual_in)
        /\ ~(next < p.sqrt_min)
    BY <1>5 DEF Concentrated, OutOfRange, NextPrice
  <2> HIDE DEF next, k
  <2>2. next \in Nat \ {0} /\ next <= price /\ k * (price - next) <= actual_in * (price * next)
    BY <1>2, <1>3, <2>1, NextDown
  <2>3. next \in Prices(p) /\ next \in p.sqrt_min..p.sqrt_max /\ price \in p.sqrt_min..p.sqrt_max
    BY <1>1, <1>2, <1>3, <2>1, <2>2 DEF Prices
  <2> DEFINE d == delta_b(next, price, k, FALSE)
  <2>4. d \in Nat /\ d * (Q64 * Q64) <= k * (price - next)
    BY <1>2, <1>3, <2>2, DeltasDown
  <2> HIDE DEF d
  <2>5. Paid(p, price, next, "base", actual_in, d)
    BY <1>1, <1>3, <2>2, <2>3, <2>4, PaidDown
  <2>6. raw.price = next /\ raw.out = d
    BY <2>1 DEF d
  <2> QED BY <1>5, <2>3, <2>5, <2>6
<1>6. CASE ~OutOfRange(p, side, next) /\ side # "base"
  <2>1. raw = [out |-> delta_a(price, next, k, FALSE), price |-> next] /\ next = next_sqrt_price_from_b(price, k, actual_in)
        /\ ~(next > p.sqrt_max)
    BY <1>6 DEF Concentrated, OutOfRange, NextPrice
  <2>0. side = "quote"
    BY <1>6 DEF Sides
  <2> HIDE DEF next, k
  <2>2. next \in Nat \ {0} /\ price <= next /\ k * (next - price) <= actual_in * (Q64 * Q64)
    BY <1>2, <1>3, <2>1, NextUp
  <2>3. next \in Prices(p) /\ next \in p.sqrt_min..p.sqrt_max /\ price \in p.sqrt_min..p.sqrt_max
    BY <1>1, <1>2, <1>3, <2>1, <2>2 DEF Prices
  <2> DEFINE d == delta_a(price, next, k, FALSE)
  <2>4. d \in Nat /\ d * (price * next) <= k * (next - price)
    BY <1>2, <1>3, <2>2, DeltasUp
  <2> HIDE DEF d
  <2>5. Paid(p, price, next, "quote", actual_in, d)
    BY <1>1, <1>3, <2>2, <2>3, <2>4, PaidUp
  <2>6. raw.price = next /\ raw.out = d
    BY <2>1 DEF d
  <2> QED BY <2>0, <2>3, <2>5, <2>6
<1> QED BY <1>4, <1>5, <1>6

\* A quote of what a curve gives, the fee taken of the input or of the output.
LEMMA NetOut ==
    ASSUME NEW raw \in Nat, NEW rate \in 0..FeeScale, NEW on_input \in BOOLEAN, NEW credit, NEW q,
           q = Quoting(IF on_input THEN raw ELSE raw - ceil_fee(raw, rate), credit, raw), q.out > 0
    PROVE  q.out \in Nat /\ q.out <= raw /\ q.credit = credit /\ q.debit = raw
<1> DEFINE out == IF on_input THEN raw ELSE raw - ceil_fee(raw, rate)
<1>1. out \in Nat /\ out <= raw
  BY FeeWithin
<1>2. q = Quoting(out, credit, raw)
  OBVIOUS
<1> HIDE DEF out
<1>3. out > 0
  BY <1>1, <1>2 DEF Quoting, NoQuote
<1>4. q = [out |-> out, credit |-> credit, debit |-> raw]
  BY <1>2, <1>3 DEF Quoting
<1> QED BY <1>1, <1>4

\* A swap of DAMM v2 is a fair move.
LEMMA DammFair ==
    ASSUME NEW p, WellFormed(p), Ranged(p), p.kind = "damm", NEW price \in Prices(p), NEW v, NEW time,
           NEW side \in Sides, NEW amount \in Nat,
           NEW s, s = DammSwap(p, price, v, time, side, amount), s.quote.out > 0
    PROVE  FairMove(p, v, price, s.price, side, amount, s.quote)
<1> DEFINE rate == total_fee_numerator(p.fees, time, side, amount, price)
           on_input == fee_on_input(p.fees_in, side)
           actual_in == IF on_input THEN amount - ceil_fee(amount, rate) ELSE amount
           raw == OnPool(p, price, v, side, actual_in)
<1>1. rate \in 0..(FeeScale - 1) /\ s = Paying(raw, rate, on_input, actual_in)
  <2>1. SUFFICES ASSUME ~(rate \in 0..(FeeScale - 1) /\ s = Paying(raw, rate, on_input, actual_in)) PROVE FALSE
    OBVIOUS
  <2>2. s.quote = NoQuote
    BY <2>1 DEF DammSwap
  <2> QED BY <2>2 DEF NoQuote
<1>2. on_input \in BOOLEAN /\ p.fees_in # "compounding"
  BY DEF fee_on_input, Ranged
<1>3. rate \in 0..FeeScale
  <2> HIDE DEF rate
  <2> QED BY <1>1, DammAssumption
<1> HIDE DEF rate, on_input
<1>4. actual_in \in Nat /\ actual_in <= amount
  BY <1>2, <1>3, FeeWithin
<1> HIDE DEF actual_in
<1>5. raw = Concentrated(p, price, side, actual_in)
  BY <1>2 DEF OnPool
<1> HIDE DEF raw
<1>6. raw.price \in Prices(p) /\ Paid(p, price, raw.price, side, actual_in, raw.out)
  BY <1>4, <1>5, ConcentratedPaid
<1>7. raw.out \in Nat
  BY <1>6 DEF Paid
<1>8. /\ s.quote = Quoting(IF on_input THEN raw.out ELSE raw.out - ceil_fee(raw.out, rate), actual_in, raw.out)
      /\ s.price = raw.price
  BY <1>1 DEF Paying
<1> DEFINE q == s.quote
           r == raw.out
<1>10. q = Quoting(IF on_input THEN r ELSE r - ceil_fee(r, rate), actual_in, r) /\ q.out > 0 /\ r \in Nat
  BY <1>7, <1>8
<1> HIDE DEF q, r
<1>9. q.out \in Nat /\ q.out <= r /\ q.credit = actual_in /\ q.debit = r
  BY <1>2, <1>3, <1>10, NetOut
<1> QED BY <1>4, <1>6, <1>8, <1>9 DEF FairMove, q, r

\* A million is not zero, and the step of a range counts in it too.
LEMMA PpmType == PPM \in Nat \ {0} /\ Step!PPM = PPM
BY DEF PPM, Step!PPM

\* A step with the fee on its input, and the step that ends at next.
IsSwap(st, price, target, liquidity, amount, rate, a_to_b) ==
    st = Step!swap_step(price, target, liquidity, amount, rate, a_to_b, TRUE)
IsStepTo(st, next, d, target, amount, rate, a_to_b) ==
    st = Step!StepTo(next, d, target, amount, rate, a_to_b, TRUE)

\* It is no longer than its input and does not pass its target.
LEMMA StepToLands ==
    ASSUME NEW next, NEW d, NEW target, NEW amount, NEW rate, NEW a_to_b,
           NEW st, IsStepTo(st, next, d, target, amount, rate, a_to_b), st.got > 0
    PROVE  st.next = next /\ st.got = d.out /\ ~(d.in > amount) /\ ~Step!Past(next, target, a_to_b)
<1>1. st # Step!NoStep
  <2>1. ASSUME st = Step!NoStep PROVE st.got = 0
    BY <2>1 DEF Step!NoStep
  <2> QED BY <2>1
<1>2. \E used : /\ st = [next |-> next, used |-> used, got |-> d.out]
                /\ ~(d.in > amount) /\ ~Step!Past(next, target, a_to_b)
  BY <1>1 DEF IsStepTo, Step!StepTo
<1> QED BY <1>2

\* A Byreal swap lands at its target or where its input takes it, never past.
LEMMA StepLands ==
    ASSUME NEW price, NEW target, NEW liquidity, NEW amount \in Nat, NEW rate \in 0..(PPM - 1), NEW a_to_b \in BOOLEAN,
           NEW st, IsSwap(st, price, target, liquidity, amount, rate, a_to_b), st.got > 0,
           NEW moved, moved = Step!deltas_to(price, st.next, liquidity, a_to_b)
    PROVE  /\ st.got = moved.out /\ ~(moved.in > amount) /\ ~Step!Past(st.next, target, a_to_b)
           /\ \/ st.next = target
              \/ \E x \in Nat : st.next = Step!next_sqrt_price_from_input(price, liquidity, x, a_to_b)
<1> DEFINE x == (amount * (PPM - rate)) \div PPM
           input == Step!next_sqrt_price_from_input(price, liquidity, x, a_to_b)
           to(next) == Step!deltas_to(price, next, liquidity, a_to_b)
<1>1. x \in Nat
  <2>1. PPM \in Nat \ {0} /\ PPM - rate \in Nat
    BY PpmType
  <2> DEFINE y == amount * (PPM - rate)
  <2>2. y \in Nat
    BY <2>1
  <2> HIDE DEF y
  <2>3. y \div PPM \in Nat
    BY <2>1, <2>2, DivBounds
  <2> QED BY <2>3 DEF y
<1>2. PICK next : /\ next = target \/ next = input
                  /\ IsStepTo(st, next, to(next), target, amount, rate, a_to_b)
  <2>1. \/ st = Step!StepTo(target, to(target), target, amount, rate, a_to_b, TRUE)
        \/ st = Step!StepTo(input, to(input), target, amount, rate, a_to_b, TRUE)
    <3>1. Step!ForPrice(amount, rate, TRUE) = x
      BY PpmType DEF Step!ForPrice
    <3> QED BY <3>1 DEF IsSwap, Step!swap_step, Step!StepInside
  <2>2. \/ IsStepTo(st, target, to(target), target, amount, rate, a_to_b)
        \/ IsStepTo(st, input, to(input), target, amount, rate, a_to_b)
    BY <2>1 DEF IsStepTo
  <2> HIDE DEF input, to
  <2> QED BY <2>2
<1> HIDE DEF x, input
<1> DEFINE d == to(next)
<1>3. IsStepTo(st, next, d, target, amount, rate, a_to_b)
  BY <1>2
<1> HIDE DEF to, d
<1>4. /\ st.next = next /\ st.got = d.out /\ ~(d.in > amount) /\ ~Step!Past(next, target, a_to_b)
  BY <1>3, StepToLands
<1>5. moved = d
  BY <1>4 DEF d, to
<1> QED BY <1>1, <1>2, <1>4, <1>5 DEF input

\* So what it brings the pool keeps up.
LEMMA ByrealFair ==
    ASSUME NEW p, WellFormed(p), Ranged(p), p.kind = "byreal", NEW price \in Prices(p), NEW v, NEW time,
           NEW side \in Sides, NEW amount \in Nat,
           NEW s, s = ByrealSwap(p, price, v, time, side, amount), s.quote.out > 0
    PROVE  FairMove(p, v, price, s.price, side, amount, s.quote)
<1> DEFINE a_to_b == side = "base"
           rate == swap_fee_ppm(p.fees, price, v, side, time)
           target == IF a_to_b THEN p.sqrt_min ELSE p.sqrt_max
           liquidity == p.liquidity
           st == Step!swap_step(price, target, liquidity, amount, rate, a_to_b, TRUE)
           next == st.next
           moved == Step!deltas_to(price, next, liquidity, a_to_b)
           k == liquidity * Q64
<1>1. rate \in 0..(PPM - 1) /\ s = [quote |-> Quoting(st.got, moved.in, st.got), price |-> next]
  <2>1. SUFFICES ASSUME ~(rate \in 0..(PPM - 1) /\ s = [quote |-> Quoting(st.got, moved.in, st.got), price |-> next]) PROVE FALSE
    OBVIOUS
  <2>2. s.quote = NoQuote
    BY <2>1 DEF ByrealSwap
  <2> QED BY <2>2 DEF NoQuote
<1>2. a_to_b \in BOOLEAN
  OBVIOUS
<1> HIDE DEF rate
<1> DEFINE got == st.got
<1>3. got > 0 /\ s.quote = [out |-> got, credit |-> moved.in, debit |-> got] /\ s.price = next
  <2> HIDE DEF got, moved, next
  <2>0. s = [quote |-> Quoting(got, moved.in, got), price |-> next]
    BY <1>1 DEF got
  <2>1. got > 0
    <3>1. SUFFICES ASSUME ~(got > 0) PROVE FALSE
      OBVIOUS
    <3>2. s.quote = NoQuote
      BY <2>0, <3>1 DEF Quoting
    <3> QED BY <3>2 DEF NoQuote
  <2> QED BY <2>0, <2>1 DEF Quoting
<1>4. /\ got = moved.out /\ ~(moved.in > amount) /\ ~Step!Past(next, target, a_to_b)
      /\ \/ next = target
         \/ \E x \in Nat : next = Step!next_sqrt_price_from_input(price, liquidity, x, a_to_b)
  <2> DEFINE landed == st
             m == moved
  <2>1. /\ landed.got > 0 /\ IsSwap(landed, price, target, liquidity, amount, rate, a_to_b)
        /\ m = Step!deltas_to(price, landed.next, liquidity, a_to_b) /\ rate \in 0..(PPM - 1)
        /\ got = landed.got /\ moved = m /\ next = landed.next
    BY <1>1, <1>3 DEF IsSwap
  <2> HIDE DEF target, liquidity, a_to_b, landed, m, got, next, moved
  <2>2. /\ landed.got = m.out /\ ~(m.in > amount) /\ ~Step!Past(landed.next, target, a_to_b)
        /\ \/ landed.next = target
           \/ \E x \in Nat : landed.next = Step!next_sqrt_price_from_input(price, liquidity, x, a_to_b)
    BY <1>2, <2>1, StepLands
  <2> QED BY <2>1, <2>2
<1> HIDE DEF got, st
<1>5. /\ Segments(p) = 1 /\ Segment(p, 1).lower = p.sqrt_min /\ Segment(p, 1).upper = p.sqrt_max
      /\ Segment(p, 1).liquidity = k
      /\ Lowest(p) = p.sqrt_min /\ Highest(p) = p.sqrt_max
  BY DEF Segments, Segment, Lowest, Highest
<1>6. liquidity \in Nat \ {0} /\ p.sqrt_min \in Nat \ {0} /\ p.sqrt_max \in Nat /\ Q64 \in Nat \ {0}
  BY DammAssumption DEF WellFormed
<1>7. price \in Nat \ {0} /\ p.sqrt_min <= price /\ price <= p.sqrt_max /\ 1 \in 1..Segments(p) /\ k \in Nat \ {0}
  BY <1>5, <1>6 DEF Prices
<1> HIDE DEF next, liquidity
<1>8. CASE side = "base"
  <2>1. next \in Nat \ {0} /\ next <= price /\ ~(next < p.sqrt_min)
    <3>1. ~(next < p.sqrt_min) /\ (next = p.sqrt_min \/ \E x \in Nat : next = div_ceil(k * price, k + x * price))
      BY <1>4, <1>8 DEF Step!Past, Step!next_sqrt_price_from_input, Step!div_ceil, div_ceil
    <3> HIDE DEF k
    <3>2. ASSUME NEW x \in Nat PROVE LET q == div_ceil(k * price, k + x * price) IN q \in Nat \ {0} /\ q <= price
      BY <1>7, NextDown DEF next_sqrt_price_from_a
    <3> QED BY <1>6, <1>7, <3>1, <3>2
  <2>2. next \in Prices(p) /\ next \in p.sqrt_min..p.sqrt_max /\ price \in p.sqrt_min..p.sqrt_max
    BY <1>5, <1>6, <1>7, <2>1 DEF Prices
  <2> DEFINE gap == price - next
             c == div_ceil(liquidity * gap * Q64, next * price)
             d == (liquidity * gap) \div Q64
  <2>3. gap \in Nat /\ Step!Gap(next, price) = gap
    BY <1>7, <2>1 DEF Step!Gap
  <2>4. moved.in = c /\ moved.out = d
    BY <1>8, <2>3 DEF Step!deltas_to, Step!amount0_delta, Step!amount1_delta, Step!div_round, Step!div_ceil, div_ceil
  <2> HIDE DEF moved
  <2>5. k * gap = liquidity * gap * Q64 /\ liquidity * gap \in Nat /\ liquidity * gap * Q64 \in Nat /\ next * price \in Nat \ {0}
    BY <1>6, <1>7, <2>1, <2>3
  <2>6. c \in Nat /\ k * gap <= c * (price * next)
    <3> DEFINE y == liquidity * gap * Q64
               z == next * price
    <3>1. y \in Nat /\ z \in Nat \ {0} /\ k * gap = y /\ price * next = z
      BY <1>7, <2>1, <2>5
    <3> HIDE DEF y, z, k, gap
    <3>2. div_ceil(y, z) \in Nat /\ y <= div_ceil(y, z) * z
      BY <3>1, DivCeilCovers
    <3> QED BY <3>1, <3>2 DEF y, z
  <2>7. d \in Nat /\ d * (Q64 * Q64) <= k * gap
    <3> DEFINE y == liquidity * gap
    <3>1. y \in Nat
      BY <2>5
    <3>2. k * gap = y * Q64
      BY <2>5
    <3> HIDE DEF y, k, gap
    <3>3. y \div Q64 \in Nat /\ (y \div Q64) * Q64 <= y
      BY <1>6, <3>1, DivBounds
    <3> DEFINE e == y \div Q64
    <3>4. e \in Nat /\ e * Q64 <= y
      BY <3>3
    <3> HIDE DEF e
    <3>5. (e * Q64) * Q64 <= y * Q64 /\ (e * Q64) * Q64 = e * (Q64 * Q64)
      BY <1>6, <3>1, <3>4
    <3> QED BY <3>2, <3>4, <3>5 DEF e, y
  <2> HIDE DEF c, d, k
  <2>8. Paid(p, price, next, "base", c, d)
    <3>1. Segment(p, 1).liquidity * (price - next) <= c * (price * next) /\ d * (Q64 * Q64) <= Segment(p, 1).liquidity * (price - next)
      BY <1>5, <2>6, <2>7
    <3> HIDE DEF gap
    <3> QED BY <1>5, <1>7, <2>2, <2>6, <2>7, <3>1, PaidDown
  <2>9. got = d /\ c <= amount
    BY <1>4, <2>4, <2>6
  <2> QED BY <1>3, <1>8, <2>2, <2>4, <2>7, <2>8, <2>9 DEF FairMove
<1>9. CASE side # "base"
  <2>0. side = "quote"
    BY <1>9 DEF Sides
  <2>1. next \in Nat \ {0} /\ price <= next /\ ~(next > p.sqrt_max)
    <3>1. ~(next > p.sqrt_max) /\ (next = p.sqrt_max \/ \E x \in Nat : next = price + (x * Q64) \div liquidity)
      BY <1>4, <1>9 DEF Step!Past, Step!next_sqrt_price_from_input
    <3>2. ASSUME NEW x \in Nat PROVE (x * Q64) \div liquidity \in Nat
      <4> DEFINE y == x * Q64
      <4>1. y \in Nat
        BY <1>6
      <4> HIDE DEF y
      <4>2. y \div liquidity \in Nat
        BY <1>6, <4>1, DivBounds
      <4> QED BY <4>2 DEF y
    <3> QED BY <1>6, <1>7, <3>1, <3>2
  <2>2. next \in Prices(p) /\ next \in p.sqrt_min..p.sqrt_max /\ price \in p.sqrt_min..p.sqrt_max
    BY <1>5, <1>6, <1>7, <2>1 DEF Prices
  <2> DEFINE gap == next - price
             c == div_ceil(liquidity * gap, Q64)
             d == (liquidity * gap * Q64) \div (price * next)
  <2>3. gap \in Nat /\ Step!Gap(price, next) = gap
    BY <1>7, <2>1 DEF Step!Gap
  <2>4. moved.in = c /\ moved.out = d
    BY <1>9, <2>3 DEF Step!deltas_to, Step!amount0_delta, Step!amount1_delta, Step!div_round, Step!div_ceil, div_ceil
  <2> HIDE DEF moved
  <2>5. k * gap = liquidity * gap * Q64 /\ liquidity * gap \in Nat /\ liquidity * gap * Q64 \in Nat /\ price * next \in Nat \ {0}
    BY <1>6, <1>7, <2>1, <2>3
  <2>6. c \in Nat /\ k * gap <= c * (Q64 * Q64)
    <3> DEFINE y == liquidity * gap
    <3>1. y \in Nat /\ k * gap = y * Q64
      BY <2>5
    <3> HIDE DEF y, k, gap
    <3>2. div_ceil(y, Q64) \in Nat /\ y <= div_ceil(y, Q64) * Q64
      BY <1>6, <3>1, DivCeilCovers
    <3> DEFINE e == div_ceil(y, Q64)
    <3>3. e \in Nat /\ y <= e * Q64
      BY <3>2
    <3> HIDE DEF e
    <3>4. y * Q64 <= (e * Q64) * Q64 /\ (e * Q64) * Q64 = e * (Q64 * Q64)
      BY <1>6, <3>1, <3>3
    <3> QED BY <3>1, <3>3, <3>4 DEF e, y
  <2>7. d \in Nat /\ d * (price * next) <= k * gap
    <3> DEFINE y == liquidity * gap * Q64
               z == price * next
    <3>1. y \in Nat /\ z \in Nat \ {0} /\ k * gap = y
      BY <2>5
    <3> HIDE DEF y, z, k, gap
    <3>2. y \div z \in Nat /\ (y \div z) * z <= y
      BY <3>1, DivBounds
    <3> QED BY <3>1, <3>2 DEF y, z
  <2> HIDE DEF c, d, k
  <2>8. Paid(p, price, next, "quote", c, d)
    <3>1. Segment(p, 1).liquidity * (next - price) <= c * (Q64 * Q64) /\ d * (price * next) <= Segment(p, 1).liquidity * (next - price)
      BY <1>5, <2>6, <2>7
    <3> HIDE DEF gap
    <3> QED BY <1>5, <1>7, <2>2, <2>6, <2>7, <3>1, PaidUp
  <2>9. got = d /\ c <= amount
    BY <1>4, <2>4, <2>6
  <2> QED BY <1>3, <2>0, <2>2, <2>4, <2>7, <2>8, <2>9 DEF FairMove
<1> QED BY <1>8, <1>9

-----------------------------------------------------------------------------
(* The walks of a bonding curve                                             *)

\* Its segments lie between its points.
LEMMA CurvePoints ==
    ASSUME NEW p, WellFormed(p), p.kind = "dbc"
    PROVE  /\ Ranged(p) /\ Segments(p) = Len(p.curve) /\ Len(p.curve) \in Nat \ {0}
           /\ p.sqrt_start \in Nat \ {0} /\ Lowest(p) = p.sqrt_start /\ p.stop \in Nat
           /\ Highest(p) \in Nat /\ Highest(p) <= p.stop /\ Highest(p) <= p.curve[Len(p.curve)].price
           /\ \A i \in 1..Len(p.curve) :
                /\ p.curve[i].price \in Nat \ {0} /\ p.curve[i].liquidity \in Nat \ {0}
                /\ Segment(p, i).lower = IF i = 1 THEN p.sqrt_start ELSE p.curve[i - 1].price
                /\ Segment(p, i).upper = AtMost(p.curve[i].price, p.stop)
                /\ Segment(p, i).liquidity = p.curve[i].liquidity
                /\ Segment(p, i).lower \in Nat \ {0} /\ Segment(p, i).upper \in Nat /\ Lowest(p) <= Segment(p, i).lower
                /\ Segment(p, i).upper <= Highest(p)
<1> DEFINE n == Len(p.curve)
<1>1. Ranged(p) /\ Segments(p) = n
  BY DEF Ranged, Segments
<1>2. /\ n \in Nat \ {0} /\ Highest(p) \in Nat /\ Lowest(p) \in Nat \ {0}
      /\ \A i \in 1..n : Among(Segment(p, i), Highest(p))
  BY <1>1, SegmentsFollow
<1>3. \A i \in 1..n : /\ Segment(p, i).lower = IF i = 1 THEN p.sqrt_start ELSE p.curve[i - 1].price
                      /\ Segment(p, i).upper = AtMost(p.curve[i].price, p.stop)
                      /\ Segment(p, i).liquidity = p.curve[i].liquidity
  BY DEF Segment
<1>4. p.sqrt_start \in Nat \ {0} /\ p.stop \in Nat
  BY DEF WellFormed
<1>5. \A i \in 1..n : p.curve[i].price \in Nat
  BY CurveRises
<1>6. DOMAIN p.curve = 1..n
  <2>1. p.curve \in Seq([price : Nat, liquidity : Nat \ {0}])
    BY DEF WellFormed
  <2> QED BY <2>1
<1>7. \A i \in 1..n : (IF i = 1 THEN p.sqrt_start ELSE p.curve[i - 1].price) < p.curve[i].price
  BY <1>6 DEF WellFormed
<1> HIDE DEF n
<1>8. \A i \in 1..n : /\ Segment(p, i).lower \in Nat \ {0} /\ Segment(p, i).upper \in Nat /\ Segment(p, i).upper <= Highest(p)
                      /\ Segment(p, i).liquidity \in Nat \ {0}
  BY <1>2 DEF Among
<1>9. Lowest(p) = p.sqrt_start /\ 1 \in 1..n
  BY <1>2, <1>3 DEF Lowest
<1>10. \A i \in 1..n : p.curve[i].price \in Nat \ {0}
  BY <1>3, <1>5, <1>7, <1>8
<1>11. \A i \in 1..n : p.sqrt_start < p.curve[i].price
  <2> SUFFICES ASSUME NEW i \in 1..n PROVE p.sqrt_start < p.curve[i].price
    OBVIOUS
  <2>1. p.sqrt_start < p.curve[1].price
    BY <1>7, <1>9
  <2>2. p.curve[1].price <= p.curve[i].price
    <3>1. 1 <= i
      OBVIOUS
    <3> QED BY <1>9, <3>1, CurveRises DEF n
  <2> QED BY <1>4, <1>5, <1>9, <2>1, <2>2
<1>12. \A i \in 1..n : Lowest(p) <= Segment(p, i).lower
  <2> SUFFICES ASSUME NEW i \in 1..n PROVE p.sqrt_start <= Segment(p, i).lower
    BY <1>9
  <2>1. CASE i = 1
    BY <1>3, <1>4, <2>1
  <2>2. CASE i # 1
    <3>1. i - 1 \in 1..n
      BY <1>2, <2>2
    <3>2. p.sqrt_start < p.curve[i - 1].price /\ p.curve[i - 1].price \in Nat
      BY <1>5, <1>11, <3>1
    <3> QED BY <1>3, <1>4, <2>2, <3>2
  <2> QED BY <2>1, <2>2
<1>13. Highest(p) <= p.stop /\ Highest(p) <= p.curve[n].price
  <2>1. n \in 1..n
    BY <1>2
  <2>2. Highest(p) = AtMost(p.curve[n].price, p.stop)
    BY <1>1, <1>3, <2>1 DEF Highest
  <2> QED BY <1>4, <1>5, <2>1, <2>2 DEF AtMost
<1>14. \A i \in 1..n : p.curve[i].liquidity \in Nat \ {0}
  BY <1>3, <1>8
<1> QED BY <1>1, <1>2, <1>3, <1>4, <1>8, <1>9, <1>10, <1>12, <1>13, <1>14 DEF n

\* The walks unfold into their steps.
LEMMA UpUnfolds ==
    ASSUME NEW p, Len(p.curve) \in Nat, NEW price, NEW amount
    PROVE  \E t : /\ t[0] = Starting(price, amount)
                  /\ \A i \in 1..Len(p.curve) : t[i] = UpSegment(p, t[i - 1], i)
                  /\ quote_to_base(p, price, amount) = t[Len(p.curve)]
<1> DEFINE n == Len(p.curve)
<1>0. n \in Nat
  OBVIOUS
<1> HIDE DEF n
<1> DEFINE Recurs(t, m) ==
        t = [i \in 0..m |-> IF i = 0 THEN Starting(price, amount) ELSE UpSegment(p, t[i - 1], i)]
           P == {m \in Nat : \E t : Recurs(t, m)}
<1>1. 0 \in P
  BY Recurs([i \in 0..0 |-> Starting(price, amount)], 0)
<1>2. ASSUME NEW m \in P
      PROVE  m + 1 \in P
  <2>1. m \in Nat /\ \E t : Recurs(t, m)
    OBVIOUS
  <2>2. PICK t : Recurs(t, m)
    BY <2>1
  <2> DEFINE g == [i \in 0..(m + 1) |-> IF i = m + 1 THEN UpSegment(p, t[m], m + 1) ELSE t[i]]
  <2>3. ASSUME NEW i \in 0..(m + 1)
        PROVE  g[i] = IF i = 0 THEN Starting(price, amount) ELSE UpSegment(p, g[i - 1], i)
    <3>1. CASE i = m + 1
      BY <3>1, <2>1
    <3>2. CASE i # m + 1
      BY <3>2, <2>1, <2>2
    <3> QED BY <3>1, <3>2
  <2>4. Recurs(g, m + 1)
    BY <2>3
  <2> HIDE DEF g
  <2>5. \E h : Recurs(h, m + 1)
    BY <2>4
  <2> HIDE DEF Recurs
  <2> QED BY <2>1, <2>5
<1>3. P = Nat
  <2>1. P \in SUBSET Nat
    OBVIOUS
  <2> HIDE DEF P
  <2> QED BY <1>1, <1>2, <2>1, Induction
<1>4. \E t : Recurs(t, n)
  BY <1>0, <1>3
<1> DEFINE t == CHOOSE t : Recurs(t, n)
<1>5. Recurs(t, n)
  BY Zenon, <1>4
<1>6. quote_to_base(p, price, amount) = t[n]
  BY DEF quote_to_base, n
<1> HIDE DEF t
<1>7. t[0] = Starting(price, amount) /\ \A i \in 1..n : t[i] = UpSegment(p, t[i - 1], i)
  BY <1>0, <1>5
<1> HIDE DEF Recurs
<1> QED BY <1>6, <1>7 DEF n

\* A sale into the curve unfolds to its segments.
LEMMA DownUnfolds ==
    ASSUME NEW p, Len(p.curve) \in Nat \ {0}, NEW price, NEW amount
    PROVE  LET n == Len(p.curve)
           IN  \E t : /\ t[0] = Starting(price, amount)
                      /\ \A k \in 1..(n - 1) : t[k] = DownSegment(p, t[k - 1], n - k)
                      /\ base_to_quote(p, price, amount) = IF t[n - 1].done THEN t[n - 1] ELSE LastSegment(p, t[n - 1])
<1> DEFINE n == Len(p.curve)
<1>0. n \in Nat \ {0}
  OBVIOUS
<1> HIDE DEF n
<1> DEFINE Recurs(t, m) ==
        t = [k \in 0..m |-> IF k = 0 THEN Starting(price, amount) ELSE DownSegment(p, t[k - 1], n - k)]
           P == {m \in Nat : \E t : Recurs(t, m)}
<1>1. 0 \in P
  BY Recurs([k \in 0..0 |-> Starting(price, amount)], 0)
<1>2. ASSUME NEW m \in P
      PROVE  m + 1 \in P
  <2>1. m \in Nat /\ \E t : Recurs(t, m)
    OBVIOUS
  <2>2. PICK t : Recurs(t, m)
    BY <2>1
  <2> DEFINE g == [k \in 0..(m + 1) |-> IF k = m + 1 THEN DownSegment(p, t[m], n - (m + 1)) ELSE t[k]]
  <2>3. ASSUME NEW k \in 0..(m + 1)
        PROVE  g[k] = IF k = 0 THEN Starting(price, amount) ELSE DownSegment(p, g[k - 1], n - k)
    <3>1. CASE k = m + 1
      BY <3>1, <2>1
    <3>2. CASE k # m + 1
      BY <3>2, <2>1, <2>2
    <3> QED BY <3>1, <3>2
  <2>4. Recurs(g, m + 1)
    BY <2>3
  <2> HIDE DEF g
  <2>5. \E h : Recurs(h, m + 1)
    BY <2>4
  <2> HIDE DEF Recurs
  <2> QED BY <2>1, <2>5
<1>3. P = Nat
  <2>1. P \in SUBSET Nat
    OBVIOUS
  <2> HIDE DEF P
  <2> QED BY <1>1, <1>2, <2>1, Induction
<1> DEFINE l == n - 1
<1>4. l \in Nat /\ \E t : Recurs(t, l)
  <2>1. l \in Nat
    BY <1>0
  <2>2. l \in P
    BY <1>3, <2>1
  <2> HIDE DEF l
  <2> QED BY <2>1, <2>2
<1> DEFINE t == CHOOSE t : Recurs(t, l)
<1>5. Recurs(t, l)
  BY <1>4
<1>6. base_to_quote(p, price, amount) = IF t[l].done THEN t[l] ELSE LastSegment(p, t[l])
  BY DEF base_to_quote, n
<1> HIDE DEF t
<1>7. t[0] = Starting(price, amount) /\ \A k \in 1..l : t[k] = DownSegment(p, t[k - 1], n - k)
  BY <1>4, <1>5
<1> HIDE DEF Recurs, P
<1> QED BY <1>6, <1>7 DEF n

\* Where a walk is: its price on the curve, the input that is gone in the vault.
On(p, price, side, amount, w) ==
    /\ w.price \in Prices(p) /\ w.left \in Nat /\ w.left <= amount /\ w.done \in BOOLEAN
    /\ Paid(p, price, w.price, side, amount - w.left, w.out)

\* One more step of it, from the part that is paid.
LEMMA OnOnward ==
    ASSUME NEW p, WellFormed(p), Ranged(p), NEW price \in Prices(p), NEW side \in Sides, NEW amount \in Nat,
           NEW w, On(p, price, side, amount, w), NEW to \in Prices(p), NEW credit \in 0..w.left, NEW debit \in Nat,
           Paid(p, w.price, to, side, credit, debit), NEW done \in BOOLEAN,
           NEW next, next = [out |-> w.out + debit, price |-> to, left |-> w.left - credit, done |-> done]
    PROVE  On(p, price, side, amount, next)
<1>1. /\ w.price \in Prices(p) /\ w.left \in Nat /\ w.left <= amount
      /\ Paid(p, price, w.price, side, amount - w.left, w.out)
  BY DEF On
<1>2. price \in 1..Highest(p) /\ w.price \in 1..Highest(p) /\ to \in 1..Highest(p)
  BY <1>1, PriceType
<1> DEFINE left == w.left
           gone == amount - left
           out == w.out
<1>3. left \in Nat /\ left <= amount /\ Paid(p, price, w.price, side, gone, out) /\ credit \in Nat /\ credit <= left
  BY <1>1
<1>4. next = [out |-> out + debit, price |-> to, left |-> left - credit, done |-> done]
  OBVIOUS
<1> HIDE DEF left, out
<1>5. Paid(p, price, to, side, gone + credit, out + debit)
  <2> HIDE DEF gone
  <2> QED BY <1>2, <1>3, PaidOnward
<1>6. gone + credit = amount - (left - credit) /\ left - credit \in Nat /\ left - credit <= amount
  BY <1>3
<1> HIDE DEF gone
<1>7. Paid(p, price, to, side, amount - (left - credit), out + debit)
  BY <1>5, <1>6
<1> QED BY <1>4, <1>6, <1>7 DEF On

\* A walk starts where the price is.
LEMMA OnStart ==
    ASSUME NEW p, WellFormed(p), Ranged(p), NEW price \in Prices(p), NEW side \in Sides, NEW amount \in Nat
    PROVE  On(p, price, side, amount, Starting(price, amount))
<1> DEFINE none == amount - amount
           zero == 0
<1>1. Starting(price, amount) = [out |-> zero, price |-> price, left |-> amount, done |-> FALSE]
  BY DEF Starting
<1>2. none \in Nat /\ none <= 0 /\ none = zero
  OBVIOUS
<1> HIDE DEF none, zero
<1>3. Paid(p, price, price, side, none, none)
  BY <1>2, PriceType, PaidNothing
<1>4. Paid(p, price, price, side, none, zero)
  BY <1>2, <1>3
<1> QED BY <1>1, <1>4 DEF On, none

\* Up a segment: it is left at its end unless the input is.
LEMMA UpKeeps ==
    ASSUME NEW p, WellFormed(p), p.kind = "dbc", NEW price \in Prices(p), NEW amount \in Nat,
           NEW w, On(p, price, "quote", amount, w), NEW i \in 1..Len(p.curve),
           ~w.done => i = 1 \/ Segment(p, i - 1).upper <= w.price,
           NEW next, next = UpSegment(p, w, i)
    PROVE  On(p, price, "quote", amount, next) /\ (~next.done => Segment(p, i).upper <= next.price)
<1> DEFINE lower == Segment(p, i).lower
           point == Segment(p, i).upper
           liquidity == Segment(p, i).liquidity
           max_in == delta_b(w.price, point, liquidity, TRUE)
           to == next_sqrt_price_from_b(w.price, liquidity, w.left)
<1>1. /\ Ranged(p) /\ Segments(p) = Len(p.curve) /\ i \in 1..Segments(p) /\ i \in Nat
      /\ lower \in Nat \ {0} /\ point \in Nat /\ liquidity \in Nat \ {0} /\ Lowest(p) <= lower /\ point <= Highest(p)
      /\ Lowest(p) \in Nat \ {0} /\ Highest(p) \in Nat
      /\ point = AtMost(p.curve[i].price, p.stop) /\ liquidity = p.curve[i].liquidity
  BY CurvePoints
<1>2. w.price \in Prices(p) /\ w.price \in Nat \ {0} /\ w.left \in Nat /\ Lowest(p) <= w.price /\ w.done \in BOOLEAN
  BY <1>1, PriceType DEF On, Prices
<1>3. CASE w.done \/ point <= w.price
  <2>1. next = w
    BY <1>1, <1>3 DEF UpSegment
  <2> QED BY <1>3, <2>1
<1>4. CASE ~(w.done \/ point <= w.price)
  <2>1. lower <= w.price
    <3>1. CASE i = 1
      <4>1. lower = p.sqrt_start /\ Lowest(p) = p.sqrt_start
        BY <3>1, CurvePoints
      <4> QED BY <1>2, <4>1
    <3>2. CASE i # 1
      <4>1. i - 1 \in 1..Len(p.curve) /\ Segment(p, i - 1).upper <= w.price
        BY <1>1, <1>4, <3>2
      <4>2. /\ lower = p.curve[i - 1].price /\ p.curve[i - 1].price \in Nat /\ p.stop \in Nat
            /\ Segment(p, i - 1).upper = AtMost(p.curve[i - 1].price, p.stop) /\ p.curve[i].price \in Nat
        BY <3>2, <4>1, CurvePoints, SMTT(30)
      <4>3. w.price < p.stop
        BY <1>1, <1>2, <1>4, <4>2 DEF AtMost
      <4> QED BY <1>2, <4>1, <4>2, <4>3 DEF AtMost
    <3> QED BY <3>1, <3>2
  <2>2. w.price < point /\ ~w.done
    BY <1>1, <1>2, <1>4
  <2>3. next = IF w.left < max_in
               THEN [out |-> w.out + delta_a(w.price, to, liquidity, FALSE), price |-> to, left |-> 0, done |-> TRUE]
               ELSE [out |-> w.out + delta_a(w.price, point, liquidity, FALSE), price |-> point,
                     left |-> w.left - max_in, done |-> w.left = max_in]
    <3>1. AtMost(p.curve[i].price, p.stop) = point /\ p.curve[i].liquidity = liquidity
      BY <1>1
    <3>2. next = IF w.done \/ AtMost(p.curve[i].price, p.stop) <= w.price THEN w
                 ELSE IF w.left < delta_b(w.price, AtMost(p.curve[i].price, p.stop), p.curve[i].liquidity, TRUE)
                 THEN [out |-> w.out + delta_a(w.price, next_sqrt_price_from_b(w.price, p.curve[i].liquidity, w.left), p.curve[i].liquidity, FALSE),
                       price |-> next_sqrt_price_from_b(w.price, p.curve[i].liquidity, w.left), left |-> 0, done |-> TRUE]
                 ELSE [out |-> w.out + delta_a(w.price, AtMost(p.curve[i].price, p.stop), p.curve[i].liquidity, FALSE),
                       price |-> AtMost(p.curve[i].price, p.stop),
                       left |-> w.left - delta_b(w.price, AtMost(p.curve[i].price, p.stop), p.curve[i].liquidity, TRUE),
                       done |-> w.left = delta_b(w.price, AtMost(p.curve[i].price, p.stop), p.curve[i].liquidity, TRUE)]
      BY DEF UpSegment
    <3> HIDE DEF point, liquidity
    <3> QED BY <1>4, <3>1, <3>2
  <2> HIDE DEF max_in, to
  <2>4. \A q \in w.price..point : q \in Prices(p) /\ q \in lower..point /\ q \in Nat \ {0} /\ w.price \in lower..point
    BY <1>1, <1>2, <2>1, <2>2 DEF Prices
  <2>5. ASSUME NEW q \in w.price..point, NEW credit \in Nat, liquidity * (q - w.price) <= credit * (Q64 * Q64)
        PROVE  /\ delta_a(w.price, q, liquidity, FALSE) \in Nat
               /\ Paid(p, w.price, q, "quote", credit, delta_a(w.price, q, liquidity, FALSE))
    <3> DEFINE d == delta_a(w.price, q, liquidity, FALSE)
    <3>1. w.price <= q /\ q \in Nat \ {0} /\ liquidity \in Nat
      BY <1>1, <1>2, <2>4
    <3>2. d \in Nat /\ d * (w.price * q) <= liquidity * (q - w.price)
      <4> HIDE DEF liquidity
      <4> QED BY <1>2, <3>1, DeltasUp
    <3> HIDE DEF d
    <3>3. Paid(p, w.price, q, "quote", credit, d)
      BY <1>1, <2>4, <2>5, <3>2, PaidUp
    <3> QED BY <3>2, <3>3 DEF d
  <2>6. "quote" \in Sides
    BY DEF Sides
  <2>7. CASE w.left < max_in
    <3> DEFINE d == delta_a(w.price, to, liquidity, FALSE)
               zero == 0
    <3>1. to \in Nat /\ w.price <= to /\ liquidity * (to - w.price) <= w.left * (Q64 * Q64) /\ to <= point
      <4> HIDE DEF liquidity, point
      <4> QED BY <1>1, <1>2, <2>2, <2>7, NextUp, NextBelow DEF max_in, to
    <3>2. to \in w.price..point
      BY <1>1, <1>2, <3>1
    <3>3. d \in Nat /\ Paid(p, w.price, to, "quote", w.left, d) /\ to \in Prices(p)
      BY <1>2, <2>4, <2>5, <3>1, <3>2
    <3>4. next = [out |-> w.out + d, price |-> to, left |-> zero, done |-> TRUE]
      BY <2>3, <2>7
    <3>5. zero = w.left - w.left /\ w.left \in 0..w.left
      BY <1>2
    <3> HIDE DEF d, zero
    <3>6. next = [out |-> w.out + d, price |-> to, left |-> w.left - w.left, done |-> TRUE]
      BY <3>4, <3>5
    <3>7. On(p, price, "quote", amount, next)
      BY <1>1, <2>6, <3>3, <3>5, <3>6, OnOnward
    <3> QED BY <3>4, <3>7
  <2>8. CASE ~(w.left < max_in)
    <3> DEFINE d == delta_a(w.price, point, liquidity, FALSE)
               full == w.left = max_in
    <3>1. max_in \in Nat /\ liquidity * (point - w.price) <= max_in * (Q64 * Q64)
      <4>1. point \in Nat \ {0} /\ w.price <= point /\ liquidity \in Nat
        BY <1>1, <1>2, <2>2
      <4> HIDE DEF liquidity, point
      <4> QED BY <1>2, <4>1, DeltasUp DEF max_in
    <3>2. point \in w.price..point
      BY <1>1, <1>2, <2>2
    <3>3. d \in Nat /\ Paid(p, w.price, point, "quote", max_in, d) /\ point \in Prices(p)
      BY <2>4, <2>5, <3>1, <3>2
    <3>4. next = [out |-> w.out + d, price |-> point, left |-> w.left - max_in, done |-> full]
      BY <2>3, <2>8
    <3>5. max_in \in 0..w.left /\ full \in BOOLEAN
      BY <1>2, <2>8, <3>1
    <3> HIDE DEF d, point, full
    <3>6. On(p, price, "quote", amount, next)
      BY <1>1, <2>6, <3>3, <3>4, <3>5, OnOnward
    <3> USE DEF point
    <3>7. next.price = point
      BY <3>4
    <3> QED BY <1>1, <3>6, <3>7
  <2> QED BY <2>7, <2>8
<1> QED BY <1>3, <1>4

\* What a purchase from the curve gives is paid for.
LEMMA UpPaid ==
    ASSUME NEW p, WellFormed(p), p.kind = "dbc", NEW price \in Prices(p), NEW amount \in Nat
    PROVE  On(p, price, "quote", amount, quote_to_base(p, price, amount))
<1> DEFINE n == Len(p.curve)
<1>1. n \in Nat \ {0} /\ Ranged(p)
  BY CurvePoints
<1>2. "quote" \in Sides
  BY DEF Sides
<1>3. n = Len(p.curve) /\ n \in Nat
  BY <1>1
<1>4. PICK t : /\ t[0] = Starting(price, amount)
               /\ \A i \in 1..n : t[i] = UpSegment(p, t[i - 1], i)
               /\ quote_to_base(p, price, amount) = t[n]
  BY <1>1, UpUnfolds
<1> HIDE DEF n
<1> DEFINE Walks(m) == On(p, price, "quote", amount, t[m]) /\ (~t[m].done => m = 0 \/ Segment(p, m).upper <= t[m].price)
           P == {m \in Nat : m <= n => Walks(m)}
<1>5. 0 \in P
  BY <1>1, <1>2, <1>4, OnStart
<1>6. ASSUME NEW m \in P PROVE m + 1 \in P
  <2>1. m \in Nat /\ (m <= n => Walks(m))
    OBVIOUS
  <2> SUFFICES ASSUME m + 1 <= n PROVE Walks(m + 1)
    BY <2>1
  <2> DEFINE i == m + 1
  <2>2. i \in 1..n /\ i - 1 = m /\ m <= n /\ (m = 0 => i = 1)
    BY <1>1, <2>1
  <2>3. Walks(m)
    BY <2>1, <2>2
  <2> HIDE DEF i
  <2>4. t[i] = UpSegment(p, t[m], i)
    BY <1>4, <2>2
  <2> DEFINE w == t[m]
             next == t[i]
  <2>5. next = UpSegment(p, w, i) /\ On(p, price, "quote", amount, w) /\ i \in 1..Len(p.curve)
    BY <1>3, <2>2, <2>3, <2>4
  <2>6. ~w.done => i = 1 \/ Segment(p, i - 1).upper <= w.price
    BY <2>2, <2>3
  <2> HIDE DEF w, next, Walks
  <2>7. On(p, price, "quote", amount, next) /\ (~next.done => Segment(p, i).upper <= next.price)
    BY <2>5, <2>6, UpKeeps
  <2> QED BY <2>7 DEF Walks, i, next
<1>7. P = Nat
  <2>1. P \in SUBSET Nat
    OBVIOUS
  <2> HIDE DEF P
  <2> QED BY <1>5, <1>6, <2>1, Induction
<1>8. Walks(n)
  BY <1>1, <1>7
<1> QED BY <1>4, <1>8

\* Down a segment: it is left at the point below unless the input is.
LEMMA DownKeeps ==
    ASSUME NEW p, WellFormed(p), p.kind = "dbc", NEW price \in Prices(p), NEW amount \in Nat,
           NEW w, On(p, price, "base", amount, w), NEW i \in 1..(Len(p.curve) - 1),
           ~w.done => w.price <= p.curve[i + 1].price,
           NEW next, next = DownSegment(p, w, i)
    PROVE  On(p, price, "base", amount, next) /\ (~next.done => next.price <= p.curve[i].price)
<1> DEFINE j == i + 1
           upper == Segment(p, j).upper
           point == p.curve[i].price
           liquidity == p.curve[j].liquidity
           max_in == delta_a(point, w.price, liquidity, TRUE)
           to == next_sqrt_price_from_a(w.price, liquidity, w.left)
<1>0. j \in 1..Len(p.curve) /\ i \in 1..Len(p.curve) /\ j # 1 /\ j - 1 = i
  BY CurvePoints
<1>1. /\ Ranged(p) /\ Segments(p) = Len(p.curve) /\ j \in 1..Segments(p)
      /\ Segment(p, j).lower = point /\ Segment(p, j).liquidity = liquidity
      /\ point \in Nat \ {0} /\ upper \in Nat /\ liquidity \in Nat \ {0} /\ Lowest(p) <= point /\ upper <= Highest(p)
      /\ Lowest(p) \in Nat \ {0} /\ Highest(p) \in Nat /\ Highest(p) <= p.stop /\ p.stop \in Nat
      /\ upper = AtMost(p.curve[j].price, p.stop) /\ p.curve[j].price \in Nat
  <2> HIDE DEF j
  <2>1. Ranged(p) /\ Segments(p) = Len(p.curve) /\ Lowest(p) \in Nat \ {0} /\ Highest(p) \in Nat /\ Highest(p) <= p.stop /\ p.stop \in Nat
    BY CurvePoints
  <2>2. point \in Nat \ {0}
    BY <1>0, CurvePoints
  <2>3. /\ Segment(p, j).lower = (IF j = 1 THEN p.sqrt_start ELSE p.curve[j - 1].price) /\ Segment(p, j).liquidity = liquidity
        /\ upper \in Nat /\ liquidity \in Nat \ {0} /\ upper <= Highest(p) /\ Lowest(p) <= Segment(p, j).lower
        /\ upper = AtMost(p.curve[j].price, p.stop) /\ p.curve[j].price \in Nat
    BY <1>0, CurvePoints
  <2>4. Segment(p, j).lower = point
    BY <1>0, <2>3
  <2> QED BY <1>0, <2>1, <2>2, <2>3, <2>4
<1> HIDE DEF j
<1>2. w.price \in Prices(p) /\ w.price \in Nat \ {0} /\ w.left \in Nat /\ w.price <= Highest(p) /\ w.done \in BOOLEAN
  BY <1>1, PriceType, SMTT(30) DEF On, Prices
<1>3. CASE w.done \/ point >= w.price
  <2>1. next = w
    BY <1>3 DEF DownSegment
  <2> QED BY <1>1, <1>2, <1>3, <2>1
<1>4. CASE ~(w.done \/ point >= w.price)
  <2>1. w.price <= upper /\ point < w.price
    BY <1>1, <1>2, <1>4, SMTT(30) DEF AtMost, j
  <2>3. next = IF w.left < max_in
               THEN [out |-> w.out + delta_b(to, w.price, liquidity, FALSE), price |-> to, left |-> 0, done |-> TRUE]
               ELSE [out |-> w.out + delta_b(point, w.price, liquidity, FALSE), price |-> point,
                     left |-> w.left - max_in, done |-> FALSE]
    BY <1>4 DEF DownSegment, j
  <2> HIDE DEF max_in, to, point, liquidity
  <2>4. \A q \in point..w.price : q \in Prices(p) /\ q \in point..upper /\ q \in Nat \ {0} /\ w.price \in point..upper
    <3> SUFFICES ASSUME NEW q \in point..w.price
                 PROVE  q \in Prices(p) /\ q \in point..upper /\ q \in Nat \ {0} /\ w.price \in point..upper
      OBVIOUS
    <3>1. q \in Nat \ {0} /\ q <= w.price /\ point <= q /\ w.price <= Highest(p) /\ Lowest(p) <= point
      BY <1>1, <1>2, SMTT(30)
    <3>2. q \in point..upper /\ w.price \in point..upper
      BY <1>1, <1>2, <2>1, <3>1, SMTT(30)
    <3>3. q \in Prices(p)
      BY <1>1, <1>2, <3>1 DEF Prices
    <3> QED BY <3>1, <3>2, <3>3
  <2>5. ASSUME NEW q \in point..w.price, NEW credit \in Nat, liquidity * (w.price - q) <= credit * (w.price * q)
        PROVE  /\ delta_b(q, w.price, liquidity, FALSE) \in Nat
               /\ Paid(p, w.price, q, "base", credit, delta_b(q, w.price, liquidity, FALSE))
    <3> DEFINE d == delta_b(q, w.price, liquidity, FALSE)
    <3>1. q <= w.price /\ q \in Nat \ {0} /\ liquidity \in Nat
      BY <1>1, <1>2, <2>4
    <3>2. d \in Nat /\ d * (Q64 * Q64) <= liquidity * (w.price - q)
      BY <1>2, <3>1, DeltasDown
    <3> HIDE DEF d
    <3>3. Paid(p, w.price, q, "base", credit, d)
      BY <1>1, <2>4, <2>5, <3>2, PaidDown
    <3> QED BY <3>2, <3>3 DEF d
  <2>6. "base" \in Sides
    BY DEF Sides
  <2>7. CASE w.left < max_in
    <3> DEFINE d == delta_b(to, w.price, liquidity, FALSE)
               zero == 0
    <3>1. to \in Nat /\ to <= w.price /\ liquidity * (w.price - to) <= w.left * (w.price * to) /\ point <= to
      BY <1>1, <1>2, <2>1, <2>7, NextDown, NextAbove DEF max_in, to
    <3>2. to \in point..w.price
      BY <1>1, <1>2, <3>1
    <3>3. d \in Nat /\ Paid(p, w.price, to, "base", w.left, d) /\ to \in Prices(p)
      BY <1>2, <2>4, <2>5, <3>1, <3>2
    <3>4. next = [out |-> w.out + d, price |-> to, left |-> zero, done |-> TRUE]
      BY <2>3, <2>7
    <3>5. zero = w.left - w.left /\ w.left \in 0..w.left
      BY <1>2
    <3> HIDE DEF d, zero
    <3>6. next = [out |-> w.out + d, price |-> to, left |-> w.left - w.left, done |-> TRUE]
      BY <3>4, <3>5
    <3>7. On(p, price, "base", amount, next)
      BY <1>1, <2>6, <3>3, <3>5, <3>6, OnOnward
    <3> QED BY <3>4, <3>7
  <2>8. CASE ~(w.left < max_in)
    <3> DEFINE d == delta_b(point, w.price, liquidity, FALSE)
    <3>1. max_in \in Nat /\ liquidity * (w.price - point) <= max_in * (w.price * point)
      <4>1. point <= w.price /\ liquidity \in Nat
        BY <1>1, <1>2, <2>1
      <4> QED BY <1>1, <1>2, <4>1, DeltasDown DEF max_in
    <3>2. point \in point..w.price
      BY <1>1, <1>2, <2>1
    <3>3. d \in Nat /\ Paid(p, w.price, point, "base", max_in, d) /\ point \in Prices(p)
      BY <2>4, <2>5, <3>1, <3>2
    <3>4. next = [out |-> w.out + d, price |-> point, left |-> w.left - max_in, done |-> FALSE]
      BY <2>3, <2>8
    <3>5. max_in \in 0..w.left
      BY <1>2, <2>8, <3>1
    <3> HIDE DEF d
    <3>6. On(p, price, "base", amount, next)
      BY <1>1, <2>6, <3>3, <3>4, <3>5, OnOnward
    <3>7. next.price = point
      BY <3>4
    <3> QED BY <1>1, <3>6, <3>7 DEF point
  <2> QED BY <2>7, <2>8
<1> QED BY <1>3, <1>4

\* In the first segment all that is left is spent, if that does not leave it.
LEMMA LastKeeps ==
    ASSUME NEW p, WellFormed(p), p.kind = "dbc", NEW price \in Prices(p), NEW amount \in Nat,
           NEW w, On(p, price, "base", amount, w), w.price <= p.curve[1].price,
           NEW next, next = LastSegment(p, w), next.done
    PROVE  On(p, price, "base", amount, next)
<1> DEFINE liquidity == p.curve[1].liquidity
           to == next_sqrt_price_from_a(w.price, liquidity, w.left)
           upper == Segment(p, 1).upper
<1>1. /\ Ranged(p) /\ 1 \in 1..Segments(p) /\ Segment(p, 1).lower = p.sqrt_start /\ Segment(p, 1).liquidity = liquidity
      /\ p.sqrt_start \in Nat \ {0} /\ upper \in Nat /\ liquidity \in Nat \ {0} /\ Lowest(p) = p.sqrt_start
      /\ Highest(p) \in Nat /\ Highest(p) <= p.stop /\ p.stop \in Nat
      /\ upper = AtMost(p.curve[1].price, p.stop) /\ p.curve[1].price \in Nat
  <2>1. 1 \in 1..Len(p.curve)
    BY CurvePoints
  <2> QED BY <2>1, CurvePoints
<1>2. /\ w.price \in Prices(p) /\ w.price \in Nat \ {0} /\ w.left \in Nat /\ w.price <= Highest(p) /\ p.sqrt_start <= w.price
      /\ w.done \in BOOLEAN
  BY <1>1, PriceType DEF On, Prices
<1>3. CASE w.left = 0
  <2>1. next = [w EXCEPT !.done = TRUE]
    BY <1>3 DEF LastSegment
  <2>2. next.price = w.price /\ next.left = w.left /\ next.out = w.out
    BY <2>1
  <2>3. next.done \in BOOLEAN
    BY <2>1
  <2> QED BY <2>2, <2>3 DEF On
<1>4. CASE w.left # 0
  <2> DEFINE reached == to >= p.sqrt_start
             d == delta_b(to, w.price, liquidity, FALSE)
             zero == 0
  <2>1. next = [out |-> w.out + d, price |-> to, left |-> zero, done |-> reached]
    BY <1>4 DEF LastSegment
  <2>0. reached \in BOOLEAN
    OBVIOUS
  <2> HIDE DEF reached
  <2>9. next.done = reached
    BY <2>1
  <2>10. reached
    BY <2>0, <2>9
  <2>2. to >= p.sqrt_start
    BY <2>10 DEF reached
  <2> HIDE DEF to, liquidity
  <2>3. to \in Nat \ {0} /\ to <= w.price /\ liquidity * (w.price - to) <= w.left * (w.price * to)
    BY <1>1, <1>2, NextDown DEF to
  <2>4. d \in Nat /\ d * (Q64 * Q64) <= liquidity * (w.price - to)
    <3>1. liquidity \in Nat
      BY <1>1
    <3> QED BY <1>2, <2>3, <3>1, DeltasDown
  <2>5. to \in p.sqrt_start..upper /\ w.price \in p.sqrt_start..upper /\ to \in Prices(p)
    BY <1>1, <1>2, <2>2, <2>3 DEF Prices, AtMost
  <2>6. zero = w.left - w.left /\ w.left \in 0..w.left /\ reached \in BOOLEAN /\ "base" \in Sides
    BY <1>2, <2>0 DEF Sides
  <2> HIDE DEF d, zero
  <2>7. Paid(p, w.price, to, "base", w.left, d)
    BY <1>1, <1>2, <2>3, <2>4, <2>5, PaidDown
  <2>8. next = [out |-> w.out + d, price |-> to, left |-> w.left - w.left, done |-> reached]
    BY <2>1, <2>6
  <2> QED BY <1>1, <2>4, <2>5, <2>6, <2>7, <2>8, OnOnward
<1> QED BY <1>3, <1>4

\* What a sale into the curve gives is paid for, when it is done.
LEMMA DownPaid ==
    ASSUME NEW p, WellFormed(p), p.kind = "dbc", NEW price \in Prices(p), NEW amount \in Nat,
           base_to_quote(p, price, amount).done
    PROVE  On(p, price, "base", amount, base_to_quote(p, price, amount))
<1> DEFINE n == Len(p.curve)
<1>1. /\ n \in Nat \ {0} /\ Ranged(p) /\ price <= p.curve[n].price
      /\ \A i \in 1..n : p.curve[i].price \in Nat
  BY CurvePoints, PriceType DEF Prices
<1>2. "base" \in Sides
  BY DEF Sides
<1>3. n = Len(p.curve)
  OBVIOUS
<1>4. PICK t : /\ t[0] = Starting(price, amount)
               /\ \A k \in 1..(n - 1) : t[k] = DownSegment(p, t[k - 1], n - k)
               /\ base_to_quote(p, price, amount) = IF t[n - 1].done THEN t[n - 1] ELSE LastSegment(p, t[n - 1])
  BY <1>1, DownUnfolds
<1> HIDE DEF n
<1> DEFINE Walks(m) == On(p, price, "base", amount, t[m]) /\ (~t[m].done => t[m].price <= p.curve[n - m].price)
           P == {m \in Nat : m <= n - 1 => Walks(m)}
<1>5. 0 \in P
  <2>1. On(p, price, "base", amount, t[0])
    BY <1>1, <1>2, <1>4, OnStart
  <2>2. t[0].price = price /\ n - 0 = n
    BY <1>1, <1>4 DEF Starting
  <2>3. t[0].price <= p.curve[n - 0].price
    BY <1>1, <2>2
  <2> QED BY <2>1, <2>3
<1>6. ASSUME NEW m \in P PROVE m + 1 \in P
  <2>1. m \in Nat /\ (m <= n - 1 => Walks(m))
    OBVIOUS
  <2> SUFFICES ASSUME m + 1 <= n - 1 PROVE Walks(m + 1)
    BY <2>1
  <2> DEFINE i == n - (m + 1)
             k == m + 1
  <2>2. i \in 1..(n - 1) /\ i + 1 = n - m /\ m <= n - 1 /\ k \in 1..(n - 1) /\ k - 1 = m /\ n - k = i
    BY <1>1, <2>1
  <2>3. Walks(m)
    BY <2>1, <2>2
  <2> HIDE DEF i, k
  <2>4. t[k] = DownSegment(p, t[m], i)
    BY <1>4, <2>2
  <2> DEFINE w == t[m]
             next == t[k]
  <2>5. next = DownSegment(p, w, i) /\ On(p, price, "base", amount, w) /\ i \in 1..(Len(p.curve) - 1)
    BY <1>3, <2>2, <2>3, <2>4
  <2>6. ~w.done => w.price <= p.curve[i + 1].price
    BY <2>2, <2>3
  <2> HIDE DEF w, next
  <2>7. On(p, price, "base", amount, next) /\ (~next.done => next.price <= p.curve[i].price)
    BY <2>5, <2>6, DownKeeps
  <2>8. Walks(k)
    BY <2>2, <2>7 DEF next
  <2> HIDE DEF Walks
  <2> QED BY <2>8 DEF k
<1>7. P = Nat
  <2>1. P \in SUBSET Nat
    OBVIOUS
  <2> HIDE DEF P
  <2> QED BY <1>5, <1>6, <2>1, Induction
<1> DEFINE l == n - 1
           w == t[l]
<1>8. l \in Nat /\ l <= n - 1 /\ n - l = 1
  BY <1>1
<1>9. Walks(l)
  <2>1. l \in P
    BY <1>7, <1>8
  <2> HIDE DEF l
  <2> QED BY <1>8, <2>1
<1>10. On(p, price, "base", amount, w) /\ (~w.done => w.price <= p.curve[1].price)
  BY <1>8, <1>9
<1>11. base_to_quote(p, price, amount) = IF w.done THEN w ELSE LastSegment(p, w)
  BY <1>4
<1> HIDE DEF w, Walks, P, l
<1>12. CASE w.done
  BY <1>10, <1>11, <1>12
<1>13. CASE ~w.done
  <2> DEFINE last == LastSegment(p, w)
  <2>1. base_to_quote(p, price, amount) = last /\ last.done /\ last = LastSegment(p, w)
    BY <1>11, <1>13
  <2> HIDE DEF last
  <2> QED BY <1>10, <1>13, <2>1, LastKeeps
<1> QED BY <1>12, <1>13

\* A swap of a bonding curve is a fair move.
LEMMA DbcFair ==
    ASSUME NEW p, WellFormed(p), p.kind = "dbc", NEW price \in Prices(p), NEW v \in Amount, NEW time,
           NEW side \in Sides, NEW amount \in Nat,
           NEW s, s = DbcSwap(p, price, v, time, side, amount), s.quote.out > 0
    PROVE  FairMove(p, v, price, s.price, side, amount, s.quote)
<1> DEFINE rate == dbc_fee_numerator(p.fees, time, side)
           on_input == side = "quote" /\ p.fees_in = "quote"
           actual_in == IF on_input THEN amount - ceil_fee(amount, rate) ELSE amount
           w == Walked(p, price, side, actual_in)
<1>1. /\ ~is_complete(p, v) /\ rate \in 0..FeeScale /\ ~(side = "quote" /\ v.quote + actual_in >= p.threshold)
      /\ s = Outcome(w, price, rate, on_input, actual_in)
  <2>1. SUFFICES ASSUME is_complete(p, v) \/ rate \notin 0..FeeScale \/ (side = "quote" /\ v.quote + actual_in >= p.threshold)
                 PROVE  FALSE
    BY DEF DbcSwap
  <2>2. s.quote = NoQuote
    BY <2>1 DEF DbcSwap
  <2> QED BY <2>2 DEF NoQuote
<1>2. on_input \in BOOLEAN
  OBVIOUS
<1> HIDE DEF rate, on_input
<1>3. actual_in \in Nat /\ actual_in <= amount
  BY <1>1, <1>2, FeeWithin
<1> HIDE DEF actual_in
<1>4. w.done /\ s = [quote |-> Quoting(IF on_input THEN w.out ELSE w.out - ceil_fee(w.out, rate), actual_in, w.out), price |-> w.price]
  <2> HIDE DEF w
  <2>1. SUFFICES ASSUME ~w.done PROVE FALSE
    BY <1>1 DEF Outcome
  <2>2. s.quote = NoQuote
    BY <1>1, <2>1 DEF Outcome
  <2> QED BY <2>2 DEF NoQuote
<1>5. On(p, price, side, actual_in, w)
  <2>1. CASE side = "quote"
    <3>1. w = quote_to_base(p, price, actual_in)
      BY <2>1 DEF Walked
    <3> QED BY <1>3, <2>1, <3>1, UpPaid
  <2>2. CASE side = "base"
    <3>1. w = base_to_quote(p, price, actual_in)
      BY <2>2 DEF Walked
    <3> QED BY <1>3, <1>4, <2>2, <3>1, DownPaid
  <2> QED BY <2>1, <2>2 DEF Sides
<1> HIDE DEF w
<1> DEFINE out == w.out
           q == s.quote
           gone == actual_in - w.left
<1>6. /\ w.price \in Prices(p) /\ w.left \in Nat /\ w.left <= actual_in /\ Ranged(p)
      /\ Paid(p, price, w.price, side, gone, out)
  BY <1>5 DEF On, Ranged
<1>7. out \in Nat
  BY <1>6 DEF Paid
<1>8. Paid(p, price, w.price, side, actual_in, out)
  <2>1. price \in 1..Highest(p) /\ w.price \in 1..Highest(p)
    BY <1>6, PriceType
  <2>2. gone <= actual_in
    BY <1>3, <1>6
  <2> HIDE DEF gone, out
  <2>3. out <= out
    BY <1>7
  <2> QED BY <1>3, <1>6, <1>7, <2>1, <2>2, <2>3, PaidMore
<1>9. q = Quoting(IF on_input THEN out ELSE out - ceil_fee(out, rate), actual_in, out) /\ q.out > 0 /\ s.price = w.price
  BY <1>4
<1> HIDE DEF out, q
<1>10. q.out \in Nat /\ q.out <= out /\ q.credit = actual_in /\ q.debit = out
  BY <1>1, <1>2, <1>7, <1>9, NetOut
<1>11. v.quote \in Nat /\ p.threshold \in Nat /\ "quote" \in Sides
  BY DEF Amount, Sides, WellFormed
<1>12. v.quote < p.threshold /\ (side = "quote" => v.quote + actual_in < p.threshold)
  BY <1>1, <1>3, <1>11 DEF is_complete
<1> QED BY <1>3, <1>6, <1>8, <1>9, <1>10, <1>12 DEF FairMove, q

-----------------------------------------------------------------------------
(* The price walked                                                         *)

\* A venue quotes nothing, or more than nothing.
Quotes(q) == q = NoQuote \/ (IsQuote(q) /\ q.out > 0)

\* Quoting gives a quote of something, or none.
LEMMA QuotingQuotes ==
    ASSUME NEW out, NEW credit, NEW debit
    PROVE  Quotes(Quoting(out, credit, debit))
<1>1. CASE out > 0
  <2> DEFINE q == Quoting(out, credit, debit)
  <2>1. q = [out |-> out, credit |-> credit, debit |-> debit]
    BY <1>1 DEF Quoting
  <2> HIDE DEF q
  <2>2. IsQuote(q) /\ q.out = out
    BY <2>1 DEF IsQuote
  <2>3. Quotes(q)
    BY <1>1, <2>2 DEF Quotes
  <2> QED BY <2>3 DEF q
<1>2. CASE ~(out > 0)
  <2>1. Quoting(out, credit, debit) = NoQuote
    BY <1>2 DEF Quoting
  <2> QED BY <2>1 DEF Quotes
<1> QED BY <1>1, <1>2

\* So do the swaps of the three curves.
LEMMA SwapQuotes ==
    ASSUME NEW p, NEW price, NEW v, NEW time, NEW side, NEW amount
    PROVE  /\ Quotes(DammSwap(p, price, v, time, side, amount).quote)
           /\ Quotes(DbcSwap(p, price, v, time, side, amount).quote)
           /\ Quotes(ByrealSwap(p, price, v, time, side, amount).quote)
<1>1. Quotes(NoQuote) /\ \A x, y, z : Quotes(Quoting(x, y, z))
  BY QuotingQuotes DEF Quotes
<1>2. Quotes(DammSwap(p, price, v, time, side, amount).quote)
  BY <1>1 DEF DammSwap, Paying
<1>3. Quotes(DbcSwap(p, price, v, time, side, amount).quote)
  <2>1. \A w, x, r, o, a : Quotes(Outcome(w, x, r, o, a).quote)
    BY <1>1 DEF Outcome
  <2> QED BY <1>1, <2>1 DEF DbcSwap
<1>4. Quotes(ByrealSwap(p, price, v, time, side, amount).quote)
  BY <1>1 DEF ByrealSwap
<1> QED BY <1>2, <1>3, <1>4

\* On a ranged pool the quote is its venue's, and the market is the price it left.
LEMMA PricedOnRange ==
    ASSUME WellFormed(pool), Ranged(pool), market \in [price : Prices(pool)], vault \in Amount, NEW i, NEW side \in Sides,
           NEW amount \in Nat, NEW s, s = priced(i, side, amount), s.quote.out > 0
    PROVE  /\ s.market \in [price : Prices(pool)]
           /\ FairMove(pool, vault, market.price, s.market.price, side, amount, s.quote)
<1> DEFINE net == net_of_transfer_fee(side, amount)
           time == pool.times[i]
           from == market.price
           P == PricedAt(time, side, net)
<1>1. net \in Nat /\ net <= amount /\ Across(side) \in Sides /\ from \in Prices(pool)
  BY NetBounds DEF Sides, Across
<1> HIDE DEF net, time
<1>2. PICK swap : /\ P = OnCurve(swap)
                  /\ \/ pool.kind = "damm" /\ swap = DammSwap(pool, from, vault, time, side, net)
                     \/ pool.kind = "dbc" /\ swap = DbcSwap(pool, from, vault, time, side, net)
                     \/ pool.kind = "byreal" /\ swap = ByrealSwap(pool, from, vault, time, side, net)
  <2>1. ASSUME pool.kind = "damm" PROVE P = OnCurve(DammSwap(pool, from, vault, time, side, net))
    BY <2>1 DEF PricedAt, Markets, OnMarket
  <2>2. ASSUME pool.kind = "dbc" PROVE P = OnCurve(DbcSwap(pool, from, vault, time, side, net))
    BY <2>2 DEF PricedAt, Markets, OnMarket
  <2>3. ASSUME pool.kind = "byreal" PROVE P = OnCurve(ByrealSwap(pool, from, vault, time, side, net))
    BY <2>3 DEF PricedAt, Markets, OnMarket
  <2> QED BY <2>1, <2>2, <2>3 DEF Ranged
<1>3. P = [quote |-> swap.quote, market |-> [market EXCEPT !.price = swap.price]]
  BY <1>2 DEF OnCurve
<1>4. Quotes(swap.quote)
  BY <1>2, SwapQuotes
<1> DEFINE Q == swap.quote
           out == net_of_transfer_fee(Across(side), Q.out)
<1>5. s = [P EXCEPT !.quote.out = out]
  BY <1>3 DEF priced, net, time
<1> HIDE DEF P, out
<1>6. s.market = [market EXCEPT !.price = swap.price] /\ s.quote = [Q EXCEPT !.out = out]
  BY <1>3, <1>5
<1>7. s.market = [price |-> swap.price]
  BY <1>6
<1>8. s.quote.out = out /\ s.quote.credit = Q.credit /\ s.quote.debit = Q.debit
  BY <1>4, <1>6 DEF Quotes, IsQuote, NoQuote
<1>9. Q.out > 0
  <2>1. SUFFICES ASSUME Q = NoQuote PROVE FALSE
    BY <1>4 DEF Quotes
  <2>2. 0 \in Nat
    OBVIOUS
  <2>3. net_of_transfer_fee(Across(side), 0) <= 0 /\ net_of_transfer_fee(Across(side), 0) \in Nat
    BY <1>1, <2>2, NetBounds
  <2>4. out = net_of_transfer_fee(Across(side), 0)
    BY <2>1 DEF out, NoQuote
  <2> QED BY <1>8, <2>3, <2>4
<1>10. FairMove(pool, vault, from, swap.price, side, net, Q)
  <2>1. CASE pool.kind = "damm" /\ swap = DammSwap(pool, from, vault, time, side, net)
    BY <1>1, <1>9, <2>1, DammFair
  <2>2. CASE pool.kind = "dbc" /\ swap = DbcSwap(pool, from, vault, time, side, net)
    BY <1>1, <1>9, <2>2, DbcFair
  <2>3. CASE pool.kind = "byreal" /\ swap = ByrealSwap(pool, from, vault, time, side, net)
    BY <1>1, <1>9, <2>3, ByrealFair
  <2> QED BY <1>2, <2>1, <2>2, <2>3
<1> HIDE DEF Q
<1>11. /\ Q.out \in Nat /\ Q.out <= Q.debit /\ Q.credit <= net /\ swap.price \in Prices(pool)
       /\ Paid(pool, from, swap.price, side, Q.credit, Q.debit)
       /\ pool.kind = "dbc" => vault.quote < pool.threshold /\ (side = "quote" => vault.quote + Q.credit < pool.threshold)
  BY <1>10 DEF FairMove
<1>12. Q.credit \in Nat /\ Q.debit \in Nat
  BY <1>11 DEF Paid
<1>13. out \in Nat /\ out <= Q.debit /\ Q.credit <= amount
  <2>1. out \in Nat /\ out <= Q.out
    BY <1>1, <1>11, NetBounds DEF out, Q
  <2> QED BY <1>1, <1>11, <1>12, <2>1
<1>14. FairMove(pool, vault, from, swap.price, side, amount, s.quote)
  BY <1>8, <1>11, <1>13 DEF FairMove, Q
<1>15. s.market.price = swap.price /\ s.market \in [price : Prices(pool)]
  BY <1>7, <1>11
<1> QED BY <1>14, <1>15

-----------------------------------------------------------------------------
(* The invariant of a walked price                                          *)

\* The price is on the curve, the vaults have kept up with what stands in the segments
\* since the start, no tokens come from nowhere, and a launch is still running.
OnRange ==
    /\ market \in [price : Prices(pool)]
    /\ vault \in Amount /\ purse \in Amount
    /\ \A s \in Sides : vault[s] + purse[s] <= pool.vault[s] + Purse
    /\ \A s \in Sides : Kept(pool, pool.market.price, market.price, s, vault[s] - pool.vault[s])
    /\ pool.kind = "dbc" => vault.quote < pool.threshold

\* At the start nothing has moved.
LEMMA InitOnRange ==
    ASSUME Init, Ranged(pool)
    PROVE  OnRange
<1>1. WellFormed(pool) /\ Purse \in Nat
  BY PoolsAssumption, TradesAssumption DEF Init
<1>2. vault = pool.vault /\ market = pool.market /\ purse = [s \in Sides |-> Purse]
  BY DEF Init
<1>3. market \in [price : Prices(pool)] /\ vault \in Amount
  BY <1>1, <1>2 DEF WellFormed, Prices, Lowest, Highest
<1>4. purse \in Amount /\ \A s \in Sides : vault[s] + purse[s] <= pool.vault[s] + Purse
  BY <1>1, <1>2, <1>3 DEF Amount
<1>5. pool.kind = "dbc" => vault.quote < pool.threshold
  BY <1>1, <1>2 DEF WellFormed
<1>6. ASSUME NEW s \in Sides
      PROVE  Kept(pool, pool.market.price, market.price, s, vault[s] - pool.vault[s])
  <2> DEFINE none == vault[s] - pool.vault[s]
  <2>1. none \in Nat /\ none <= 0
    <3>1. vault[s] \in Nat /\ pool.vault[s] = vault[s]
      BY <1>2, <1>3 DEF Amount
    <3> QED BY <3>1
  <2> HIDE DEF none
  <2>2. market.price \in 1..Highest(pool)
    BY <1>1, <1>3, PriceType
  <2>3. Paid(pool, market.price, market.price, s, none, none)
    BY <1>1, <2>1, <2>2, PaidNothing
  <2> QED BY <1>2, <2>3 DEF Paid, none
<1> QED BY <1>3, <1>4, <1>5, <1>6 DEF OnRange

\* What the vaults have kept up with, they hold.
LEMMA KeptHolds ==
    ASSUME WellFormed(pool), Ranged(pool), NEW price \in 1..Highest(pool), NEW s \in Sides, NEW held \in Int,
           Kept(pool, pool.market.price, price, s, held - pool.vault[s])
    PROVE  held \in Nat /\ Standing(pool, price, s) <= held
<1>1. pool.market.price \in 1..Highest(pool)
  <2>1. pool.market \in [price : Prices(pool)]
    BY DEF WellFormed, Prices, Lowest, Highest
  <2> QED BY <2>1, PriceType
<1> DEFINE start == Standing(pool, pool.market.price, s)
           now == Standing(pool, price, s)
           given == pool.vault[s]
<1>2. start \in Nat /\ now \in Nat
  BY <1>1, WholeType
<1>3. given \in Nat /\ start <= given
  <2>1. given \in Nat
    BY DEF WellFormed, Amount
  <2>2. given >= start
    BY DEF WellFormed
  <2> HIDE DEF start, given
  <2> QED BY <1>2, <2>1, <2>2
<1>4. now <= start + (held - given)
  BY DEF Kept
<1> HIDE DEF start, now, given
<1>5. now <= held /\ held \in Nat
  BY <1>2, <1>3, <1>4
<1> QED BY <1>5 DEF now

\* A swap at a fair quote moves the price and pays for it.
LEMMA SwapOnRange ==
    ASSUME pool \in Pools, Ranged(pool), OnRange,
           NEW i, NEW side \in Sides, NEW amount \in Amounts, Swap(i, side, amount)
    PROVE  OnRange'
<1> DEFINE other == Across(side)
           first == pool.market.price
           from == market.price
<1>1. WellFormed(pool) /\ amount \in Nat /\ Purse \in Nat
  BY PoolsAssumption, TradesAssumption, WidthAssumption
<1>2. PICK p : p = priced(i, side, amount) /\ Settle(side, amount, p.quote) /\ market' = p.market
  BY DEF Swap
<1> DEFINE q == p.quote
           to == p.market.price
<1>3. /\ q.out > 0
      /\ vault' = [vault EXCEPT ![side] = @ + q.credit, ![Across(side)] = @ - q.debit]
      /\ purse' = [purse EXCEPT ![side] = @ - amount, ![Across(side)] = @ + q.out]
  BY <1>2 DEF Settle
<1>4. /\ market \in [price : Prices(pool)] /\ vault \in [Sides -> Nat] /\ purse \in [Sides -> Nat]
      /\ pool' = pool /\ amount <= purse[side]
  BY DEF OnRange, Swap, Amount
<1>5. p.market \in [price : Prices(pool)] /\ FairMove(pool, vault, from, to, side, amount, q)
  BY <1>1, <1>2, <1>3, <1>4, PricedOnRange DEF Amount
<1>6. /\ q.out \in Nat /\ q.credit <= amount /\ q.out <= q.debit
      /\ Paid(pool, from, to, side, q.credit, q.debit)
      /\ pool.kind = "dbc" => (side = "quote" => vault.quote + q.credit < pool.threshold)
  BY <1>5 DEF FairMove
<1>7. /\ q.credit \in Nat /\ q.debit \in Nat
      /\ Kept(pool, from, to, side, q.credit) /\ Kept(pool, from, to, other, -q.debit)
  BY <1>6 DEF Paid
<1>8. other \in Sides /\ other # side /\ \A t \in Sides : t = side \/ t = other
  BY BothSides
<1>9. first \in 1..Highest(pool) /\ from \in 1..Highest(pool) /\ to \in 1..Highest(pool)
  <2>1. pool.market \in [price : Prices(pool)]
    BY <1>1 DEF WellFormed, Prices, Lowest, Highest
  <2> QED BY <1>1, <1>4, <1>5, <2>1, PriceType
<1>10. \A t \in Sides : vault[t] \in Nat /\ purse[t] \in Nat /\ pool.vault[t] \in Nat
  BY <1>1, <1>4 DEF WellFormed, Amount
<1>11. \A t \in Sides : Kept(pool, first, from, t, vault[t] - pool.vault[t])
  BY DEF OnRange
<1> HIDE DEF first, from, to, q, other
<1>12. ASSUME NEW t \in Sides, NEW change \in Int, Kept(pool, from, to, t, change)
       PROVE  /\ Kept(pool, first, to, t, (vault[t] + change) - pool.vault[t])
              /\ vault[t] + change \in Nat
  <2>1. vault[t] - pool.vault[t] \in Int /\ Kept(pool, first, from, t, vault[t] - pool.vault[t])
    BY <1>10, <1>11
  <2>2. Kept(pool, first, to, t, (vault[t] - pool.vault[t]) + change)
    BY <1>1, <1>9, <1>12, <2>1, KeptOnward
  <2>3. (vault[t] - pool.vault[t]) + change = (vault[t] + change) - pool.vault[t] /\ vault[t] + change \in Int
    BY <1>10, <1>12
  <2>4. Kept(pool, first, to, t, (vault[t] + change) - pool.vault[t])
    BY <2>2, <2>3
  <2>5. vault[t] + change \in Nat
    BY <1>1, <1>9, <2>3, <2>4, KeptHolds DEF first
  <2> QED BY <2>4, <2>5
<1>13. /\ Kept(pool, first, to, side, (vault[side] + q.credit) - pool.vault[side])
       /\ vault[side] + q.credit \in Nat
  BY <1>7, <1>12
<1>14. /\ Kept(pool, first, to, other, (vault[other] + (-q.debit)) - pool.vault[other])
       /\ vault[other] + (-q.debit) \in Nat
  <2>1. -q.debit \in Int
    BY <1>7
  <2> QED BY <1>7, <1>8, <1>12, <2>1
<1>15. vault[other] + (-q.debit) = vault[other] - q.debit
  BY <1>7, <1>8, <1>10
<1>16. /\ vault'[side] = vault[side] + q.credit /\ vault'[other] = vault[other] - q.debit
       /\ vault' \in [Sides -> Nat]
  <2>1. vault[other] - q.debit \in Nat /\ vault[side] + q.credit \in Nat
    BY <1>13, <1>14, <1>15
  <2>2. vault' = [vault EXCEPT ![side] = @ + q.credit, ![other] = @ - q.debit]
    BY <1>3 DEF other, q
  <2> QED BY <1>4, <1>8, <2>1, <2>2
<1>17. /\ purse'[side] = purse[side] - amount /\ purse'[other] = purse[other] + q.out
       /\ purse' \in [Sides -> Nat]
  <2>1. purse[side] - amount \in Nat /\ purse[other] + q.out \in Nat
    BY <1>1, <1>4, <1>6, <1>8, <1>10
  <2>2. purse' = [purse EXCEPT ![side] = @ - amount, ![other] = @ + q.out]
    BY <1>3 DEF other, q
  <2> QED BY <1>4, <1>8, <2>1, <2>2
<1>18. ASSUME NEW t \in Sides
       PROVE  Kept(pool, first, to, t, vault'[t] - pool.vault[t])
  <2>1. CASE t = side
    BY <1>13, <1>16, <2>1
  <2>2. CASE t = other
    BY <1>14, <1>15, <1>16, <2>2
  <2> QED BY <1>8, <2>1, <2>2
<1>19. ASSUME NEW t \in Sides PROVE vault'[t] + purse'[t] <= pool.vault[t] + Purse
  <2>1. vault[t] + purse[t] <= pool.vault[t] + Purse
    BY DEF OnRange
  <2>2. pool.vault[t] + Purse \in Nat
    BY <1>1, <1>10
  <2>3. CASE t = side
    BY <1>1, <1>4, <1>6, <1>7, <1>10, <1>16, <1>17, <2>1, <2>2, <2>3
  <2>4. CASE t = other
    BY <1>6, <1>7, <1>8, <1>10, <1>16, <1>17, <2>1, <2>2, <2>4
  <2> QED BY <1>8, <2>3, <2>4
<1>20. ASSUME pool.kind = "dbc" PROVE vault'.quote < pool.threshold
  <2>1. CASE side = "quote"
    BY <1>6, <1>16, <1>20, <2>1 DEF q
  <2>2. CASE side # "quote"
    <3>1. other = "quote"
      BY <1>8, <2>2 DEF other, Across, Sides
    <3>2. vault.quote < pool.threshold /\ pool.threshold \in Nat
      BY <1>1, <1>20 DEF OnRange, WellFormed
    <3> QED BY <1>7, <1>10, <1>16, <3>1, <3>2 DEF Sides
  <2> QED BY <2>1, <2>2
<1>21. market' \in [price : Prices(pool)] /\ market'.price = to
  BY <1>2, <1>5 DEF to
<1>22. vault' \in Amount /\ purse' \in Amount
  BY <1>16, <1>17 DEF Amount
<1> QED BY <1>4, <1>18, <1>19, <1>20, <1>21, <1>22 DEF OnRange, first

-----------------------------------------------------------------------------
(* A price that moved shows in what the segments hold                       *)

\* A segment holds no more of the base and no less of the quote at a higher price.
LEMMA ExactlyMoves ==
    ASSUME NEW n, NEW unit, NEW of, Reciprocal(n, unit, of), NEW segment, Among(segment, n),
           NEW a \in 1..n, NEW b \in 1..n, a <= b
    PROVE  /\ Exactly(segment, of, b, "base") <= Exactly(segment, of, a, "base")
           /\ Exactly(segment, of, a, "quote") <= Exactly(segment, of, b, "quote")
<1> DEFINE k == segment.liquidity
           lower == segment.lower
           upper == segment.upper
<1>1. k \in Nat \ {0} /\ lower \in Nat \ {0} /\ upper \in Nat /\ upper <= n /\ n \in Nat
  BY DEF Among, Reciprocal
<1>2. \A x, y \in 1..n : x <= y => of[x] \in Nat /\ of[y] \in Nat /\ of[y] <= of[x]
  <2> SUFFICES ASSUME NEW x \in 1..n, NEW y \in 1..n, x <= y
               PROVE  of[x] \in Nat /\ of[y] \in Nat /\ of[y] <= of[x]
    OBVIOUS
  <2>1. of[x] \in Nat /\ of[y] \in Nat /\ (x < y => of[y] < of[x])
    BY ReciprocalFalls
  <2>2. x = y \/ x < y
    OBVIOUS
  <2> QED BY <2>1, <2>2
<1>3. Exactly(segment, of, b, "base") <= Exactly(segment, of, a, "base")
  <2> DEFINE la == AtLeast(lower, a)
             lb == AtLeast(lower, b)
  <2>1. la \in Nat \ {0} /\ lb \in Nat \ {0} /\ la <= lb
    BY <1>1 DEF AtLeast
  <2>2. /\ Exactly(segment, of, a, "base") = IF la >= upper THEN 0 ELSE k * (of[la] - of[upper])
        /\ Exactly(segment, of, b, "base") = IF lb >= upper THEN 0 ELSE k * (of[lb] - of[upper])
    BY DEF Exactly
  <2> HIDE DEF la, lb, k, lower, upper
  <2>3. CASE lb < upper
    <3>1. la \in 1..n /\ lb \in 1..n /\ upper \in 1..n
      BY <1>1, <2>1, <2>3
    <3>2. of[la] \in Nat /\ of[lb] \in Nat /\ of[upper] \in Nat /\ of[lb] <= of[la]
      BY <1>2, <2>1, <3>1
    <3> DEFINE ya == of[la] - of[upper]
               yb == of[lb] - of[upper]
    <3>3. ya \in Int /\ yb \in Int /\ yb <= ya
      BY <3>2
    <3>4. Exactly(segment, of, a, "base") = k * ya /\ Exactly(segment, of, b, "base") = k * yb
      BY <1>1, <2>1, <2>2, <2>3
    <3> HIDE DEF ya, yb
    <3> QED BY <1>1, <3>3, <3>4
  <2>4. CASE la < upper /\ upper <= lb
    <3>1. la \in 1..n /\ upper \in 1..n /\ la <= upper
      BY <1>1, <2>1, <2>4
    <3>2. of[la] \in Nat /\ of[upper] \in Nat /\ of[upper] <= of[la]
      BY <1>2, <3>1
    <3> DEFINE ya == of[la] - of[upper]
    <3>3. ya \in Nat
      BY <3>2
    <3>4. Exactly(segment, of, a, "base") = k * ya /\ Exactly(segment, of, b, "base") = 0
      BY <1>1, <2>1, <2>2, <2>4
    <3> HIDE DEF ya
    <3> QED BY <1>1, <3>3, <3>4
  <2>5. CASE upper <= la
    BY <1>1, <2>1, <2>2, <2>5
  <2> QED BY <1>1, <2>1, <2>3, <2>4, <2>5
<1>4. Exactly(segment, of, a, "quote") <= Exactly(segment, of, b, "quote")
  <2> DEFINE ua == AtMost(upper, a)
             ub == AtMost(upper, b)
  <2>1. ua \in Nat /\ ub \in Nat /\ ua <= ub
    BY <1>1 DEF AtMost
  <2>2. /\ Exactly(segment, of, a, "quote") = IF lower >= ua THEN 0 ELSE k * (ua - lower)
        /\ Exactly(segment, of, b, "quote") = IF lower >= ub THEN 0 ELSE k * (ub - lower)
    BY DEF Exactly
  <2> HIDE DEF ua, ub, k, lower, upper
  <2>3. CASE lower < ua
    <3> DEFINE ya == ua - lower
               yb == ub - lower
    <3>1. ya \in Int /\ yb \in Int /\ ya <= yb
      BY <1>1, <2>1
    <3>2. Exactly(segment, of, a, "quote") = k * ya /\ Exactly(segment, of, b, "quote") = k * yb
      BY <1>1, <2>1, <2>2, <2>3
    <3> HIDE DEF ya, yb
    <3> QED BY <1>1, <3>1, <3>2
  <2>4. CASE ua <= lower /\ lower < ub
    <3> DEFINE yb == ub - lower
    <3>1. yb \in Nat
      BY <1>1, <2>1, <2>4
    <3>2. Exactly(segment, of, a, "quote") = 0 /\ Exactly(segment, of, b, "quote") = k * yb
      BY <1>1, <2>1, <2>2, <2>4
    <3> HIDE DEF yb
    <3> QED BY <1>1, <3>1, <3>2
  <2>5. CASE ub <= lower
    BY <1>1, <2>1, <2>2, <2>5
  <2> QED BY <1>1, <2>1, <2>3, <2>4, <2>5
<1> QED BY <1>3, <1>4

\* A price below another is within a segment that goes higher.
LEMMA SegmentAbove ==
    ASSUME NEW p, WellFormed(p), Ranged(p), NEW a \in Prices(p), NEW b \in Prices(p), a < b
    PROVE  \E k \in 1..Segments(p) : Segment(p, k).lower <= a /\ a < Segment(p, k).upper
<1> DEFINE n == Segments(p)
           K == {k \in Nat : k \in 1..n /\ a < Segment(p, k).upper}
<1>1. /\ n \in Nat \ {0} /\ Lowest(p) \in Nat \ {0} /\ Highest(p) \in Nat
      /\ \A k \in 1..n : Segment(p, k).lower \in Nat \ {0} /\ Segment(p, k).upper \in Nat
  BY SegmentsFollow DEF Among
<1>2. a \in Nat /\ b \in Nat /\ Lowest(p) <= a /\ b <= Highest(p)
  BY <1>1 DEF Prices
<1>3. n \in K
  <2>1. n \in 1..n /\ Segment(p, n).upper = Highest(p)
    BY <1>1 DEF Highest
  <2> HIDE DEF n
  <2> QED BY <1>1, <1>2, <2>1
<1>4. PICK k \in K : \A j \in K : k <= j
  <2>1. K \in SUBSET Nat /\ K # {}
    BY <1>3
  <2> HIDE DEF K
  <2> QED BY <2>1, LeastNatural
<1>5. k \in 1..n /\ a < Segment(p, k).upper
  OBVIOUS
<1>6. CASE k = 1
  BY <1>2, <1>5, <1>6 DEF Lowest
<1>7. CASE k # 1
  <2>1. k - 1 \in 1..n /\ k - 1 < k
    BY <1>1, <1>5, <1>7
  <2>2. ~(a < Segment(p, k - 1).upper)
    <3> SUFFICES ASSUME a < Segment(p, k - 1).upper PROVE FALSE
      OBVIOUS
    <3>1. k - 1 \in K
      BY <1>1, <2>1
    <3>2. k <= k - 1
      BY <1>4, <3>1
    <3> QED BY <1>1, <2>1, <3>2
  <2>3. Segment(p, k - 1).upper <= a
    BY <1>1, <1>2, <2>1, <2>2
  <2>4. p.kind = "dbc"
    <3> SUFFICES ASSUME p.kind # "dbc" PROVE FALSE
      OBVIOUS
    <3>1. n = 1
      BY DEF Segments
    <3> QED BY <1>5, <1>7, <3>1
  <2>5. /\ n = Len(p.curve) /\ Highest(p) <= p.stop /\ p.stop \in Nat
        /\ p.curve[k - 1].price \in Nat
        /\ Segment(p, k - 1).upper = AtMost(p.curve[k - 1].price, p.stop)
        /\ Segment(p, k).lower = p.curve[k - 1].price
    <3>1. n = Len(p.curve)
      BY <2>4 DEF Segments
    <3>2. k \in 1..Len(p.curve) /\ k - 1 \in 1..Len(p.curve)
      BY <1>5, <2>1, <3>1
    <3> HIDE DEF n, K
    <3> QED BY <1>7, <2>4, <3>1, <3>2, CurvePoints
  <2> HIDE DEF n, K
  <2>6. p.curve[k - 1].price <= a
    BY <1>1, <1>2, <2>3, <2>5 DEF AtMost
  <2> QED BY <1>5, <2>5, <2>6 DEF n
<1> QED BY <1>5, <1>6, <1>7

\* A curve holds less of the base and more of the quote at a higher price.
LEMMA WholeMoves ==
    ASSUME NEW p, WellFormed(p), Ranged(p), NEW a \in Prices(p), NEW b \in Prices(p), a < b
    PROVE  /\ Whole(p, b, "base") < Whole(p, a, "base")
           /\ Whole(p, a, "quote") < Whole(p, b, "quote")
<1> DEFINE n == Segments(p)
           of == Of(p)
<1>1. PICK i \in 1..n : Segment(p, i).lower <= a /\ a < Segment(p, i).upper
  BY SegmentAbove
<1>2. /\ n \in Nat \ {0} /\ Highest(p) \in Nat /\ \A k \in 1..n : Among(Segment(p, k), Highest(p))
      /\ a \in 1..Highest(p) /\ b \in 1..Highest(p)
  BY SegmentsFollow, PriceType
<1>3. Reciprocal(Highest(p), Unit(p), of)
  BY PoolReciprocal
<1>4. "base" \in Sides /\ "quote" \in Sides
  BY DEF Sides
<1> HIDE DEF n, of
<1>5. ASSUME NEW k \in 1..n
      PROVE  /\ Exactly(Segment(p, k), of, b, "base") <= Exactly(Segment(p, k), of, a, "base")
             /\ Exactly(Segment(p, k), of, a, "quote") <= Exactly(Segment(p, k), of, b, "quote")
  BY <1>2, <1>3, ExactlyMoves
<1>6. ASSUME NEW k \in 1..n, NEW x \in 1..Highest(p), NEW s \in Sides PROVE Exactly(Segment(p, k), of, x, s) \in Int
  BY <1>2, <1>3, HeldFloors
<1>7. /\ Exactly(Segment(p, i), of, b, "base") < Exactly(Segment(p, i), of, a, "base")
      /\ Exactly(Segment(p, i), of, a, "quote") < Exactly(Segment(p, i), of, b, "quote")
  <2> DEFINE segment == Segment(p, i)
             c == AtMost(b, segment.upper)
             k == segment.liquidity
  <2>1. Among(segment, Highest(p)) /\ segment.lower \in Nat \ {0} /\ segment.upper \in Nat /\ k \in Nat \ {0}
        /\ segment.upper <= Highest(p)
    BY <1>2 DEF Among
  <2>2. segment.lower <= a /\ a < segment.upper
    BY <1>1
  <2> HIDE DEF segment
  <2>3. c \in Nat /\ a < c /\ c <= b /\ c <= segment.upper /\ c \in 1..Highest(p)
    BY <1>2, <2>1, <2>2 DEF AtMost
  <2> HIDE DEF c
  <2>4. a \in segment.lower..segment.upper /\ c \in segment.lower..segment.upper
    BY <1>2, <2>1, <2>2, <2>3
  <2>5. /\ Exactly(segment, of, c, "base") - Exactly(segment, of, a, "base") = k * (of[c] - of[a])
        /\ Exactly(segment, of, c, "quote") - Exactly(segment, of, a, "quote") = k * (c - a)
    BY <1>3, <2>1, <2>4, HeldBetween
  <2>6. /\ Exactly(segment, of, b, "base") <= Exactly(segment, of, c, "base")
        /\ Exactly(segment, of, c, "quote") <= Exactly(segment, of, b, "quote")
    BY <1>2, <1>3, <2>1, <2>3, ExactlyMoves
  <2>7. of[c] \in Nat /\ of[a] \in Nat /\ of[c] < of[a]
    BY <1>2, <1>3, <2>3, ReciprocalFalls
  <2> DEFINE down == of[a] - of[c]
             up == c - a
  <2>8. down \in Nat \ {0} /\ up \in Nat \ {0} /\ of[c] - of[a] = -down
    BY <1>2, <2>3, <2>7
  <2>9. /\ Exactly(segment, of, b, "base") \in Int /\ Exactly(segment, of, a, "base") \in Int /\ Exactly(segment, of, c, "base") \in Int
        /\ Exactly(segment, of, b, "quote") \in Int /\ Exactly(segment, of, a, "quote") \in Int /\ Exactly(segment, of, c, "quote") \in Int
    BY <1>2, <1>4, <1>6, <2>3 DEF segment
  <2>10. /\ Exactly(segment, of, c, "base") - Exactly(segment, of, a, "base") = k * (-down)
         /\ Exactly(segment, of, c, "quote") - Exactly(segment, of, a, "quote") = k * up
    BY <2>5, <2>8
  <2> HIDE DEF down, up, k
  <2>11. k * (-down) < 0 /\ k * up > 0
    BY <2>1, <2>8
  <2>12. k * (-down) \in Int /\ k * up \in Int
    BY <2>1, <2>8
  <2> QED BY <2>6, <2>9, <2>10, <2>11, <2>12 DEF segment
<1> DEFINE f == [k \in 1..n |-> Exactly(Segment(p, k), of, a, "base")]
           g == [k \in 1..n |-> Exactly(Segment(p, k), of, b, "base")]
           h == [k \in 1..n |-> Exactly(Segment(p, k), of, a, "quote")]
           l == [k \in 1..n |-> Exactly(Segment(p, k), of, b, "quote")]
<1>8. /\ Whole(p, a, "base") = SumTo(n, f) /\ Whole(p, b, "base") = SumTo(n, g)
      /\ Whole(p, a, "quote") = SumTo(n, h) /\ Whole(p, b, "quote") = SumTo(n, l)
  BY DEF Whole, n, of
<1>9. /\ \A k \in 1..n : g[k] \in Int /\ f[k] \in Int
      /\ \A k \in 1..n : h[k] \in Int /\ l[k] \in Int
      /\ \A k \in 1..n : k # i => g[k] <= f[k]
      /\ \A k \in 1..n : k # i => h[k] <= l[k]
      /\ g[i] < f[i] /\ h[i] < l[i]
  BY <1>2, <1>4, <1>5, <1>6, <1>7
<1> HIDE DEF f, g, h, l
<1>10. SumTo(n, g) + (f[i] - g[i]) <= SumTo(n, f)
  BY <1>2, <1>9, SumGrows
<1>11. SumTo(n, h) + (l[i] - h[i]) <= SumTo(n, l)
  BY <1>2, <1>9, SumGrows
<1>12. SumTo(n, f) \in Int /\ SumTo(n, g) \in Int /\ SumTo(n, h) \in Int /\ SumTo(n, l) \in Int
  BY <1>2, <1>4, <1>8, WholeType
<1>13. f[i] \in Int /\ g[i] \in Int /\ h[i] \in Int /\ l[i] \in Int
  BY <1>9
<1> QED BY <1>8, <1>9, <1>10, <1>11, <1>12, <1>13

\* So a price that moved is owed something on a side.
LEMMA MovedOwes ==
    ASSUME NEW p, WellFormed(p), Ranged(p), NEW from \in Prices(p), NEW to \in Prices(p), from # to
    PROVE  \E s \in Sides : Whole(p, from, s) < Whole(p, to, s)
<1>1. from \in Nat /\ to \in Nat
  BY PriceType
<1>2. "base" \in Sides /\ "quote" \in Sides
  BY DEF Sides
<1>3. CASE from < to
  BY <1>2, <1>3, WholeMoves
<1>4. CASE to < from
  BY <1>2, <1>4, WholeMoves
<1> QED BY <1>1, <1>3, <1>4

\* The trader who has as much of both sides as at the start has no more of either.
LEMMA RangeGivesNothing ==
    ASSUME WellFormed(pool), Ranged(pool), OnRange, \A s \in Sides : purse[s] >= Purse
    PROVE  \A s \in Sides : purse[s] = Purse
<1> DEFINE first == pool.market.price
           now == market.price
<1>1. Purse \in Nat
  BY TradesAssumption
<1>2. \A s \in Sides : vault[s] \in Nat /\ purse[s] \in Nat /\ pool.vault[s] \in Nat
  BY DEF OnRange, WellFormed, Amount
<1>3. \A s \in Sides : vault[s] + purse[s] <= pool.vault[s] + Purse
  BY DEF OnRange
<1>4. \A s \in Sides : vault[s] - pool.vault[s] \in Int /\ vault[s] - pool.vault[s] <= 0
  BY <1>1, <1>2, <1>3
<1>5. first \in Prices(pool) /\ now \in Prices(pool)
  BY DEF OnRange, WellFormed, Prices, Lowest, Highest
<1>6. \A s \in Sides : /\ Whole(pool, now, s) \in Int /\ Whole(pool, first, s) \in Int
                       /\ Units(pool, s) \in Nat \ {0}
  BY <1>5, PriceType, WholeType
<1>7. \A s \in Sides : Whole(pool, now, s) - Whole(pool, first, s) <= (vault[s] - pool.vault[s]) * Units(pool, s)
  BY DEF OnRange, Kept
<1> HIDE DEF first, now
<1>8. ASSUME NEW s \in Sides
      PROVE  /\ Whole(pool, now, s) <= Whole(pool, first, s)
             /\ Whole(pool, now, s) = Whole(pool, first, s) => purse[s] = Purse
  <2> DEFINE change == vault[s] - pool.vault[s]
             u == Units(pool, s)
             d == Whole(pool, now, s) - Whole(pool, first, s)
  <2>1. change \in Int /\ change <= 0 /\ u \in Nat \ {0} /\ d \in Int /\ d <= change * u
    BY <1>4, <1>6, <1>7
  <2>2. change = 0 => purse[s] = Purse
    BY <1>1, <1>2, <1>3
  <2>3. d <= 0 => Whole(pool, now, s) <= Whole(pool, first, s)
    BY <1>6
  <2>4. Whole(pool, now, s) = Whole(pool, first, s) => d = 0
    BY <1>6
  <2> HIDE DEF change, u, d
  <2>5. change * u \in Int /\ change * u <= 0 /\ (change < 0 => change * u < 0)
    BY <2>1
  <2>6. d <= 0 /\ (d = 0 => change = 0)
    BY <2>1, <2>5
  <2> QED BY <2>2, <2>3, <2>4, <2>6
<1>9. now = first
  <2> SUFFICES ASSUME now # first PROVE FALSE
    OBVIOUS
  <2>1. PICK s \in Sides : Whole(pool, first, s) < Whole(pool, now, s)
    BY <1>5, MovedOwes
  <2> QED BY <1>6, <1>8, <2>1
<1> QED BY <1>8, <1>9

-----------------------------------------------------------------------------
(* A compounding pool                                                       *)

\* The pools that are priced by a product of reserves: the venues that always are,
\* and of DAMM v2 those whose fees compound.
Compounds(p) == p.kind = "damm" /\ p.fees_in = "compounding"
ByProduct(p) == p.kind \in Products \/ Compounds(p)

\* A compounding pool prices on its vaults, and what it is quoted at is fair.
LEMMA CompoundFair ==
    ASSUME NEW p, WellFormed(p), Compounds(p), NEW price, NEW v, Solvent(p, v), NEW time,
           NEW side \in Sides, NEW amount \in Nat,
           NEW s, s = DammSwap(p, price, v, time, side, amount), s.quote.out > 0
    PROVE  FairOn(p, v, side, amount, s.quote)
<1> DEFINE rate == total_fee_numerator(p.fees, time, side, amount, price)
           on_input == fee_on_input(p.fees_in, side)
           actual_in == IF on_input THEN amount - ceil_fee(amount, rate) ELSE amount
           raw == OnPool(p, price, v, side, actual_in)
<1>1. rate \in 0..(FeeScale - 1) /\ s = Paying(raw, rate, on_input, actual_in)
  <2>1. SUFFICES ASSUME ~(rate \in 0..(FeeScale - 1) /\ s = Paying(raw, rate, on_input, actual_in)) PROVE FALSE
    OBVIOUS
  <2>2. s.quote = NoQuote
    BY <2>1 DEF DammSwap
  <2> QED BY <2>2 DEF NoQuote
<1>2. on_input \in BOOLEAN /\ p.fees_in = "compounding" /\ p.kind = "damm"
  BY DEF fee_on_input, Compounds
<1>3. rate \in 0..FeeScale
  <2> HIDE DEF rate
  <2> QED BY <1>1, DammAssumption
<1> HIDE DEF rate, on_input
<1>4. actual_in \in Nat /\ actual_in <= amount
  BY <1>2, <1>3, FeeWithin
<1> HIDE DEF actual_in
<1> DEFINE out == ConstantProduct(v[side], v[Across(side)], actual_in)
           q == s.quote
<1>5. raw.out = out
  BY <1>2 DEF OnPool
<1>6. q = Quoting(IF on_input THEN out ELSE out - ceil_fee(out, rate), actual_in, out) /\ q.out > 0
  BY <1>1, <1>5 DEF Paying
<1>7. v[side] \in Nat /\ v[Across(side)] \in Nat /\ Across(side) \in Sides /\ v[side] # 0
      /\ Reserve(p, v, side) = v[side] /\ Reserve(p, v, Across(side)) = v[Across(side)] /\ p.accrued[Across(side)] = 0
  BY <1>2, SolventReserves, NothingBeside
<1>8. out = ConstantProduct(Reserve(p, v, side), Reserve(p, v, Across(side)), actual_in)
  BY <1>7
<1> DEFINE none == 0
<1>9. out # none
  <2>1. SUFFICES ASSUME out = none PROVE FALSE
    OBVIOUS
  <2>2. none \in Nat /\ none <= 0
    OBVIOUS
  <2> HIDE DEF none, q
  <2>3. ceil_fee(none, rate) \in Nat /\ ceil_fee(none, rate) <= none
    BY <1>3, <2>2, FeeWithin
  <2>4. q = Quoting(IF on_input THEN none ELSE none - ceil_fee(none, rate), actual_in, none)
    BY <1>6, <2>1
  <2>5. q.out \in Nat /\ q.out <= none
    BY <1>2, <1>3, <1>6, <2>2, <2>4, NetOut
  <2> QED BY <1>6, <2>2, <2>5
<1>10. out \in Nat /\ out <= v[Across(side)] /\ out # 0
  BY <1>4, <1>7, <1>9, ConstantProductKeeps
<1> HIDE DEF out, q, none
<1>11. q.out \in Nat /\ q.out <= out /\ q.credit = actual_in /\ q.debit = out
  BY <1>2, <1>3, <1>6, <1>10, NetOut
<1>12. p.accrued[Across(side)] <= v[Across(side)] - out
  BY <1>7, <1>10
<1>13. actual_in <= actual_in /\ p.kind # "launchlab"
  BY <1>2, <1>4
<1>14. FairOn(p, v, side, amount, q)
  BY <1>4, <1>8, <1>10, <1>11, <1>12, <1>13, ProductFair
<1> QED BY <1>14 DEF q

\* So what the trader is quoted is fair.
LEMMA CompoundPriced ==
    ASSUME WellFormed(pool), Compounds(pool), Solvent(pool, vault), NEW i, NEW side \in Sides, NEW amount \in Nat,
           NEW q, q = priced(i, side, amount).quote, q.out > 0
    PROVE  FairOn(pool, vault, side, amount, q)
<1> DEFINE net == net_of_transfer_fee(side, amount)
           time == pool.times[i]
           swap == DammSwap(pool, market.price, vault, time, side, net)
           P == PricedAt(time, side, net)
           Q == swap.quote
           out == net_of_transfer_fee(Across(side), Q.out)
<1>1. net \in Nat /\ net <= amount /\ Across(side) \in Sides
  BY NetBounds DEF Sides, Across
<1>2. P = [quote |-> Q, market |-> [market EXCEPT !.price = swap.price]]
  BY DEF PricedAt, Markets, OnMarket, OnCurve, Compounds
<1>3. Quotes(Q)
  BY SwapQuotes
<1>4. priced(i, side, amount) = [P EXCEPT !.quote.out = net_of_transfer_fee(Across(side), @)]
  BY DEF priced
<1> HIDE DEF net, time, swap, P
<1>5. q = [Q EXCEPT !.out = out]
  BY <1>2, <1>4
<1> HIDE DEF out
<1>6. q.out = out /\ q.credit = Q.credit /\ q.debit = Q.debit
  BY <1>3, <1>5 DEF Quotes, IsQuote, NoQuote
<1>7. Q.out > 0
  <2>1. SUFFICES ASSUME Q = NoQuote PROVE FALSE
    BY <1>3 DEF Quotes
  <2>2. 0 \in Nat
    OBVIOUS
  <2>3. net_of_transfer_fee(Across(side), 0) <= 0 /\ net_of_transfer_fee(Across(side), 0) \in Nat
    BY <1>1, <2>2, NetBounds
  <2>4. out = net_of_transfer_fee(Across(side), 0)
    BY <2>1 DEF out, NoQuote
  <2> QED BY <1>6, <2>3, <2>4
<1>8. FairOn(pool, vault, side, net, Q)
  <2>1. swap = DammSwap(pool, market.price, vault, time, side, net)
    BY DEF swap
  <2> QED BY <1>1, <1>7, <2>1, CompoundFair
<1> HIDE DEF Q
<1>9. Q.out \in Nat /\ Q.credit \in Nat /\ Q.debit \in Nat /\ Q.credit <= net /\ Q.out <= Q.debit
  BY <1>8 DEF FairOn
<1>10. q.out \in Nat /\ q.out <= q.debit /\ q.credit <= amount
  <2>1. out \in Nat /\ out <= Q.out
    BY <1>1, <1>9, NetBounds DEF out
  <2> QED BY <1>1, <1>6, <1>9, <2>1
<1> QED BY <1>6, <1>8, <1>9, <1>10 DEF FairOn

\* What a pool priced by a product is quoted at is fair.
LEMMA ByProductFair ==
    ASSUME WellFormed(pool), ByProduct(pool), Solvent(pool, vault), NEW i, NEW side \in Sides, NEW amount \in Nat,
           NEW q, q = priced(i, side, amount).quote, q.out > 0
    PROVE  FairOn(pool, vault, side, amount, q)
<1>1. CASE pool.kind \in Products
  BY <1>1, PricedFair
<1>2. CASE Compounds(pool)
  BY <1>2, CompoundPriced
<1> QED BY <1>1, <1>2 DEF ByProduct

-----------------------------------------------------------------------------
(* Filling a bin                                                            *)

\* At a bin's price, what goes in is worth what comes out.
Worth(side, price, used, out) == IF side = "base" THEN out * Q64 <= used * price ELSE out * price <= used * Q64

\* A fill takes no more than it is given, gives no more than there is, and is paid for.
LEMMA FillFair ==
    ASSUME NEW amount \in Nat, NEW most \in Nat, NEW price \in Nat \ {0}, NEW side \in Sides,
           NEW f, f = fill(amount, most, price, side)
    PROVE  /\ f.used \in Nat /\ f.used <= amount /\ f.out \in Nat /\ f.out <= most
           /\ Worth(side, price, f.used, f.out)
<1> DEFINE max_in == amount_in_for(most, price, side)
<1>1. Q64 \in Nat \ {0}
  BY DammAssumption
<1>2. CASE most = 0 \/ amount = 0
  BY <1>1, <1>2 DEF fill, Worth
<1>3. CASE ~(most = 0 \/ amount = 0) /\ side = "base"
  <2>1. most * Q64 \in Nat /\ price * amount \in Nat
    BY <1>1
  <2>2. max_in = div_ceil(most * Q64, price)
    BY <1>3 DEF amount_in_for
  <2>3. max_in \in Nat /\ most * Q64 <= max_in * price
    BY <2>1, <2>2, DivCeilCovers
  <2>4. CASE amount >= max_in
    <3>1. f = [used |-> max_in, out |-> most]
      BY <1>3, <2>4 DEF fill
    <3> QED BY <1>3, <2>3, <2>4, <3>1 DEF Worth
  <2>5. CASE ~(amount >= max_in)
    <3> DEFINE out == (price * amount) \div Q64
    <3>1. f = [used |-> amount, out |-> out]
      BY <1>3, <2>5 DEF fill, amount_out_for
    <3>2. out \in Nat /\ out * Q64 <= price * amount
      BY <1>1, <2>1, DivBounds
    <3>3. out <= most
      <4>1. price * amount <= most * Q64
        <5>1. SUFFICES ASSUME most * Q64 <= price * amount PROVE max_in <= amount
          BY <2>1, <2>3, <2>5
        <5>2. price * amount = amount * price
          OBVIOUS
        <5> QED BY <2>1, <2>2, <5>1, <5>2, DivCeilAtMost
      <4> QED BY <1>1, <2>1, <4>1, DivAtMost
    <3>4. price * amount = amount * price
      OBVIOUS
    <3> HIDE DEF out
    <3> QED BY <1>3, <3>1, <3>2, <3>3, <3>4 DEF Worth
  <2> QED BY <2>4, <2>5
<1>4. CASE ~(most = 0 \/ amount = 0) /\ side = "quote"
  <2>1. most * price \in Nat /\ amount * Q64 \in Nat
    BY <1>1
  <2>2. max_in = div_ceil(most * price, Q64)
    BY <1>4 DEF amount_in_for
  <2>3. max_in \in Nat /\ most * price <= max_in * Q64
    BY <1>1, <2>1, <2>2, DivCeilCovers
  <2>4. CASE amount >= max_in
    <3>1. f = [used |-> max_in, out |-> most]
      BY <1>4, <2>4 DEF fill
    <3> QED BY <1>4, <2>3, <2>4, <3>1 DEF Worth
  <2>5. CASE ~(amount >= max_in)
    <3> DEFINE out == (amount * Q64) \div price
    <3>1. f = [used |-> amount, out |-> out]
      BY <1>4, <2>5 DEF fill, amount_out_for
    <3>2. out \in Nat /\ out * price <= amount * Q64
      BY <1>1, <2>1, DivBounds
    <3>3. out <= most
      <4>1. amount * Q64 <= most * price
        <5>1. SUFFICES ASSUME most * price <= amount * Q64 PROVE max_in <= amount
          BY <2>1, <2>3, <2>5
        <5> QED BY <1>1, <2>1, <2>2, <5>1, DivCeilAtMost
      <4> QED BY <1>1, <2>1, <4>1, DivAtMost
    <3> HIDE DEF out
    <3> QED BY <1>4, <3>1, <3>2, <3>3 DEF Worth
  <2> QED BY <2>4, <2>5
<1> QED BY <1>2, <1>3, <1>4 DEF Sides

\* Worth adds up.
LEMMA WorthAdds ==
    ASSUME NEW side \in Sides, NEW price \in Nat, NEW u \in Nat, NEW o \in Nat, NEW v \in Nat, NEW r \in Nat,
           Worth(side, price, u, o), Worth(side, price, v, r)
    PROVE  Worth(side, price, u + v, o + r)
<1>1. Q64 \in Nat
  BY DammAssumption
<1>2. /\ (u + v) * price = u * price + v * price /\ (o + r) * Q64 = o * Q64 + r * Q64
      /\ (u + v) * Q64 = u * Q64 + v * Q64 /\ (o + r) * price = o * price + r * price
  BY <1>1
<1>3. /\ u * price \in Nat /\ v * price \in Nat /\ o * Q64 \in Nat /\ r * Q64 \in Nat
      /\ u * Q64 \in Nat /\ v * Q64 \in Nat /\ o * price \in Nat /\ r * price \in Nat
  BY <1>1
<1> QED BY <1>2, <1>3 DEF Worth

\* So do the layers of a bin: makers, processed orders and open ones.
LEMMA LayersFair ==
    ASSUME NEW pair \in PairState, NEW bin \in LadderBin, NEW price \in Nat \ {0}, NEW amount \in Nat, NEW side \in Sides,
           NEW l, l = Layers(pair, bin, price, amount, side)
    PROVE  /\ l.used \in Nat /\ l.used <= amount /\ l.out \in Nat /\ Worth(side, price, l.used, l.out)
           /\ l.maker.used \in Nat /\ l.maker.used <= l.used
           /\ l.maker.out \in Nat /\ l.processed.out \in Nat /\ l.open.out \in Nat
           /\ l.maker.out <= MakerOut(bin, side)
           /\ l.processed.out <= (IF Fillable(pair, bin, side) THEN bin.processed ELSE 0)
           /\ l.open.out <= (IF Fillable(pair, bin, side) THEN bin.open ELSE 0)
           /\ l.out = l.maker.out + l.processed.out + l.open.out
<1> DEFINE maker == fill(amount, MakerOut(bin, side), price, side)
           rest == IF Fillable(pair, bin, side) THEN bin.processed ELSE 0
           processed == fill(amount - maker.used, rest, price, side)
           resting == IF Fillable(pair, bin, side) THEN bin.open ELSE 0
           open == fill(amount - maker.used - processed.used, resting, price, side)
<1>1. MakerOut(bin, side) \in Nat /\ rest \in Nat /\ resting \in Nat
  BY DEF MakerOut, LadderBin
<1>2. /\ maker.used \in Nat /\ maker.used <= amount /\ maker.out \in Nat /\ maker.out <= MakerOut(bin, side)
      /\ Worth(side, price, maker.used, maker.out)
  BY <1>1, FillFair
<1>3. l = [maker |-> maker, processed |-> processed, open |-> open,
           used |-> maker.used + processed.used + open.used, out |-> maker.out + processed.out + open.out]
  BY DEF Layers
<1> HIDE DEF maker, rest, resting
<1>4. amount - maker.used \in Nat
  BY <1>2
<1>5. /\ processed.used \in Nat /\ processed.used <= amount - maker.used /\ processed.out \in Nat /\ processed.out <= rest
      /\ Worth(side, price, processed.used, processed.out)
  BY <1>1, <1>4, FillFair
<1> HIDE DEF processed
<1>6. amount - maker.used - processed.used \in Nat
  BY <1>2, <1>5
<1>7. /\ open.used \in Nat /\ open.used <= amount - maker.used - processed.used /\ open.out \in Nat /\ open.out <= resting
      /\ Worth(side, price, open.used, open.out)
  BY <1>1, <1>6, FillFair
<1> HIDE DEF open
<1>8. Worth(side, price, maker.used + processed.used, maker.out + processed.out)
  BY <1>2, <1>5, WorthAdds
<1>9. Worth(side, price, maker.used + processed.used + open.used, maker.out + processed.out + open.out)
  <2>1. maker.used + processed.used \in Nat /\ maker.out + processed.out \in Nat
    BY <1>2, <1>5
  <2> QED BY <1>7, <1>8, <2>1, WorthAdds
<1>10. /\ l.maker = maker /\ l.processed = processed /\ l.open = open
       /\ l.used = maker.used + processed.used + open.used /\ l.out = maker.out + processed.out + open.out
  BY <1>3
<1>11. /\ l.used \in Nat /\ l.used <= amount /\ l.out \in Nat /\ maker.used <= l.used
  BY <1>2, <1>5, <1>7, <1>10
<1> QED BY <1>2, <1>5, <1>7, <1>9, <1>10, <1>11 DEF rest, resting

\* What a bin holds after a fill: at most what went in more, what came out less.
LEMMA TakenHolds ==
    ASSUME NEW pair \in PairState, NEW bin \in LadderBin, NEW price \in Nat \ {0}, NEW amount \in Nat, NEW side \in Sides,
           NEW l, l = Layers(pair, bin, price, amount, side),
           NEW taken, taken = Taken(bin, l, side)
    PROVE  /\ taken \in LadderBin /\ taken.price = bin.price
           /\ HeldOf(taken, side) <= HeldOf(bin, side) + l.used
           /\ HeldOf(taken, Across(side)) <= HeldOf(bin, Across(side)) - l.out
<1> DEFINE mu == l.maker.used
           mo == l.maker.out
           po == l.processed.out
           oo == l.open.out
           can == Fillable(pair, bin, side)
<1>0. /\ l.used \in Nat /\ l.used <= amount /\ l.out \in Nat /\ Worth(side, price, l.used, l.out)
      /\ l.maker.used \in Nat /\ l.maker.used <= l.used
      /\ l.maker.out \in Nat /\ l.processed.out \in Nat /\ l.open.out \in Nat
      /\ l.maker.out <= MakerOut(bin, side)
      /\ l.processed.out <= (IF Fillable(pair, bin, side) THEN bin.processed ELSE 0)
      /\ l.open.out <= (IF Fillable(pair, bin, side) THEN bin.open ELSE 0)
      /\ l.out = l.maker.out + l.processed.out + l.open.out
  BY LayersFair
<1>1. /\ l.used \in Nat /\ mu \in Nat /\ mu <= l.used /\ mo \in Nat /\ po \in Nat /\ oo \in Nat
      /\ mo <= MakerOut(bin, side) /\ po <= (IF can THEN bin.processed ELSE 0) /\ oo <= (IF can THEN bin.open ELSE 0)
      /\ l.out = mo + po + oo
  BY <1>0
<1>2. /\ bin.x \in Nat /\ bin.y \in Nat /\ bin.processed \in Nat /\ bin.open \in Nat /\ bin.ask \in BOOLEAN
  BY DEF LadderBin
<1>4. /\ mo <= (IF side = "base" THEN bin.y ELSE bin.x)
      /\ po <= bin.processed /\ oo <= bin.open
      /\ (bin.ask = (side = "base")) => po = 0 /\ oo = 0
  <2>1. MakerOut(bin, side) = IF side = "base" THEN bin.y ELSE bin.x
    BY DEF MakerOut
  <2>2. (bin.ask = (side = "base")) => ~can
    BY <1>2 DEF Fillable
  <2> HIDE DEF can, mo, po, oo
  <2> QED BY <1>1, <1>2, <2>1, <2>2
<1> DEFINE b == [bin EXCEPT !.processed = @ - po, !.open = @ - oo]
           in == l.used
           out == l.out
<1>3. /\ b \in LadderBin /\ b.x = bin.x /\ b.y = bin.y /\ b.price = bin.price /\ b.ask = bin.ask
      /\ b.processed = bin.processed - po /\ b.open = bin.open - oo
  <2> HIDE DEF mo, po, oo, can
  <2>1. bin.processed - po \in Nat /\ bin.open - oo \in Nat
    BY <1>1, <1>2, <1>4
  <2> QED BY <2>1 DEF LadderBin
<1> HIDE DEF mu, mo, po, oo, can, in, out, b
<1>5. CASE side = "base"
  <2>1. taken = [b EXCEPT !.x = @ + mu, !.y = @ - mo]
    BY <1>5 DEF Taken, b, mu, mo, po, oo
  <2>2. b.x + mu \in Nat /\ b.y - mo \in Nat
    BY <1>1, <1>2, <1>3, <1>4, <1>5
  <2>3. /\ taken \in LadderBin /\ taken.price = b.price /\ taken.x = b.x + mu /\ taken.y = b.y - mo
        /\ taken.processed = b.processed /\ taken.open = b.open /\ taken.ask = b.ask
    BY <1>3, <2>1, <2>2 DEF LadderBin
  <2>4. /\ HeldOf(taken, "base") = bin.x + mu + (IF bin.ask = TRUE THEN (bin.processed - po) + (bin.open - oo) ELSE 0)
        /\ HeldOf(bin, "base") = bin.x + (IF bin.ask = TRUE THEN bin.processed + bin.open ELSE 0)
        /\ HeldOf(taken, "quote") = bin.y - mo + (IF bin.ask = FALSE THEN (bin.processed - po) + (bin.open - oo) ELSE 0)
        /\ HeldOf(bin, "quote") = bin.y + (IF bin.ask = FALSE THEN bin.processed + bin.open ELSE 0)
    BY <1>2, <1>3, <2>3 DEF HeldOf
  <2>5. /\ HeldOf(taken, "base") <= HeldOf(bin, "base") + in
        /\ HeldOf(taken, "quote") <= HeldOf(bin, "quote") - out
    BY <1>1, <1>2, <1>4, <1>5, <2>2, <2>4 DEF in, out
  <2> QED BY <1>3, <1>5, <2>3, <2>5 DEF Across, in, out
<1>6. CASE side = "quote"
  <2>1. taken = [b EXCEPT !.y = @ + mu, !.x = @ - mo]
    BY <1>6 DEF Taken, b, mu, mo, po, oo
  <2>2. b.y + mu \in Nat /\ b.x - mo \in Nat
    BY <1>1, <1>2, <1>3, <1>4, <1>6
  <2>3. /\ taken \in LadderBin /\ taken.price = b.price /\ taken.y = b.y + mu /\ taken.x = b.x - mo
        /\ taken.processed = b.processed /\ taken.open = b.open /\ taken.ask = b.ask
    BY <1>3, <2>1, <2>2 DEF LadderBin
  <2>4. /\ HeldOf(taken, "quote") = bin.y + mu + (IF bin.ask = FALSE THEN (bin.processed - po) + (bin.open - oo) ELSE 0)
        /\ HeldOf(bin, "quote") = bin.y + (IF bin.ask = FALSE THEN bin.processed + bin.open ELSE 0)
        /\ HeldOf(taken, "base") = bin.x - mo + (IF bin.ask = TRUE THEN (bin.processed - po) + (bin.open - oo) ELSE 0)
        /\ HeldOf(bin, "base") = bin.x + (IF bin.ask = TRUE THEN bin.processed + bin.open ELSE 0)
    BY <1>2, <1>3, <2>3 DEF HeldOf
  <2>5. /\ HeldOf(taken, "quote") <= HeldOf(bin, "quote") + in
        /\ HeldOf(taken, "base") <= HeldOf(bin, "base") - out
    BY <1>1, <1>2, <1>4, <1>6, <2>2, <2>4 DEF in, out
  <2> QED BY <1>3, <1>6, <2>3, <2>5 DEF Across, in, out
<1> QED BY <1>5, <1>6 DEF Sides

-----------------------------------------------------------------------------
(* The ledger of a ladder                                                   *)

\* What has come in at each bin since the start, and gone out of it (d): no bin holds
\* more than that, and at its price it has not lost; none trades that does not exist.
Ledger == [Sides -> [1..Places -> Int]]

Accounted(p, bins, d) ==
    /\ d \in Ledger
    /\ \A s \in Sides, i \in 1..Places :
          HeldInBin(bins, s, IdAt(i)) - HeldInBin(p.market.bins, s, IdAt(i)) <= d[s][i]
    /\ \A i \in 1..Places : IdAt(i) \in DOMAIN p.market.bins =>
          0 <= PriceOfBin(p, IdAt(i)) * d["base"][i] + Q64 * d["quote"][i]
    /\ \A s \in Sides, i \in 1..Places : IdAt(i) \notin DOMAIN p.market.bins => d[s][i] = 0

\* What a bin holds is a number.
LEMMA HeldType ==
    ASSUME NEW bins, bins \in [DOMAIN bins -> LadderBin], NEW side \in Sides, NEW b
    PROVE  HeldInBin(bins, side, b) \in Nat
<1>1. CASE b \notin DOMAIN bins
  BY <1>1 DEF HeldInBin
<1>2. CASE b \in DOMAIN bins
  <2>1. bins[b] \in LadderBin
    BY <1>2
  <2>2. bins[b].x \in Nat /\ bins[b].y \in Nat /\ bins[b].processed \in Nat /\ bins[b].open \in Nat
    BY <2>1 DEF LadderBin
  <2>3. HeldOf(bins[b], side) \in Nat
    BY <2>2 DEF HeldOf
  <2> QED BY <1>2, <2>3 DEF HeldInBin
<1> QED BY <1>1, <1>2

\* Every bin has a place.
LEMMA PlaceOf ==
    ASSUME NEW b \in BinIds
    PROVE  /\ b + MaxBinId + 1 \in 1..Places /\ IdAt(b + MaxBinId + 1) = b
           /\ Places \in Nat
           /\ \A i \in 1..Places : IdAt(i) \in BinIds /\ (i # b + MaxBinId + 1 => IdAt(i) # b)
BY DlmmAssumption DEF BinIds, Places, IdAt

\* A sum of nothing is nothing.
LEMMA SumZero ==
    ASSUME NEW n \in Nat, NEW f
    PROVE  (\A k \in 1..n : f[k] = 0) => SumTo(n, f) = 0
<1>1. PICK t : t[0] = 0 /\ (\A k \in 1..n : t[k] = t[k - 1] + f[k]) /\ SumTo(n, f) = t[n]
  BY SumUnfolds
<1> SUFFICES ASSUME \A k \in 1..n : f[k] = 0 PROVE SumTo(n, f) = 0
  OBVIOUS
<1> DEFINE Q == {m \in Nat : m <= n => t[m] = 0}
<1>2. 0 \in Q
  BY <1>1
<1>3. ASSUME NEW m \in Q PROVE m + 1 \in Q
  <2>1. m \in Nat /\ (m <= n => t[m] = 0)
    OBVIOUS
  <2> SUFFICES ASSUME m + 1 <= n PROVE t[m + 1] = 0
    BY <2>1
  <2>2. m + 1 \in 1..n /\ m + 1 - 1 = m /\ m <= n
    BY <2>1
  <2>3. t[m + 1] = t[m] + f[m + 1] /\ f[m + 1] = 0
    BY <1>1, <2>2
  <2> QED BY <2>1, <2>2, <2>3
<1>4. Q = Nat
  <2>1. Q \in SUBSET Nat
    OBVIOUS
  <2> HIDE DEF Q
  <2> QED BY <1>2, <1>3, <2>1, Induction
<1> QED BY <1>1, <1>4

\* What holds of the terms of three sums, holds of the sums.
LEMMA SumCombines ==
    ASSUME NEW n \in Nat, NEW f, NEW g, NEW h, \A k \in 1..n : f[k] \in Int /\ g[k] \in Int /\ h[k] \in Int,
           NEW x \in Int, NEW y \in Int, \A k \in 1..n : 0 <= x * f[k] + y * g[k] + h[k]
    PROVE  /\ SumTo(n, f) \in Int /\ SumTo(n, g) \in Int /\ SumTo(n, h) \in Int
           /\ 0 <= x * SumTo(n, f) + y * SumTo(n, g) + SumTo(n, h)
<1>1. PICK a : a[0] = 0 /\ (\A k \in 1..n : a[k] = a[k - 1] + f[k]) /\ SumTo(n, f) = a[n]
  BY SumUnfolds
<1>2. PICK b : b[0] = 0 /\ (\A k \in 1..n : b[k] = b[k - 1] + g[k]) /\ SumTo(n, g) = b[n]
  BY SumUnfolds
<1>3. PICK c : c[0] = 0 /\ (\A k \in 1..n : c[k] = c[k - 1] + h[k]) /\ SumTo(n, h) = c[n]
  BY SumUnfolds
<1> DEFINE Fine(m) == a[m] \in Int /\ b[m] \in Int /\ c[m] \in Int /\ 0 <= x * a[m] + y * b[m] + c[m]
           Q == {m \in Nat : m <= n => Fine(m)}
<1>4. 0 \in Q
  <2>1. x * 0 = 0 /\ y * 0 = 0
    OBVIOUS
  <2> QED BY <1>1, <1>2, <1>3, <2>1
<1>5. ASSUME NEW m \in Q PROVE m + 1 \in Q
  <2>1. m \in Nat /\ (m <= n => Fine(m))
    OBVIOUS
  <2> SUFFICES ASSUME m + 1 <= n PROVE Fine(m + 1)
    BY <2>1
  <2>2. m + 1 \in 1..n /\ m + 1 - 1 = m /\ m <= n
    BY <2>1
  <2> DEFINE u == a[m]
             v == b[m]
             w == c[m]
             p == f[m + 1]
             q == g[m + 1]
             r == h[m + 1]
  <2>3. a[m + 1] = u + p /\ b[m + 1] = v + q /\ c[m + 1] = w + r
    BY <1>1, <1>2, <1>3, <2>2
  <2>4. /\ u \in Int /\ v \in Int /\ w \in Int /\ p \in Int /\ q \in Int /\ r \in Int
        /\ 0 <= x * u + y * v + w /\ 0 <= x * p + y * q + r
    BY <2>1, <2>2
  <2> HIDE DEF u, v, w, p, q, r
  <2>5. x * (u + p) = x * u + x * p /\ y * (v + q) = y * v + y * q
    BY <2>4
  <2>6. x * u \in Int /\ x * p \in Int /\ y * v \in Int /\ y * q \in Int
    BY <2>4
  <2>7. u + p \in Int /\ v + q \in Int /\ w + r \in Int
    BY <2>4
  <2>8. 0 <= x * (u + p) + y * (v + q) + (w + r)
    BY <2>4, <2>5, <2>6
  <2> QED BY <2>3, <2>7, <2>8
<1>6. Q = Nat
  <2>1. Q \in SUBSET Nat
    OBVIOUS
  <2> HIDE DEF Q
  <2> QED BY <1>4, <1>5, <2>1, Induction
<1>7. Fine(n)
  BY <1>6
<1> QED BY <1>1, <1>2, <1>3, <1>7

\* At the start nothing has been booked.
LEMMA NothingBooked ==
    ASSUME NEW p, IsLadder(p)
    PROVE  \E d : /\ Accounted(p, p.market.bins, d)
                  /\ \A s \in Sides : SumTo(Places, d[s]) = 0
<1> DEFINE bins == p.market.bins
           d == [s \in Sides |-> [i \in 1..Places |-> 0]]
<1>1. bins \in [DOMAIN bins -> LadderBin] /\ Q64 \in Nat /\ MaxBinId \in Nat /\ 0 \in BinIds
  BY DammAssumption, DlmmAssumption DEF IsLadder, BinIds
<1>2. d \in Ledger
  BY DEF Ledger
<1>3. ASSUME NEW s \in Sides PROVE SumTo(Places, d[s]) = 0
  <2>1. \A i \in 1..Places : d[s][i] = 0
    OBVIOUS
  <2>2. Places \in Nat
    BY <1>1, PlaceOf
  <2> HIDE DEF d
  <2> QED BY <2>1, <2>2, SumZero
<1>4. ASSUME NEW s \in Sides, NEW i \in 1..Places
      PROVE  HeldInBin(bins, s, IdAt(i)) - HeldInBin(bins, s, IdAt(i)) <= d[s][i]
  <2>1. HeldInBin(bins, s, IdAt(i)) \in Nat /\ d[s][i] = 0
    BY <1>1, HeldType
  <2> HIDE DEF bins, d
  <2> QED BY <2>1
<1>5. ASSUME NEW i \in 1..Places, IdAt(i) \in DOMAIN bins
      PROVE  0 <= PriceOfBin(p, IdAt(i)) * d["base"][i] + Q64 * d["quote"][i]
  <2>1. d["base"][i] = 0 /\ d["quote"][i] = 0
    BY DEF Sides
  <2>2. PriceOfBin(p, IdAt(i)) \in Nat
    BY <1>5 DEF IsLadder
  <2> HIDE DEF d
  <2> QED BY <1>1, <2>1, <2>2
<1>6. \A s \in Sides, i \in 1..Places : d[s][i] = 0
  OBVIOUS
<1> HIDE DEF d
<1>7. Accounted(p, bins, d)
  BY <1>2, <1>4, <1>5, <1>6 DEF Accounted
<1> QED BY <1>3, <1>7

\* A bin is filled: the ledger has what went in and what came out.
LEMMA FillBooked ==
    ASSUME NEW p, IsLadder(p), NEW bins, bins \in [DOMAIN bins -> LadderBin], NEW d, Accounted(p, bins, d),
           NEW b \in BinIds, b \in DOMAIN bins, b \in DOMAIN p.market.bins, NEW side \in Sides, NEW in \in Nat, NEW out \in Nat,
           Worth(side, PriceOfBin(p, b), in, out),
           NEW bin \in LadderBin, HeldOf(bin, side) <= HeldOf(bins[b], side) + in,
           HeldOf(bin, Across(side)) <= HeldOf(bins[b], Across(side)) - out
    PROVE  \E e : /\ Accounted(p, [bins EXCEPT ![b] = bin], e)
                  /\ SumTo(Places, d[side]) \in Int /\ SumTo(Places, d[Across(side)]) \in Int
                  /\ SumTo(Places, e[side]) = SumTo(Places, d[side]) + in
                  /\ SumTo(Places, e[Across(side)]) = SumTo(Places, d[Across(side)]) - out
<1> DEFINE other == Across(side)
           k == b + MaxBinId + 1
           e == [s \in Sides |-> [i \in 1..Places |-> IF i = k THEN (IF s = side THEN d[s][i] + in ELSE d[s][i] - out)
                                                      ELSE d[s][i]]]
           now == [bins EXCEPT ![b] = bin]
           price == PriceOfBin(p, b)
<1>1. /\ k \in 1..Places /\ IdAt(k) = b /\ Places \in Nat
      /\ \A i \in 1..Places : IdAt(i) \in BinIds /\ (i # k => IdAt(i) # b)
  BY PlaceOf
<1>2. other \in Sides /\ other # side /\ \A s \in Sides : s = side \/ s = other
  BY BothSides
<1>3. \A s \in Sides, i \in 1..Places : d[s][i] \in Int
  BY DEF Accounted, Ledger
<1> HIDE DEF k, other
<1>4. e \in Ledger
  BY <1>3 DEF Ledger
<1>5. /\ e[side][k] = d[side][k] + in /\ e[other][k] = d[other][k] - out
      /\ \A s \in Sides, i \in 1..Places : i # k => e[s][i] = d[s][i]
  BY <1>1, <1>2
<1>6. /\ SumTo(Places, d[side]) \in Int /\ SumTo(Places, d[other]) \in Int
      /\ SumTo(Places, e[side]) - SumTo(Places, d[side]) = in
      /\ SumTo(Places, e[other]) - SumTo(Places, d[other]) = -out
      /\ SumTo(Places, e[side]) \in Int /\ SumTo(Places, e[other]) \in Int
  <2> HIDE DEF e
  <2>1. \A s \in Sides, i \in 1..Places : e[s][i] \in Int
    BY <1>4 DEF Ledger
  <2>2. ASSUME NEW s \in Sides
        PROVE  /\ SumTo(Places, d[s]) \in Int /\ SumTo(Places, e[s]) \in Int
               /\ SumTo(Places, e[s]) - SumTo(Places, d[s]) = e[s][k] - d[s][k]
    BY <1>1, <1>3, <1>5, <2>1, SumChanges
  <2>3. e[side][k] - d[side][k] = in /\ e[other][k] - d[other][k] = -out
    BY <1>1, <1>2, <1>3, <1>5
  <2> QED BY <1>2, <2>2, <2>3
<1> HIDE DEF e
<1>7. /\ now \in [DOMAIN now -> LadderBin] /\ DOMAIN now = DOMAIN bins
      /\ HeldInBin(now, side, b) <= HeldInBin(bins, side, b) + in
      /\ HeldInBin(now, other, b) <= HeldInBin(bins, other, b) - out
      /\ \A s \in Sides : \A c : c # b => HeldInBin(now, s, c) = HeldInBin(bins, s, c)
  <2>1. now \in [DOMAIN now -> LadderBin] /\ DOMAIN now = DOMAIN bins
    OBVIOUS
  <2>2. now[b] = bin /\ \A c \in DOMAIN bins : c # b => now[c] = bins[c]
    OBVIOUS
  <2> HIDE DEF now
  <2>3. \A s \in Sides : \A c : c # b => HeldInBin(now, s, c) = HeldInBin(bins, s, c)
    BY <2>1, <2>2 DEF HeldInBin
  <2>4. \A s \in Sides : HeldInBin(now, s, b) = HeldOf(bin, s) /\ HeldInBin(bins, s, b) = HeldOf(bins[b], s)
    BY <2>1, <2>2 DEF HeldInBin
  <2> QED BY <1>2, <2>1, <2>3, <2>4 DEF other
<1> HIDE DEF now
<1>8. ASSUME NEW s \in Sides, NEW i \in 1..Places
      PROVE  HeldInBin(now, s, IdAt(i)) - HeldInBin(p.market.bins, s, IdAt(i)) <= e[s][i]
  <2> DEFINE was == HeldInBin(bins, s, IdAt(i))
             first == HeldInBin(p.market.bins, s, IdAt(i))
             is == HeldInBin(now, s, IdAt(i))
  <2>1. was - first <= d[s][i]
    BY DEF Accounted
  <2>2. was \in Nat /\ first \in Nat /\ is \in Nat
    <3>1. p.market.bins \in [DOMAIN p.market.bins -> LadderBin]
      BY DEF IsLadder
    <3> QED BY <1>7, <3>1, HeldType
  <2>3. d[s][i] \in Int /\ d[s][k] \in Int
    BY <1>1, <1>3
  <2>4. CASE i # k
    <3>1. is = was /\ e[s][i] = d[s][i]
      BY <1>1, <1>5, <1>7, <2>4
    <3> QED BY <2>1, <3>1
  <2>5. CASE i = k /\ s = side
    <3>1. is <= was + in /\ e[s][i] = d[s][i] + in
      BY <1>1, <1>5, <1>7, <2>5
    <3> HIDE DEF is, was, first
    <3>2. is - first <= e[s][i]
      BY <2>1, <2>2, <2>3, <3>1
    <3> QED BY <3>2 DEF is, first
  <2>6. CASE i = k /\ s = other
    <3>1. is <= was - out /\ e[s][i] = d[s][i] - out
      BY <1>1, <1>5, <1>7, <2>6
    <3> HIDE DEF is, was, first
    <3>2. is - first <= e[s][i]
      BY <2>1, <2>2, <2>3, <3>1
    <3> QED BY <3>2 DEF is, first
  <2> QED BY <1>2, <2>4, <2>5, <2>6
<1>9. ASSUME NEW i \in 1..Places, IdAt(i) \in DOMAIN p.market.bins
      PROVE  0 <= PriceOfBin(p, IdAt(i)) * e["base"][i] + Q64 * e["quote"][i]
  <2> DEFINE at == PriceOfBin(p, IdAt(i))
             x == d["base"][i]
             y == d["quote"][i]
  <2>0. "base" \in Sides /\ "quote" \in Sides
    BY DEF Sides
  <2>1. x \in Int /\ y \in Int /\ at \in Nat /\ Q64 \in Nat
    BY <1>1, <1>3, <1>9, <2>0, DammAssumption DEF IsLadder
  <2>2. 0 <= at * x + Q64 * y
    BY <1>9 DEF Accounted
  <2> HIDE DEF at, x, y
  <2>3. CASE i # k
    BY <1>5, <2>0, <2>2, <2>3 DEF at, x, y
  <2>4. CASE i = k /\ side = "base"
    <3>1. e["base"][i] = x + in /\ e["quote"][i] = y - out
      BY <1>5, <2>4 DEF x, y, other, Across
    <3>2. out * Q64 <= in * at
      BY <1>1, <2>4 DEF Worth, at
    <3>3. at * (x + in) + Q64 * (y - out) = at * x + Q64 * y + (in * at - out * Q64)
      BY <2>1
    <3>4. at * x + Q64 * y \in Int /\ in * at \in Int /\ out * Q64 \in Int
      BY <2>1
    <3>5. 0 <= at * (x + in) + Q64 * (y - out)
      BY <2>2, <3>2, <3>3, <3>4
    <3> QED BY <3>1, <3>5 DEF at
  <2>5. CASE i = k /\ side = "quote"
    <3>1. e["base"][i] = x - out /\ e["quote"][i] = y + in
      BY <1>5, <2>5 DEF x, y, other, Across
    <3>2. out * at <= in * Q64
      BY <1>1, <2>5 DEF Worth, at
    <3>3. at * (x - out) + Q64 * (y + in) = at * x + Q64 * y + (in * Q64 - out * at)
      BY <2>1
    <3>4. at * x + Q64 * y \in Int /\ in * Q64 \in Int /\ out * at \in Int
      BY <2>1
    <3>5. 0 <= at * (x - out) + Q64 * (y + in)
      BY <2>2, <3>2, <3>3, <3>4
    <3> QED BY <3>1, <3>5 DEF at
  <2> QED BY <2>3, <2>4, <2>5 DEF Sides
<1>10. Accounted(p, now, e)
  <2>1. ASSUME NEW s \in Sides, NEW i \in 1..Places, IdAt(i) \notin DOMAIN p.market.bins PROVE e[s][i] = 0
    <3>1. i # k
      BY <1>1, <2>1
    <3>2. e[s][i] = d[s][i] /\ d[s][i] = 0
      BY <1>5, <2>1, <3>1 DEF Accounted
    <3> QED BY <3>2
  <2> QED BY <1>4, <1>8, <1>9, <2>1 DEF Accounted
<1>11. SumTo(Places, e[side]) = SumTo(Places, d[side]) + in /\ SumTo(Places, e[other]) = SumTo(Places, d[other]) - out
  BY <1>6
<1> QED BY <1>6, <1>10, <1>11 DEF other, now

-----------------------------------------------------------------------------
(* A walk over bins                                                         *)

\* A bin's fee is a rate below the whole.
LEMMA BinRate ==
    ASSUME NEW pair \in PairState
    PROVE  /\ bin_fee_rate(pair) \in Nat /\ bin_fee_rate(pair) < FeeScale
           /\ update_volatility_accumulator(pair) \in PairState
           /\ update_volatility_accumulator(pair).step = pair.step
           /\ update_volatility_accumulator(pair).active = pair.active
<1> DEFINE moved == pair.va * pair.step
           variable == div_ceil(pair.control * moved * moved, VariableScale)
<1>1. /\ pair.va \in Nat /\ pair.step \in Nat /\ pair.control \in Nat /\ pair.base_rate \in Nat
      /\ pair.va_ref \in Nat /\ pair.max_va \in Nat /\ pair.index_ref \in Int /\ pair.active \in Int
  BY DlmmAssumption DEF PairState, BinIds
<1>2. moved \in Nat
  BY <1>1
<1> HIDE DEF moved
<1>3. pair.control * moved * moved \in Nat
  <2>1. pair.control * moved \in Nat
    BY <1>1, <1>2
  <2> QED BY <1>2, <2>1
<1>4. variable \in Nat
  BY <1>3, DivCeilCovers, DammAssumption
<1>5. bin_fee_rate(pair) = AtMost(pair.base_rate + variable, MaxFeeRate)
  BY DEF bin_fee_rate, moved
<1> HIDE DEF variable
<1>6. MaxFeeRate \in Nat /\ MaxFeeRate < FeeScale
  BY DammAssumption DEF MaxFeeRate
<1>7. bin_fee_rate(pair) \in Nat /\ bin_fee_rate(pair) < FeeScale
  <2> DEFINE rate == bin_fee_rate(pair)
             sum == pair.base_rate + variable
  <2>1. sum \in Nat
    BY <1>1, <1>4
  <2>2. rate = IF sum < MaxFeeRate THEN sum ELSE MaxFeeRate
    BY <1>5 DEF AtMost
  <2> HIDE DEF rate, sum
  <2>3. FeeScale \in Nat
    BY DammAssumption
  <2>4. rate \in Nat /\ rate < FeeScale
    BY <1>6, <2>1, <2>2, <2>3
  <2> QED BY <2>4 DEF rate
<1> DEFINE va == AtMost(pair.va_ref + Distance(pair.index_ref, pair.active) * VaStep, pair.max_va)
<1>8. va \in Nat
  <2>1. Distance(pair.index_ref, pair.active) \in Nat /\ VaStep \in Nat
    BY <1>1, DlmmAssumption DEF Distance
  <2>2. Distance(pair.index_ref, pair.active) * VaStep \in Nat
    BY <2>1
  <2> QED BY <1>1, <2>2 DEF AtMost
<1>9. update_volatility_accumulator(pair) = [pair EXCEPT !.va = va]
  BY DEF update_volatility_accumulator
<1> HIDE DEF va
<1>10. /\ [pair EXCEPT !.va = va] \in PairState
       /\ [pair EXCEPT !.va = va].step = pair.step
       /\ [pair EXCEPT !.va = va].active = pair.active
  BY <1>8 DEF PairState
<1> QED BY <1>7, <1>9, <1>10

\* What a drained bin takes with the fee on top is within what was left.
LEMMA DrainedWithin ==
    ASSUME NEW left \in Nat, NEW rate \in Nat, rate < FeeScale, NEW used \in Nat, used <= left - ceil_fee(left, rate)
    PROVE  fee_on_top(used, rate) \in Nat /\ used + fee_on_top(used, rate) <= left
<1> DEFINE rest == FeeScale - rate
           fee == ceil_fee(left, rate)
<1>1. FeeScale \in Nat \ {0} /\ rest \in Nat \ {0} /\ FeeScale = rest + rate
  BY DammAssumption
<1>2. left * rate \in Nat
  OBVIOUS
<1>3. fee \in Nat /\ left * rate <= fee * FeeScale
  BY <1>1, <1>2, DivCeilCovers DEF ceil_fee
<1>4. used + fee <= left
  BY <1>3
<1> HIDE DEF fee, rest
<1>5. used * rate <= (left - used) * rest
  <2>1. (used + fee) * FeeScale <= left * FeeScale
    BY <1>1, <1>3, <1>4, TimesMonotone
  <2>2. (used + fee) * FeeScale = used * rest + used * rate + fee * FeeScale
    BY <1>1, <1>3
  <2>3. left * FeeScale = left * rest + left * rate
    BY <1>1
  <2>4. (left - used) * rest = left * rest - used * rest
    BY <1>1
  <2>5. used * rest \in Nat /\ used * rate \in Nat /\ fee * FeeScale \in Nat /\ left * rest \in Nat
    BY <1>1, <1>3
  <2> QED BY <1>2, <1>3, <2>1, <2>2, <2>3, <2>4, <2>5
<1>6. fee_on_top(used, rate) \in Nat /\ fee_on_top(used, rate) <= left - used
  <2>1. left - used \in Nat /\ used * rate \in Nat
    BY <1>3, <1>4
  <2>2. fee_on_top(used, rate) = div_ceil(used * rate, rest)
    BY DEF fee_on_top, rest
  <2> QED BY <1>1, <1>5, <2>1, <2>2, DivCeilAtMost
<1> QED BY <1>6

\* A fill consumes at least what it used and at most what was left, and a fee taken of
\* what comes out only takes away.
LEMMA ConsumedWithin ==
    ASSUME NEW pair \in PairState, NEW side \in Sides, NEW left \in Nat, NEW price, NEW layers,
           layers.used \in Nat, layers.out \in Nat,
           NEW excluded, layers.used <= excluded,
           excluded = IF bin_fee_on_input(pair, side) THEN left - ceil_fee(left, bin_fee_rate(pair)) ELSE left,
           NEW s, s = swap_in_bin(pair, price, layers, excluded, left, side)
    PROVE  /\ s.consumed \in Nat /\ layers.used <= s.consumed /\ s.consumed <= left
           /\ s.out \in Nat /\ s.out <= layers.out
<1> DEFINE rate == bin_fee_rate(pair)
           on_input == bin_fee_on_input(pair, side)
           used == layers.used
           out == layers.out
           top == IF on_input THEN fee_on_top(used, rate) ELSE 0
           off == IF on_input THEN 0 ELSE ceil_fee(out, rate)
<1>1. rate \in Nat /\ rate < FeeScale /\ FeeScale \in Nat
  BY BinRate, DammAssumption
<1>2. s = [consumed |-> IF used < excluded THEN used + top ELSE left, out |-> out - off]
  BY DEF swap_in_bin
<1> HIDE DEF on_input
<1>3. excluded = IF on_input THEN left - ceil_fee(left, rate) ELSE left
  BY DEF on_input
<1>4. used \in Nat /\ out \in Nat /\ used <= excluded
  OBVIOUS
<1> HIDE DEF rate, used, out
<1>5. rate \in 0..FeeScale
  BY <1>1
<1>6. off \in Nat /\ off <= out
  BY <1>4, <1>5, FeeWithin
<1>7. ceil_fee(left, rate) \in Nat /\ ceil_fee(left, rate) <= left
  BY <1>5, FeeWithin
<1>8. top \in Nat /\ used + top <= left
  <2>1. CASE on_input
    BY <1>1, <1>3, <1>4, <2>1, DrainedWithin
  <2>2. CASE ~on_input
    BY <1>3, <1>4, <2>2
  <2> QED BY <2>1, <2>2
<1> HIDE DEF off, top
<1>9. s.consumed = (IF used < excluded THEN used + top ELSE left) /\ s.out = out - off
  BY <1>2
<1>10. excluded <= left
  BY <1>3, <1>7
<1>11. excluded \in Nat
  BY <1>3, <1>7
<1>12. s.consumed \in Nat /\ used <= s.consumed /\ s.consumed <= left /\ s.out \in Nat /\ s.out <= out
  BY <1>4, <1>6, <1>8, <1>9, <1>10, <1>11
<1> QED BY <1>12 DEF used, out

\* What has come in of the side of a walk and gone out of the other.
Moved(was, side, in, out) == [s \in Sides |-> IF s = side THEN was[s] + in ELSE was[s] - out]

Booked(p, bins, change) == \E d : Accounted(p, bins, d) /\ \A s \in Sides : SumTo(Places, d[s]) = change[s]

Walks(D) == [status : {"walking", "exhausted", "not_loaded"}, pair : PairState, bins : [D -> LadderBin], left : Nat,
             out : Nat, paid : Nat, kept : Nat, arrays : Nat, array : SUBSET Int]

\* A walk over part of a ladder's bins: it has kept and paid what the ledger says.
GoodWalk(p, all, was, side, amount, w) ==
    /\ w \in Walks(DOMAIN w.bins) /\ DOMAIN w.bins \subseteq DOMAIN all
    /\ w.pair.step = p.market.pair.step
    /\ \A b \in DOMAIN w.bins : w.bins[b].price = p.market.bins[b].price
    /\ \A a \in w.array : BinsOf(a) \subseteq DOMAIN w.bins
    /\ w.left + w.kept <= amount /\ w.out <= w.paid
    /\ Booked(p, Over(w.bins, all), Moved(was, side, w.kept, w.paid))

\* The bins it may walk over: those of the ladder, as the trades before left them.
Left(p, all) == DOMAIN all = DOMAIN p.market.bins /\ all \in [DOMAIN all -> LadderBin]

\* A fill of the active bin is booked.
LEMMA FillKeeps ==
    ASSUME NEW p, IsLadder(p), NEW all, Left(p, all), NEW was \in [Sides -> Int], NEW side \in Sides, NEW amount \in Nat,
           NEW w, GoodWalk(p, all, was, side, amount, w), w.pair.active \in DOMAIN w.bins,
           NEW x, x = FillBin(w, side)
    PROVE  GoodWalk(p, all, was, side, amount, x) /\ x.status = w.status
<1> DEFINE D == DOMAIN w.bins
           b == w.pair.active
           bin == w.bins[b]
           pair == update_volatility_accumulator(w.pair)
           u == [w EXCEPT !.pair = pair]
           price == BinPrice(pair, bin)
           excluded == WithoutFee(u, side)
           l == Layers(pair, bin, price, excluded, side)
           s == swap_in_bin(pair, price, l, excluded, w.left, side)
           taken == Taken(bin, l, side)
           y == [u EXCEPT !.left = @ - s.consumed, !.out = @ + s.out, !.paid = @ + l.out, !.kept = @ + l.used,
                          !.bins[b] = Taken(@, l, side)]
<1>1. /\ w \in Walks(D) /\ D \subseteq DOMAIN all /\ w.pair.step = p.market.pair.step
      /\ \A c \in D : w.bins[c].price = p.market.bins[c].price
      /\ \A a \in w.array : BinsOf(a) \subseteq D
      /\ w.left + w.kept <= amount /\ w.out <= w.paid
      /\ Booked(p, Over(w.bins, all), Moved(was, side, w.kept, w.paid))
      /\ b \in D
  BY DEF GoodWalk
<1>2. /\ w.pair \in PairState /\ w.bins \in [D -> LadderBin] /\ w.left \in Nat /\ w.out \in Nat /\ w.paid \in Nat
      /\ w.kept \in Nat /\ b \in BinIds /\ bin \in LadderBin
  BY <1>1 DEF Walks, PairState
<1>3. CASE max_amount_out(w.pair, bin, side) = 0
  BY <1>3 DEF FillBin
<1>4. CASE max_amount_out(w.pair, bin, side) # 0
  <2>1. pair \in PairState /\ pair.step = w.pair.step /\ pair.active = b
    BY <1>2, BinRate
  <2> HIDE DEF pair
  <2>2. /\ u \in Walks(D) /\ u.pair = pair /\ u.bins = w.bins /\ u.left = w.left /\ u.out = w.out /\ u.paid = w.paid
        /\ u.kept = w.kept /\ u.status = w.status /\ u.array = w.array
    <3>1. u \in Walks(D)
      BY <1>1, <2>1 DEF Walks
    <3>2. /\ u.pair = pair /\ u.bins = w.bins /\ u.left = w.left /\ u.out = w.out /\ u.paid = w.paid
          /\ u.kept = w.kept /\ u.status = w.status /\ u.array = w.array
      BY <1>1 DEF Walks
    <3> QED BY <3>1, <3>2
  <2>3. x = y
    BY Zenon, <1>4, <2>1, <2>2 DEF FillBin, FillAt, FillWith, AfterFill, pair
  <2>4. price = PriceOfBin(p, b) /\ price \in Nat \ {0}
    <3>1. b \in DOMAIN p.market.bins /\ bin.price = p.market.bins[b].price /\ pair.step = p.market.pair.step
      BY <1>1, <2>1 DEF Left
    <3>2. price = PriceOfBin(p, b)
      BY <2>1, <3>1 DEF BinPrice, PriceOfBin
    <3> QED BY <3>1, <3>2 DEF IsLadder
  <2>5. /\ excluded = IF bin_fee_on_input(pair, side) THEN w.left - ceil_fee(w.left, bin_fee_rate(pair)) ELSE w.left
        /\ excluded \in Nat
    <3>1. excluded = IF bin_fee_on_input(pair, side) THEN w.left - ceil_fee(w.left, bin_fee_rate(pair)) ELSE w.left
      BY <2>2 DEF WithoutFee
    <3>2. bin_fee_rate(pair) \in 0..FeeScale
      BY <2>1, BinRate, DammAssumption
    <3>3. ceil_fee(w.left, bin_fee_rate(pair)) \in Nat /\ ceil_fee(w.left, bin_fee_rate(pair)) <= w.left
      BY <1>2, <3>2, FeeWithin
    <3> QED BY <1>2, <3>1, <3>3
  <2> HIDE DEF price, excluded
  <2>6. /\ l.used \in Nat /\ l.used <= excluded /\ l.out \in Nat /\ Worth(side, price, l.used, l.out)
    BY <1>2, <2>1, <2>4, <2>5, LayersFair
  <2>7. /\ taken \in LadderBin /\ taken.price = bin.price
        /\ HeldOf(taken, side) <= HeldOf(bin, side) + l.used
        /\ HeldOf(taken, Across(side)) <= HeldOf(bin, Across(side)) - l.out
    BY <1>2, <2>1, <2>4, <2>5, TakenHolds
  <2>8. /\ s.consumed \in Nat /\ l.used <= s.consumed /\ s.consumed <= w.left
        /\ s.out \in Nat /\ s.out <= l.out
    <3> HIDE DEF l
    <3> QED BY <1>2, <2>1, <2>5, <2>6, ConsumedWithin
  <2>9. taken = Taken(u.bins[b], l, side)
    BY <2>2
  <2>10. y = [u EXCEPT !.left = w.left - s.consumed, !.out = w.out + s.out, !.paid = w.paid + l.out,
                       !.kept = w.kept + l.used, !.bins = [w.bins EXCEPT ![b] = taken]]
    <3> HIDE DEF l, s, u
    <3> QED BY <2>2, <2>9
  <2> HIDE DEF l, s, taken, u, y
  <2>11. /\ y \in Walks(D) /\ y.pair = pair /\ y.bins = [w.bins EXCEPT ![b] = taken] /\ y.left = w.left - s.consumed
         /\ y.out = w.out + s.out /\ y.paid = w.paid + l.out /\ y.kept = w.kept + l.used /\ y.status = w.status
         /\ y.array = w.array
    <3>1. /\ w.left - s.consumed \in Nat /\ w.out + s.out \in Nat /\ w.paid + l.out \in Nat /\ w.kept + l.used \in Nat
          /\ [w.bins EXCEPT ![b] = taken] \in [D -> LadderBin]
      BY <1>2, <2>6, <2>7, <2>8
    <3> QED BY <2>2, <2>10, <3>1 DEF Walks
  <2>12. DOMAIN y.bins = D /\ \A c \in D : y.bins[c].price = p.market.bins[c].price
    <3>1. DOMAIN y.bins = D /\ y.bins[b] = taken /\ \A c \in D : c # b => y.bins[c] = w.bins[c]
      BY <1>1, <1>2, <2>11
    <3> QED BY <1>1, <2>7, <3>1
  <2>13. y.left + y.kept <= amount /\ y.out <= y.paid
    BY <1>1, <1>2, <2>6, <2>8, <2>11
  <2>14. Booked(p, Over(y.bins, all), Moved(was, side, y.kept, y.paid))
    <3> DEFINE before == Over(w.bins, all)
               other == Across(side)
    <3>1. PICK d : Accounted(p, before, d) /\ \A t \in Sides : SumTo(Places, d[t]) = Moved(was, side, w.kept, w.paid)[t]
      BY <1>1 DEF Booked
    <3>2. before \in [DOMAIN before -> LadderBin] /\ b \in DOMAIN before /\ before[b] = bin
      <4>1. DOMAIN before = DOMAIN all
        BY DEF Over
      <4>2. \A c \in DOMAIN all : before[c] = IF c \in DOMAIN w.bins THEN w.bins[c] ELSE all[c]
        BY DEF Over
      <4>3. before = [c \in DOMAIN before |-> before[c]]
        BY DEF Over
      <4> HIDE DEF before
      <4>4. \A c \in DOMAIN before : before[c] \in LadderBin
        BY <1>2, <4>1, <4>2 DEF Left
      <4> QED BY <1>1, <4>1, <4>2, <4>3, <4>4
    <3>3. Over(y.bins, all) = [before EXCEPT ![b] = taken]
      BY <1>1, <2>11, <2>12 DEF Over
    <3> HIDE DEF before, other
    <3>4. PICK e : /\ Accounted(p, [before EXCEPT ![b] = taken], e)
                   /\ SumTo(Places, d[side]) \in Int /\ SumTo(Places, d[other]) \in Int
                   /\ SumTo(Places, e[side]) = SumTo(Places, d[side]) + l.used
                   /\ SumTo(Places, e[other]) = SumTo(Places, d[other]) - l.out
      <4>1. Worth(side, PriceOfBin(p, b), l.used, l.out)
        BY <2>4, <2>6
      <4>2. b \in DOMAIN p.market.bins
        BY <1>1 DEF Left
      <4> QED BY <1>2, <2>6, <2>7, <3>1, <3>2, <4>1, <4>2, FillBooked DEF other
    <3>5. other \in Sides /\ other # side /\ \A t \in Sides : t = side \/ t = other
      BY BothSides DEF other
    <3>6. \A t \in Sides : SumTo(Places, e[t]) = Moved(was, side, y.kept, y.paid)[t]
      <4>1. SumTo(Places, e[side]) = was[side] + w.kept + l.used
        BY <3>1, <3>4 DEF Moved
      <4>2. SumTo(Places, e[other]) = was[other] - w.paid - l.out
        BY <3>1, <3>4, <3>5 DEF Moved
      <4>3. /\ Moved(was, side, y.kept, y.paid)[side] = was[side] + (w.kept + l.used)
            /\ Moved(was, side, y.kept, y.paid)[other] = was[other] - (w.paid + l.out)
        BY <2>11, <3>5 DEF Moved
      <4>4. was[side] \in Int /\ was[other] \in Int
        BY <3>5
      <4> QED BY <1>2, <2>6, <3>5, <4>1, <4>2, <4>3, <4>4
    <3> QED BY <3>3, <3>4, <3>6 DEF Booked
  <2>15. y.pair.step = p.market.pair.step
    BY <1>1, <2>1, <2>11
  <2>16. GoodWalk(p, all, was, side, amount, y)
    BY <1>1, <2>11, <2>12, <2>13, <2>14, <2>15 DEF GoodWalk
  <2> QED BY <2>3, <2>11, <2>16
<1> QED BY <1>3, <1>4

\* An integer is between two multiples.
LEMMA IntDivBounds ==
    ASSUME NEW x \in Int, NEW y \in Nat \ {0}
    PROVE  /\ x \div y \in Int
           /\ (x \div y) * y <= x
           /\ x < (x \div y) * y + y
OBVIOUS

\* A bin is one of its array's.
LEMMA InItsArray ==
    ASSUME NEW b \in Int
    PROVE  array_index(b) \in Int /\ b \in BinsOf(array_index(b))
<1> DEFINE q == array_index(b)
<1>1. BinsPerArray \in Nat \ {0}
  BY DlmmAssumption
<1>2. q \in Int /\ q * BinsPerArray <= b /\ b < q * BinsPerArray + BinsPerArray
  BY <1>1, IntDivBounds DEF array_index
<1> HIDE DEF q
<1>3. (q + 1) * BinsPerArray = q * BinsPerArray + BinsPerArray /\ q * BinsPerArray \in Int
  BY <1>1, <1>2
<1>4. b \in BinsOf(q)
  BY <1>1, <1>2, <1>3 DEF BinsOf
<1> QED BY <1>2, <1>4 DEF q

\* The ends of an array are its bins.
LEMMA EndsOfArray ==
    ASSUME NEW a \in Int
    PROVE  a * BinsPerArray \in BinsOf(a) /\ (a + 1) * BinsPerArray - 1 \in BinsOf(a)
<1>1. BinsPerArray \in Nat \ {0}
  BY DlmmAssumption
<1>2. (a + 1) * BinsPerArray = a * BinsPerArray + BinsPerArray /\ a * BinsPerArray \in Int
  BY <1>1
<1> QED BY <1>1, <1>2 DEF BinsOf

\* Of the arrays beyond one, there is a nearest.
LEMMA NearestChosen ==
    ASSUME NEW liquid \in SUBSET Int, NEW from \in Int, NEW side \in Sides,
           NEW ahead, ahead = Beyond(liquid, from, side), ahead # {}
    PROVE  Nearest(ahead, side) \in ahead
<1> DEFINE far(a) == IF side = "base" THEN from - a ELSE a - from
           S == {far(a) : a \in ahead}
<1>1. ASSUME NEW a \in ahead PROVE a \in Int /\ far(a) \in Nat
  BY DEF Beyond
<1>2. S \in SUBSET Nat /\ S # {}
  BY <1>1
<1>3. PICK m \in S : \A k \in S : m <= k
  <2> HIDE DEF S
  <2> QED BY <1>2, LeastNatural
<1>4. PICK a \in ahead : m = far(a)
  BY <1>3
<1>5. ASSUME NEW b \in ahead PROVE IF side = "base" THEN b <= a ELSE a <= b
  <2>1. far(a) <= far(b)
    BY <1>3, <1>4
  <2> QED BY <1>1, <2>1
<1> QED BY <1>4, <1>5 DEF Nearest

\* A walk that enters an array has its bins.
LEMMA EnterKeeps ==
    ASSUME NEW p, IsLadder(p), NEW all, Left(p, all), NEW was \in [Sides -> Int], NEW side \in Sides, NEW amount \in Nat,
           NEW w, GoodWalk(p, all, was, side, amount, w),
           NEW x, x = Entered(p.data, w, side)
    PROVE  /\ GoodWalk(p, all, was, side, amount, x)
           /\ x.status = "walking" /\ w.status = "walking" => x.pair.active \in DOMAIN x.bins
<1> DEFINE D == DOMAIN w.bins
           from == array_index(w.pair.active)
           ahead == Beyond(p.data.liquid, from, side)
           array == Nearest(ahead, side)
           edge == IF side = "base" THEN (array + 1) * BinsPerArray - 1 ELSE array * BinsPerArray
           stops == (needs_extension(from) /\ ~p.data.extension) \/ ahead = {} \/ w.arrays = SwapArrays
<1>1. /\ w \in Walks(D) /\ D \subseteq DOMAIN all /\ w.pair.step = p.market.pair.step
      /\ \A c \in D : w.bins[c].price = p.market.bins[c].price
      /\ \A a \in w.array : BinsOf(a) \subseteq D
      /\ w.left + w.kept <= amount /\ w.out <= w.paid
      /\ Booked(p, Over(w.bins, all), Moved(was, side, w.kept, w.paid))
  BY DEF GoodWalk
<1>2. /\ w.pair \in PairState /\ w.pair.active \in BinIds /\ w.pair.active \in Int /\ w.arrays \in Nat
      /\ BinIds \subseteq Int /\ D \subseteq BinIds
  <2>1. w.pair \in PairState /\ w.arrays \in Nat
    BY <1>1 DEF Walks
  <2>2. BinIds \subseteq Int
    BY DlmmAssumption DEF BinIds
  <2>3. w.pair.active \in BinIds
    BY <2>1 DEF PairState
  <2>4. DOMAIN all \subseteq BinIds
    BY DEF Left, IsLadder
  <2> QED BY <1>1, <2>1, <2>2, <2>3, <2>4
<1>3. from \in Int /\ w.pair.active \in BinsOf(from)
  BY <1>2, InItsArray
<1>4. CASE from \in w.array
  BY <1>1, <1>3, <1>4 DEF Entered
<1>5. CASE from \notin w.array /\ stops
  <2>1. x = [w EXCEPT !.status = "exhausted"]
    BY <1>5 DEF Entered, Enter
  <2>2. /\ x \in Walks(D) /\ x.bins = w.bins /\ x.pair = w.pair /\ x.array = w.array /\ x.left = w.left /\ x.kept = w.kept
        /\ x.out = w.out /\ x.paid = w.paid /\ x.status = "exhausted"
    BY <1>1, <2>1 DEF Walks
  <2>3. GoodWalk(p, all, was, side, amount, x)
    BY <1>1, <2>2 DEF GoodWalk
  <2> QED BY <2>2, <2>3
<1>6. CASE from \notin w.array /\ ~stops /\ ~(BinsOf(array) \subseteq D)
  <2>1. x = [w EXCEPT !.status = "not_loaded"]
    BY <1>6 DEF Entered, Enter
  <2>2. /\ x \in Walks(D) /\ x.bins = w.bins /\ x.pair = w.pair /\ x.array = w.array /\ x.left = w.left /\ x.kept = w.kept
        /\ x.out = w.out /\ x.paid = w.paid /\ x.status = "not_loaded"
    BY <1>1, <2>1 DEF Walks
  <2>3. GoodWalk(p, all, was, side, amount, x)
    BY <1>1, <2>2 DEF GoodWalk
  <2> QED BY <2>2, <2>3
<1>7. CASE from \notin w.array /\ ~stops /\ BinsOf(array) \subseteq D
  <2> DEFINE active == IF array # from THEN edge ELSE w.pair.active
  <2>1. x = [w EXCEPT !.arrays = @ + 1, !.array = {array}, !.pair.active = IF array # from THEN edge ELSE @]
    BY <1>7 DEF Entered, Enter
  <2>2. array \in ahead /\ ahead \subseteq Int
    <3>1. p.data.liquid \in SUBSET Int
      BY DEF IsLadder
    <3>2. ahead # {}
      BY <1>7
    <3>3. ahead \subseteq Int
      BY <3>1 DEF Beyond
    <3>4. array \in ahead
      BY <1>3, <3>1, <3>2, NearestChosen
    <3> QED BY <3>3, <3>4
  <2> HIDE DEF array, ahead, from
  <2>3. edge \in BinsOf(array)
    BY <2>2, EndsOfArray
  <2> HIDE DEF edge
  <2>4. active \in BinsOf(array)
    BY <1>3, <2>3
  <2>5. active \in D /\ active \in BinIds
    BY <1>2, <1>7, <2>4
  <2>6. x = [w EXCEPT !.arrays = w.arrays + 1, !.array = {array}, !.pair = [w.pair EXCEPT !.active = active]]
    BY <2>1
  <2> HIDE DEF active
  <2>7. /\ [w.pair EXCEPT !.active = active] \in PairState
        /\ [w.pair EXCEPT !.active = active].step = w.pair.step
        /\ [w.pair EXCEPT !.active = active].active = active
    BY <1>2, <2>5 DEF PairState
  <2>8. /\ x \in Walks(D) /\ x.bins = w.bins /\ x.pair = [w.pair EXCEPT !.active = active] /\ x.array = {array}
        /\ x.left = w.left /\ x.kept = w.kept /\ x.out = w.out /\ x.paid = w.paid
    <3>1. w.arrays + 1 \in Nat /\ {array} \in SUBSET Int
      BY <1>2, <2>2
    <3> QED BY <1>1, <2>6, <2>7, <3>1 DEF Walks
  <2>9. GoodWalk(p, all, was, side, amount, x)
    BY <1>1, <1>7, <2>7, <2>8 DEF GoodWalk
  <2> QED BY <2>5, <2>7, <2>8, <2>9
<1> QED BY <1>4, <1>5, <1>6, <1>7

\* A walk that steps on books nothing.
LEMMA StepKeeps ==
    ASSUME NEW p, NEW all, NEW was, NEW side \in Sides, NEW amount,
           NEW w, GoodWalk(p, all, was, side, amount, w),
           NEW x, x = StepBin(w, side)
    PROVE  GoodWalk(p, all, was, side, amount, x)
<1> DEFINE D == DOMAIN w.bins
           next == IF side = "base" THEN w.pair.active - 1 ELSE w.pair.active + 1
<1>1. /\ w \in Walks(D) /\ D \subseteq DOMAIN all /\ w.pair.step = p.market.pair.step
      /\ \A c \in D : w.bins[c].price = p.market.bins[c].price
      /\ \A a \in w.array : BinsOf(a) \subseteq D
      /\ w.left + w.kept <= amount /\ w.out <= w.paid
      /\ Booked(p, Over(w.bins, all), Moved(was, side, w.kept, w.paid))
  BY DEF GoodWalk
<1>2. CASE w.left = 0
  BY <1>2 DEF StepBin
<1>3. CASE w.left # 0 /\ next \notin BinIds
  <2>1. x = [w EXCEPT !.status = "exhausted"]
    BY <1>3 DEF StepBin
  <2>2. /\ x \in Walks(D) /\ x.bins = w.bins /\ x.pair = w.pair /\ x.array = w.array /\ x.left = w.left /\ x.kept = w.kept
        /\ x.out = w.out /\ x.paid = w.paid
    BY <1>1, <2>1 DEF Walks
  <2> QED BY <1>1, <2>2 DEF GoodWalk
<1>4. CASE w.left # 0 /\ next \in BinIds
  <2>1. x = [w EXCEPT !.pair.active = next]
    BY <1>4 DEF StepBin
  <2> HIDE DEF next
  <2>2. x = [w EXCEPT !.pair = [w.pair EXCEPT !.active = next]]
    BY <2>1
  <2>3. [w.pair EXCEPT !.active = next] \in PairState /\ [w.pair EXCEPT !.active = next].step = w.pair.step
    BY <1>1, <1>4 DEF PairState, Walks
  <2>4. /\ x \in Walks(D) /\ x.bins = w.bins /\ x.pair = [w.pair EXCEPT !.active = next] /\ x.array = w.array
        /\ x.left = w.left /\ x.kept = w.kept /\ x.out = w.out /\ x.paid = w.paid
    BY <1>1, <2>2, <2>3 DEF Walks
  <2> QED BY <1>1, <2>3, <2>4 DEF GoodWalk
<1> QED BY <1>2, <1>3, <1>4

\* One step of a walk, and the walk as the sequence of its steps.
Onward(data, w, side) == IF w.status # "walking" \/ w.left = 0 THEN w ELSE Filled(Entered(data, w, side), side)

\* A walk over bins unfolds to its steps.
LEMMA WalkUnfolds ==
    ASSUME NEW data, NEW start, NEW side
    PROVE  \E t : /\ BinWalk(data, start, side) = t[MostSteps] /\ t[0] = start
                  /\ \A k \in 1..MostSteps : t[k] = Onward(data, t[k - 1], side)
<1> DEFINE n == MostSteps
           After(w) == IF w.status # "walking" \/ w.left = 0 THEN w ELSE Filled(Entered(data, w, side), side)
           Recurs(t, m) == t = [k \in 0..m |-> IF k = 0 THEN start ELSE After(t[k - 1])]
           P == {m \in Nat : \E t : Recurs(t, m)}
<1>0. n \in Nat
  BY DlmmAssumption DEF MostSteps
<1> HIDE DEF n
<1>1. 0 \in P
  <2>1. Recurs([k \in 0..0 |-> start], 0)
    OBVIOUS
  <2> QED BY <2>1
<1>2. ASSUME NEW m \in P PROVE m + 1 \in P
  <2>1. m \in Nat /\ \E t : Recurs(t, m)
    OBVIOUS
  <2>2. PICK t : Recurs(t, m)
    BY <2>1
  <2> DEFINE g == [k \in 0..(m + 1) |-> IF k = m + 1 THEN After(t[m]) ELSE t[k]]
  <2> HIDE DEF After
  <2>3. ASSUME NEW k \in 0..(m + 1) PROVE g[k] = IF k = 0 THEN start ELSE After(g[k - 1])
    <3>1. CASE k = m + 1
      BY <2>1, <3>1
    <3>2. CASE k \in 0..m
      <4>1. t[k] = IF k = 0 THEN start ELSE After(t[k - 1])
        BY <2>2, <3>2
      <4>2. g[k] = t[k] /\ (k # 0 => g[k - 1] = t[k - 1])
        BY <2>1, <3>2
      <4> QED BY <4>1, <4>2
    <3> QED BY <2>1, <3>1, <3>2
  <2>4. Recurs(g, m + 1)
    BY <2>1, <2>3
  <2>5. \E h : Recurs(h, m + 1)
    BY <2>4
  <2> HIDE DEF Recurs
  <2> QED BY <2>1, <2>5
<1>3. P = Nat
  <2>1. P \in SUBSET Nat
    OBVIOUS
  <2> HIDE DEF P
  <2> QED BY <1>1, <1>2, <2>1, Induction
<1>4. \E t : Recurs(t, n)
  <2>1. n \in P
    BY <1>0, <1>3
  <2> QED BY Zenon, <2>1
<1> DEFINE t == CHOOSE t : Recurs(t, n)
<1>5. Recurs(t, n)
  BY Zenon, <1>4
<1>6. BinWalk(data, start, side) = t[n]
  BY DEF BinWalk, n
<1> HIDE DEF t
<1>7. t[0] = start /\ \A k \in 1..n : t[k] = After(t[k - 1])
  <2> HIDE DEF After
  <2> QED BY <1>0, <1>5
<1> QED BY <1>6, <1>7 DEF Onward, n

\* So does a walk of any length.
LEMMA WalkKeeps ==
    ASSUME NEW p, IsLadder(p), NEW all, Left(p, all), NEW was \in [Sides -> Int], NEW side \in Sides, NEW amount \in Nat,
           NEW start, GoodWalk(p, all, was, side, amount, start),
           NEW x, x = BinWalk(p.data, start, side)
    PROVE  GoodWalk(p, all, was, side, amount, x)
<1> DEFINE n == MostSteps
           After(w) == Onward(p.data, w, side)
<1>0. n \in Nat
  BY DlmmAssumption DEF MostSteps
<1>1. PICK t : x = t[n] /\ t[0] = start /\ \A k \in 1..n : t[k] = After(t[k - 1])
  BY WalkUnfolds
<1> HIDE DEF n
<1> DEFINE Good(w) == GoodWalk(p, all, was, side, amount, w)
           Q == {m \in Nat : m <= n => Good(t[m])}
<1>2. ASSUME NEW w, Good(w) PROVE Good(After(w))
  <2>1. CASE w.status # "walking" \/ w.left = 0
    BY <1>2, <2>1 DEF Onward
  <2>2. CASE ~(w.status # "walking" \/ w.left = 0)
    <3> DEFINE e == Entered(p.data, w, side)
    <3>1. Good(e) /\ (e.status = "walking" => e.pair.active \in DOMAIN e.bins)
      BY <1>2, <2>2, EnterKeeps
    <3>2. After(w) = Filled(e, side)
      BY <2>2 DEF Onward
    <3> HIDE DEF e
    <3>3. CASE e.status # "walking"
      BY <3>1, <3>2, <3>3 DEF Filled
    <3>4. CASE e.status = "walking"
      <4> DEFINE f == FillBin(e, side)
      <4>1. Good(f)
        BY <3>1, <3>4, FillKeeps
      <4>2. After(w) = StepBin(f, side)
        BY <3>2, <3>4 DEF Filled
      <4> HIDE DEF f
      <4>3. Good(StepBin(f, side))
        BY <4>1, StepKeeps
      <4> QED BY <4>2, <4>3
    <3> QED BY <3>3, <3>4
  <2> QED BY <2>1, <2>2
<1> HIDE DEF After, Good
<1>3. 0 \in Q
  BY <1>1 DEF Good
<1>4. ASSUME NEW m \in Q PROVE m + 1 \in Q
  <2>1. m \in Nat /\ (m <= n => Good(t[m]))
    OBVIOUS
  <2> SUFFICES ASSUME m + 1 <= n PROVE Good(t[m + 1])
    BY <2>1
  <2>2. m + 1 \in 1..n /\ m + 1 - 1 = m /\ m <= n
    BY <1>0, <2>1
  <2>3. t[m + 1] = After(t[m])
    BY <1>1, <2>2
  <2> QED BY <1>2, <2>1, <2>2, <2>3
<1>5. Q = Nat
  <2>1. Q \in SUBSET Nat
    OBVIOUS
  <2> HIDE DEF Q
  <2> QED BY <1>3, <1>4, <2>1, Induction
<1> QED BY <1>0, <1>1, <1>5 DEF Good

-----------------------------------------------------------------------------
(* The ladder traded                                                        *)

\* What a quote is worth to the trader: never more than the pool gives, never less
\* than it is given.
Honest(q, amount) ==
    /\ q.out \in Nat /\ q.credit \in Nat /\ q.debit \in Nat
    /\ q.credit <= amount /\ q.out <= q.debit

\* A pair and its bins as trades leave them: the prices are those of the start, and
\* the vaults have kept up with the bins.
Change(v) == [s \in Sides |-> v[s] - pool.vault[s]]

LadderAt(m, change) ==
    /\ m = [price |-> 0, pair |-> m.pair, bins |-> m.bins]
    /\ m.pair \in PairState /\ m.pair.step = pool.market.pair.step
    /\ Left(pool, m.bins)
    /\ \A b \in DOMAIN m.bins : m.bins[b].price = pool.market.bins[b].price
    /\ Booked(pool, m.bins, change)

OnLadder ==
    /\ LadderAt(market, Change(vault))
    /\ vault \in [Sides -> Int] /\ purse \in Amount
    /\ \A s \in Sides : vault[s] + purse[s] <= pool.vault[s] + Purse

\* The references of a pair change with time, nothing else of it.
LEMMA ReferencesType ==
    ASSUME NEW pair \in PairState, NEW age \in {"filtered", "decaying", "old"}
    PROVE  update_references(pair, age) \in PairState /\ update_references(pair, age).step = pair.step
<1>1. CASE age = "filtered"
  BY <1>1 DEF update_references
<1>2. CASE age = "decaying"
  <2> DEFINE ref == (pair.va * pair.reduction) \div BasisPoints
  <2>1. update_references(pair, age) = [pair EXCEPT !.index_ref = pair.active, !.va_ref = ref]
    BY <1>2 DEF update_references
  <2>2. ref \in Nat
    <3>1. pair.va \in Nat /\ pair.reduction \in Nat /\ BasisPoints \in Nat \ {0}
      BY DEF PairState, BasisPoints
    <3>2. pair.va * pair.reduction \in Nat
      BY <3>1
    <3> QED BY <3>1, <3>2, DivBounds
  <2>3. pair.active \in Int
    BY DlmmAssumption DEF PairState, BinIds
  <2> HIDE DEF ref
  <2> QED BY <2>1, <2>2, <2>3 DEF PairState
<1>3. CASE age = "old"
  <2> DEFINE ref == 0
  <2>1. update_references(pair, age) = [pair EXCEPT !.index_ref = pair.active, !.va_ref = ref]
    BY <1>3 DEF update_references
  <2>2. pair.active \in Int /\ ref \in Nat
    BY DlmmAssumption DEF PairState, BinIds
  <2> HIDE DEF ref
  <2> QED BY <2>1, <2>2 DEF PairState
<1> QED BY <1>1, <1>2, <1>3

\* The bins in memory are some of those there are.
LEMMA LoadedBins ==
    ASSUME NEW all
    PROVE  \A data, active, state_active, read :
              \E S : load_dlmm_bins(data, all, active, state_active, read) = [b \in S |-> all[b]] /\ S \subseteq DOMAIN all
<1>1. \A planned : \E S : publish_bins(all, planned) = [b \in S |-> all[b]] /\ S \subseteq DOMAIN all
  BY DEF publish_bins
<1> QED BY <1>1 DEF load_dlmm_bins

\* A walk about to start over the bins in memory.
Beginning(age, amount) ==
    [status |-> "walking", pair |-> update_references(market.pair, age), bins |-> BinsInMemory, left |-> amount,
     out |-> 0, paid |-> 0, kept |-> 0, arrays |-> 0, array |-> {}]

LEMMA StartKeeps ==
    ASSUME WellFormed(pool), pool.kind = "dlmm", NEW was \in [Sides -> Int], LadderAt(market, was),
           NEW i \in DOMAIN pool.times, NEW side \in Sides, NEW amount \in Nat,
           NEW start, start = Beginning(pool.times[i], amount)
    PROVE  /\ GoodWalk(pool, market.bins, was, side, amount, start)
           /\ WalkOver(BinsInMemory, pool.times[i], side, amount) = BinWalk(pool.data, start, side)
<1> DEFINE all == market.bins
           loaded == BinsInMemory
           pair == update_references(market.pair, pool.times[i])
<1>1. IsLadder(pool) /\ pool.times[i] \in {"filtered", "decaying", "old"}
  BY DEF WellFormed, IsLadder
<1>2. /\ market.pair \in PairState /\ market.pair.step = pool.market.pair.step /\ Left(pool, all)
      /\ \A b \in DOMAIN all : all[b].price = pool.market.bins[b].price
      /\ Booked(pool, all, was)
  BY DEF LadderAt
<1>3. PICK S : loaded = [b \in S |-> all[b]] /\ S \subseteq DOMAIN all
  BY LoadedBins DEF BinsInMemory
<1>4. pair \in PairState /\ pair.step = pool.market.pair.step
  BY <1>1, <1>2, ReferencesType
<1>5. WalkOver(loaded, pool.times[i], side, amount) = BinWalk(pool.data, start, side)
  BY DEF WalkOver, dlmm_swap_exact_in, Beginning
<1> HIDE DEF loaded, pair
<1>6. start = [status |-> "walking", pair |-> pair, bins |-> loaded, left |-> amount,
               out |-> 0, paid |-> 0, kept |-> 0, arrays |-> 0, array |-> {}]
  BY DEF Beginning, loaded, pair
<1>7. loaded \in [S -> LadderBin] /\ DOMAIN loaded = S /\ \A b \in S : loaded[b] = all[b]
  <2>1. all \in [DOMAIN all -> LadderBin]
    BY <1>2 DEF Left
  <2> HIDE DEF all
  <2> QED BY <1>3, <2>1
<1>8. start \in Walks(S)
  BY <1>4, <1>6, <1>7 DEF Walks
<1>9. Over(loaded, all) = all
  <2>1. all = [b \in DOMAIN all |-> all[b]]
    BY <1>2 DEF Left
  <2>2. Over(loaded, all) = [b \in DOMAIN all |-> IF b \in S THEN loaded[b] ELSE all[b]]
    BY <1>7 DEF Over
  <2>3. \A b \in DOMAIN all : (IF b \in S THEN loaded[b] ELSE all[b]) = all[b]
    BY <1>7
  <2> HIDE DEF all
  <2> QED BY <2>1, <2>2, <2>3
<1>10. Booked(pool, all, Moved(was, side, 0, 0))
  <2>1. \A s \in Sides : Moved(was, side, 0, 0)[s] = was[s]
    BY DEF Moved
  <2> QED BY <1>2, <2>1 DEF Booked
<1>11. GoodWalk(pool, all, was, side, amount, start)
  <2>1. start.left + start.kept <= amount /\ start.out <= start.paid
    BY <1>6
  <2>2. Booked(pool, Over(start.bins, all), Moved(was, side, start.kept, start.paid))
    BY <1>6, <1>9, <1>10
  <2>3. \A b \in S : start.bins[b].price = pool.market.bins[b].price
    BY <1>2, <1>3, <1>6, <1>7
  <2> QED BY <1>3, <1>4, <1>6, <1>7, <1>8, <2>1, <2>2, <2>3 DEF GoodWalk
<1> QED BY <1>5, <1>11 DEF loaded

\* A swap over bins in memory is booked on all of them.
LEMMA WalkOverKeeps ==
    ASSUME WellFormed(pool), pool.kind = "dlmm", NEW was \in [Sides -> Int], LadderAt(market, was),
           NEW i \in DOMAIN pool.times, NEW side \in Sides, NEW amount \in Nat,
           NEW w, w = WalkOver(BinsInMemory, pool.times[i], side, amount)
    PROVE  GoodWalk(pool, market.bins, was, side, amount, w)
<1> DEFINE start == Beginning(pool.times[i], amount)
<1>1. GoodWalk(pool, market.bins, was, side, amount, start) /\ w = BinWalk(pool.data, start, side)
  BY StartKeeps
<1>2. IsLadder(pool) /\ Left(pool, market.bins)
  BY DEF WellFormed, LadderAt
<1> HIDE DEF start
<1> QED BY <1>1, <1>2, WalkKeeps

\* A quoted swap over bins is honest, and leaves a ladder that has booked it.
LEMMA PricedOnLadder ==
    ASSUME WellFormed(pool), pool.kind = "dlmm", NEW was \in [Sides -> Int], LadderAt(market, was),
           NEW i \in DOMAIN pool.times, NEW side \in Sides, NEW amount \in Nat,
           NEW s, s = priced(i, side, amount), s.quote.out > 0
    PROVE  /\ Honest(s.quote, amount)
           /\ LadderAt(s.market, Moved(was, side, s.quote.credit, s.quote.debit))
<1> DEFINE net == net_of_transfer_fee(side, amount)
           w == WalkOver(BinsInMemory, pool.times[i], side, net)
           P == PricedAt(pool.times[i], side, net)
           Q == Quoting(w.out, w.kept, w.paid)
           out == net_of_transfer_fee(Across(side), P.quote.out)
           all == market.bins
           over == Over(w.bins, all)
<1>1. net \in Nat /\ net <= amount /\ Across(side) \in Sides
  BY NetBounds, BothSides
<1> HIDE DEF net
<1>2. GoodWalk(pool, all, was, side, net, w)
  BY <1>1, WalkOverKeeps
<1>3. P = OnBins(w)
  BY DEF PricedAt, Markets, OnMarket, DlmmSwap
<1>4. s = [P EXCEPT !.quote.out = out]
  BY DEF priced, net
<1> HIDE DEF w
<1>5. w.status = "walking"
  <2> SUFFICES ASSUME w.status # "walking" PROVE FALSE
    OBVIOUS
  <2>1. P = [quote |-> NoQuote, market |-> market]
    BY <1>3 DEF OnBins
  <2>2. P.quote.out = 0 /\ 0 \in Nat
    BY <2>1 DEF NoQuote
  <2>3. s.quote.out = out
    BY <1>4, <2>1 DEF NoQuote
  <2> HIDE DEF P
  <2>4. out \in Nat /\ out <= 0
    BY <1>1, <2>2, NetBounds
  <2> QED BY <2>3, <2>4
<1>6. P = [quote |-> Q, market |-> [market EXCEPT !.pair = w.pair, !.bins = over]]
  BY <1>3, <1>5 DEF OnBins
<1>7. Quotes(Q)
  BY QuotingQuotes
<1>8. P.quote = Q /\ P.market = [market EXCEPT !.pair = w.pair, !.bins = over]
  BY <1>6
<1> HIDE DEF P, out, over
<1>9. s.market = P.market /\ s.quote = [Q EXCEPT !.out = out]
  BY <1>4, <1>6
<1>10. s.quote.out = out /\ s.quote.credit = Q.credit /\ s.quote.debit = Q.debit
  BY <1>7, <1>9 DEF Quotes, IsQuote, NoQuote
<1>11. /\ w \in Walks(DOMAIN w.bins) /\ DOMAIN w.bins \subseteq DOMAIN all
       /\ w.pair.step = pool.market.pair.step
       /\ \A b \in DOMAIN w.bins : w.bins[b].price = pool.market.bins[b].price
       /\ w.left + w.kept <= net /\ w.out <= w.paid
       /\ Booked(pool, over, Moved(was, side, w.kept, w.paid))
  BY <1>2 DEF GoodWalk, over
<1>12. /\ w.out \in Nat /\ w.paid \in Nat /\ w.kept \in Nat /\ w.left \in Nat /\ w.pair \in PairState
       /\ w.bins \in [DOMAIN w.bins -> LadderBin]
  BY <1>11 DEF Walks
<1>13. Q.out > 0
  <2> SUFFICES ASSUME Q = NoQuote PROVE FALSE
    BY <1>7 DEF Quotes
  <2>1. P.quote.out = 0 /\ 0 \in Nat
    BY <1>8 DEF NoQuote
  <2>2. out \in Nat /\ out <= 0
    BY <1>1, <2>1, NetBounds DEF out
  <2> QED BY <1>10, <2>2
<1>14. Q.out = w.out /\ Q.credit = w.kept /\ Q.debit = w.paid
  BY <1>12, <1>13 DEF Quoting, NoQuote
<1> HIDE DEF Q
<1>15. out \in Nat /\ out <= w.out
  BY <1>1, <1>8, <1>12, <1>14, NetBounds DEF out
<1>16. Honest(s.quote, amount)
  BY <1>1, <1>10, <1>11, <1>12, <1>14, <1>15 DEF Honest
<1>17. market = [price |-> 0, pair |-> market.pair, bins |-> all] /\ Left(pool, all)
       /\ \A b \in DOMAIN all : all[b].price = pool.market.bins[b].price
  BY DEF LadderAt
<1>18. P.market = [price |-> 0, pair |-> w.pair, bins |-> over]
  <2>1. PICK zero, pair, bins : zero = 0 /\ market = [price |-> zero, pair |-> pair, bins |-> bins]
    BY <1>17
  <2>2. P.market = [price |-> zero, pair |-> w.pair, bins |-> over]
    BY <1>8, <2>1
  <2> QED BY <2>1, <2>2
<1> HIDE DEF all
<1>19. /\ DOMAIN over = DOMAIN all
       /\ \A b \in DOMAIN all : over[b] = IF b \in DOMAIN w.bins THEN w.bins[b] ELSE all[b]
       /\ over = [b \in DOMAIN over |-> over[b]]
  <2> DEFINE at(b) == IF b \in DOMAIN w.bins THEN w.bins[b] ELSE all[b]
  <2>1. over = [b \in DOMAIN all |-> at(b)]
    BY DEF over, Over
  <2> HIDE DEF at
  <2>2. DOMAIN over = DOMAIN all /\ \A b \in DOMAIN all : over[b] = at(b)
    BY <2>1
  <2>3. over = [b \in DOMAIN over |-> over[b]]
    BY <2>1
  <2> QED BY <2>2, <2>3 DEF at
<1>20. Left(pool, over)
  <2>1. \A b \in DOMAIN over : over[b] \in LadderBin
    BY <1>12, <1>17, <1>19 DEF Left
  <2> QED BY <1>17, <1>19, <2>1 DEF Left
<1>21. \A b \in DOMAIN over : over[b].price = pool.market.bins[b].price
  BY <1>11, <1>17, <1>19
<1>22. s.market.pair = w.pair /\ s.market.bins = over /\ s.market.price = 0
       /\ s.market = [price |-> 0, pair |-> s.market.pair, bins |-> s.market.bins]
  BY <1>9, <1>18
<1>23. LadderAt(s.market, Moved(was, side, s.quote.credit, s.quote.debit))
  BY <1>10, <1>11, <1>12, <1>14, <1>20, <1>21, <1>22 DEF LadderAt
<1> QED BY <1>16, <1>23

\* At the start nothing has been traded.
LEMMA InitOnLadder ==
    ASSUME Init, pool.kind = "dlmm"
    PROVE  OnLadder
<1>1. WellFormed(pool) /\ Purse \in Nat
  BY PoolsAssumption, TradesAssumption DEF Init
<1>2. vault = pool.vault /\ market = pool.market /\ purse = [s \in Sides |-> Purse]
  BY DEF Init
<1>3. IsLadder(pool) /\ pool.vault \in Amount
  BY <1>1 DEF WellFormed
<1>4. \A s \in Sides : vault[s] \in Nat /\ vault[s] = pool.vault[s] /\ purse[s] = Purse
  BY <1>2, <1>3 DEF Amount
<1>5. purse \in Amount /\ vault \in [Sides -> Int] /\ \A s \in Sides : vault[s] + purse[s] <= pool.vault[s] + Purse
  <2>1. \A s \in Sides : vault[s] + purse[s] <= pool.vault[s] + Purse
    BY <1>1, <1>4
  <2>2. pool.vault \in [Sides -> Int]
    BY <1>3 DEF Amount
  <2> QED BY <1>1, <1>2, <2>1, <2>2 DEF Amount
<1>6. Booked(pool, market.bins, Change(vault))
  <2>1. \A s \in Sides : Change(vault)[s] = 0
    BY <1>4 DEF Change
  <2> QED BY <1>2, <1>3, <2>1, NothingBooked DEF Booked
<1>7. LadderAt(market, Change(vault))
  <2>1. /\ market = [price |-> 0, pair |-> market.pair, bins |-> market.bins]
        /\ market.pair \in PairState /\ market.bins \in [DOMAIN market.bins -> LadderBin]
    BY <1>2, <1>3 DEF IsLadder
  <2> QED BY <1>2, <1>6, <2>1 DEF LadderAt, Left
<1> QED BY <1>5, <1>7 DEF OnLadder

\* A swap books what it adds to one vault and takes from the other.
LEMMA SwapOnLadder ==
    ASSUME pool \in Pools, pool.kind = "dlmm", OnLadder,
           NEW i \in DOMAIN pool.times, NEW side \in Sides, NEW amount \in Amounts, Swap(i, side, amount)
    PROVE  OnLadder'
<1> DEFINE other == Across(side)
           was == Change(vault)
<1>1. WellFormed(pool) /\ amount \in Nat /\ Purse \in Nat
  BY PoolsAssumption, TradesAssumption, WidthAssumption
<1>2. PICK p : p = priced(i, side, amount) /\ Settle(side, amount, p.quote) /\ market' = p.market
  BY DEF Swap
<1> DEFINE q == p.quote
<1>3. /\ q.out > 0
      /\ vault' = [vault EXCEPT ![side] = @ + q.credit, ![other] = @ - q.debit]
      /\ purse' = [purse EXCEPT ![side] = @ - amount, ![other] = @ + q.out]
  BY <1>2 DEF Settle
<1>4. /\ LadderAt(market, was) /\ vault \in [Sides -> Int] /\ purse \in [Sides -> Nat]
      /\ \A s \in Sides : vault[s] + purse[s] <= pool.vault[s] + Purse
      /\ pool' = pool /\ amount <= purse[side]
  BY DEF OnLadder, Swap, Amount
<1>5. \A s \in Sides : vault[s] \in Int /\ purse[s] \in Nat /\ pool.vault[s] \in Nat
  BY <1>1, <1>4 DEF WellFormed, Amount
<1>6. was \in [Sides -> Int]
  BY <1>5 DEF Change
<1> HIDE DEF was
<1>7. Honest(q, amount) /\ LadderAt(p.market, Moved(was, side, q.credit, q.debit))
  BY <1>1, <1>2, <1>3, <1>4, <1>6, PricedOnLadder
<1>8. /\ q.out \in Nat /\ q.credit \in Nat /\ q.debit \in Nat /\ q.credit <= amount /\ q.out <= q.debit
  BY <1>7 DEF Honest
<1>9. other \in Sides /\ other # side /\ \A t \in Sides : t = side \/ t = other
  BY BothSides
<1> HIDE DEF q, other
<1>10. /\ vault'[side] = vault[side] + q.credit /\ vault'[other] = vault[other] - q.debit
       /\ vault' \in [Sides -> Int]
  <2>1. vault[other] - q.debit \in Int /\ vault[side] + q.credit \in Int
    BY <1>5, <1>8, <1>9
  <2> QED BY <1>3, <1>4, <1>9, <2>1
<1>11. /\ purse'[side] = purse[side] - amount /\ purse'[other] = purse[other] + q.out
       /\ purse' \in [Sides -> Nat]
  <2>1. purse[side] - amount \in Nat /\ purse[other] + q.out \in Nat
    BY <1>1, <1>4, <1>5, <1>8, <1>9
  <2> QED BY <1>3, <1>4, <1>9, <2>1
<1>12. ASSUME NEW t \in Sides PROVE vault'[t] + purse'[t] <= pool.vault[t] + Purse
  <2>1. vault[t] + purse[t] <= pool.vault[t] + Purse
    BY <1>4
  <2>2. CASE t = side
    BY <1>1, <1>5, <1>8, <1>10, <1>11, <2>1, <2>2
  <2>3. CASE t = other
    BY <1>1, <1>5, <1>8, <1>9, <1>10, <1>11, <2>1, <2>3
  <2> QED BY <1>9, <2>2, <2>3
<1>13. \A t \in Sides : Moved(was, side, q.credit, q.debit)[t] = vault'[t] - pool.vault[t]
  <2>1. /\ Moved(was, side, q.credit, q.debit)[side] = was[side] + q.credit
        /\ Moved(was, side, q.credit, q.debit)[other] = was[other] - q.debit
    BY <1>9 DEF Moved
  <2>2. \A t \in Sides : was[t] = vault[t] - pool.vault[t]
    BY DEF was, Change
  <2>3. /\ Moved(was, side, q.credit, q.debit)[side] = vault'[side] - pool.vault[side]
        /\ Moved(was, side, q.credit, q.debit)[other] = vault'[other] - pool.vault[other]
    BY <1>5, <1>8, <1>9, <1>10, <2>1, <2>2
  <2> QED BY <1>9, <2>3
<1>14. Moved(was, side, q.credit, q.debit) = [s \in Sides |-> vault'[s] - pool.vault[s]]
  <2> DEFINE change == Moved(was, side, q.credit, q.debit)
  <2>1. change = [t \in Sides |-> change[t]]
    BY DEF Moved
  <2> HIDE DEF change
  <2>2. \A t \in Sides : change[t] = vault'[t] - pool.vault[t]
    BY <1>13 DEF change
  <2>3. change = [s \in Sides |-> vault'[s] - pool.vault[s]]
    BY <2>1, <2>2
  <2> QED BY <2>3 DEF change
<1>15. market' = p.market /\ LadderAt(market', [s \in Sides |-> vault'[s] - pool'.vault[s]])
  <2>1. LadderAt(p.market, [s \in Sides |-> vault'[s] - pool.vault[s]])
    BY <1>7, <1>14 DEF q
  <2> QED BY <1>2, <1>4, <2>1
<1>16. LadderAt(market, Change(vault))'
  BY <1>4, <1>15 DEF LadderAt, Change
<1>17. (\A s \in Sides : vault[s] + purse[s] <= pool.vault[s] + Purse)'
  BY <1>4, <1>12
<1> QED BY <1>10, <1>11, <1>16, <1>17 DEF OnLadder, Amount

\* What the bins hold more than at the start has come into the vaults.
LEMMA BookedHolds ==
    ASSUME NEW p, IsLadder(p), NEW bins, bins \in [DOMAIN bins -> LadderBin], NEW change, Booked(p, bins, change),
           NEW s \in Sides
    PROVE  /\ InBins(bins, s) \in Int /\ InBins(p.market.bins, s) \in Int /\ change[s] \in Int
           /\ InBins(bins, s) <= InBins(p.market.bins, s) + change[s]
<1> DEFINE f == [i \in 1..Places |-> HeldInBin(bins, s, IdAt(i))]
           g == [i \in 1..Places |-> HeldInBin(p.market.bins, s, IdAt(i))]
<1>1. PICK d : Accounted(p, bins, d) /\ SumTo(Places, d[s]) = change[s]
  BY DEF Booked
<1> DEFINE h == d[s]
<1>2. Places \in Nat
  BY DlmmAssumption DEF Places
<1>3. p.market.bins \in [DOMAIN p.market.bins -> LadderBin]
  BY DEF IsLadder
<1>4. ASSUME NEW k \in 1..Places
      PROVE  /\ f[k] \in Int /\ g[k] \in Int /\ h[k] \in Int
             /\ 0 <= (-1) * f[k] + 1 * g[k] + h[k]
  <2>1. f[k] = HeldInBin(bins, s, IdAt(k)) /\ g[k] = HeldInBin(p.market.bins, s, IdAt(k))
    OBVIOUS
  <2>2. HeldInBin(bins, s, IdAt(k)) \in Nat /\ HeldInBin(p.market.bins, s, IdAt(k)) \in Nat
    BY <1>3, HeldType
  <2>3. h[k] \in Int /\ HeldInBin(bins, s, IdAt(k)) - HeldInBin(p.market.bins, s, IdAt(k)) <= h[k]
    BY <1>1 DEF Accounted, Ledger
  <2> HIDE DEF f, g, h
  <2> QED BY <2>1, <2>2, <2>3
<1>5. InBins(bins, s) = SumTo(Places, f) /\ InBins(p.market.bins, s) = SumTo(Places, g)
  BY DEF InBins
<1> HIDE DEF f, g, h
<1>6. /\ SumTo(Places, f) \in Int /\ SumTo(Places, g) \in Int /\ SumTo(Places, h) \in Int
      /\ 0 <= (-1) * SumTo(Places, f) + 1 * SumTo(Places, g) + SumTo(Places, h)
  <2>1. -1 \in Int /\ 1 \in Int
    OBVIOUS
  <2> QED BY <1>2, <1>4, <2>1, SumCombines
<1>7. SumTo(Places, h) = change[s]
  BY <1>1 DEF h
<1> QED BY <1>5, <1>6, <1>7

\* At the price the pair stood at, no bin has lost: below it base has come in, above it
\* quote.
LEMMA BinsGiveNothing ==
    ASSUME WellFormed(pool), pool.kind = "dlmm", OnLadder, \A s \in Sides : purse[s] >= Purse
    PROVE  \A s \in Sides : purse[s] = Purse
<1> DEFINE at == PriceOfBin(pool, pool.market.pair.active)
           first == pool.market.bins
           bins == market.bins
           x == vault["base"] - pool.vault["base"]
           y == vault["quote"] - pool.vault["quote"]
<1>1. IsLadder(pool) /\ pool.market.pair.active \in BinIds /\ at \in Nat \ {0} /\ Q64 \in Nat \ {0} /\ Places \in Nat
  <2>1. IsLadder(pool)
    BY DEF WellFormed
  <2>2. pool.market.pair.active \in BinIds
    BY <2>1 DEF IsLadder, PairState
  <2>3. at \in Nat \ {0}
    BY <2>1 DEF IsLadder
  <2> QED BY <2>1, <2>2, <2>3, DammAssumption, DlmmAssumption DEF Places
<1>2. /\ Booked(pool, bins, Change(vault)) /\ bins \in [DOMAIN bins -> LadderBin]
      /\ first \in [DOMAIN first -> LadderBin]
  BY <1>1 DEF OnLadder, LadderAt, Left, IsLadder
<1>3. "base" \in Sides /\ "quote" \in Sides /\ \A s \in Sides : s = "base" \/ s = "quote"
  BY DEF Sides
<1>4. PICK d : /\ Accounted(pool, bins, d)
               /\ SumTo(Places, d["base"]) = x /\ SumTo(Places, d["quote"]) = y
  <2>1. Change(vault)["base"] = x /\ Change(vault)["quote"] = y
    BY <1>3 DEF Change
  <2> QED BY <1>2, <1>3, <2>1 DEF Booked
<1> DEFINE none == [i \in 1..Places |-> 0]
<1> HIDE DEF at, x, y, bins, first
<1>5. ASSUME NEW k \in 1..Places
      PROVE  /\ d["base"][k] \in Int /\ d["quote"][k] \in Int /\ none[k] \in Int
             /\ 0 <= at * d["base"][k] + Q64 * d["quote"][k] + none[k]
  <2> DEFINE b == IdAt(k)
             price == PriceOfBin(pool, b)
             u == d["base"][k]
             v == d["quote"][k]
             active == pool.market.pair.active
  <2>1. u \in Int /\ v \in Int /\ none[k] = 0
    BY <1>3, <1>4 DEF Accounted, Ledger
  <2>2. b \in Int /\ active \in Int
    BY <1>1, PlaceOf, DlmmAssumption DEF BinIds
  <2>3. CASE b \notin DOMAIN first
    <3>1. u = 0 /\ v = 0
      BY <1>3, <1>4, <2>3 DEF Accounted, first
    <3> HIDE DEF u, v
    <3>2. at * u = 0 /\ Q64 * v = 0
      BY <1>1, <3>1
    <3> QED BY <2>1, <3>2 DEF u, v
  <2>4. CASE b \in DOMAIN first
    <3>1. price \in Nat \ {0} /\ 0 <= price * u + Q64 * v
      BY <1>1, <1>4, <2>4 DEF Accounted, IsLadder, first
    <3>2. /\ HeldInBin(bins, "base", b) - HeldInBin(first, "base", b) <= u
          /\ HeldInBin(bins, "quote", b) - HeldInBin(first, "quote", b) <= v
      BY <1>3, <1>4 DEF Accounted, first
    <3>3. HeldInBin(bins, "base", b) \in Nat /\ HeldInBin(bins, "quote", b) \in Nat
      BY <1>2, <1>3, HeldType
    <3>4. ASSUME b < active PROVE HeldInBin(first, "base", b) = 0
      BY <1>1, <2>4, <3>4 DEF IsLadder, first
    <3>5. ASSUME b > active PROVE HeldInBin(first, "quote", b) = 0
      BY <1>1, <2>4, <3>5 DEF IsLadder, first
    <3>6. /\ b <= active => price <= at
          /\ active <= b => at <= price
      BY <1>1, <2>4 DEF IsLadder, first, at
    <3> HIDE DEF b, price, u, v, active
    <3>7. /\ b <= active => price <= at
          /\ active <= b => at <= price
          /\ b < active => 0 <= u
          /\ b > active => 0 <= v
      BY <2>1, <3>2, <3>3, <3>4, <3>5, <3>6
    <3>8. at * u \in Int /\ price * u \in Int /\ Q64 * v \in Int
      BY <1>1, <2>1, <3>1
    <3>9. CASE b < active
      <4>1. price * u <= at * u
        BY <1>1, <2>1, <2>2, <3>1, <3>7, <3>9, TimesMonotone
      <4> QED BY <2>1, <3>1, <3>8, <4>1 DEF u, v
    <3>10. CASE b > active /\ u <= 0
      <4>1. at <= price /\ -u \in Nat
        BY <2>1, <2>2, <3>7, <3>10
      <4>2. at * (-u) <= price * (-u)
        BY <1>1, <3>1, <4>1, TimesMonotone
      <4>3. at * (-u) = -(at * u) /\ price * (-u) = -(price * u)
        BY <1>1, <2>1, <3>1
      <4> QED BY <2>1, <3>1, <3>8, <4>2, <4>3 DEF u, v
    <3>11. CASE b > active /\ u > 0
      <4>1. at * u >= 0 /\ Q64 * v >= 0
        BY <1>1, <2>1, <3>7, <3>11
      <4> QED BY <2>1, <3>8, <4>1 DEF u, v
    <3>12. CASE b = active
      <4>1. price = at
        BY <1>1, <2>2, <3>1, <3>7, <3>12
      <4> QED BY <2>1, <3>1, <3>8, <4>1 DEF u, v
    <3> QED BY <2>1, <2>2, <3>9, <3>10, <3>11, <3>12
  <2> QED BY <2>3, <2>4
<1>6. SumTo(Places, none) = 0
  BY <1>1, SumZero
<1> HIDE DEF none
<1>7. x \in Int /\ y \in Int /\ 0 <= at * x + Q64 * y
  <2>1. /\ SumTo(Places, d["base"]) \in Int /\ SumTo(Places, d["quote"]) \in Int /\ SumTo(Places, none) \in Int
        /\ 0 <= at * SumTo(Places, d["base"]) + Q64 * SumTo(Places, d["quote"]) + SumTo(Places, none)
    <3> DEFINE f == d["base"]
               g == d["quote"]
    <3>1. \A k \in 1..Places : /\ f[k] \in Int /\ g[k] \in Int /\ none[k] \in Int
                               /\ 0 <= at * f[k] + Q64 * g[k] + none[k]
      BY <1>5
    <3>2. at \in Int /\ Q64 \in Int /\ Places \in Nat
      BY <1>1
    <3> HIDE DEF f, g
    <3>3. /\ SumTo(Places, f) \in Int /\ SumTo(Places, g) \in Int /\ SumTo(Places, none) \in Int
          /\ 0 <= at * SumTo(Places, f) + Q64 * SumTo(Places, g) + SumTo(Places, none)
      BY <3>1, <3>2, SumCombines
    <3> QED BY <3>3 DEF f, g
  <2> QED BY <1>1, <1>4, <1>6, <2>1
<1>8. \A s \in Sides : /\ vault[s] \in Int /\ purse[s] \in Nat /\ pool.vault[s] \in Nat
                       /\ vault[s] + purse[s] <= pool.vault[s] + Purse
  BY DEF OnLadder, WellFormed, Amount
<1>9. Purse \in Nat
  BY TradesAssumption
<1>10. x <= 0 /\ y <= 0
  BY <1>3, <1>8, <1>9 DEF x, y
<1>11. x = 0 /\ y = 0
  <2>1. at * x <= 0 /\ Q64 * y <= 0 /\ at * x \in Int /\ Q64 * y \in Int
    BY <1>1, <1>7, <1>10
  <2>2. x < 0 => at * x < 0
    BY <1>1, <1>7
  <2>3. y < 0 => Q64 * y < 0
    BY <1>1, <1>7
  <2> QED BY <1>7, <1>10, <2>1, <2>2, <2>3
<1>12. \A s \in Sides : vault[s] = pool.vault[s]
  <2>1. vault["base"] - pool.vault["base"] = 0 /\ vault["quote"] - pool.vault["quote"] = 0
    BY <1>11 DEF x, y
  <2> DEFINE a == vault["base"]
             b == pool.vault["base"]
             c == vault["quote"]
             e == pool.vault["quote"]
  <2>2. a \in Int /\ b \in Int /\ c \in Int /\ e \in Int
    BY <1>3, <1>8
  <2>3. a - b = 0 /\ c - e = 0
    BY <2>1
  <2> HIDE DEF a, b, c, e
  <2>4. a = b /\ c = e
    BY <2>2, <2>3
  <2> QED BY <1>3, <2>4 DEF a, b, c, e
<1> QED BY <1>8, <1>9, <1>12

-----------------------------------------------------------------------------
(* The invariant                                                            *)

\* The vaults stay solvent, no tokens come from nowhere, and the product of the
\* reserves has not fallen since the start.
OnProduct ==
    /\ Solvent(pool, vault)
    /\ purse \in Amount
    /\ \A s \in Sides : vault[s] + purse[s] <= pool.vault[s] + Purse
    /\ Reserve(pool, pool.vault, "base") * Reserve(pool, pool.vault, "quote")
          <= Reserve(pool, vault, "base") * Reserve(pool, vault, "quote")

\* A vault with the pool's part of it.
OnShares ==
    /\ share \in [Sides -> VaultShare]
    /\ vault \in Amount
    /\ \A s \in Sides : share[s].pool_lp <= share[s].lp_supply /\ share[s].total = vault[s]

\* What stays true however the pool is traded, by the kind of its pricing.
TradeInv ==
    /\ pool \in Pools
    /\ ByProduct(pool) => OnProduct
    /\ pool.kind = "meteora" => OnShares
    /\ Ranged(pool) => OnRange
    /\ pool.kind = "dlmm" => OnLadder

\* It holds at the start, where the vaults are the pool's own.
LEMMA InitTradeInv == Init => TradeInv
<1> SUFFICES ASSUME Init PROVE TradeInv
  OBVIOUS
<1>1. pool \in Pools /\ WellFormed(pool) /\ Purse \in Nat
  BY PoolsAssumption, TradesAssumption DEF Init
<1>2. vault = pool.vault /\ share = pool.share /\ purse = [s \in Sides |-> Purse]
  BY DEF Init
<1>3. ASSUME ByProduct(pool) PROVE OnProduct
  <2>1. vault \in Amount /\ \A s \in Sides : pool.accrued[s] <= vault[s] /\ Reserve(pool, vault, s) > 0
    <3>1. vault \in Amount /\ \A s \in Sides : pool.accrued[s] <= vault[s]
      BY <1>1, <1>2 DEF WellFormed
    <3>2. CASE pool.kind \in Products
      BY <1>1, <1>2, <3>1, <3>2 DEF WellFormed, Reserve
    <3>3. CASE Compounds(pool)
      <4> SUFFICES ASSUME NEW s \in Sides PROVE Reserve(pool, vault, s) > 0
        BY <3>1
      <4>1. vault[s] > 0 /\ vault[s] \in Nat
        BY <1>1, <1>2, <3>3 DEF WellFormed, Compounds, Amount
      <4>2. Reserve(pool, vault, s) = vault[s]
        BY <1>1, <3>3, <4>1, NothingBeside DEF Compounds
      <4> QED BY <4>1, <4>2
    <3> QED BY <1>3, <3>2, <3>3 DEF ByProduct
  <2>2. pool.kind = "launchlab" => \A s \in Sides : vault[s] <= Cap(pool, s)
    BY <1>1, <1>2 DEF WellFormed, Cap, Sides
  <2>3. Solvent(pool, vault)
    BY <2>1, <2>2 DEF Solvent
  <2>4. purse \in Amount /\ \A s \in Sides : vault[s] + purse[s] <= pool.vault[s] + Purse
    BY <1>1, <1>2, <2>1 DEF Amount
  <2>5. Reserve(pool, vault, "base") \in Nat /\ Reserve(pool, vault, "quote") \in Nat
    <3>1. "base" \in Sides /\ "quote" \in Sides
      BY DEF Sides
    <3> QED BY <1>1, <1>3, <2>3, <3>1, SolventReserves
  <2>6. Reserve(pool, pool.vault, "base") * Reserve(pool, pool.vault, "quote")
          <= Reserve(pool, vault, "base") * Reserve(pool, vault, "quote")
    BY <1>2, <2>5
  <2> QED BY <2>3, <2>4, <2>6 DEF OnProduct
<1>4. ASSUME pool.kind = "meteora" PROVE OnShares
  BY <1>1, <1>2, <1>4 DEF WellFormed, OnShares
<1>5. ASSUME Ranged(pool) PROVE OnRange
  BY <1>5, InitOnRange
<1>6. ASSUME pool.kind = "dlmm" PROVE OnLadder
  BY <1>6, InitOnLadder
<1> QED BY <1>1, <1>3, <1>4, <1>5, <1>6 DEF TradeInv

\* A swap at a fair quote keeps the vaults solvent and the product up.
LEMMA SwapOnProduct ==
    ASSUME pool \in Pools, ByProduct(pool), OnProduct,
           NEW i, NEW side \in Sides, NEW amount \in Amounts, Swap(i, side, amount)
    PROVE  OnProduct'
<1> DEFINE other == Across(side)
           r == Reserve(pool, vault, side)
           s == Reserve(pool, vault, other)
<1>1. WellFormed(pool) /\ amount \in Nat
  BY PoolsAssumption, TradesAssumption, WidthAssumption
<1>2. PICK q : q = priced(i, side, amount).quote /\ Settle(side, amount, q)
  BY DEF Swap
<1>3. /\ q.out > 0
      /\ vault' = [vault EXCEPT ![side] = @ + q.credit, ![Across(side)] = @ - q.debit]
      /\ purse' = [purse EXCEPT ![side] = @ - amount, ![Across(side)] = @ + q.out]
  BY <1>2 DEF Settle
<1>4. Solvent(pool, vault) /\ purse \in Amount /\ pool' = pool /\ amount <= purse[side]
  BY DEF OnProduct, Swap
<1>5. FairOn(pool, vault, side, amount, q)
  BY <1>1, <1>2, <1>3, <1>4, ByProductFair
<1>6. /\ q.out \in Nat /\ q.credit \in Nat /\ q.debit \in Nat
      /\ q.credit <= amount /\ q.out <= q.debit
      /\ pool.accrued[other] <= vault[other] - q.debit
      /\ q.debit < s /\ r * s <= (r + q.credit) * (s - q.debit)
      /\ pool.kind = "launchlab" => vault[side] + q.credit <= Cap(pool, side)
  BY <1>5 DEF FairOn
<1>7. other \in Sides /\ other # side /\ \A t \in Sides : t = side \/ t = other
  BY BothSides
<1>8. /\ vault[side] \in Nat /\ vault[other] \in Nat
      /\ pool.accrued[side] \in Nat /\ pool.accrued[other] \in Nat /\ pool.accrued[side] <= vault[side]
      /\ r \in Nat \ {0} /\ s \in Nat \ {0}
  BY <1>1, <1>4, SolventReserves
<1>9. vault \in [Sides -> Nat] /\ purse \in [Sides -> Nat]
  BY <1>4 DEF Solvent, Amount
<1> HIDE DEF other
<1>10. /\ vault'[side] = vault[side] + q.credit /\ vault'[other] = vault[other] - q.debit
       /\ vault' \in [Sides -> Nat]
  <2>1. vault[other] - q.debit \in Nat /\ vault[side] + q.credit \in Nat
    BY <1>6, <1>8
  <2> QED BY <1>3, <1>7, <1>9, <2>1 DEF other
<1>11. /\ purse'[side] = purse[side] - amount /\ purse'[other] = purse[other] + q.out
       /\ purse' \in [Sides -> Nat]
  <2>1. purse[side] \in Nat /\ purse[other] \in Nat
    BY <1>7, <1>9
  <2>2. purse[side] - amount \in Nat /\ purse[other] + q.out \in Nat
    BY <1>1, <1>4, <1>6, <2>1
  <2> QED BY <1>3, <1>7, <1>9, <2>2 DEF other
<1>12. Beside(pool, side) \in Int /\ Beside(pool, other) \in Int
       /\ r = vault[side] + Beside(pool, side) /\ s = vault[other] + Beside(pool, other)
  <2>1. r = vault[side] + Beside(pool, side) /\ s = vault[other] + Beside(pool, other)
    BY DEF Reserve
  <2>2. \A t \in Sides : Beside(pool, t) \in Int
    BY <1>1, BesideType
  <2> QED BY <1>7, <2>1, <2>2
<1> HIDE DEF r, s
<1>13. Reserve(pool, vault', side) = r + q.credit /\ Reserve(pool, vault', other) = s - q.debit
  BY <1>6, <1>8, <1>10, <1>12 DEF Reserve
<1>14. Solvent(pool, vault')
  <2>1. ASSUME NEW t \in Sides PROVE pool.accrued[t] <= vault'[t] /\ Reserve(pool, vault', t) > 0
    <3>1. CASE t = side
      BY <1>6, <1>8, <1>10, <1>13, <3>1
    <3>2. CASE t = other
      BY <1>6, <1>8, <1>10, <1>13, <3>2
    <3> QED BY <1>7, <3>1, <3>2
  <2>2. ASSUME pool.kind = "launchlab", NEW t \in Sides PROVE vault'[t] <= Cap(pool, t)
    <3>1. CASE t = side
      BY <1>6, <1>10, <2>2, <3>1
    <3>2. CASE t = other
      <4>1. vault[other] <= Cap(pool, other)
        BY <1>4, <1>7, <2>2 DEF Solvent
      <4>2. Cap(pool, other) \in Nat
        BY <1>1, <2>2 DEF WellFormed, Cap
      <4> QED BY <1>6, <1>8, <1>10, <3>2, <4>1, <4>2
    <3> QED BY <1>7, <3>1, <3>2
  <2> QED BY <1>10, <2>1, <2>2 DEF Solvent, Amount
<1>15. ASSUME NEW t \in Sides PROVE vault'[t] + purse'[t] <= pool.vault[t] + Purse
  <2>1. vault[t] + purse[t] <= pool.vault[t] + Purse /\ vault[t] \in Nat /\ purse[t] \in Nat
    BY <1>9 DEF OnProduct
  <2>2. pool.vault[t] + Purse \in Nat
    BY <1>1, TradesAssumption DEF WellFormed, Amount
  <2>3. CASE t = side
    BY <1>1, <1>4, <1>6, <1>10, <1>11, <2>1, <2>2, <2>3
  <2>4. CASE t = other
    BY <1>6, <1>10, <1>11, <2>1, <2>2, <2>4
  <2> QED BY <1>7, <2>3, <2>4
<1>16. Reserve(pool, pool.vault, "base") * Reserve(pool, pool.vault, "quote")
         <= Reserve(pool, vault', "base") * Reserve(pool, vault', "quote")
  <2> DEFINE start == Reserve(pool, pool.vault, "base") * Reserve(pool, pool.vault, "quote")
  <2>1. start \in Int
    <3>1. ASSUME NEW t \in Sides PROVE Reserve(pool, pool.vault, t) \in Int
      <4>1. pool.vault[t] \in Nat /\ Beside(pool, t) \in Int
        BY <1>1, <1>7, <1>12 DEF WellFormed, Amount
      <4> QED BY <4>1 DEF Reserve
    <3>2. Reserve(pool, pool.vault, "base") \in Int /\ Reserve(pool, pool.vault, "quote") \in Int
      BY <3>1 DEF Sides
    <3> QED BY <3>2
  <2>2. start <= Reserve(pool, vault, "base") * Reserve(pool, vault, "quote")
    BY DEF OnProduct
  <2> HIDE DEF start
  <2>3. Reserve(pool, vault, "base") * Reserve(pool, vault, "quote") = r * s
    <3>1. CASE side = "base"
      BY <1>8, <3>1 DEF r, s, other, Across
    <3>2. CASE side = "quote"
      <4>1. Reserve(pool, vault, "quote") = r /\ Reserve(pool, vault, "base") = s
        BY <3>2 DEF r, s, other, Across
      <4> QED BY <1>8, <4>1
    <3> QED BY <3>1, <3>2 DEF Sides
  <2>4. Reserve(pool, vault', "base") * Reserve(pool, vault', "quote") = (r + q.credit) * (s - q.debit)
    <3>1. CASE side = "base"
      BY <1>13, <3>1 DEF other, Across
    <3>2. CASE side = "quote"
      <4>1. Reserve(pool, vault', "quote") = r + q.credit /\ Reserve(pool, vault', "base") = s - q.debit
        BY <1>13, <3>2 DEF other, Across
      <4>2. r + q.credit \in Int /\ s - q.debit \in Int
        BY <1>6, <1>8
      <4> QED BY <4>1, <4>2
    <3> QED BY <3>1, <3>2 DEF Sides
  <2>5. r * s \in Int /\ (r + q.credit) * (s - q.debit) \in Int
    <3>1. r + q.credit \in Int /\ s - q.debit \in Int
      BY <1>6, <1>8
    <3> QED BY <1>8, <3>1
  <2>6. start <= (r + q.credit) * (s - q.debit)
    BY <1>6, <2>1, <2>2, <2>3, <2>5
  <2> QED BY <2>4, <2>6 DEF start
<1>17. Solvent(pool', vault')
  BY <1>4, <1>14
<1>18. purse' \in Amount
  BY <1>11 DEF Amount
<1>19. \A t \in Sides : vault'[t] + purse'[t] <= pool'.vault[t] + Purse
  BY <1>4, <1>15
<1>20. Reserve(pool', pool'.vault, "base") * Reserve(pool', pool'.vault, "quote")
         <= Reserve(pool', vault', "base") * Reserve(pool', vault', "quote")
  BY <1>4, <1>16
<1> QED BY <1>17, <1>18, <1>19, <1>20 DEF OnProduct

-----------------------------------------------------------------------------
(* Shared vaults                                                            *)

\* What of a vault is not locked is at most what it holds.
LEMMA UnlockedBounds ==
    ASSUME NEW v \in VaultShare
    PROVE  unlocked_amount(v) \in Nat /\ unlocked_amount(v) <= v.total
<1>1. v.total \in Nat /\ v.last_locked_profit \in Nat /\ v.released \in Nat /\ ProfitScale \in Nat \ {0}
  BY ProfitScaleAssumption DEF VaultShare
<1>2. locked_profit(v) \in Nat
  <2>1. CASE v.released > ProfitScale
    BY <2>1 DEF locked_profit
  <2>2. CASE ~(v.released > ProfitScale)
    <3>1. ProfitScale - v.released \in Nat
      BY <1>1, <2>2
    <3>2. v.last_locked_profit * (ProfitScale - v.released) \in Nat
      BY <1>1, <3>1
    <3>3. (v.last_locked_profit * (ProfitScale - v.released)) \div ProfitScale \in Nat
      BY <1>1, <3>2, DivBounds
    <3> QED BY <2>2, <3>3 DEF locked_profit
  <2> QED BY <2>1, <2>2
<1> QED BY <1>1, <1>2 DEF unlocked_amount, AtLeast

\* A share of a vault is worth a number of tokens.
LEMMA ShareType ==
    ASSUME NEW v \in VaultShare
    PROVE  amount_by_share(v) \in Nat
<1>1. v.pool_lp \in Nat /\ v.lp_supply \in Nat /\ unlocked_amount(v) \in Nat
  BY UnlockedBounds DEF VaultShare
<1>2. CASE v.lp_supply = 0
  BY <1>2 DEF amount_by_share
<1>3. CASE v.lp_supply # 0
  <2>1. v.pool_lp * unlocked_amount(v) \in Nat /\ v.lp_supply \in Nat \ {0}
    BY <1>1, <1>3
  <2>2. (v.pool_lp * unlocked_amount(v)) \div v.lp_supply \in Nat
    BY <2>1, DivBounds
  <2> QED BY <1>3, <2>2 DEF amount_by_share
<1> QED BY <1>2, <1>3

\* Shares for tokens, where something is unlocked.
LEMMA UnmintType ==
    ASSUME NEW v \in VaultShare, unlocked_amount(v) # 0, NEW amount \in Nat
    PROVE  unmint_amount(v, amount) \in Nat /\ unmint_amount(v, amount) * unlocked_amount(v) <= amount * v.lp_supply
<1>1. v.lp_supply \in Nat /\ unlocked_amount(v) \in Nat \ {0} /\ amount * v.lp_supply \in Nat
  BY UnlockedBounds DEF VaultShare
<1> QED BY <1>1, DivBounds DEF unmint_amount

\* A share that is worth something is a share of something unlocked.
LEMMA WorthUnlocked ==
    ASSUME NEW v \in VaultShare, amount_by_share(v) > 0
    PROVE  unlocked_amount(v) # 0
<1> SUFFICES ASSUME unlocked_amount(v) = 0 PROVE FALSE
  OBVIOUS
<1>1. v.pool_lp \in Nat /\ v.lp_supply \in Nat
  BY DEF VaultShare
<1>2. v.lp_supply # 0 /\ amount_by_share(v) = 0 \div v.lp_supply
  BY <1>1 DEF amount_by_share
<1>3. 0 \div v.lp_supply = 0
  BY <1>1, <1>2
<1> QED BY <1>2, <1>3

\* Tokens are put into a vault for shares of the pool's.
LEMMA DepositedType ==
    ASSUME NEW v \in VaultShare, NEW amount \in Nat, NEW lp \in Nat
    PROVE  /\ Deposited(v, amount, lp) \in VaultShare
           /\ Deposited(v, amount, lp).total = v.total + amount
           /\ Deposited(v, amount, lp).lp_supply = v.lp_supply + lp
           /\ Deposited(v, amount, lp).pool_lp = v.pool_lp + lp
<1>1. v.total + amount \in Nat /\ v.lp_supply + lp \in Nat /\ v.pool_lp + lp \in Nat
  BY DEF VaultShare
<1> QED BY <1>1 DEF Deposited, VaultShare

\* They are taken from it, at most as many as it has, for at most the pool's shares.
LEMMA WithdrawnType ==
    ASSUME NEW v \in VaultShare, NEW amount \in Nat, amount <= v.total,
           NEW lp \in Nat, lp <= v.pool_lp, v.pool_lp <= v.lp_supply
    PROVE  /\ Withdrawn(v, amount, lp) \in VaultShare
           /\ Withdrawn(v, amount, lp).total = v.total - amount
           /\ Withdrawn(v, amount, lp).lp_supply = v.lp_supply - lp
           /\ Withdrawn(v, amount, lp).pool_lp = v.pool_lp - lp
<1>1. v.total - amount \in Nat /\ v.lp_supply - lp \in Nat /\ v.pool_lp - lp \in Nat
  BY DEF VaultShare
<1> QED BY <1>1 DEF Withdrawn, VaultShare

\* A quote takes out less than the pool's shares are worth, so fewer shares than it has.
LEMMA PaidByShares ==
    ASSUME NEW v \in VaultShare, v.lp_supply > 0, amount_by_share(v) > 0, v.pool_lp <= v.lp_supply,
           NEW burned \in Nat, NEW out, out = (burned * unlocked_amount(v)) \div v.lp_supply, out < amount_by_share(v)
    PROVE  out \in Nat /\ out <= v.total /\ unmint_amount(v, out) \in Nat /\ unmint_amount(v, out) <= v.pool_lp
<1> DEFINE free == unlocked_amount(v)
           lp == v.lp_supply
           worth == amount_by_share(v)
<1>1. free \in Nat \ {0} /\ free <= v.total /\ lp \in Nat \ {0} /\ v.pool_lp \in Nat /\ v.total \in Nat
  BY UnlockedBounds, WorthUnlocked DEF VaultShare
<1>2. worth = (v.pool_lp * free) \div lp /\ out = (burned * free) \div lp
  BY <1>1 DEF amount_by_share
<1>3. unmint_amount(v, out) = (out * lp) \div free
  BY DEF unmint_amount
<1> HIDE DEF free, lp, worth
<1>4. v.pool_lp * free \in Nat /\ burned * free \in Nat
  BY <1>1
<1>5. worth \in Nat /\ worth * lp <= v.pool_lp * free /\ out \in Nat /\ out * lp <= burned * free
  BY <1>1, <1>2, <1>4, DivBounds
<1>6. out * lp <= v.pool_lp * free
  <2>1. out <= worth
    BY <1>5 DEF worth
  <2>2. out * lp <= worth * lp /\ out * lp \in Nat /\ worth * lp \in Nat
    BY <1>1, <1>5, <2>1, TimesMonotone
  <2> QED BY <1>4, <1>5, <2>2
<1>7. unmint_amount(v, out) \in Nat /\ unmint_amount(v, out) <= v.pool_lp
  <2>1. out * lp \in Nat
    BY <1>1, <1>5
  <2>2. (out * lp) \div free <= v.pool_lp
    BY <1>1, <1>6, <2>1, DivAtMost
  <2>3. (out * lp) \div free \in Nat
    BY <1>1, <2>1, DivBounds
  <2> QED BY <1>3, <2>2, <2>3
<1>8. out <= free
  <2>1. v.pool_lp * free <= lp * free /\ lp * free = free * lp
    BY <1>1, TimesMonotone DEF lp
  <2>2. free * lp \in Nat /\ out * lp \in Nat
    BY <1>1, <1>5
  <2>3. out * lp <= free * lp
    BY <1>4, <1>6, <2>1, <2>2
  <2> QED BY <1>1, <1>5, <2>3, TimesCancel
<1> QED BY <1>1, <1>5, <1>7, <1>8

\* What a pool on shared vaults is quoted at, its shares pay.
LEMMA SharesFair ==
    ASSUME NEW p, WellFormed(p), p.kind = "meteora", NEW sh \in [Sides -> VaultShare],
           \A s \in Sides : sh[s].pool_lp <= sh[s].lp_supply,
           NEW side \in Sides, NEW amount \in Nat,
           NEW q, q = MeteoraStd(p, sh, side, amount), q.out # 0
    PROVE  LET vin == sh[side]
               vout == sh[Across(side)]
           IN  /\ q.credit \in Nat /\ unmint_amount(vin, q.credit) \in Nat
               /\ q.debit \in Nat /\ q.debit <= vout.total
               /\ unmint_amount(vout, q.debit) \in Nat /\ unmint_amount(vout, q.debit) <= vout.pool_lp
<1> DEFINE vin == sh[side]
           vout == sh[Across(side)]
           actual == ActualIn(p, vin, amount)
           dest == CurveOut(amount_by_share(vin), amount_by_share(vout), actual)
           burned == unmint_amount(vout, dest)
           out == (burned * unlocked_amount(vout)) \div vout.lp_supply
           kept == protocol_fee(p, amount)
<1>1. /\ SharesReady(sh) /\ ~(kept > amount) /\ ~(actual < 0) /\ ~(dest <= 0) /\ ~(out >= amount_by_share(vout))
      /\ q.out = out /\ q.credit = amount - kept /\ q.debit = out
  BY DEF MeteoraStd, Quoting, NoQuote
<1>2. vin \in VaultShare /\ vout \in VaultShare /\ vout.pool_lp <= vout.lp_supply
  BY BothSides
<1>3. /\ vin.lp_supply > 0 /\ vout.lp_supply > 0
      /\ amount_by_share(vin) > 0 /\ amount_by_share(vout) > 0
  BY <1>1, BothSides DEF SharesReady
<1> HIDE DEF vin, vout
<1>4. unlocked_amount(vin) # 0 /\ unlocked_amount(vout) # 0
  BY <1>2, <1>3, WorthUnlocked
<1>5. trade_fee(p, amount) \in Nat /\ kept \in Nat
  <2>1. p.num \in Nat /\ p.den \in Nat /\ p.protocol_num \in Nat /\ p.protocol_den \in Nat
    BY DEF WellFormed, RatesOf
  <2>2. trade_fee(p, amount) \in Nat
    BY <2>1, FlooredFeeType DEF trade_fee
  <2> QED BY <2>1, <2>2, FlooredFeeType DEF protocol_fee
<1> HIDE DEF kept
<1>6. amount - kept \in Nat
  BY <1>1, <1>5
<1>7. actual \in Nat
  <2> DEFINE deposit == amount - kept
             minted == unmint_amount(vin, deposit)
             after == Deposited(vin, deposit, minted)
  <2>1. actual = amount_by_share(after) - amount_by_share(vin) - (trade_fee(p, amount) - kept)
    BY DEF ActualIn, kept
  <2> HIDE DEF deposit
  <2>2. deposit \in Nat
    BY <1>6 DEF deposit
  <2>3. minted \in Nat
    BY <1>2, <1>4, <2>2, UnmintType
  <2> HIDE DEF minted
  <2>4. after \in VaultShare
    BY <1>2, <2>2, <2>3, DepositedType
  <2> HIDE DEF after
  <2>5. amount_by_share(after) \in Nat /\ amount_by_share(vin) \in Nat
    BY <1>2, <2>4, ShareType
  <2> HIDE DEF actual
  <2>6. actual \in Int
    BY <1>5, <2>1, <2>5
  <2> QED BY <1>1, <2>6 DEF actual
<1> HIDE DEF actual
<1>8. dest \in Nat
  <2> DEFINE rin == amount_by_share(vin)
             rout == amount_by_share(vout)
  <2>1. rin \in Nat \ {0} /\ rout \in Nat
    BY <1>2, <1>3, ShareType
  <2>2. dest = rout - div_ceil(rin * rout, rin + actual)
    BY DEF CurveOut
  <2> HIDE DEF rin, rout
  <2>3. rin * rout \in Nat /\ rin + actual \in Nat \ {0}
    BY <1>7, <2>1
  <2>4. div_ceil(rin * rout, rin + actual) \in Nat
    BY <2>3, DivCeilCovers
  <2> HIDE DEF dest
  <2>5. dest \in Int
    BY <2>1, <2>2, <2>4
  <2> QED BY <1>1, <2>5 DEF dest
<1> HIDE DEF dest
<1>9. burned \in Nat
  BY <1>2, <1>4, <1>8, UnmintType
<1> HIDE DEF burned
<1>10. out < amount_by_share(vout)
  <2>1. out \in Nat
    <3>1. burned * unlocked_amount(vout) \in Nat /\ vout.lp_supply \in Nat \ {0}
      BY <1>2, <1>3, <1>9, UnlockedBounds DEF VaultShare
    <3> QED BY <3>1, DivBounds
  <2> HIDE DEF out
  <2>2. amount_by_share(vout) \in Nat
    BY <1>2, ShareType
  <2> QED BY <1>1, <2>1, <2>2
<1>11. /\ out \in Nat /\ out <= vout.total
       /\ unmint_amount(vout, out) \in Nat /\ unmint_amount(vout, out) <= vout.pool_lp
  <2>1. out = (burned * unlocked_amount(vout)) \div vout.lp_supply
    OBVIOUS
  <2> HIDE DEF out
  <2> QED BY <1>2, <1>3, <1>9, <1>10, <2>1, PaidByShares
<1> HIDE DEF out
<1>12. q.credit \in Nat /\ unmint_amount(vin, q.credit) \in Nat
  BY <1>1, <1>2, <1>4, <1>6, UnmintType
<1> QED BY <1>1, <1>11, <1>12 DEF vin, vout

\* A swap keeps what a shared vault holds in step with the shares in it.
LEMMA SwapOnShares ==
    ASSUME pool \in Pools, pool.kind = "meteora", OnShares,
           NEW i, NEW side \in Sides, NEW amount \in Amounts, Swap(i, side, amount)
    PROVE  OnShares'
<1> DEFINE other == Across(side)
           net == net_of_transfer_fee(side, amount)
           Q == OnVaults(side, net)
<1>1. WellFormed(pool) /\ amount \in Nat
  BY PoolsAssumption, TradesAssumption, WidthAssumption
<1>2. PICK q : q = priced(i, side, amount).quote /\ Settle(side, amount, q)
  BY DEF Swap
<1>3. /\ q.out > 0
      /\ vault' = [vault EXCEPT ![side] = @ + q.credit, ![Across(side)] = @ - q.debit]
      /\ PayFromShares(side, q)
  BY <1>2 DEF Settle
<1>4. net \in Nat /\ other \in Sides /\ other # side /\ \A t \in Sides : t = side \/ t = other
  BY <1>1, NetBounds, BothSides
<1>5. q.out = net_of_transfer_fee(other, Q.out) /\ q.credit = Q.credit /\ q.debit = Q.debit
  BY <1>1, <1>2, PricedQuote
<1> HIDE DEF net, other
<1>6. Q.out # 0
  <2>1. 0 \in Nat
    OBVIOUS
  <2>2. net_of_transfer_fee(other, 0) <= 0 /\ net_of_transfer_fee(other, 0) \in Nat
    BY <1>1, <1>4, <2>1, NetBounds
  <2> QED BY <1>3, <1>5, <2>2
<1>7. Q = MeteoraStd(pool, share, side, net)
  BY DEF OnVaults
<1> HIDE DEF Q
<1>8. /\ share \in [Sides -> VaultShare] /\ vault \in [Sides -> Nat]
      /\ \A s \in Sides : share[s].pool_lp <= share[s].lp_supply /\ share[s].total = vault[s]
  BY DEF OnShares, Amount
<1> DEFINE minted == unmint_amount(share[side], q.credit)
           burned == unmint_amount(share[other], q.debit)
<1>9. /\ q.credit \in Nat /\ minted \in Nat
      /\ q.debit \in Nat /\ q.debit <= share[other].total
      /\ burned \in Nat /\ burned <= share[other].pool_lp
  BY <1>1, <1>4, <1>5, <1>6, <1>7, <1>8, SharesFair DEF other
<1>10. share' = [share EXCEPT ![side] = Deposited(share[side], q.credit, minted),
                              ![other] = Withdrawn(share[other], q.debit, burned)]
  <2> DEFINE put == Deposited(share[side], q.credit, unmint_amount(share[side], q.credit))
             got == Withdrawn(share[other], q.debit, unmint_amount(share[other], q.debit))
  <2>1. share' = [share EXCEPT ![side] = Deposited(@, q.credit, unmint_amount(@, q.credit)),
                               ![other] = Withdrawn(@, q.debit, unmint_amount(@, q.debit))]
    BY <1>3 DEF PayFromShares, other
  <2>2. share \in [Sides -> VaultShare] /\ side \in Sides /\ other \in Sides /\ other # side
    BY <1>4, <1>8
  <2>3. share' = [share EXCEPT ![side] = put, ![other] = got]
    BY <2>1, <2>2, SMTT(30)
  <2> QED BY <2>3
<1> HIDE DEF minted, burned
<1> DEFINE in == Deposited(share[side], q.credit, minted)
           out == Withdrawn(share[other], q.debit, burned)
<1>11. in \in VaultShare /\ in.total = share[side].total + q.credit
       /\ in.lp_supply = share[side].lp_supply + minted /\ in.pool_lp = share[side].pool_lp + minted
  <2> DEFINE before == share[side]
             credit == q.credit
             after == Deposited(before, credit, minted)
  <2>1. before \in VaultShare /\ credit \in Nat
    BY <1>8, <1>9
  <2> HIDE DEF before, credit
  <2>2. /\ after \in VaultShare /\ after.total = before.total + credit
        /\ after.lp_supply = before.lp_supply + minted /\ after.pool_lp = before.pool_lp + minted
    BY <1>9, <2>1, DepositedType
  <2> QED BY <2>2 DEF before, credit
<1>12. out \in VaultShare /\ out.total = share[other].total - q.debit
       /\ out.lp_supply = share[other].lp_supply - burned /\ out.pool_lp = share[other].pool_lp - burned
  <2>1. share[other] \in VaultShare /\ share[other].pool_lp <= share[other].lp_supply
    BY <1>4, <1>8
  <2> QED BY <1>9, <2>1, WithdrawnType
<1>13. share' = [share EXCEPT ![side] = in, ![other] = out]
  BY <1>10
<1> HIDE DEF in, out
<1>14. share' \in [Sides -> VaultShare] /\ share'[side] = in /\ share'[other] = out
  BY <1>4, <1>8, <1>11, <1>12, <1>13
<1>15. vault' \in Amount /\ vault'[side] = vault[side] + q.credit /\ vault'[other] = vault[other] - q.debit
  <2>1. vault[side] + q.credit \in Nat /\ vault[other] - q.debit \in Nat
    BY <1>4, <1>8, <1>9
  <2>2. vault' = [vault EXCEPT ![side] = vault[side] + q.credit, ![other] = vault[other] - q.debit]
    BY <1>3, <1>4, <1>8 DEF other
  <2> QED BY <1>4, <1>8, <2>1, <2>2 DEF Amount
<1>16. ASSUME NEW t \in Sides PROVE share'[t].pool_lp <= share'[t].lp_supply /\ share'[t].total = vault'[t]
  <2>1. /\ share[t].pool_lp \in Nat /\ share[t].lp_supply \in Nat
        /\ share[t].pool_lp <= share[t].lp_supply /\ share[t].total = vault[t]
    BY <1>8 DEF VaultShare
  <2>2. CASE t = side
    BY <1>9, <1>11, <1>14, <1>15, <2>1, <2>2
  <2>3. CASE t = other
    BY <1>9, <1>12, <1>14, <1>15, <2>1, <2>3
  <2> QED BY <1>4, <2>2, <2>3
<1> QED BY <1>14, <1>15, <1>16 DEF OnShares

-----------------------------------------------------------------------------
(* Every trade                                                              *)

\* Every step keeps the invariant.
LEMMA NextTradeInv == TradeInv /\ [Next]_vars => TradeInv'
<1> SUFFICES ASSUME TradeInv, [Next]_vars PROVE TradeInv'
  OBVIOUS
<1>1. CASE Next
  <2>1. PICK i \in DOMAIN pool.times, side \in Sides, amount \in Amounts : Swap(i, side, amount)
    BY <1>1 DEF Next
  <2>2. pool' = pool /\ pool \in Pools
    BY <2>1 DEF Swap, TradeInv
  <2>3. ASSUME ByProduct(pool) PROVE OnProduct'
    BY <2>1, <2>2, <2>3, SwapOnProduct DEF TradeInv
  <2>4. ASSUME pool.kind = "meteora" PROVE OnShares'
    BY <2>1, <2>2, <2>4, SwapOnShares DEF TradeInv
  <2>5. ASSUME Ranged(pool) PROVE OnRange'
    BY <2>1, <2>2, <2>5, SwapOnRange DEF TradeInv
  <2>6. ASSUME pool.kind = "dlmm" PROVE OnLadder'
    BY <2>1, <2>2, <2>6, SwapOnLadder DEF TradeInv
  <2>7. ByProduct(pool') = ByProduct(pool) /\ Ranged(pool') = Ranged(pool)
    BY <2>2
  <2> QED BY <2>2, <2>3, <2>4, <2>5, <2>6, <2>7 DEF TradeInv
<1>2. CASE UNCHANGED vars
  <2>1. pool' = pool /\ vault' = vault /\ share' = share /\ purse' = purse /\ market' = market
    BY <1>2 DEF vars
  <2>2. OnProduct => OnProduct'
    BY <2>1 DEF OnProduct, Solvent, Reserve
  <2>3. OnShares => OnShares'
    BY <2>1 DEF OnShares
  <2>4. OnRange => OnRange'
    BY <2>1 DEF OnRange
  <2>5. OnLadder => OnLadder'
    BY <2>1 DEF OnLadder, LadderAt, Change
  <2>6. ByProduct(pool') = ByProduct(pool) /\ Ranged(pool') = Ranged(pool)
    BY <2>1
  <2> QED BY <2>1, <2>2, <2>3, <2>4, <2>5, <2>6 DEF TradeInv
<1> QED BY <1>1, <1>2

\* However a pool is traded at its quotes, its vaults hold what it owes and the product
\* of its reserves, or its part of a shared vault, stays sound (quote/router.rs
\* price_cp, quote/launchlab.rs, quote/pump_bonding.rs, quote/meteora_std.rs).
THEOREM TradesInvariant == Spec => []TradeInv
<1>1. Init => TradeInv
  BY InitTradeInv
<1>2. TradeInv /\ [Next]_vars => TradeInv'
  BY NextTradeInv
<1> QED BY <1>1, <1>2, PTL DEF Spec

\* Every pool prices in one of these ways.
LEMMA EveryVenue == TradeInv => ByProduct(pool) \/ pool.kind = "meteora" \/ Ranged(pool) \/ pool.kind = "dlmm"
<1> SUFFICES ASSUME TradeInv PROVE ByProduct(pool) \/ pool.kind = "meteora" \/ Ranged(pool) \/ pool.kind = "dlmm"
  OBVIOUS
<1>1. WellFormed(pool)
  BY PoolsAssumption DEF TradeInv
<1>2. pool.kind \in Products \cup Markets \cup {"meteora"}
  BY <1>1 DEF WellFormed
<1>3. pool.kind \in Products \/ pool.kind \in {"damm", "dbc", "byreal", "dlmm", "meteora"}
  BY <1>2 DEF Markets
<1> QED BY <1>3 DEF ByProduct, Compounds, Ranged

\* Whatever was traded before, a pool can pay what it is quoted at, on every venue
\* (quote/router.rs price_cp, quote/damm_v2.rs, quote/dbc.rs, quote/clmm.rs,
\* quote/meteora_std.rs, quote/dlmm.rs).
THEOREM QuotesArePaid == Spec => []Payable
<1>1. TradeInv => (ByProduct(pool) \/ pool.kind = "meteora" => Payable)
  <2> SUFFICES ASSUME TradeInv, ByProduct(pool) \/ pool.kind = "meteora" PROVE Payable
    OBVIOUS
  <2>1. WellFormed(pool)
    BY PoolsAssumption DEF TradeInv
  <2>2. \A s \in Sides : Owed(s) = pool.accrued[s]
    BY DEF Owed, Ranged, ByProduct, Compounds, Products
  <2>3. pool.kind # "dbc"
    BY DEF ByProduct, Compounds, Products
  <2>4. CASE ByProduct(pool)
    <3>1. Solvent(pool, vault) /\ pool.kind # "meteora"
      BY <2>4 DEF TradeInv, OnProduct, ByProduct, Compounds, Products
    <3>2. ASSUME NEW s \in Sides PROVE vault[s] >= Owed(s)
      <4>1. vault[s] \in Nat /\ pool.accrued[s] \in Nat /\ pool.accrued[s] <= vault[s]
        BY <2>1, <3>1, SolventReserves
      <4> QED BY <2>2, <4>1
    <3>3. pool.kind = "launchlab" => real_base(pool, vault) >= 0 /\ vault.quote <= pool.total_quote_fund_raising
      <4> SUFFICES ASSUME pool.kind = "launchlab"
                   PROVE  real_base(pool, vault) >= 0 /\ vault.quote <= pool.total_quote_fund_raising
        OBVIOUS
      <4>1. vault["base"] <= Cap(pool, "base") /\ vault["quote"] <= Cap(pool, "quote")
        BY <3>1 DEF Solvent, Sides
      <4>2. vault.base \in Nat /\ pool.total_base_sell \in Nat
        BY <2>1, <3>1 DEF Solvent, WellFormed, Amount, Sides
      <4> QED BY <4>1, <4>2 DEF Cap, real_base
    <3> QED BY <2>3, <3>1, <3>2, <3>3 DEF Payable
  <2>5. CASE pool.kind = "meteora"
    <3>1. OnShares
      BY <2>5 DEF TradeInv
    <3>2. ASSUME NEW s \in Sides
          PROVE  vault[s] >= Owed(s) /\ unlocked_amount(share[s]) >= 0 /\ share[s].pool_lp >= 0
      <4>1. share[s] \in VaultShare /\ vault[s] \in Nat
        BY <3>1 DEF OnShares, Amount
      <4>2. pool.accrued[s] = 0
        BY <2>1, <2>5 DEF WellFormed
      <4>3. unlocked_amount(share[s]) \in Nat /\ share[s].pool_lp \in Nat
        BY <4>1, UnlockedBounds DEF VaultShare
      <4> QED BY <2>2, <4>1, <4>2, <4>3
    <3> QED BY <2>3, <2>5, <3>2 DEF Payable
  <2> QED BY <2>4, <2>5
<1>2. TradeInv => (Ranged(pool) => Payable)
  <2> SUFFICES ASSUME TradeInv, Ranged(pool) PROVE Payable
    OBVIOUS
  <2>1. WellFormed(pool) /\ OnRange
    BY PoolsAssumption DEF TradeInv
  <2>2. pool.kind # "meteora" /\ pool.kind # "launchlab"
    BY DEF Ranged
  <2>3. ASSUME NEW s \in Sides PROVE vault[s] >= Owed(s)
    <3>1. Kept(pool, pool.market.price, market.price, s, vault[s] - pool.vault[s]) /\ vault[s] \in Nat
      BY <2>1 DEF OnRange, Amount
    <3>2. market.price \in 1..Highest(pool)
      BY <2>1, PriceType DEF OnRange
    <3>3. Standing(pool, market.price, s) <= vault[s] /\ Standing(pool, market.price, s) \in Nat
      BY <2>1, <3>1, <3>2, KeptHolds, WholeType
    <3>4. Owed(s) = Standing(pool, market.price, s)
      <4>1. Ranged(pool) /\ pool.kind # "dlmm"
        BY DEF Ranged
      <4> QED BY <4>1 DEF Owed
    <3> QED BY <3>1, <3>3, <3>4
  <2>4. pool.kind = "dbc" => ~is_complete(pool, vault)
    <3> SUFFICES ASSUME pool.kind = "dbc" PROVE ~is_complete(pool, vault)
      OBVIOUS
    <3>1. vault.quote < pool.threshold /\ vault.quote \in Nat /\ pool.threshold \in Nat
      BY <2>1 DEF OnRange, WellFormed, Amount, Sides
    <3> QED BY <3>1 DEF is_complete
  <2> QED BY <2>2, <2>3, <2>4 DEF Payable
<1>3. TradeInv => (pool.kind = "dlmm" => Payable)
  <2> SUFFICES ASSUME TradeInv, pool.kind = "dlmm" PROVE Payable
    OBVIOUS
  <2>1. WellFormed(pool) /\ OnLadder
    BY PoolsAssumption DEF TradeInv
  <2>2. ASSUME NEW s \in Sides PROVE vault[s] >= Owed(s)
    <3>1. IsLadder(pool) /\ pool.vault[s] \in Nat /\ pool.vault[s] >= InBins(pool.market.bins, s)
      BY <2>1 DEF WellFormed, IsLadder, Amount
    <3>2. /\ Booked(pool, market.bins, Change(vault)) /\ market.bins \in [DOMAIN market.bins -> LadderBin]
          /\ vault[s] \in Int
      BY <2>1 DEF OnLadder, LadderAt, Left
    <3>3. /\ InBins(market.bins, s) \in Int /\ InBins(pool.market.bins, s) \in Int /\ Change(vault)[s] \in Int
          /\ InBins(market.bins, s) <= InBins(pool.market.bins, s) + Change(vault)[s]
      BY <3>1, <3>2, BookedHolds
    <3>4. Change(vault)[s] = vault[s] - pool.vault[s]
      BY DEF Change
    <3>5. vault[s] >= InBins(market.bins, s)
      BY <3>1, <3>2, <3>3, <3>4
    <3>6. Owed(s) = InBins(market.bins, s)
      BY DEF Owed, Ranged
    <3> QED BY <3>5, <3>6
  <2> QED BY <2>2 DEF Payable
<1>4. TradeInv => ByProduct(pool) \/ pool.kind = "meteora" \/ Ranged(pool) \/ pool.kind = "dlmm"
  BY EveryVenue
<1>5. TradeInv => Payable
  BY <1>1, <1>2, <1>3, <1>4
<1> QED BY <1>5, TradesInvariant, PTL

\* Two products of which neither factor has grown: if the product has not fallen
\* either, neither factor has.
LEMMA SameFactors ==
    ASSUME NEW a \in Nat \ {0}, NEW b \in Nat \ {0}, NEW x \in Nat \ {0}, NEW y \in Nat \ {0},
           x <= a, y <= b, a * b <= x * y
    PROVE  x = a /\ y = b
<1>1. x * y \in Nat /\ a * y \in Nat /\ a * b \in Nat /\ x * b \in Nat
  OBVIOUS
<1>2. x * y <= a * y /\ x * y <= x * b
  BY TimesMonotone
<1>3. a <= x
  <2>1. a * b <= x * b
    BY <1>1, <1>2
  <2> QED BY <2>1, TimesCancel
<1>4. b <= y
  <2>1. a * b <= a * y /\ a * b = b * a /\ a * y = y * a
    BY <1>1, <1>2
  <2>2. b * a <= y * a
    BY <2>1
  <2> QED BY <2>2, TimesCancel
<1> QED BY <1>3, <1>4

\* No sequence of trades with a pool ends with as much of both sides as before and
\* more of one, at any fees, virtual reserves, curves and transfer fees: where the
\* product of the reserves has not fallen, and where a price that moved has left one
\* side more than it had; and of a ladder of bins, where no bin has lost at the price the
\* pair stood at (quote/router.rs price_cp, quote/damm_v2.rs, quote/dbc.rs,
\* quote/clmm.rs, quote/dlmm.rs and the venues' own files).
THEOREM NothingForNothing == Spec => [](pool.kind # "meteora" => NoFreeLunch)
<1>1. TradeInv => (ByProduct(pool) => NoFreeLunch)
  <2> SUFFICES ASSUME TradeInv, ByProduct(pool), \A s \in Sides : purse[s] >= Purse
               PROVE  \A s \in Sides : purse[s] = Purse
    BY DEF NoFreeLunch
  <2>1. WellFormed(pool) /\ Purse \in Nat
    BY PoolsAssumption, TradesAssumption DEF TradeInv
  <2>2. /\ Solvent(pool, vault) /\ purse \in Amount
        /\ \A s \in Sides : vault[s] + purse[s] <= pool.vault[s] + Purse
        /\ Reserve(pool, pool.vault, "base") * Reserve(pool, pool.vault, "quote")
              <= Reserve(pool, vault, "base") * Reserve(pool, vault, "quote")
    BY DEF TradeInv, OnProduct
  <2>3. "base" \in Sides /\ "quote" \in Sides
    BY DEF Sides
  <2>4. ASSUME NEW s \in Sides
        PROVE  /\ pool.vault[s] \in Nat /\ vault[s] \in Nat /\ purse[s] \in Nat
               /\ Reserve(pool, vault, s) \in Nat \ {0} /\ Reserve(pool, pool.vault, s) \in Nat \ {0}
               /\ Reserve(pool, vault, s) - vault[s] = Reserve(pool, pool.vault, s) - pool.vault[s]
    <3>1. vault[s] \in Nat /\ Reserve(pool, vault, s) \in Nat \ {0}
      BY <2>1, <2>2, SolventReserves
    <3>2. pool.vault[s] \in Nat /\ purse[s] \in Nat
      BY <2>1, <2>2 DEF WellFormed, Amount
    <3>5. pool.vault[s] + Beside(pool, s) > 0
      <4>1. CASE pool.kind \in Products
        BY <2>1, <4>1 DEF WellFormed
      <4>2. CASE Compounds(pool)
        <5>1. pool.vault[s] > 0
          BY <2>1, <4>2 DEF WellFormed, Compounds
        <5>2. Reserve(pool, pool.vault, s) = pool.vault[s]
          BY <2>1, <3>2, <4>2, NothingBeside DEF Compounds
        <5> QED BY <5>1, <5>2 DEF Reserve
      <4> QED BY <4>1, <4>2 DEF ByProduct
    <3>3. Reserve(pool, vault, s) = vault[s] + Beside(pool, s) /\ Reserve(pool, pool.vault, s) = pool.vault[s] + Beside(pool, s)
      BY DEF Reserve
    <3>4. Beside(pool, s) \in Int
      BY <2>1, BesideType
    <3> HIDE DEF Reserve
    <3> QED BY <3>1, <3>2, <3>3, <3>4, <3>5
  <2>5. ASSUME NEW s \in Sides PROVE Reserve(pool, vault, s) <= Reserve(pool, pool.vault, s)
    <3>1. vault[s] + purse[s] <= pool.vault[s] + Purse /\ purse[s] >= Purse
      BY <2>2
    <3> QED BY <2>1, <2>4, <3>1
  <2>6. /\ Reserve(pool, vault, "base") = Reserve(pool, pool.vault, "base")
        /\ Reserve(pool, vault, "quote") = Reserve(pool, pool.vault, "quote")
    <3> DEFINE a == Reserve(pool, pool.vault, "base")
               b == Reserve(pool, pool.vault, "quote")
               x == Reserve(pool, vault, "base")
               y == Reserve(pool, vault, "quote")
    <3>1. a \in Nat \ {0} /\ b \in Nat \ {0} /\ x \in Nat \ {0} /\ y \in Nat \ {0}
      BY <2>3, <2>4
    <3>2. x <= a /\ y <= b /\ a * b <= x * y
      BY <2>2, <2>3, <2>5
    <3> HIDE DEF a, b, x, y
    <3>3. x = a /\ y = b
      BY <3>1, <3>2, SameFactors
    <3> QED BY <3>3 DEF a, b, x, y
  <2>7. ASSUME NEW s \in Sides PROVE purse[s] = Purse
    <3>1. Reserve(pool, vault, s) = Reserve(pool, pool.vault, s)
      BY <2>6 DEF Sides
    <3>2. vault[s] = pool.vault[s]
      BY <2>4, <3>1
    <3>3. vault[s] + purse[s] <= pool.vault[s] + Purse /\ purse[s] >= Purse
      BY <2>2
    <3> QED BY <2>1, <2>4, <3>2, <3>3
  <2> QED BY <2>7
<1>2. TradeInv /\ Ranged(pool) => NoFreeLunch
  <2>1. TradeInv => WellFormed(pool)
    BY PoolsAssumption DEF TradeInv
  <2> QED BY <2>1, RangeGivesNothing DEF TradeInv, NoFreeLunch
<1>3. TradeInv /\ pool.kind = "dlmm" => NoFreeLunch
  <2>1. TradeInv => WellFormed(pool)
    BY PoolsAssumption DEF TradeInv
  <2> QED BY <2>1, BinsGiveNothing DEF TradeInv, NoFreeLunch
<1>4. TradeInv => (pool.kind # "meteora" => NoFreeLunch)
  BY <1>1, <1>2, <1>3, EveryVenue
<1> QED BY <1>4, TradesInvariant, PTL

-----------------------------------------------------------------------------
(* Inputs computed for an output                                            *)

\* The constant-product formula, whichever way it is stored.
LEMMA ReverseIsQuoted ==
    ASSUME NEW r \in Nat, NEW s \in Nat, s <= U64, NEW wanted \in Nat, NEW f \in Nat,
           NEW in, in = compute_constant_product_in(r, s, wanted, f), in > 0, Fits(s, in)
    PROVE  compute_constant_product_out(r, s, in, f) # 0
<1> DEFINE k == BasisPoints - f
           den == (s - wanted) * k
           num == r * wanted * BasisPoints
           m == in * k
           d == r * BasisPoints + m
           out == (s * m) \div d
<1>1. /\ r \in Nat \ {0} /\ s \in Nat \ {0} /\ wanted \in Nat \ {0} /\ wanted < s
      /\ f < BasisPoints /\ in = div_ceil(num, den)
  BY DEF compute_constant_product_in, BasisPoints
<1>2. k \in Nat \ {0} /\ k <= BasisPoints /\ BasisPoints \in Nat \ {0} /\ s - wanted \in Nat \ {0}
  BY <1>1 DEF BasisPoints
<1>3. AtMost(f, BasisPoints) = f
  BY <1>1 DEF AtMost
<1> HIDE DEF k
<1>4. den \in Nat \ {0} /\ num \in Nat /\ num = r * wanted * BasisPoints /\ den = (s - wanted) * k
  BY <1>1, <1>2
<1> HIDE DEF den, num
<1>5. in \in Nat \ {0} /\ num <= in * den
  <2>1. div_ceil(num, den) \in Nat /\ num <= div_ceil(num, den) * den
    BY <1>4, DivCeilCovers
  <2> QED BY <1>1, <2>1
<1>6. m \in Nat \ {0} /\ m <= in * BasisPoints
  <2>1. in * k <= in * BasisPoints
    BY <1>2, <1>5, TimesMonotone
  <2>2. in * k \in Nat \ {0}
    BY <1>2, <1>5
  <2> QED BY <2>1, <2>2
<1>7. in * den = (s - wanted) * m
  BY <1>1, <1>2, <1>4, <1>5
<1> HIDE DEF m
<1>8. d \in Nat \ {0} /\ wanted * d <= s * m
  <2>1. (s - wanted) * m = s * m - wanted * m
    BY <1>1, <1>6
  <2>2. wanted * d = r * wanted * BasisPoints + wanted * m
    BY <1>1, <1>2, <1>6
  <2>3. s * m \in Nat /\ wanted * m \in Nat /\ r * wanted * BasisPoints \in Nat
    BY <1>1, <1>2, <1>6
  <2>4. d \in Nat \ {0}
    BY <1>1, <1>2, <1>6
  <2> QED BY <1>4, <1>5, <1>7, <2>1, <2>2, <2>3, <2>4
<1>9. s * m <= U128
  <2>1. s * m <= s * (in * BasisPoints) /\ s * (in * BasisPoints) = s * in * BasisPoints
    <3>1. in * BasisPoints \in Nat
      BY <1>2, <1>5
    <3>2. s * m <= s * (in * BasisPoints)
      BY <1>1, <1>6, <3>1, TimesMonotone
    <3>3. s * (in * BasisPoints) = s * in * BasisPoints
      BY <1>1, <1>2, <1>5
    <3> QED BY <3>2, <3>3
  <2>2. s * m \in Nat /\ s * in * BasisPoints \in Nat /\ U128 \in Nat
    BY <1>1, <1>2, <1>5, <1>6, WidthAssumption
  <2>3. s * in * BasisPoints <= U128
    BY DEF Fits
  <2> QED BY <2>1, <2>2, <2>3
<1>10. d <= U128
  <2>1. 1 * d <= wanted * d
    BY <1>1, <1>8, TimesMonotone
  <2>2. 1 * d = d /\ wanted * d \in Nat /\ s * m \in Nat /\ U128 \in Nat
    BY <1>1, <1>6, <1>8, WidthAssumption
  <2> QED BY <1>8, <1>9, <2>1, <2>2
<1>11. out \in Nat /\ out >= wanted /\ out <= U64
  <2>1. s * m \in Nat
    BY <1>1, <1>6
  <2>2. wanted <= out
    BY <1>1, <1>8, <2>1, DivAtLeast
  <2>3. s * m <= s * d
    <3>1. m <= d
      <4>1. r * BasisPoints \in Nat
        BY <1>1, <1>2
      <4> QED BY <1>6, <4>1
    <3> QED BY <1>1, <1>6, <1>8, <3>1, TimesMonotone
  <2>4. out <= s /\ out \in Nat
    BY <1>1, <1>8, <2>1, <2>3, DivAtMost, DivBounds
  <2> QED BY <2>2, <2>4, WidthAssumption
<1>12. compute_constant_product_out(r, s, in, f) = out
  <2>1. r # 0 /\ s # 0 /\ in # 0 /\ ~(s * m > U128) /\ ~(d > U128) /\ ~(out > U64)
    <3>1. s * m \in Nat /\ U128 \in Nat /\ U64 \in Nat
      BY <1>1, <1>6, WidthAssumption
    <3> QED BY <1>1, <1>5, <1>8, <1>9, <1>10, <1>11, <3>1
  <2> QED BY <1>3, <2>1 DEF compute_constant_product_out, out, d, m, k
<1> QED BY <1>1, <1>11, <1>12

\* The bonding-curve formula, which rounds its fee apart: the input for an output
\* buys it or more (quote/math.rs compute_bonding_curve_in, compute_bonding_curve_out).
THEOREM BondingReverseBuys ==
    ASSUME NEW r \in Nat, NEW s \in Nat, s <= U64, NEW wanted \in Nat, NEW n \in Nat,
           NEW in, in = compute_bonding_curve_in(r, s, wanted, n, BasisPoints), in > 0, Fits(s, in)
    PROVE  wanted <= compute_bonding_curve_out(r, s, in, n, BasisPoints)
<1> DEFINE k == BasisPoints - n
           x == div_ceil(r * wanted, s - wanted)
           after == (in * k) \div BasisPoints
           d == r + after
           out == (s * after) \div d
<1>1. /\ r \in Nat \ {0} /\ s \in Nat \ {0} /\ wanted \in Nat \ {0} /\ wanted < s
      /\ n < BasisPoints /\ in = div_ceil(x * BasisPoints, k)
  BY DEF compute_bonding_curve_in, BasisPoints
<1>2. k \in Nat \ {0} /\ k <= BasisPoints /\ BasisPoints \in Nat \ {0} /\ s - wanted \in Nat \ {0}
  BY <1>1 DEF BasisPoints
<1> HIDE DEF k
<1>3. x \in Nat /\ r * wanted <= x * (s - wanted) /\ r * wanted \in Nat \ {0}
  <2>1. r * wanted \in Nat \ {0}
    BY <1>1
  <2> QED BY <1>2, <2>1, DivCeilCovers
<1> HIDE DEF x
<1>4. in \in Nat \ {0} /\ x * BasisPoints <= in * k
  <2>1. x * BasisPoints \in Nat
    BY <1>2, <1>3
  <2>2. div_ceil(x * BasisPoints, k) \in Nat /\ x * BasisPoints <= div_ceil(x * BasisPoints, k) * k
    BY <1>2, <2>1, DivCeilCovers
  <2> QED BY <1>1, <2>2
<1>5. after \in Nat /\ x <= after /\ after <= in
  <2>1. in * k \in Nat /\ in * k <= in * BasisPoints
    BY <1>2, <1>4, TimesMonotone
  <2> QED BY <1>2, <1>3, <1>4, <2>1, DivAtLeast, DivAtMost, DivBounds
<1> HIDE DEF after
<1>6. r * wanted <= (s - wanted) * after
  <2>1. x * (s - wanted) <= after * (s - wanted) /\ after * (s - wanted) = (s - wanted) * after
    BY <1>2, <1>3, <1>5, TimesMonotone
  <2>2. x * (s - wanted) \in Nat /\ (s - wanted) * after \in Nat
    BY <1>2, <1>3, <1>5
  <2> QED BY <1>3, <2>1, <2>2
<1>7. after # 0
  BY <1>2, <1>3, <1>6
<1>8. d \in Nat \ {0} /\ wanted * d <= s * after
  <2>1. (s - wanted) * after = s * after - wanted * after
    BY <1>1, <1>5
  <2>2. wanted * d = r * wanted + wanted * after
    BY <1>1, <1>5
  <2>3. s * after \in Nat /\ wanted * after \in Nat
    BY <1>1, <1>5
  <2>4. d \in Nat \ {0}
    BY <1>1, <1>5
  <2> QED BY <1>3, <1>6, <2>1, <2>2, <2>3, <2>4
<1>9. s * after <= U128
  <2>1. s * after <= s * in /\ s * in \in Nat /\ s * after \in Nat
    BY <1>1, <1>4, <1>5, TimesMonotone
  <2>2. s * in * 1 <= s * in * BasisPoints /\ s * in * BasisPoints \in Nat
    BY <1>2, <2>1, TimesMonotone
  <2>3. s * in * BasisPoints <= U128 /\ U128 \in Nat
    BY WidthAssumption DEF Fits
  <2> QED BY <2>1, <2>2, <2>3
<1>10. d <= U128
  <2>1. 1 * d <= wanted * d
    BY <1>1, <1>8, TimesMonotone
  <2>2. 1 * d = d /\ wanted * d \in Nat /\ s * after \in Nat /\ U128 \in Nat
    BY <1>1, <1>5, <1>8, WidthAssumption
  <2> QED BY <1>8, <1>9, <2>1, <2>2
<1>11. out \in Nat /\ wanted <= out /\ out <= U64
  <2>1. s * after \in Nat
    BY <1>1, <1>5
  <2>2. wanted <= out
    BY <1>1, <1>8, <2>1, DivAtLeast
  <2>3. s * after <= s * d
    <3>1. after <= d
      BY <1>1, <1>5
    <3> QED BY <1>1, <1>5, <1>8, <3>1, TimesMonotone
  <2>4. out <= s /\ out \in Nat
    BY <1>1, <1>8, <2>1, <2>3, DivAtMost, DivBounds
  <2> QED BY <2>2, <2>4, WidthAssumption
<1>12. compute_bonding_curve_out(r, s, in, n, BasisPoints) = out
  <2>1. /\ r # 0 /\ s # 0 /\ in # 0 /\ BasisPoints # 0 /\ ~(n >= BasisPoints)
        /\ ~(s * after > U128) /\ ~(d > U128) /\ ~(out > U64)
    <3>1. s * after \in Nat /\ U128 \in Nat /\ U64 \in Nat
      BY <1>1, <1>5, WidthAssumption
    <3> QED BY <1>1, <1>2, <1>4, <1>8, <1>9, <1>10, <1>11, <3>1
  <2> QED BY <1>7, <2>1 DEF compute_bonding_curve_out, out, d, after, k
<1> QED BY <1>11, <1>12

\* An input computed for an output buys that output, in every state of a pool
\* (quote/math.rs compute_constant_product_in, compute_bonding_curve_in).
THEOREM ReverseCoversHolds == Spec => []ReverseCovers
<1>1. TradeInv => ReverseCovers
  <2> SUFFICES ASSUME TradeInv, pool.kind = "default", NEW side \in Sides, NEW amount \in Amounts
               PROVE  LET reserve_in == vault[side]
                          reserve_out == vault[Across(side)]
                          in == compute_constant_product_in(reserve_in, reserve_out, amount, pool.fee_bps)
                          bonding == compute_bonding_curve_in(reserve_in, reserve_out, amount, pool.fee_bps, BasisPoints)
                      IN  /\ in > 0 /\ Fits(reserve_out, in) =>
                                compute_constant_product_out(reserve_in, reserve_out, in, pool.fee_bps) >= amount
                          /\ bonding > 0 /\ Fits(reserve_out, bonding) =>
                                compute_bonding_curve_out(reserve_in, reserve_out, bonding, pool.fee_bps, BasisPoints) >= amount
    BY DEF ReverseCovers
  <2> DEFINE r == vault[side]
             s == vault[Across(side)]
             f == pool.fee_bps
             in == compute_constant_product_in(r, s, amount, f)
             bonding == compute_bonding_curve_in(r, s, amount, f, BasisPoints)
  <2>1. WellFormed(pool) /\ amount \in Nat /\ Across(side) \in Sides
    BY PoolsAssumption, TradesAssumption, WidthAssumption, BothSides DEF TradeInv
  <2>2. f \in Nat /\ pool.kind \in Products
    BY <2>1 DEF WellFormed, RatesOf, Products
  <2>3. r \in Nat /\ s \in Nat /\ s <= U64
    <3>1. vault \in [Sides -> Nat] /\ purse \in [Sides -> Nat]
      BY <2>2 DEF TradeInv, ByProduct, OnProduct, Solvent, Amount
    <3>2. s + purse[Across(side)] <= pool.vault[Across(side)] + Purse
      BY <2>1, <2>2 DEF TradeInv, ByProduct, OnProduct
    <3>3. pool.vault[Across(side)] + Purse <= U64
      BY <2>1 DEF WellFormed
    <3>4. pool.vault[Across(side)] + Purse \in Nat /\ U64 \in Nat
      BY <2>1, TradesAssumption, WidthAssumption DEF WellFormed, Amount
    <3> QED BY <2>1, <3>1, <3>2, <3>3, <3>4
  <2> HIDE DEF r, s, f
  <2>4. ASSUME in > 0, Fits(s, in) PROVE compute_constant_product_out(r, s, in, f) >= amount
    <3> HIDE DEF in
    <3>1. in = compute_constant_product_in(r, s, amount, f)
      BY DEF in
    <3>2. compute_constant_product_out(r, s, in, f) # 0
      BY <2>1, <2>2, <2>3, <2>4, <3>1, ReverseIsQuoted
    <3>3. in # 0
      BY <2>4
    <3>4. amount <= compute_constant_product_out(r, s, in, f)
      BY <2>1, <2>2, <2>3, <3>1, <3>2, <3>3, ReverseBuys
    <3>5. compute_constant_product_out(r, s, in, f) \in Nat
      <4>1. in \in Nat
        <5> DEFINE num == r * amount * BasisPoints
                   den == (s - amount) * (BasisPoints - f)
        <5>1. in = div_ceil(num, den) /\ amount < s /\ f < BasisPoints
          BY <2>1, <2>2, <2>3, <3>1, <3>3 DEF compute_constant_product_in, BasisPoints
        <5>2. num \in Nat /\ den \in Nat \ {0}
          <6>1. s - amount \in Nat \ {0} /\ BasisPoints - f \in Nat \ {0} /\ BasisPoints \in Nat
            BY <2>1, <2>2, <2>3, <5>1 DEF BasisPoints
          <6> QED BY <2>1, <2>3, <6>1
        <5> HIDE DEF num, den
        <5> QED BY <5>1, <5>2, DivCeilCovers
      <4> QED BY <2>2, <2>3, <3>2, <4>1, ProductKept
    <3> QED BY <2>1, <3>4, <3>5
  <2>5. ASSUME bonding > 0, Fits(s, bonding) PROVE compute_bonding_curve_out(r, s, bonding, f, BasisPoints) >= amount
    <3> HIDE DEF bonding
    <3>1. bonding = compute_bonding_curve_in(r, s, amount, f, BasisPoints)
      BY DEF bonding
    <3>2. amount <= compute_bonding_curve_out(r, s, bonding, f, BasisPoints)
      BY <2>1, <2>2, <2>3, <2>5, <3>1, BondingReverseBuys
    <3> QED BY <3>2
  <2> QED BY <2>4, <2>5 DEF r, s, f, in, bonding
<1> QED BY <1>1, TradesInvariant, PTL
=============================================================================
