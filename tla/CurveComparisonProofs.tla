----------------------- MODULE CurveComparisonProofs ------------------------
(***************************************************************************)
(* Two quotes of one pool compared, on top of CurveTradesProofs: one for   *)
(* more of the input, one from the bins in memory where the other has all  *)
(* bins, one at a later moment.  More in brings no less out; the bins      *)
(* loaded are enough; and a quote holds until it is used, since fees fall, *)
(* and with a lower fee no curve, segment or bin gives less (QuotesHold).  *)
(***************************************************************************)
EXTENDS CurveTradesProofs

-----------------------------------------------------------------------------
(* More in brings no less out                                               *)

\* A fee rounded up leaves no less of more, unless it is all of it and more.
LEMMA LessFee ==
    ASSUME NEW a \in Nat, NEW b \in Nat, a <= b, NEW num \in Nat, NEW den \in Nat \ {0},
           div_ceil(b * num, den) <= b
    PROVE  /\ div_ceil(a * num, den) \in Nat /\ div_ceil(b * num, den) \in Nat
           /\ a - div_ceil(a * num, den) <= b - div_ceil(b * num, den)
           /\ div_ceil(a * num, den) <= div_ceil(b * num, den)
<1> DEFINE fa == div_ceil(a * num, den)
           fb == div_ceil(b * num, den)
<1>1. a * num \in Nat /\ b * num \in Nat /\ a * num <= b * num
  BY TimesMonotone
<1>2. fa \in Nat /\ a * num <= fa * den /\ fb \in Nat /\ b * num <= fb * den
  BY <1>1, DivCeilCovers
<1>3. fa <= fb
  <2>1. fb * den \in Nat
    BY <1>2
  <2>2. a * num <= fb * den
    BY <1>1, <1>2, <2>1
  <2> HIDE DEF fb
  <2> QED BY <1>1, <1>2, <2>2, DivCeilAtMost
<1>4. fb <= fa + (b - a)
  <2>1. CASE num <= den
    <3>1. (b - a) * num <= (b - a) * den /\ b - a \in Nat
      BY <2>1, TimesMonotone
    <3>2. b * num = a * num + (b - a) * num
      OBVIOUS
    <3>3. (fa + (b - a)) * den = fa * den + (b - a) * den
      BY <1>2
    <3>4. b * num <= (fa + (b - a)) * den
      <4> DEFINE u == a * num
                 v == (b - a) * num
                 w == fa * den
                 z == (b - a) * den
      <4>1. u \in Int /\ v \in Int /\ w \in Int /\ z \in Int
        BY <1>2
      <4>2. u <= w /\ v <= z /\ b * num = u + v /\ (fa + (b - a)) * den = w + z
        BY <1>2, <3>1, <3>2, <3>3
      <4> HIDE DEF u, v, w, z
      <4> QED BY <4>1, <4>2
    <3>5. fa + (b - a) \in Nat
      BY <1>2
    <3> HIDE DEF fa
    <3> QED BY <1>1, <3>4, <3>5, DivCeilAtMost
  <2>2. CASE den < num
    <3>1. b = 0
      <4>1. SUFFICES ASSUME b # 0 PROVE FALSE
        OBVIOUS
      <4>2. fb * den <= b * den
        BY <1>2, TimesMonotone
      <4>3. b * den < b * num
        BY <2>2, <4>1
      <4>4. fb * den \in Nat /\ b * den \in Nat
        BY <1>2
      <4> QED BY <1>1, <1>2, <4>2, <4>3, <4>4
    <3> QED BY <1>2, <3>1
  <2> QED BY <2>1, <2>2
<1> HIDE DEF fa, fb
<1>5. a - fa <= b - fb
  BY <1>2, <1>4
<1> QED BY <1>2, <1>3, <1>5 DEF fa, fb

\* The curve pays no less for more, where it pays for more.
LEMMA ProductMonotone ==
    ASSUME NEW r \in Nat \ {0}, NEW s \in Nat, NEW x \in Nat, NEW y \in Nat, x <= y, ConstantProduct(r, s, y) # 0
    PROVE  /\ ConstantProduct(r, s, x) \in Nat /\ ConstantProduct(r, s, y) \in Nat
           /\ ConstantProduct(r, s, x) <= ConstantProduct(r, s, y)
<1>1. /\ ConstantProduct(r, s, x) # 0 => ConstantProduct(r, s, x) = Curve(r, s, x, 1)
      /\ ConstantProduct(r, s, y) = Curve(r, s, y, 1)
  BY DEF ConstantProduct, Curve
<1>2. ConstantProduct(r, s, y) \in Nat
  BY ConstantProductKeeps
<1>3. CASE ConstantProduct(r, s, x) = 0
  BY <1>2, <1>3
<1>4. CASE ConstantProduct(r, s, x) # 0
  <2>1. Curve(r, s, x, 1) <= Curve(r, s, y, 1)
    BY CurveMonotone
  <2>2. ConstantProduct(r, s, x) \in Nat
    BY <1>4, ConstantProductKeeps
  <2> QED BY <1>1, <1>2, <1>4, <2>1, <2>2
<1> QED BY <1>3, <1>4

\* Less the fee of an input, the curve pays no less for more.
LEMMA LessFeeMonotone ==
    ASSUME NEW r \in Nat \ {0}, NEW s \in Nat, NEW a \in Nat, NEW b \in Nat, a <= b,
           NEW num \in Nat, NEW den \in Nat \ {0},
           NEW x, x = a - div_ceil(a * num, den), ~(x < 0),
           NEW y, y = b - div_ceil(b * num, den), ~(y < 0),
           ConstantProduct(r, s, y) # 0
    PROVE  ConstantProduct(r, s, x) <= ConstantProduct(r, s, y)
<1>1. div_ceil(b * num, den) \in Nat /\ div_ceil(a * num, den) \in Nat
  <2>1. b * num \in Nat /\ a * num \in Nat
    OBVIOUS
  <2> QED BY <2>1, DivCeilCovers
<1>2. div_ceil(b * num, den) <= b
  BY <1>1
<1>3. x <= y
  BY <1>2, LessFee
<1>4. x \in Nat /\ y \in Nat
  BY <1>1
<1> QED BY <1>3, <1>4, ProductMonotone

\* What a mint withholds grows with the amount, and by less than the amount does.
LEMMA NetMonotone ==
    ASSUME WellFormed(pool), NEW side \in Sides, NEW a \in Nat, NEW b \in Nat, NEW more \in Nat, a <= b + more
    PROVE  net_of_transfer_fee(side, a) <= net_of_transfer_fee(side, b) + more
<1> DEFINE bps == pool.tax[side].bps
           most == pool.tax[side].maximum
           fee(x) == ceil_bps(x, bps)
<1>1. bps \in Nat /\ most \in Nat
  <2>1. pool.tax[side] \in [bps : Nat, maximum : Nat]
    BY DEF WellFormed
  <2> QED BY <2>1
<1>2. \A x \in Nat : fee(x) \in Nat /\ net_of_transfer_fee(side, x) = AtLeast(x - AtMost(fee(x), most), 0)
  BY <1>1, CeilBpsType DEF net_of_transfer_fee, transfer_fee
<1>3. BasisPoints \in Nat \ {0}
  BY DEF BasisPoints
<1> HIDE DEF bps, most
<1>4. CASE a <= b
  <2>1. fee(a) \in Nat /\ fee(b) \in Nat
    BY <1>2
  <2>2. fee(b) <= b => a - fee(a) <= b - fee(b)
    BY <1>1, <1>3, <1>4, LessFee DEF ceil_bps
  <2>3. b < fee(b) => a <= fee(a)
    <3>1. CASE bps <= BasisPoints
      <4>1. b * bps \in Nat /\ b * bps <= b * BasisPoints
        BY <1>1, <1>3, <3>1, TimesMonotone
      <4>2. fee(b) <= b
        BY <1>3, <4>1, DivCeilAtMost DEF ceil_bps
      <4> QED BY <2>1, <4>2
    <3>2. CASE BasisPoints < bps
      <4>1. a * BasisPoints <= a * bps /\ a * bps \in Nat /\ a * BasisPoints \in Nat
        BY <1>1, <1>3, <3>2, TimesMonotone
      <4>2. a * bps <= fee(a) * BasisPoints
        BY <1>3, <4>1, DivCeilCovers DEF ceil_bps
      <4>3. a * BasisPoints <= fee(a) * BasisPoints
        <5>1. fee(a) * BasisPoints \in Nat
          BY <1>3, <2>1
        <5> QED BY <4>1, <4>2, <5>1
      <4> QED BY <1>3, <2>1, <4>3, TimesCancel
    <3> QED BY <1>1, <1>3, <3>1, <3>2
  <2>4. net_of_transfer_fee(side, a) = AtLeast(a - AtMost(fee(a), most), 0)
        /\ net_of_transfer_fee(side, b) = AtLeast(b - AtMost(fee(b), most), 0)
    BY <1>2
  <2> HIDE DEF fee
  <2> QED BY <1>1, <1>4, <2>1, <2>2, <2>3, <2>4 DEF AtLeast, AtMost
<1>5. CASE b < a
  <2>1. fee(a) \in Nat /\ fee(b) \in Nat
    BY <1>2
  <2>2. fee(b) <= fee(a)
    <3>1. b * bps <= a * bps /\ b * bps \in Nat /\ a * bps \in Nat
      BY <1>1, <1>5, TimesMonotone
    <3>2. a * bps <= fee(a) * BasisPoints
      BY <1>3, <3>1, DivCeilCovers DEF ceil_bps
    <3>3. b * bps <= fee(a) * BasisPoints
      <4>1. fee(a) * BasisPoints \in Nat
        BY <1>3, <2>1
      <4> QED BY <3>1, <3>2, <4>1
    <3>4. fee(b) = div_ceil(b * bps, BasisPoints)
      BY DEF ceil_bps
    <3> HIDE DEF fee
    <3> QED BY <1>3, <2>1, <3>1, <3>3, <3>4, DivCeilAtMost
  <2>3. net_of_transfer_fee(side, a) = AtLeast(a - AtMost(fee(a), most), 0)
        /\ net_of_transfer_fee(side, b) = AtLeast(b - AtMost(fee(b), most), 0)
    BY <1>2
  <2> HIDE DEF fee
  <2> QED BY <1>1, <1>5, <2>1, <2>2, <2>3 DEF AtLeast, AtMost
<1> QED BY <1>4, <1>5

-----------------------------------------------------------------------------
(* The venues that round a fee once, and those that round each part         *)

\* Where the larger input is quoted, the smaller brings no more, but for some atoms.
Monotone(short, qa, qb) == qb.out # 0 => qa.out <= qb.out + short

\* The default branch: a fee taken off the input with the product.
LEMMA DefaultMonotone ==
    ASSUME NEW p, WellFormed(p), p.kind = "default", NEW v, Solvent(p, v), NEW side \in Sides,
           NEW a \in Nat, NEW b \in Nat, a <= b
    PROVE  Monotone(0, leg_out(p, v, side, a), leg_out(p, v, side, b))
<1> DEFINE r == v[side]
           s == v[Across(side)]
           out(x) == compute_constant_product_out(r, s, x, p.fee_bps)
<1>1. p.fee_bps \in Nat /\ r \in Nat /\ s \in Nat
  <2>1. p.kind \in Products
    BY DEF Products
  <2> QED BY <2>1, SolventReserves DEF WellFormed, RatesOf
<1> HIDE DEF r, s
<1>2. \A x \in Nat : out(x) \in Nat
  BY <1>1, ProductKept
<1>3. out(b) # 0 => out(a) <= out(b)
  BY <1>1, OutMonotone
<1> HIDE DEF out
<1>4. \A x \in Nat : leg_out(p, v, side, x).out = out(x)
  BY <1>2 DEF leg_out, Quoting, NoQuote, out, r, s
<1>5. out(a) \in Nat /\ out(b) \in Nat /\ leg_out(p, v, side, a).out = out(a) /\ leg_out(p, v, side, b).out = out(b)
  BY <1>2, <1>4
<1> QED BY <1>3, <1>5 DEF Monotone

\* A measured fee, rounded up once.
LEMMA ObservedMonotone ==
    ASSUME NEW p, WellFormed(p), p.kind = "observed", NEW v, Solvent(p, v), NEW side \in Sides,
           NEW a \in Nat, NEW b \in Nat, a <= b
    PROVE  Monotone(0, ObservedFee(p, v, side, a), ObservedFee(p, v, side, b))
<1> DEFINE r == v[side]
           s == v[Across(side)]
           x == a - ceil_ppm(a, p.ppm)
           y == b - ceil_ppm(b, p.ppm)
<1>1. p.ppm \in Nat /\ r \in Nat \ {0} /\ s \in Nat
  <2>1. p.kind \in Products
    BY DEF Products
  <2>2. r \in Nat /\ s \in Nat /\ Reserve(p, v, side) # 0
    BY <2>1, SolventReserves
  <2>3. Reserve(p, v, side) = r
    BY <2>2, NothingBeside
  <2>4. p.ppm \in Nat
    BY DEF WellFormed, RatesOf
  <2> QED BY <2>2, <2>3, <2>4
<1> SUFFICES ASSUME ObservedFee(p, v, side, b).out # 0
             PROVE  ObservedFee(p, v, side, a).out <= ObservedFee(p, v, side, b).out + 0
  BY DEF Monotone
<1>2. ~(y < 0) /\ ObservedFee(p, v, side, b).out = ConstantProduct(r, s, y) /\ ConstantProduct(r, s, y) # 0
  BY DEF ObservedFee, Quoting, NoQuote
<1>3. \/ ObservedFee(p, v, side, a).out = 0
      \/ ~(x < 0) /\ ObservedFee(p, v, side, a).out = ConstantProduct(r, s, x)
  BY DEF ObservedFee, Quoting, NoQuote
<1> HIDE DEF r, s
<1>4. ceil_ppm(b, p.ppm) \in Nat /\ ceil_ppm(a, p.ppm) \in Nat
  BY <1>1, CeilPpmType
<1>5. ConstantProduct(r, s, y) \in Nat
  <2>1. y \in Nat
    BY <1>2, <1>4
  <2> HIDE DEF y
  <2> QED BY <1>1, <1>2, <2>1, ConstantProductKeeps
<1>6. ~(x < 0) => ConstantProduct(r, s, x) <= ConstantProduct(r, s, y)
  <2>1. x = a - div_ceil(a * p.ppm, PPM) /\ y = b - div_ceil(b * p.ppm, PPM) /\ PPM \in Nat \ {0}
    BY DEF ceil_ppm, PPM
  <2> HIDE DEF x, y
  <2> QED BY <1>1, <1>2, <2>1, LessFeeMonotone
<1> HIDE DEF x, y
<1> QED BY <1>2, <1>3, <1>5, <1>6

\* Raydium V4: a fee rounded up once, on what is not owed.
LEMMA V4Monotone ==
    ASSUME NEW p, WellFormed(p), p.kind = "v4", NEW v, Solvent(p, v), NEW side \in Sides,
           NEW a \in Nat, NEW b \in Nat, a <= b
    PROVE  Monotone(0, RaydiumV4(p, v, side, a), RaydiumV4(p, v, side, b))
<1> DEFINE r == v[side] - p.accrued[side]
           s == v[Across(side)] - p.accrued[Across(side)]
           x == a - div_ceil(a * p.num, p.den)
           y == b - div_ceil(b * p.num, p.den)
<1>1. p.num \in Nat /\ p.den \in Nat /\ r \in Nat \ {0} /\ s \in Nat
  <2>1. p.kind \in Products
    BY DEF Products
  <2>2. Reserve(p, v, side) = r /\ Reserve(p, v, Across(side)) = s
    BY <2>1, SolventReserves, OwedBeside
  <2> QED BY <2>1, <2>2, SolventReserves DEF WellFormed, RatesOf
<1> SUFFICES ASSUME RaydiumV4(p, v, side, b).out # 0
             PROVE  RaydiumV4(p, v, side, a).out <= RaydiumV4(p, v, side, b).out + 0
  BY DEF Monotone
<1>2. /\ p.den # 0 /\ ~(div_ceil(b * p.num, p.den) > b)
      /\ RaydiumV4(p, v, side, b).out = ConstantProduct(r, s, y) /\ ConstantProduct(r, s, y) # 0
  BY DEF RaydiumV4, Quoting, NoQuote
<1>3. \/ RaydiumV4(p, v, side, a).out = 0
      \/ ~(div_ceil(a * p.num, p.den) > a) /\ RaydiumV4(p, v, side, a).out = ConstantProduct(r, s, x)
  BY DEF RaydiumV4, Quoting, NoQuote
<1> HIDE DEF r, s
<1>4. div_ceil(b * p.num, p.den) \in Nat /\ div_ceil(a * p.num, p.den) \in Nat
  <2>1. b * p.num \in Nat /\ a * p.num \in Nat /\ p.den \in Nat \ {0}
    BY <1>1, <1>2
  <2> QED BY <2>1, DivCeilCovers
<1>5. ConstantProduct(r, s, y) \in Nat
  <2>1. y \in Nat
    BY <1>2, <1>4
  <2> HIDE DEF y
  <2> QED BY <1>1, <1>2, <2>1, ConstantProductKeeps
<1>6. ~(x < 0) => ConstantProduct(r, s, x) <= ConstantProduct(r, s, y)
  <2>1. x = a - div_ceil(a * p.num, p.den) /\ y = b - div_ceil(b * p.num, p.den) /\ ~(y < 0) /\ p.den \in Nat \ {0}
    BY <1>1, <1>2, <1>4
  <2> HIDE DEF x, y
  <2> QED BY <1>1, <1>2, <2>1, LessFeeMonotone
<1>7. ~(div_ceil(a * p.num, p.den) > a) => ~(x < 0)
  BY <1>4
<1> HIDE DEF x, y
<1> QED BY <1>2, <1>3, <1>5, <1>6, <1>7

\* The curve, whatever it is given, pays a natural number.
LEMMA ConstantProductType ==
    ASSUME NEW r \in Nat, NEW s \in Nat, NEW x \in Nat
    PROVE  ConstantProduct(r, s, x) \in Nat
<1>1. CASE ConstantProduct(r, s, x) = 0
  BY <1>1
<1>2. CASE ConstantProduct(r, s, x) # 0
  BY <1>2, ConstantProductKeeps
<1> QED BY <1>1, <1>2

\* More of one reserve brings no less, whether it pays anything or not.
LEMMA GrossMonotone ==
    ASSUME NEW r \in Nat \ {0}, NEW s \in Nat, NEW a \in Nat, NEW b \in Nat, a <= b,
           NEW ga, ga = ConstantProduct(r, s, a), NEW gb, gb = ConstantProduct(r, s, b), gb # 0
    PROVE  ga \in Nat /\ gb \in Nat /\ ga <= gb
BY ProductMonotone

\* The fees of two parts of an amount cover the fee of the whole, and each is less
\* than an atom more than its part.
Apart(a, d, num, den) ==
    /\ div_ceil(a * num, den) \in Nat /\ div_ceil((a + d) * num, den) \in Nat /\ div_ceil(d * num, den) \in Nat
    /\ div_ceil((a + d) * num, den) <= div_ceil(a * num, den) + div_ceil(d * num, den)
    /\ div_ceil(d * num, den) * den <= d * num + den - 1

\* They do, at any rate.
LEMMA CeilParts ==
    ASSUME NEW a \in Nat, NEW d \in Nat, NEW num \in Nat, NEW den \in Nat \ {0}
    PROVE  Apart(a, d, num, den)
<1> DEFINE b == a + d
           fa == div_ceil(a * num, den)
           fd == div_ceil(d * num, den)
<1>1. a * num \in Nat /\ d * num \in Nat /\ b * num \in Nat /\ b * num = a * num + d * num
  OBVIOUS
<1>2. fa \in Nat /\ a * num <= fa * den /\ fd \in Nat /\ d * num <= fd * den
  BY <1>1, DivCeilCovers
<1>3. fd * den <= d * num + den - 1
  <2> DEFINE n == d * num + den - 1
  <2>1. n \in Nat
    BY <1>1
  <2>2. (n \div den) * den <= n
    <3> HIDE DEF n
    <3> QED BY <2>1, DivBounds
  <2> QED BY <2>2 DEF div_ceil
<1> HIDE DEF fa, fd, b
<1>4. b * num <= (fa + fd) * den
  <2>1. (fa + fd) * den = fa * den + fd * den /\ fa * den \in Nat /\ fd * den \in Nat
    BY <1>2
  <2> QED BY <1>1, <1>2, <2>1
<1>5. fa + fd \in Nat
  BY <1>2
<1>6. div_ceil(b * num, den) \in Nat /\ div_ceil(b * num, den) <= fa + fd
  BY <1>1, <1>4, <1>5, DivCeilAtMost
<1> QED BY <1>2, <1>3, <1>6 DEF fa, fd, b, Apart

\* What three fees, each rounded up, can cost of the output: one atom for each but
\* the first, and none for a fee that is not charged.
LEMMA PartsMonotone ==
    ASSUME NEW rates, rates.lp \in Nat, rates.protocol \in Nat, rates.creator \in Nat,
           NEW a \in Nat, NEW b \in Nat, a <= b, pamm_fees(rates, b) <= b,
           NEW short \in Nat, short = IF rates.lp = 0 THEN 1 ELSE 2
    PROVE  /\ pamm_fees(rates, a) \in Nat /\ pamm_fees(rates, b) \in Nat
           /\ a - pamm_fees(rates, a) <= b - pamm_fees(rates, b) + short
<1> DEFINE d == b - a
           l == rates.lp
           m == rates.protocol
           n == rates.creator
           la == div_ceil(a * l, BasisPoints)
           ma == div_ceil(a * m, BasisPoints)
           na == div_ceil(a * n, BasisPoints)
           lb == div_ceil(b * l, BasisPoints)
           mb == div_ceil(b * m, BasisPoints)
           nb == div_ceil(b * n, BasisPoints)
           ld == div_ceil(d * l, BasisPoints)
           md == div_ceil(d * m, BasisPoints)
           nd == div_ceil(d * n, BasisPoints)
<1>1. BasisPoints \in Nat \ {0}
  BY DEF BasisPoints
<1>2. d \in Nat /\ b = a + d /\ l \in Nat /\ m \in Nat /\ n \in Nat
  OBVIOUS
<1>3. pamm_fees(rates, a) = la + ma + na /\ pamm_fees(rates, b) = lb + mb + nb
  BY DEF pamm_fees, ceil_bps
<1> HIDE DEF d, l, m, n
<1> DEFINE ceil(x, rate) == div_ceil(x * rate, BasisPoints)
<1>13. ASSUME NEW rate \in Nat
       PROVE  /\ ceil(a, rate) \in Nat /\ ceil(b, rate) \in Nat /\ ceil(d, rate) \in Nat
              /\ ceil(b, rate) <= ceil(a, rate) + ceil(d, rate)
              /\ ceil(d, rate) * BasisPoints <= d * rate + BasisPoints - 1
  <2>1. Apart(a, d, rate, BasisPoints)
    BY <1>1, <1>2, CeilParts
  <2> QED BY <1>2, <2>1 DEF Apart
<1>14. /\ la = ceil(a, l) /\ lb = ceil(b, l) /\ ld = ceil(d, l)
       /\ ma = ceil(a, m) /\ mb = ceil(b, m) /\ md = ceil(d, m)
       /\ na = ceil(a, n) /\ nb = ceil(b, n) /\ nd = ceil(d, n)
  OBVIOUS
<1> HIDE DEF ceil, la, ma, na, lb, mb, nb, ld, md, nd
<1>4. /\ la \in Nat /\ lb \in Nat /\ ld \in Nat /\ lb <= la + ld
      /\ ld * BasisPoints <= d * l + BasisPoints - 1
  BY <1>2, <1>13, <1>14
<1>5. /\ ma \in Nat /\ mb \in Nat /\ md \in Nat /\ mb <= ma + md
      /\ md * BasisPoints <= d * m + BasisPoints - 1
  BY <1>2, <1>13, <1>14
<1>6. /\ na \in Nat /\ nb \in Nat /\ nd \in Nat /\ nb <= na + nd
      /\ nd * BasisPoints <= d * n + BasisPoints - 1
  BY <1>2, <1>13, <1>14
<1>7. b * l <= lb * BasisPoints /\ b * m <= mb * BasisPoints /\ b * n <= nb * BasisPoints
  <2>1. b * l \in Nat /\ b * m \in Nat /\ b * n \in Nat
    BY <1>2
  <2> QED BY <1>1, <2>1, DivCeilCovers DEF lb, mb, nb
<1>8. l = 0 => ld = 0
  <2>1. l = 0 => d * l <= 0 * BasisPoints /\ d * l \in Nat /\ 0 \in Nat
    BY <1>1, <1>2
  <2>2. l = 0 => ld <= 0
    BY <1>1, <2>1, DivCeilAtMost DEF ld
  <2> QED BY <1>4, <2>2
<1>9. lb + mb + nb <= b /\ l + m + n \in Nat
  BY <1>2, <1>3 DEF lb, mb, nb
<1>10. ld + md + nd <= d + short
  <2>1. CASE b = 0
    <3>1. d = 0
      BY <1>2, <2>1
    <3>2. d * l = 0 /\ d * m = 0 /\ d * n = 0
      BY <1>2, <3>1
    <3>3. ld * BasisPoints <= BasisPoints - 1 /\ md * BasisPoints <= BasisPoints - 1 /\ nd * BasisPoints <= BasisPoints - 1
      BY <1>1, <1>4, <1>5, <1>6, <3>2
    <3>4. \A x \in Nat : x * BasisPoints <= BasisPoints - 1 => x = 0
      <4> SUFFICES ASSUME NEW x \in Nat, x # 0 PROVE ~(x * BasisPoints <= BasisPoints - 1)
        OBVIOUS
      <4>1. 1 * BasisPoints <= x * BasisPoints /\ x * BasisPoints \in Nat
        BY <1>1, TimesMonotone
      <4> QED BY <1>1, <4>1
    <3>5. ld = 0 /\ md = 0 /\ nd = 0
      BY <1>4, <1>5, <1>6, <3>3, <3>4
    <3> QED BY <3>1, <3>5
  <2>2. CASE b # 0
    <3>1. l + m + n <= BasisPoints
      <4>1. b * (l + m + n) = b * l + b * m + b * n /\ b * l \in Nat /\ b * m \in Nat /\ b * n \in Nat
        BY <1>2
      <4>2. /\ (lb + mb + nb) * BasisPoints = lb * BasisPoints + mb * BasisPoints + nb * BasisPoints
            /\ lb * BasisPoints \in Nat /\ mb * BasisPoints \in Nat /\ nb * BasisPoints \in Nat
        BY <1>1, <1>4, <1>5, <1>6
      <4>3. (lb + mb + nb) * BasisPoints <= b * BasisPoints /\ b * BasisPoints \in Nat
        BY <1>1, <1>4, <1>5, <1>6, <1>9, TimesMonotone
      <4>4. b * (l + m + n) <= b * BasisPoints
        <5> DEFINE u == b * l + b * m + b * n
                   v == lb * BasisPoints + mb * BasisPoints + nb * BasisPoints
        <5>1. u <= v
          BY <1>7, <4>1, <4>2
        <5>2. u \in Nat /\ v \in Nat /\ u = b * (l + m + n) /\ v <= b * BasisPoints
          BY <4>1, <4>2, <4>3
        <5> HIDE DEF u, v
        <5> QED BY <4>3, <5>1, <5>2
      <4>5. (l + m + n) * b <= BasisPoints * b
        BY <1>1, <1>9, <4>4
      <4> QED BY <1>1, <1>9, <2>2, <4>5, TimesCancel
    <3>2. d * l + d * m + d * n <= d * BasisPoints
      <4>1. d * (l + m + n) <= d * BasisPoints
        BY <1>1, <1>2, <1>9, <3>1, TimesMonotone
      <4>2. d * (l + m + n) = d * l + d * m + d * n
        BY <1>2
      <4> QED BY <4>1, <4>2
    <3>3. /\ d * l \in Nat /\ d * m \in Nat /\ d * n \in Nat /\ d * BasisPoints \in Nat
          /\ (ld + md + nd) * BasisPoints = ld * BasisPoints + md * BasisPoints + nd * BasisPoints
          /\ ld * BasisPoints \in Nat /\ md * BasisPoints \in Nat /\ nd * BasisPoints \in Nat
          /\ ld + md + nd \in Nat
      BY <1>1, <1>2, <1>4, <1>5, <1>6
    <3>4. \A x, k \in Nat : x * BasisPoints <= d * BasisPoints + k * BasisPoints + BasisPoints - 1 => x <= d + k
      <4> SUFFICES ASSUME NEW x \in Nat, NEW k \in Nat, d + k + 1 <= x
                   PROVE  ~(x * BasisPoints <= d * BasisPoints + k * BasisPoints + BasisPoints - 1)
        BY <1>2
      <4>1. (d + k + 1) * BasisPoints <= x * BasisPoints /\ x * BasisPoints \in Nat
        BY <1>1, <1>2, TimesMonotone
      <4>2. (d + k + 1) * BasisPoints = d * BasisPoints + k * BasisPoints + BasisPoints
            /\ k * BasisPoints \in Nat
        BY <1>1, <1>2
      <4> QED BY <1>1, <3>3, <4>1, <4>2
    <3>5. CASE l = 0
      <4>1. ld = 0 /\ ld * BasisPoints = 0 /\ short = 1
        BY <1>1, <1>8, <3>5 DEF l
      <4>2. (ld + md + nd) * BasisPoints <= d * BasisPoints + 1 * BasisPoints + BasisPoints - 1
        BY <1>1, <1>5, <1>6, <3>2, <3>3, <4>1
      <4> QED BY <3>3, <3>4, <4>1, <4>2
    <3>6. CASE l # 0
      <4>1. short = 2
        BY <3>6 DEF l
      <4>2. (ld + md + nd) * BasisPoints <= d * BasisPoints + 2 * BasisPoints + BasisPoints - 1
        BY <1>1, <1>4, <1>5, <1>6, <3>2, <3>3
      <4> QED BY <3>3, <3>4, <4>1, <4>2
    <3> QED BY <3>5, <3>6
  <2> QED BY <2>1, <2>2
<1>11. la + ma + na \in Nat /\ lb + mb + nb \in Nat
  BY <1>4, <1>5, <1>6
<1>12. a - (la + ma + na) <= b - (lb + mb + nb) + short
  BY <1>2, <1>4, <1>5, <1>6, <1>10
<1> QED BY <1>3, <1>11, <1>12 DEF la, ma, na, lb, mb, nb

\* More in brings no less out of a launch, its fee rounded once.
LEMMA LaunchLabMonotone ==
    ASSUME NEW p, WellFormed(p), p.kind = "launchlab", NEW v, Solvent(p, v), NEW side \in Sides,
           NEW a \in Nat, NEW b \in Nat, a <= b
    PROVE  Monotone(0, LaunchLab(p, v, side, a), LaunchLab(p, v, side, b))
<1> DEFINE base == p.virtual_base - real_base(p, v)
           other == p.virtual_quote + v.quote
           ppm == p.protocol_ppm + p.platform_ppm + p.creator_ppm
<1>1. p.kind \in Products /\ "base" \in Sides /\ "quote" \in Sides
  BY DEF Products, Sides
<1>2. ppm \in Nat
  <2>1. p.protocol_ppm \in Nat /\ p.platform_ppm \in Nat /\ p.creator_ppm \in Nat
    BY DEF WellFormed, RatesOf
  <2> QED BY <2>1
<1>3. base \in Nat \ {0} /\ other \in Nat \ {0}
  <2>1. Beside(p, "quote") = p.virtual_quote /\ Beside(p, "base") = p.virtual_base - p.total_base_sell
    BY DEF Beside
  <2>2. v.base \in Nat /\ v.quote \in Nat /\ p.virtual_base \in Nat /\ p.virtual_quote \in Nat /\ p.total_base_sell \in Nat
    BY <1>1, SolventReserves DEF WellFormed
  <2>3. Reserve(p, v, "quote") = other /\ Reserve(p, v, "base") = base
    BY <2>1, <2>2 DEF Reserve, real_base
  <2> QED BY <1>1, <2>3, SolventReserves
<1>4. \A y : total_fee(p, y) = div_ceil(y * ppm, PPM)
  BY DEF total_fee, ceil_ppm
<1>5. PPM \in Nat \ {0}
  BY DEF PPM
<1> HIDE DEF ppm
<1>6. \A y \in Nat : total_fee(p, y) \in Nat
  <2> SUFFICES ASSUME NEW y \in Nat PROVE total_fee(p, y) \in Nat
    OBVIOUS
  <2>1. y * ppm \in Nat
    BY <1>2
  <2> QED BY <1>4, <1>5, <2>1, DivCeilCovers
<1> SUFFICES ASSUME LaunchLab(p, v, side, b).out # 0
             PROVE  LaunchLab(p, v, side, a).out <= LaunchLab(p, v, side, b).out + 0
  BY DEF Monotone
<1>7. CASE side = "quote"
  <2> DEFINE x == a - total_fee(p, a)
             y == b - total_fee(p, b)
             outx == ConstantProduct(other, base, x)
             outy == ConstantProduct(other, base, y)
  <2>1. LaunchLab(p, v, side, b) = LaunchLabBuy(p, v, b)
    BY <1>7 DEF LaunchLab, NoQuote
  <2>2. ~(y < 0) /\ LaunchLab(p, v, side, b).out = outy /\ outy # 0
    BY <2>1 DEF LaunchLabBuy, Quoting, NoQuote
  <2>3. \/ LaunchLab(p, v, side, a).out = 0
        \/ ~(x < 0) /\ LaunchLab(p, v, side, a).out = outx
    BY <1>7 DEF LaunchLab, LaunchLabBuy, Quoting, NoQuote
  <2> HIDE DEF base, other
  <2>4. x = a - div_ceil(a * ppm, PPM) /\ y = b - div_ceil(b * ppm, PPM)
    BY <1>4
  <2>5. y \in Nat
    BY <1>6, <2>2
  <2> HIDE DEF x, y
  <2>6. ~(x < 0) => outx <= outy
    BY <1>2, <1>3, <1>5, <2>2, <2>4, LessFeeMonotone
  <2>7. outy \in Nat
    BY <1>3, <2>5, ConstantProductType
  <2> HIDE DEF outx, outy
  <2> QED BY <2>2, <2>3, <2>6, <2>7
<1>8. CASE side = "base"
  <2> DEFINE ga == ConstantProduct(base, other, a)
             gb == ConstantProduct(base, other, b)
  <2>1. LaunchLab(p, v, side, b).out = gb - total_fee(p, gb) /\ gb - total_fee(p, gb) > 0
    BY <1>8 DEF LaunchLab, LaunchLabSell, Quoting, NoQuote
  <2>2. \/ LaunchLab(p, v, side, a).out = 0
        \/ LaunchLab(p, v, side, a).out = ga - total_fee(p, ga)
    BY <1>8 DEF LaunchLab, LaunchLabSell, Quoting, NoQuote
  <2> HIDE DEF base, other
  <2>3. ga \in Nat /\ gb \in Nat
    BY <1>3, ConstantProductType
  <2>4. gb # 0
    <3>1. SUFFICES ASSUME gb = 0 PROVE FALSE
      OBVIOUS
    <3>2. total_fee(p, gb) \in Nat
      BY <1>6, <2>3
    <3> HIDE DEF gb
    <3> QED BY <2>1, <3>1, <3>2
  <2>5. ga <= gb
    BY <1>3, <2>4, GrossMonotone
  <2> HIDE DEF ga, gb
  <2>6. total_fee(p, ga) \in Nat /\ total_fee(p, gb) \in Nat
    BY <1>6, <2>3
  <2>7. ga - total_fee(p, ga) <= gb - total_fee(p, gb)
    <3>1. total_fee(p, gb) <= gb
      BY <2>1, <2>3, <2>6
    <3>2. div_ceil(gb * ppm, PPM) <= gb
      BY <1>4, <3>1
    <3>3. ga - div_ceil(ga * ppm, PPM) <= gb - div_ceil(gb * ppm, PPM)
      BY <1>2, <1>5, <2>3, <2>5, <3>2, LessFee
    <3> QED BY <1>4, <3>3
  <2> QED BY <2>1, <2>2, <2>3, <2>6, <2>7
<1> QED BY <1>7, <1>8 DEF Sides

\* What a larger amount buys holds what a smaller one does, with its fees.
LEMMA FeeBaseMonotone ==
    ASSUME NEW rates, TotalRate(rates) \in Nat, \A x \in Nat : pamm_fees(rates, x) \in Nat,
           NEW a \in Nat, NEW b \in Nat, a <= b
    PROVE  FeeBase(rates, a) <= FeeBase(rates, b)
<1> DEFINE most(x) == (x * BasisPoints) \div (BasisPoints + TotalRate(rates))
           fits(x) == {0} \cup {y \in 1..most(x) : y + pamm_fees(rates, y) <= x}
<1>1. BasisPoints + TotalRate(rates) \in Nat \ {0} /\ a * BasisPoints \in Nat /\ b * BasisPoints \in Nat
      /\ a * BasisPoints <= b * BasisPoints
  <2>1. BasisPoints \in Nat \ {0}
    BY DEF BasisPoints
  <2> QED BY <2>1, TimesMonotone
<1>2. most(a) \in Nat /\ most(b) \in Nat /\ most(a) <= most(b)
  <2> DEFINE total == BasisPoints + TotalRate(rates)
             n == a * BasisPoints
             m == b * BasisPoints
             q == n \div total
  <2>1. total \in Nat \ {0} /\ n \in Nat /\ m \in Nat /\ n <= m
    BY <1>1
  <2> HIDE DEF total, n, m
  <2>2. q \in Nat /\ q * total <= n /\ m \div total \in Nat
    BY <2>1, DivBounds
  <2> HIDE DEF q
  <2>3. q * total <= m
    <3>1. q * total \in Nat
      BY <2>1, <2>2
    <3> QED BY <2>1, <2>2, <3>1
  <2>4. q <= m \div total
    BY <2>1, <2>2, <2>3, DivAtLeast
  <2> QED BY <2>2, <2>4 DEF q, n, m, total
<1> HIDE DEF most
<1>3. fits(a) \in SUBSET (0..most(a)) /\ fits(a) # {} /\ fits(b) \in SUBSET (0..most(b)) /\ fits(b) # {}
  BY <1>2
<1>4. fits(a) \subseteq fits(b)
  <2> SUFFICES ASSUME NEW y \in fits(a), y # 0 PROVE y \in 1..most(b) /\ y + pamm_fees(rates, y) <= b
    OBVIOUS
  <2>1. y \in 1..most(a) /\ y \in Nat /\ y + pamm_fees(rates, y) <= a
    BY <1>2
  <2>2. pamm_fees(rates, y) \in Nat
    BY <2>1
  <2> HIDE DEF fits
  <2> QED BY <1>2, <2>1, <2>2
<1> DEFINE c(x) == CHOOSE y \in fits(x) : \A z \in fits(x) : z <= y
<1>5. FeeBase(rates, a) = c(a) /\ FeeBase(rates, b) = c(b)
  BY DEF FeeBase, most
<1> HIDE DEF fits
<1>6. c(a) \in fits(a) /\ \A y \in fits(b) : y <= c(b)
  BY <1>2, <1>3, GreatestChosen
<1> HIDE DEF c
<1> QED BY <1>4, <1>5, <1>6

\* More in brings no less out of a pump.fun pool, but for the atoms its separately
\* rounded fees of a sale can take.
LEMMA PumpMonotone ==
    ASSUME NEW p, WellFormed(p), p.kind \in {"pump_curve", "pump_amm"}, NEW v, Solvent(p, v), NEW side \in Sides,
           NEW a \in Nat, NEW b \in Nat, a <= b,
           NEW short, short = IF p.kind = "pump_curve" THEN 1 ELSE 2
    PROVE  Monotone(short, PumpFun(p, v, side, a), PumpFun(p, v, side, b))
<1> DEFINE base == v.base + p.virtual_base
           other == v.quote + p.virtual_quote
           rates == PumpRates(p, base, other)
<1>1. p.kind \in Products /\ "base" \in Sides /\ "quote" \in Sides
  BY DEF Products, Sides
<1>2. /\ rates.lp \in Nat /\ rates.protocol \in Nat /\ rates.creator \in Nat
      /\ p.kind = "pump_curve" => rates.lp = 0
      /\ TotalRate(rates) \in Nat
      /\ \A y \in Nat : pamm_fees(rates, y) \in Nat
  <2> HIDE DEF base, other
  <2> QED BY PumpFeesType
<1>3. base \in Nat \ {0} /\ other \in Nat \ {0}
  <2>1. Reserve(p, v, "quote") = other /\ Reserve(p, v, "base") = base
    BY DEF Reserve, Beside
  <2> QED BY <1>1, <2>1, SolventReserves
<1>4. short \in Nat
  OBVIOUS
<1> SUFFICES ASSUME PumpFun(p, v, side, b).out # 0
             PROVE  PumpFun(p, v, side, a).out <= PumpFun(p, v, side, b).out + short
  BY DEF Monotone
<1>5. CASE side = "quote"
  <2> DEFINE x == FeeBase(rates, a)
             y == FeeBase(rates, b)
             outx == ConstantProduct(other, base, x - 1)
             outy == ConstantProduct(other, base, y - 1)
  <2>1. ~(y <= 1) /\ PumpFun(p, v, side, b).out = outy /\ outy # 0
    BY <1>5 DEF PumpFun, PumpBuy, Quoting, NoQuote
  <2>2. \/ PumpFun(p, v, side, a).out = 0
        \/ ~(x <= 1) /\ PumpFun(p, v, side, a).out = outx
    BY <1>5 DEF PumpFun, PumpBuy, Quoting, NoQuote
  <2> HIDE DEF base, other, rates
  <2>3. x \in Nat /\ y \in Nat
    BY <1>2, FeeBaseBounds
  <2>4. x <= y
    BY <1>2, FeeBaseMonotone
  <2> HIDE DEF x, y
  <2>5. ~(x <= 1) => x - 1 \in Nat /\ y - 1 \in Nat /\ x - 1 <= y - 1
    BY <2>3, <2>4
  <2>6. ~(x <= 1) => outx \in Nat /\ outx <= outy
    BY <1>3, <2>1, <2>5, GrossMonotone
  <2>7. outy \in Nat
    <3>1. y - 1 \in Nat
      BY <2>1, <2>3
    <3> QED BY <1>3, <3>1, ConstantProductType
  <2> HIDE DEF outx, outy
  <2> QED BY <1>4, <2>1, <2>2, <2>6, <2>7
<1>6. CASE side = "base"
  <2> DEFINE ga == ConstantProduct(base, other, a)
             gb == ConstantProduct(base, other, b)
  <2>1. PumpFun(p, v, side, b).out = gb - pamm_fees(rates, gb) /\ gb - pamm_fees(rates, gb) > 0
    BY <1>6 DEF PumpFun, PumpSell, Quoting, NoQuote
  <2>2. \/ PumpFun(p, v, side, a).out = 0
        \/ PumpFun(p, v, side, a).out = ga - pamm_fees(rates, ga)
    BY <1>6 DEF PumpFun, PumpSell, Quoting, NoQuote
  <2> HIDE DEF base, other, rates
  <2>3. ga \in Nat /\ gb \in Nat
    BY <1>3, ConstantProductType
  <2> DEFINE fa == pamm_fees(rates, ga)
             fb == pamm_fees(rates, gb)
  <2>4. fa \in Nat /\ fb \in Nat
    BY <1>2, <2>3
  <2>5. ga <= gb
    <3>1. SUFFICES ASSUME gb # 0 PROVE ga <= gb
      <4> HIDE DEF ga, gb
      <4> QED BY <2>1, <2>3, <2>4
    <3> QED BY <1>3, <3>1, GrossMonotone
  <2> HIDE DEF ga, gb
  <2>6. ga - fa <= gb - fb + (IF rates.lp = 0 THEN 1 ELSE 2)
    <3>1. fb <= gb
      BY <2>1, <2>3, <2>4
    <3> QED BY <1>2, <2>3, <2>5, <3>1, PartsMonotone
  <2> HIDE DEF fa, fb
  <2>7. (IF rates.lp = 0 THEN 1 ELSE 2) <= short
    BY <1>2
  <2>8. PumpFun(p, v, side, b).out = gb - fb /\ gb - fb > 0
        /\ (PumpFun(p, v, side, a).out = 0 \/ PumpFun(p, v, side, a).out = ga - fa)
    BY <2>1, <2>2 DEF fa, fb
  <2>9. ga - fa <= gb - fb + short
    BY <1>4, <2>3, <2>4, <2>6, <2>7
  <2> QED BY <1>4, <2>3, <2>4, <2>8, <2>9
<1> QED BY <1>5, <1>6 DEF Sides

\* The venues that round a fee once, or each part of it by an atom.
RoundedOnce == {"default", "observed", "v4", "launchlab", "pump_curve", "pump_amm"}

\* So for each of them.
LEMMA OnVaultsMonotone ==
    ASSUME WellFormed(pool), pool.kind \in RoundedOnce, Solvent(pool, vault), NEW side \in Sides,
           NEW a \in Nat, NEW b \in Nat, a <= b
    PROVE  Monotone(AtomsShort, OnVaults(side, a), OnVaults(side, b))
<1>1. CASE pool.kind = "default"
  BY <1>1, DefaultMonotone DEF OnVaults, AtomsShort
<1>2. CASE pool.kind = "observed"
  BY <1>2, ObservedMonotone DEF OnVaults, AtomsShort
<1>3. CASE pool.kind = "v4"
  BY <1>3, V4Monotone DEF OnVaults, AtomsShort
<1>4. CASE pool.kind = "launchlab"
  BY <1>4, LaunchLabMonotone DEF OnVaults, AtomsShort
<1>5. CASE pool.kind \in {"pump_curve", "pump_amm"}
  BY <1>5, PumpMonotone DEF OnVaults, AtomsShort
<1> QED BY <1>1, <1>2, <1>3, <1>4, <1>5 DEF RoundedOnce

\* What a pool of those venues is quoted at never falls as the input grows, by more
\* than the atoms its fees are rounded by: an invariant of every sequence of trades, so
\* that the amounts a split tries may be compared (quote/router.rs
\* evaluate_two_hop_routes, "Output is monotone in input").
THEOREM MoreBringsNoLess == Spec => [](pool.kind \in RoundedOnce => NearlyMonotone)
<1>1. TradeInv => (pool.kind \in RoundedOnce => NearlyMonotone)
  <2> SUFFICES ASSUME TradeInv, pool.kind \in RoundedOnce,
                      NEW i \in DOMAIN pool.times, NEW side \in Sides, NEW a \in Amounts, NEW b \in Amounts,
                      a + TokensMore <= b, quote(i, side, b).out > 0
               PROVE  quote(i, side, a).out <= quote(i, side, b).out + AtomsShort
    BY DEF NearlyMonotone
  <2>1. WellFormed(pool) /\ pool.kind \in Products /\ Solvent(pool, vault) /\ Across(side) \in Sides
    BY PoolsAssumption DEF TradeInv, OnProduct, ByProduct, RoundedOnce, Products, Across, Sides
  <2>2. a \in Nat /\ b \in Nat /\ a <= b
    <3>1. TokensMore = 0
      BY DEF TokensMore, RoundsRate, RoundedOnce
    <3>2. a \in Nat /\ b \in Nat
      BY TradesAssumption
    <3> QED BY <3>1, <3>2
  <2>3. AtomsShort \in Nat
    BY DEF AtomsShort
  <2> DEFINE x == net_of_transfer_fee(side, a)
             y == net_of_transfer_fee(side, b)
             qa == OnVaults(side, x)
             qb == OnVaults(side, y)
  <2>4. x \in Nat /\ y \in Nat
    BY <2>1, <2>2, NetBounds
  <2>5. x <= y
    <3>1. 0 \in Nat /\ a <= b + 0
      BY <2>2
    <3>2. x <= y + 0
      BY <2>1, <2>2, <3>1, NetMonotone
    <3> HIDE DEF x, y
    <3> QED BY <2>4, <3>2
  <2>6. quote(i, side, a).out = net_of_transfer_fee(Across(side), qa.out)
        /\ quote(i, side, b).out = net_of_transfer_fee(Across(side), qb.out)
    BY <2>1, <2>2, PricedQuote DEF quote
  <2> HIDE DEF x, y
  <2>7. Monotone(AtomsShort, qa, qb)
    BY <2>1, <2>4, <2>5, OnVaultsMonotone
  <2>8. net_of_transfer_fee(Across(side), 0) = 0
    <3>1. 0 \in Nat
      OBVIOUS
    <3>2. net_of_transfer_fee(Across(side), 0) \in Nat /\ net_of_transfer_fee(Across(side), 0) <= 0
      BY <2>1, <3>1, NetBounds
    <3> QED BY <3>2
  <2>9. qb.out # 0
    BY <2>6, <2>8
  <2>10. qb.out \in Nat /\ qa.out \in Nat
    <3>1. \A z \in Nat : OnVaults(side, z).out # 0 => OnVaults(side, z).out \in Nat
      BY <2>1, OnVaultsFair DEF FairOn
    <3> QED BY <2>4, <3>1
  <2> HIDE DEF qa, qb
  <2>11. qa.out <= qb.out + AtomsShort
    BY <2>7, <2>9 DEF Monotone
  <2> QED BY <2>1, <2>3, <2>6, <2>10, <2>11, NetMonotone
<1> QED BY <1>1, TradesInvariant, PTL

-----------------------------------------------------------------------------
(* The venues that take two fees off the input, each rounded               *)

\* A fee of at most a quarter takes at most a quarter of an amount, rounded up.
LEMMA QuarterFee ==
    ASSUME NEW d \in Nat, NEW num \in Nat, NEW den \in Nat \ {0}, 4 * num <= den,
           NEW f \in Nat, f * den <= d * num + den - 1
    PROVE  4 * f <= d + 3
<1>1. SUFFICES ASSUME d + 4 <= 4 * f PROVE FALSE
  OBVIOUS
<1>2. (d + 4) * den <= (4 * f) * den /\ (d + 4) * den = d * den + 4 * den
  BY <1>1, TimesMonotone
<1>3. d * (4 * num) <= d * den /\ d * (4 * num) = 4 * (d * num)
  <2>1. 4 * num \in Nat
    OBVIOUS
  <2> QED BY <2>1, TimesMonotone
<1>4. (4 * f) * den = 4 * (f * den) /\ f * den \in Nat /\ d * num \in Nat /\ d * den \in Nat
  OBVIOUS
<1> DEFINE u == f * den
           v == d * num
           w == d * den
<1>5. u <= v + den - 1 /\ w + 4 * den <= 4 * u /\ 4 * v <= w /\ u \in Nat /\ v \in Nat /\ w \in Nat
  BY <1>2, <1>3, <1>4
<1> HIDE DEF u, v, w
<1> QED BY <1>5

\* What a fee rounded down, but never to nothing, grows by.
LEMMA FlooredParts ==
    ASSUME NEW a \in Nat, NEW d \in Nat, NEW num \in Nat, NEW den \in Nat, 4 * num <= den
    PROVE  \E f \in Nat :
              /\ 4 * f <= d + 3
              /\ FlooredFee(a, num, den) \in Nat /\ FlooredFee(a + d, num, den) \in Nat
              /\ FlooredFee(a + d, num, den) <= FlooredFee(a, num, den) + f
<1>1. CASE num = 0 \/ den = 0
  <2>1. FlooredFee(a, num, den) = 0 /\ FlooredFee(a + d, num, den) = 0
    BY <1>1 DEF FlooredFee
  <2>2. 0 \in Nat /\ 4 * 0 <= d + 3 /\ 0 <= 0 + 0
    OBVIOUS
  <2> QED BY <2>1, <2>2
<1>2. CASE num # 0 /\ den # 0
  <2> DEFINE x == a * num
             y == (a + d) * num
             z == d * num
             qx == x \div den
             qy == y \div den
             f == div_ceil(z, den)
  <2>1. x \in Nat /\ y \in Nat /\ z \in Nat /\ y = x + z /\ den \in Nat \ {0}
    BY <1>2
  <2>2. Apart(0, d, num, den)
    BY <2>1, CeilParts
  <2>3. f \in Nat /\ f * den <= z + den - 1
    BY <2>2 DEF Apart
  <2>4. 4 * f <= d + 3
    <3>1. f * den <= d * num + den - 1
      BY <2>3
    <3> HIDE DEF f
    <3> QED BY <2>1, <2>3, <3>1, QuarterFee
  <2>5. z <= f * den
    <3> HIDE DEF z
    <3> QED BY <2>1, DivCeilCovers
  <2> HIDE DEF x, y, z, f
  <2>6. qx \in Nat /\ x < qx * den + den /\ qy \in Nat /\ qy * den <= y
    BY <2>1, DivBounds
  <2>7. FlooredFee(a, num, den) = AtLeast(qx, 1) /\ FlooredFee(a + d, num, den) = AtLeast(qy, 1)
    BY <1>2 DEF FlooredFee, x, y, qx, qy
  <2> HIDE DEF qx, qy
  <2>8. qy <= qx + f
    <3>1. SUFFICES ASSUME qx + f + 1 <= qy PROVE FALSE
      BY <2>3, <2>6
    <3>2. (qx + f + 1) * den <= qy * den /\ (qx + f + 1) * den = qx * den + f * den + den
      BY <2>1, <2>3, <2>6, <3>1, TimesMonotone
    <3>3. qx * den \in Nat /\ f * den \in Nat /\ qy * den \in Nat
      BY <2>1, <2>3, <2>6
    <3> QED BY <2>1, <2>5, <2>6, <3>2, <3>3
  <2>9. AtLeast(qx, 1) \in Nat /\ AtLeast(qy, 1) \in Nat /\ AtLeast(qy, 1) <= AtLeast(qx, 1) + f
    BY <2>3, <2>6, <2>8 DEF AtLeast
  <2> QED BY <2>3, <2>4, <2>7, <2>9
<1> QED BY <1>1, <1>2

\* What a fee rounded up grows by.
LEMMA CeiledParts ==
    ASSUME NEW a \in Nat, NEW d \in Nat, NEW ppm \in Nat, 4 * ppm <= PPM
    PROVE  \E f \in Nat :
              /\ 4 * f <= d + 3
              /\ ceil_ppm(a, ppm) \in Nat /\ ceil_ppm(a + d, ppm) \in Nat
              /\ ceil_ppm(a + d, ppm) <= ceil_ppm(a, ppm) + f
<1>1. PPM \in Nat \ {0}
  BY DEF PPM
<1>2. Apart(a, d, ppm, PPM)
  BY <1>1, CeilParts
<1> DEFINE f == div_ceil(d * ppm, PPM)
<1>3. f \in Nat /\ f * PPM <= d * ppm + PPM - 1
  BY <1>2 DEF Apart
<1>4. /\ ceil_ppm(a, ppm) \in Nat /\ ceil_ppm(a + d, ppm) \in Nat
      /\ ceil_ppm(a + d, ppm) <= ceil_ppm(a, ppm) + f
  BY <1>2 DEF Apart, ceil_ppm
<1> HIDE DEF f
<1>5. 4 * f <= d + 3
  BY <1>1, <1>3, QuarterFee
<1> QED BY <1>3, <1>4, <1>5

\* Two tokens more pay for what both fees grow by.
LEMMA TwoFeesFit ==
    ASSUME NEW d \in Nat, 2 <= d, NEW f \in Nat, NEW g \in Nat, 4 * f <= d + 3, 4 * g <= d + 3
    PROVE  f + g <= d
OBVIOUS

\* A pool that takes two fees of at most a quarter off the input, of mints that
\* withhold nothing.
SmallFees(p) ==
    /\ p.kind \in {"cpmm", "spl"}
    /\ p.kind = "cpmm" => 4 * p.trade_ppm <= PPM /\ 4 * p.creator_ppm <= PPM
    /\ p.kind = "spl" => 4 * p.num <= p.den /\ 4 * p.owner_num <= p.owner_den
    /\ \A s \in Sides : p.tax[s].bps = 0

\* Dooar and FluxBeam: two fees rounded down, each at least one token.
LEMMA SplMonotone ==
    ASSUME NEW p, WellFormed(p), p.kind = "spl", SmallFees(p), NEW v, Solvent(p, v), NEW side \in Sides,
           NEW a \in Nat, NEW b \in Nat, a + 2 <= b
    PROVE  Monotone(0, SplSwap(p, v, side, a), SplSwap(p, v, side, b))
<1> DEFINE r == v[side]
           s == v[Across(side)]
           d == b - a
           fa == FlooredFee(a, p.num, p.den)
           ga == FlooredFee(a, p.owner_num, p.owner_den)
           fb == FlooredFee(b, p.num, p.den)
           gb == FlooredFee(b, p.owner_num, p.owner_den)
           x == a - fa - ga
           y == b - fb - gb
           outx == ConstantProduct(r, s, x)
           outy == ConstantProduct(r, s, y)
<1>1. p.kind \in Products
  BY DEF Products
<1>2. r \in Nat \ {0} /\ s \in Nat
  <2>1. r \in Nat /\ s \in Nat /\ Reserve(p, v, side) # 0
    BY <1>1, SolventReserves
  <2>2. Reserve(p, v, side) = r
    BY <2>1, NothingBeside
  <2> QED BY <2>1, <2>2
<1>3. /\ p.num \in Nat /\ p.den \in Nat /\ p.owner_num \in Nat /\ p.owner_den \in Nat
      /\ 4 * p.num <= p.den /\ 4 * p.owner_num <= p.owner_den
  BY DEF WellFormed, RatesOf, SmallFees
<1>4. d \in Nat /\ 2 <= d /\ a + d = b
  OBVIOUS
<1> HIDE DEF d
<1>5. PICK f \in Nat : 4 * f <= d + 3 /\ fa \in Nat /\ fb \in Nat /\ fb <= fa + f
  BY <1>3, <1>4, FlooredParts
<1>6. PICK g \in Nat : 4 * g <= d + 3 /\ ga \in Nat /\ gb \in Nat /\ gb <= ga + g
  BY <1>3, <1>4, FlooredParts
<1>7. f + g <= d
  BY <1>4, <1>5, <1>6, TwoFeesFit
<1> SUFFICES ASSUME SplSwap(p, v, side, b).out # 0
             PROVE  SplSwap(p, v, side, a).out <= SplSwap(p, v, side, b).out + 0
  BY DEF Monotone
<1>8. ~(y < 0) /\ SplSwap(p, v, side, b).out = outy /\ outy # 0
  BY DEF SplSwap, Quoting, NoQuote
<1>9. SplSwap(p, v, side, a).out = 0 \/ (~(x < 0) /\ SplSwap(p, v, side, a).out = outx)
  BY DEF SplSwap, Quoting, NoQuote
<1> HIDE DEF r, s, fa, ga, fb, gb
<1>10. y \in Nat /\ (~(x < 0) => x \in Nat /\ x <= y)
  BY <1>4, <1>5, <1>6, <1>7, <1>8
<1> HIDE DEF x, y
<1>11. outy \in Nat /\ (~(x < 0) => outx \in Nat /\ outx <= outy)
  BY <1>2, <1>8, <1>10, GrossMonotone, ConstantProductType
<1> HIDE DEF outx, outy
<1> QED BY <1>8, <1>9, <1>11

\* Raydium CPMM: two fees of the input, or one of each side.
LEMMA CpmmMonotone ==
    ASSUME NEW p, WellFormed(p), p.kind = "cpmm", SmallFees(p), NEW v, Solvent(p, v), NEW side \in Sides,
           NEW a \in Nat, NEW b \in Nat, a + 2 <= b
    PROVE  Monotone(0, RaydiumCpmm(p, v, side, a), RaydiumCpmm(p, v, side, b))
<1> DEFINE r == AtLeast(v[side] - p.accrued[side], 0)
           s == AtLeast(v[Across(side)] - p.accrued[Across(side)], 0)
           on == CASE p.creator_fee_on = "both" -> TRUE
                   [] p.creator_fee_on = "base" -> side = "base"
                   [] p.creator_fee_on = "quote" -> side = "quote"
           d == b - a
           fee(z) == ceil_ppm(z, p.trade_ppm) + (IF on THEN ceil_ppm(z, p.creator_ppm) ELSE 0)
           gross(z) == ConstantProduct(r, s, z - fee(z))
           less(z) == IF on THEN 0 ELSE ceil_ppm(gross(z), p.creator_ppm)
           out(z) == gross(z) - less(z)
<1>1. p.kind \in Products
  BY DEF Products
<1>2. r \in Nat \ {0} /\ s \in Nat
  <2>1. Reserve(p, v, side) = v[side] - p.accrued[side]
        /\ Reserve(p, v, Across(side)) = v[Across(side)] - p.accrued[Across(side)]
    BY <1>1, SolventReserves, OwedBeside
  <2>2. Reserve(p, v, side) \in Nat \ {0} /\ Reserve(p, v, Across(side)) \in Nat \ {0}
    BY <1>1, SolventReserves
  <2> QED BY <2>1, <2>2 DEF AtLeast
<1>3. p.trade_ppm \in Nat /\ p.creator_ppm \in Nat /\ 4 * p.trade_ppm <= PPM /\ 4 * p.creator_ppm <= PPM
  BY DEF WellFormed, RatesOf, SmallFees
<1>4. d \in Nat /\ 2 <= d /\ a + d = b
  OBVIOUS
<1>5. RaydiumCpmm(p, v, side, b).out # 0 => ~(fee(b) > b) /\ out(b) > 0 /\ RaydiumCpmm(p, v, side, b).out = out(b)
  BY DEF RaydiumCpmm, Quoting, NoQuote
<1>6. \/ RaydiumCpmm(p, v, side, a).out = 0
      \/ ~(fee(a) > a) /\ RaydiumCpmm(p, v, side, a).out = out(a)
  BY DEF RaydiumCpmm, Quoting, NoQuote
<1> HIDE DEF r, s, on, d
<1>7. PICK f \in Nat : /\ 4 * f <= d + 3
                       /\ ceil_ppm(a, p.trade_ppm) \in Nat /\ ceil_ppm(b, p.trade_ppm) \in Nat
                       /\ ceil_ppm(b, p.trade_ppm) <= ceil_ppm(a, p.trade_ppm) + f
  BY <1>3, <1>4, CeiledParts
<1>8. PICK g \in Nat : /\ 4 * g <= d + 3
                       /\ ceil_ppm(a, p.creator_ppm) \in Nat /\ ceil_ppm(b, p.creator_ppm) \in Nat
                       /\ ceil_ppm(b, p.creator_ppm) <= ceil_ppm(a, p.creator_ppm) + g
  BY <1>3, <1>4, CeiledParts
<1>9. f + g <= d
  BY <1>4, <1>7, <1>8, TwoFeesFit
<1> SUFFICES ASSUME RaydiumCpmm(p, v, side, b).out # 0
             PROVE  RaydiumCpmm(p, v, side, a).out <= RaydiumCpmm(p, v, side, b).out + 0
  BY DEF Monotone
<1>10. fee(a) \in Nat /\ fee(b) \in Nat /\ fee(b) <= fee(a) + d
  BY <1>4, <1>7, <1>8, <1>9
<1> HIDE DEF fee
<1> DEFINE x == a - fee(a)
           y == b - fee(b)
<1>11. y \in Nat /\ (~(fee(a) > a) => x \in Nat /\ x <= y)
  BY <1>4, <1>5, <1>10
<1> DEFINE ga == gross(a)
           gb == gross(b)
<1>12. ga = ConstantProduct(r, s, x) /\ gb = ConstantProduct(r, s, y)
  OBVIOUS
<1>13. out(b) = gb - less(b) /\ out(a) = ga - less(a)
       /\ less(b) = (IF on THEN 0 ELSE ceil_ppm(gb, p.creator_ppm))
       /\ less(a) = (IF on THEN 0 ELSE ceil_ppm(ga, p.creator_ppm))
  OBVIOUS
<1> HIDE DEF x, y, ga, gb, less, out
<1>14. gb \in Nat /\ (~(fee(a) > a) => ga \in Nat)
  BY <1>2, <1>11, <1>12, ConstantProductType
<1>15. \A z \in Nat : ceil_ppm(z, p.creator_ppm) \in Nat
  BY <1>3, CeilPpmType
<1>16. gb # 0 /\ less(b) \in Nat /\ less(b) <= gb
  <2>1. less(b) \in Nat
    BY <1>13, <1>14, <1>15
  <2> QED BY <1>5, <1>13, <1>14, <2>1
<1>17. ~(fee(a) > a) => ga <= gb
  BY <1>2, <1>11, <1>12, <1>16, GrossMonotone
<1>18. ~(fee(a) > a) => out(a) \in Int /\ out(a) <= out(b)
  <2> SUFFICES ASSUME ~(fee(a) > a) PROVE out(a) \in Int /\ out(a) <= out(b)
    OBVIOUS
  <2>1. CASE on
    BY <1>13, <1>14, <1>17, <2>1
  <2>2. CASE ~on
    <3>1. PPM \in Nat \ {0}
      BY DEF PPM
    <3>2. \A z : ceil_ppm(z, p.creator_ppm) = div_ceil(z * p.creator_ppm, PPM)
      BY DEF ceil_ppm
    <3>3. div_ceil(gb * p.creator_ppm, PPM) <= gb
      BY <1>13, <1>16, <2>2, <3>2
    <3>4. ga - div_ceil(ga * p.creator_ppm, PPM) <= gb - div_ceil(gb * p.creator_ppm, PPM)
          /\ div_ceil(ga * p.creator_ppm, PPM) \in Nat
      BY <1>3, <1>14, <1>17, <3>1, <3>3, LessFee
    <3> QED BY <1>13, <1>14, <2>2, <3>2, <3>4
  <2> QED BY <2>1, <2>2
<1>19. out(b) \in Nat
  BY <1>13, <1>14, <1>16
<1> QED BY <1>5, <1>6, <1>18, <1>19

\* The quotes of a pool with two small fees do not fall as the input grows by two
\* tokens or more, whatever was traded before (quote/raydium_cpmm.rs, pool/types.rs
\* SplSwapFees::fee).
THEOREM TwoMoreBringNoLess == Spec => [](SmallFees(pool) => NearlyMonotone)
<1>1. TradeInv => (SmallFees(pool) => NearlyMonotone)
  <2> SUFFICES ASSUME TradeInv, SmallFees(pool),
                      NEW i \in DOMAIN pool.times, NEW side \in Sides, NEW a \in Amounts, NEW b \in Amounts,
                      a + TokensMore <= b, quote(i, side, b).out > 0
               PROVE  quote(i, side, a).out <= quote(i, side, b).out + AtomsShort
    BY DEF NearlyMonotone
  <2>1. WellFormed(pool) /\ pool.kind \in Products /\ Solvent(pool, vault) /\ Across(side) \in Sides
    BY PoolsAssumption DEF TradeInv, OnProduct, ByProduct, SmallFees, Products, Across, Sides
  <2>2. a \in Nat /\ b \in Nat /\ a + 2 <= b
    <3>1. TokensMore = 2
      BY DEF TokensMore, SmallFees
    <3>2. a \in Nat /\ b \in Nat
      BY TradesAssumption
    <3> QED BY <3>1, <3>2
  <2>3. AtomsShort = 0
    BY DEF AtomsShort, SmallFees
  <2>4. ASSUME NEW s \in Sides, NEW z \in Nat PROVE net_of_transfer_fee(s, z) = z
    <3>1. pool.tax[s].bps = 0 /\ pool.tax[s].maximum \in Nat
      <4>1. pool.tax[s] \in [bps : Nat, maximum : Nat]
        BY <2>1 DEF WellFormed
      <4> QED BY <4>1 DEF SmallFees
    <3>2. ceil_bps(z, 0) = 0
      BY DEF ceil_bps, div_ceil, BasisPoints
    <3>3. transfer_fee(s, z) = 0
      BY <3>1, <3>2 DEF transfer_fee, AtMost
    <3> QED BY <3>3 DEF net_of_transfer_fee, AtLeast
  <2> DEFINE qa == OnVaults(side, a)
             qb == OnVaults(side, b)
  <2>5. quote(i, side, a).out = net_of_transfer_fee(Across(side), qa.out)
        /\ quote(i, side, b).out = net_of_transfer_fee(Across(side), qb.out)
    <3>1. net_of_transfer_fee(side, a) = a /\ net_of_transfer_fee(side, b) = b
      BY <2>2, <2>4
    <3> QED BY <2>1, <2>2, <3>1, PricedQuote DEF quote
  <2>6. Monotone(0, qa, qb)
    <3>1. CASE pool.kind = "cpmm"
      BY <2>1, <2>2, <3>1, CpmmMonotone DEF OnVaults
    <3>2. CASE pool.kind = "spl"
      BY <2>1, <2>2, <3>2, SplMonotone DEF OnVaults
    <3> QED BY <3>1, <3>2 DEF SmallFees
  <2>7. qb.out \in Nat /\ qa.out \in Nat
    <3>1. \A z \in Nat : OnVaults(side, z).out # 0 => OnVaults(side, z).out \in Nat
      BY <2>1, OnVaultsFair DEF FairOn
    <3> QED BY <2>2, <3>1
  <2> HIDE DEF qa, qb
  <2>8. quote(i, side, a).out = qa.out /\ quote(i, side, b).out = qb.out
    BY <2>1, <2>4, <2>5, <2>7
  <2> QED BY <2>3, <2>6, <2>7, <2>8 DEF Monotone
<1> QED BY <1>1, TradesInvariant, PTL

-----------------------------------------------------------------------------
(* The arrays in memory                                                     *)

\* The liquid arrays of a walk from one up to another.
UpTo(liquid, from, a, side) == {b \in Beyond(liquid, from, side) : IF side = "base" THEN a <= b ELSE b <= a}

\* Where a walk from an array has got: it has entered as many as lie up to the one
\* it is in, or has just left.
Position(data, from, side, w) ==
    /\ w.arrays <= SwapArrays
    /\ \/ w.array = {} /\ w.arrays = 0 /\ array_index(w.pair.active) = from
       \/ \E a \in Beyond(data.liquid, from, side) :
            /\ w.array = {a}
            /\ Cardinality(UpTo(data.liquid, from, a, side)) <= w.arrays
            /\ array_index(w.pair.active) \in {a, IF side = "base" THEN a - 1 ELSE a + 1}
            /\ ~(needs_extension(from) /\ ~data.extension)

\* Two walks that differ only in the bins they have, and agree on those.
Alike(m, w) ==
    /\ m.status = w.status /\ m.pair = w.pair /\ m.left = w.left /\ m.out = w.out /\ m.paid = w.paid
    /\ m.kept = w.kept /\ m.arrays = w.arrays /\ m.array = w.array
    /\ DOMAIN m.bins \subseteq DOMAIN w.bins /\ \A b \in DOMAIN m.bins : m.bins[b] = w.bins[b]

\* The arrays a swap may need are in memory if they are anywhere.
Suffice(data, active, side, S, D) ==
    \A a \in arrays_for_swap(data, active, side) : BinsOf(a) \subseteq D => BinsOf(a) \subseteq S

\* The array that is nearest beyond those entered is one of those a swap may need.
LEMMA NearestNeeded ==
    ASSUME NEW liquid \in SUBSET Int, IsFiniteSet(liquid), NEW extension \in BOOLEAN, NEW active \in Int, NEW side \in Sides,
           NEW data, data = [liquid |-> liquid, extension |-> extension],
           NEW from, from = array_index(active), ~(needs_extension(from) /\ ~data.extension),
           NEW here \in Int, NEW ahead, ahead = Beyond(liquid, here, side), ahead # {},
           NEW entered, entered = Beyond(liquid, from, side) \ ahead, ahead \subseteq Beyond(liquid, from, side),
           NEW n \in Nat, Cardinality(entered) <= n, n < SwapArrays
    PROVE  /\ Nearest(ahead, side) \in arrays_for_swap(data, active, side)
           /\ Cardinality(UpTo(liquid, from, Nearest(ahead, side), side)) <= n + 1
<1> DEFINE a == Nearest(ahead, side)
           all == Beyond(liquid, from, side)
           closer == {b \in all : Distance(b, from) < Distance(a, from)}
<1>1. from \in Int
  BY InItsArray
<1>2. a \in ahead /\ \A b \in ahead : IF side = "base" THEN b <= a ELSE a <= b
  <2>1. Nearest(ahead, side) \in ahead
    BY NearestChosen
  <2>2. \E c \in ahead : \A b \in ahead : IF side = "base" THEN b <= c ELSE c <= b
    <3> DEFINE far(c) == IF side = "base" THEN here - c ELSE c - here
               S == {far(c) : c \in ahead}
    <3>1. ASSUME NEW c \in ahead PROVE c \in Int /\ far(c) \in Nat
      BY DEF Beyond
    <3>2. S \in SUBSET Nat /\ S # {}
      BY <3>1
    <3>3. PICK k \in S : \A j \in S : k <= j
      <4> HIDE DEF S
      <4> QED BY <3>2, LeastNatural
    <3>4. PICK c \in ahead : k = far(c)
      BY <3>3
    <3>5. ASSUME NEW b \in ahead PROVE IF side = "base" THEN b <= c ELSE c <= b
      <4>1. far(c) <= far(b)
        BY <3>3, <3>4
      <4> QED BY <3>1, <4>1
    <3> QED BY <3>4, <3>5
  <2> QED BY <2>1, <2>2 DEF Nearest
<1> HIDE DEF a
<1>3. \A b \in all : b \in Int /\ (IF side = "base" THEN b <= from ELSE from <= b)
  BY DEF Beyond
<1>4. closer \subseteq entered
  <2> SUFFICES ASSUME NEW b \in all, Distance(b, from) < Distance(a, from), b \in ahead PROVE FALSE
    OBVIOUS
  <2>1. IF side = "base" THEN b <= a ELSE a <= b
    BY <1>2
  <2> QED BY <1>1, <1>2, <1>3, <2>1 DEF Distance
<1>5. IsFiniteSet(entered)
  <2>1. entered \subseteq liquid
    BY DEF Beyond
  <2> QED BY <2>1, FS_Subset
<1>6. Cardinality(entered) \in Nat
  BY <1>5, FS_CardinalityType
<1>7. IsFiniteSet(closer) /\ Cardinality(closer) \in Nat /\ Cardinality(closer) <= Cardinality(entered)
  BY <1>4, <1>5, FS_Subset, FS_CardinalityType
<1>8. SwapArrays \in Nat
  BY DlmmAssumption
<1>9. a \in arrays_for_swap(data, active, side)
  <2>1. Cardinality(closer) < SwapArrays
    BY <1>6, <1>7, <1>8
  <2>2. a \in all
    BY <1>2
  <2>3. data.liquid = liquid
    OBVIOUS
  <2> QED BY <2>1, <2>2, <2>3 DEF arrays_for_swap
<1>10. UpTo(liquid, from, a, side) \subseteq entered \cup {a}
  <2> SUFFICES ASSUME NEW b \in UpTo(liquid, from, a, side), b \notin entered PROVE b = a
    OBVIOUS
  <2>1. b \in ahead /\ b \in Int /\ a \in Int /\ (IF side = "base" THEN a <= b ELSE b <= a)
    BY <1>2, <1>3 DEF UpTo
  <2> QED BY <1>2, <2>1
<1>11. IsFiniteSet(entered \cup {a}) /\ Cardinality(entered \cup {a}) <= Cardinality(entered) + 1
  <2>1. a \notin entered
    BY <1>2
  <2>2. IsFiniteSet(entered \cup {a}) /\ Cardinality(entered \cup {a}) = Cardinality(entered) + 1
    BY <1>5, <2>1, FS_AddElement
  <2> QED BY <1>6, <2>2
<1>12. Cardinality(UpTo(liquid, from, a, side)) <= Cardinality(entered \cup {a})
  BY <1>10, <1>11, FS_Subset
<1>13. Cardinality(UpTo(liquid, from, a, side)) \in Nat /\ Cardinality(entered \cup {a}) \in Nat
  BY <1>10, <1>11, FS_Subset, FS_CardinalityType
<1> QED BY <1>6, <1>9, <1>11, <1>12, <1>13 DEF a

\* Beyond an array that has been entered lie the arrays not yet entered.
LEMMA BeyondEntered ==
    ASSUME NEW liquid \in SUBSET Int, NEW from \in Int, NEW side \in Sides, NEW a \in Beyond(liquid, from, side),
           NEW here, here = IF side = "base" THEN a - 1 ELSE a + 1
    PROVE  /\ Beyond(liquid, here, side) \subseteq Beyond(liquid, from, side)
           /\ Beyond(liquid, from, side) \ Beyond(liquid, here, side) = UpTo(liquid, from, a, side)
<1>1. a \in Int /\ (IF side = "base" THEN a <= from ELSE from <= a)
  BY DEF Beyond
<1>2. \A b \in Int : side = "base" => (b <= here <=> ~(a <= b))
  BY <1>1
<1>3. \A b \in Int : side # "base" => (b >= here <=> ~(b <= a))
  BY <1>1
<1>4. \A b \in Beyond(liquid, here, side) : b \in Beyond(liquid, from, side)
  BY <1>1 DEF Beyond
<1> QED BY <1>2, <1>3, <1>4 DEF Beyond, UpTo

\* A later start is that of a later array.
LEMMA ArraysRise ==
    ASSUME NEW i \in Int, NEW j \in Int, i * BinsPerArray < j * BinsPerArray
    PROVE  i < j
<1>1. BinsPerArray \in Nat \ {0}
  BY DlmmAssumption
<1> SUFFICES ASSUME j <= i PROVE j * BinsPerArray <= i * BinsPerArray
  BY <1>1
<1>2. (i - j) * BinsPerArray >= 0
  BY <1>1
<1> QED BY <1>1, <1>2

\* A bin belongs to one array.
LEMMA OneArray ==
    ASSUME NEW array \in Int, NEW b \in BinsOf(array)
    PROVE  b \in Int /\ array_index(b) = array
<1>1. b \in Int /\ BinsPerArray \in Nat \ {0}
  BY DlmmAssumption DEF BinsOf
<1> DEFINE q == array_index(b)
<1>2. q \in Int /\ b \in BinsOf(q)
  BY <1>1, InItsArray
<1> HIDE DEF q
<1>3. q * BinsPerArray <= b /\ b <= (q + 1) * BinsPerArray - 1
  BY <1>1, <1>2 DEF BinsOf
<1>4. array * BinsPerArray <= b /\ b <= (array + 1) * BinsPerArray - 1
  BY <1>1 DEF BinsOf
<1>5. /\ q * BinsPerArray \in Int /\ (q + 1) * BinsPerArray \in Int
      /\ array * BinsPerArray \in Int /\ (array + 1) * BinsPerArray \in Int
  BY <1>1, <1>2
<1>6. q * BinsPerArray < (array + 1) * BinsPerArray /\ array * BinsPerArray < (q + 1) * BinsPerArray
  BY <1>1, <1>3, <1>4, <1>5
<1>7. q < array + 1 /\ array < q + 1
  BY <1>2, <1>6, ArraysRise
<1>8. q = array
  BY <1>2, <1>7
<1> QED BY <1>1, <1>8 DEF q

\* Two walks alike enter the same array, and have it or stop.
LEMMA EnterAlike ==
    ASSUME NEW data \in [liquid : SUBSET Int, extension : BOOLEAN], IsFiniteSet(data.liquid), NEW side \in Sides,
           NEW active \in Int, NEW from, from = array_index(active),
           NEW S, NEW D, Suffice(data, active, side, S, D), S \subseteq D,
           NEW m \in Walks(S), NEW w \in Walks(D), Alike(m, w), Position(data, from, side, w),
           NEW x, x = Entered(data, m, side), NEW y, y = Entered(data, w, side)
    PROVE  /\ Alike(x, y) /\ Position(data, from, side, y)
           /\ DOMAIN x.bins = S /\ DOMAIN y.bins = D
           /\ y.status = "walking" => y.array = {array_index(y.pair.active)}
<1> DEFINE now == array_index(w.pair.active)
           ahead == Beyond(data.liquid, now, side)
           array == Nearest(ahead, side)
           edge == IF side = "base" THEN (array + 1) * BinsPerArray - 1 ELSE array * BinsPerArray
           stops == (needs_extension(now) /\ ~data.extension) \/ ahead = {} \/ w.arrays = SwapArrays
           liquid == data.liquid
           extension == data.extension
<1>1. /\ m.bins \in [S -> LadderBin] /\ w.bins \in [D -> LadderBin] /\ w.pair \in PairState /\ w.arrays \in Nat
      /\ DOMAIN m.bins = S /\ DOMAIN w.bins = D
  BY DEF Walks
<1>2. w.pair.active \in Int
  BY <1>1, DlmmAssumption DEF PairState, BinIds
<1>3. now \in Int /\ w.pair.active \in BinsOf(now) /\ from \in Int
  BY <1>2, InItsArray
<1>4. /\ m.status = w.status /\ m.pair = w.pair /\ m.left = w.left /\ m.out = w.out /\ m.paid = w.paid
      /\ m.kept = w.kept /\ m.arrays = w.arrays /\ m.array = w.array
      /\ \A b \in S : m.bins[b] = w.bins[b]
  BY <1>1 DEF Alike
<1>5. CASE now \in w.array
  <2>1. x = m /\ y = w
    BY <1>4, <1>5 DEF Entered
  <2>2. w.array = {now}
    BY <1>5 DEF Position
  <2> QED BY <1>1, <2>1, <2>2
<1>6. CASE now \notin w.array /\ stops
  <2>1. x = [m EXCEPT !.status = "exhausted"] /\ y = [w EXCEPT !.status = "exhausted"]
    BY <1>4, <1>6 DEF Entered, Enter
  <2>2. /\ x.status = "exhausted" /\ x.pair = m.pair /\ x.left = m.left /\ x.out = m.out /\ x.paid = m.paid /\ x.kept = m.kept
        /\ x.arrays = m.arrays /\ x.array = m.array /\ x.bins = m.bins
    BY <2>1 DEF Walks
  <2>3. /\ y.status = "exhausted" /\ y.pair = w.pair /\ y.left = w.left /\ y.out = w.out /\ y.paid = w.paid /\ y.kept = w.kept
        /\ y.arrays = w.arrays /\ y.array = w.array /\ y.bins = w.bins
    BY <2>1 DEF Walks
  <2>4. Alike(x, y)
    BY <1>1, <1>4, <2>2, <2>3 DEF Alike
  <2>5. Position(data, from, side, y)
    BY <2>3 DEF Position
  <2> QED BY <1>1, <2>2, <2>3, <2>4, <2>5
<1>7. CASE now \notin w.array /\ ~stops
  <2>1. data = [liquid |-> liquid, extension |-> extension] /\ liquid \in SUBSET Int /\ extension \in BOOLEAN
    OBVIOUS
  <2>2. ahead # {} /\ w.arrays < SwapArrays
    BY <1>1, <1>7, DlmmAssumption DEF Position
  <2>3. /\ ~(needs_extension(from) /\ ~data.extension)
        /\ ahead \subseteq Beyond(liquid, from, side)
        /\ Cardinality(Beyond(liquid, from, side) \ ahead) <= w.arrays
    <3>1. CASE w.array = {} /\ w.arrays = 0 /\ now = from
      <4>1. Beyond(liquid, from, side) \ ahead = {}
        BY <3>1
      <4>2. ~(needs_extension(from) /\ ~data.extension)
        BY <1>7, <3>1
      <4>3. ahead \subseteq Beyond(liquid, from, side)
        BY <3>1
      <4>4. Cardinality(Beyond(liquid, from, side) \ ahead) = 0
        <5> HIDE DEF ahead, liquid
        <5> QED BY <4>1, FS_EmptySet
      <4> QED BY <3>1, <4>2, <4>3, <4>4
    <3>2. CASE ~(w.array = {} /\ w.arrays = 0 /\ now = from)
      <4>1. PICK a \in Beyond(liquid, from, side) :
                /\ w.array = {a} /\ Cardinality(UpTo(liquid, from, a, side)) <= w.arrays
                /\ now \in {a, IF side = "base" THEN a - 1 ELSE a + 1}
                /\ ~(needs_extension(from) /\ ~data.extension)
        BY <3>2 DEF Position
      <4>2. now = IF side = "base" THEN a - 1 ELSE a + 1
        BY <1>7, <4>1
      <4> HIDE DEF now, liquid
      <4>3. /\ ahead \subseteq Beyond(liquid, from, side)
            /\ Beyond(liquid, from, side) \ ahead = UpTo(liquid, from, a, side)
        BY <1>3, <2>1, <4>2, BeyondEntered DEF liquid
      <4> QED BY <4>1, <4>3
    <3> HIDE DEF ahead, now, liquid
    <3> QED BY <3>1, <3>2
  <2> HIDE DEF now
  <2>4. array \in arrays_for_swap(data, active, side) /\ Cardinality(UpTo(liquid, from, array, side)) <= w.arrays + 1
    <3> HIDE DEF array, ahead, liquid, extension
    <3>1. ahead = Beyond(liquid, now, side) /\ IsFiniteSet(liquid)
      BY DEF ahead, liquid
    <3> DEFINE entered == Beyond(liquid, from, side) \ ahead
    <3>2. entered = Beyond(liquid, from, side) \ ahead
      OBVIOUS
    <3> HIDE DEF entered
    <3>3. Cardinality(entered) <= w.arrays
      BY <2>3 DEF entered, liquid
    <3>4. ahead \subseteq Beyond(liquid, from, side)
      BY <2>3 DEF liquid
    <3>5. /\ Nearest(ahead, side) \in arrays_for_swap(data, active, side)
          /\ Cardinality(UpTo(liquid, from, Nearest(ahead, side), side)) <= w.arrays + 1
      BY <1>1, <1>3, <2>1, <2>2, <2>3, <3>1, <3>2, <3>3, <3>4, NearestNeeded
    <3> QED BY <3>5 DEF array
  <2>5. array \in ahead /\ array \in Int
    <3>1. array \in ahead
      BY <1>3, <2>2, NearestChosen
    <3> QED BY <3>1 DEF Beyond
  <2>6. BinsOf(array) \subseteq D <=> BinsOf(array) \subseteq S
    BY <2>4 DEF Suffice
  <2>7. CASE ~(BinsOf(array) \subseteq D)
    <3>1. x = [m EXCEPT !.status = "not_loaded"] /\ y = [w EXCEPT !.status = "not_loaded"]
      BY <1>1, <1>4, <1>7, <2>6, <2>7 DEF Entered, Enter, now
    <3>2. /\ x.status = "not_loaded" /\ x.pair = m.pair /\ x.left = m.left /\ x.out = m.out /\ x.paid = m.paid /\ x.kept = m.kept
          /\ x.arrays = m.arrays /\ x.array = m.array /\ x.bins = m.bins
      BY <3>1 DEF Walks
    <3>3. /\ y.status = "not_loaded" /\ y.pair = w.pair /\ y.left = w.left /\ y.out = w.out /\ y.paid = w.paid /\ y.kept = w.kept
          /\ y.arrays = w.arrays /\ y.array = w.array /\ y.bins = w.bins
      BY <3>1 DEF Walks
    <3>4. Alike(x, y)
      BY <1>1, <1>4, <3>2, <3>3 DEF Alike
    <3>5. Position(data, from, side, y)
      BY <3>3 DEF Position
    <3> QED BY <1>1, <3>2, <3>3, <3>4, <3>5
  <2>8. CASE BinsOf(array) \subseteq D
    <3> DEFINE next == IF array # now THEN edge ELSE w.pair.active
               pair == [w.pair EXCEPT !.active = next]
    <3>1. /\ x = [m EXCEPT !.arrays = @ + 1, !.array = {array}, !.pair.active = IF array # now THEN edge ELSE @]
          /\ y = [w EXCEPT !.arrays = @ + 1, !.array = {array}, !.pair.active = IF array # now THEN edge ELSE @]
      BY <1>1, <1>4, <1>7, <2>6, <2>8 DEF Entered, Enter, now
    <3> HIDE DEF array, ahead
    <3>2. edge \in BinsOf(array)
      BY <2>5, EndsOfArray
    <3> HIDE DEF edge
    <3>3. next \in BinsOf(array)
      BY <1>3, <3>2
    <3>4. array_index(next) = array
      BY <2>5, <3>3, OneArray
    <3> HIDE DEF next
    <3>5. /\ x = [m EXCEPT !.arrays = m.arrays + 1, !.array = {array}, !.pair = pair]
          /\ y = [w EXCEPT !.arrays = w.arrays + 1, !.array = {array}, !.pair = pair]
      BY <1>4, <3>1 DEF next, Walks
    <3>6. pair.active = next
      BY <1>1 DEF PairState
    <3> HIDE DEF pair
    <3>7. /\ x.status = m.status /\ x.pair = pair /\ x.left = m.left /\ x.out = m.out /\ x.paid = m.paid /\ x.kept = m.kept
          /\ x.arrays = m.arrays + 1 /\ x.array = {array} /\ x.bins = m.bins
      BY <3>5 DEF Walks
    <3>8. /\ y.status = w.status /\ y.pair = pair /\ y.left = w.left /\ y.out = w.out /\ y.paid = w.paid /\ y.kept = w.kept
          /\ y.arrays = w.arrays + 1 /\ y.array = {array} /\ y.bins = w.bins
      BY <3>5 DEF Walks
    <3>9. Alike(x, y)
      BY <1>1, <1>4, <3>7, <3>8 DEF Alike
    <3>10. Position(data, from, side, y)
      <4>1. w.arrays + 1 <= SwapArrays
        BY <1>1, <2>2, DlmmAssumption
      <4>2. array \in Beyond(data.liquid, from, side)
        BY <2>3, <2>5
      <4> QED BY <2>3, <2>4, <3>4, <3>6, <3>8, <4>1, <4>2 DEF Position
    <3> QED BY <1>1, <3>4, <3>6, <3>7, <3>8, <3>9, <3>10
  <2> QED BY <2>7, <2>8
<1> QED BY <1>5, <1>6, <1>7

\* Two walks alike fill their bin alike.
LEMMA FillAlike ==
    ASSUME NEW side \in Sides, NEW S, NEW D, S \subseteq D, NEW m \in Walks(S), NEW w \in Walks(D), Alike(m, w),
           w.pair.active \in S,
           NEW x, x = FillBin(m, side), NEW y, y = FillBin(w, side)
    PROVE  /\ Alike(x, y) /\ DOMAIN x.bins = S /\ DOMAIN y.bins = D
           /\ y.status = w.status /\ y.pair.active = w.pair.active /\ y.arrays = w.arrays /\ y.array = w.array
<1> DEFINE b == w.pair.active
           bin == w.bins[b]
           pair == update_volatility_accumulator(w.pair)
           m1 == [m EXCEPT !.pair = pair]
           w1 == [w EXCEPT !.pair = pair]
<1>1. /\ m.bins \in [S -> LadderBin] /\ w.bins \in [D -> LadderBin] /\ w.pair \in PairState
      /\ DOMAIN m.bins = S /\ DOMAIN w.bins = D
  BY DEF Walks
<1>2. /\ m.status = w.status /\ m.pair = w.pair /\ m.left = w.left /\ m.out = w.out /\ m.paid = w.paid
      /\ m.kept = w.kept /\ m.arrays = w.arrays /\ m.array = w.array
      /\ \A c \in S : m.bins[c] = w.bins[c]
  BY <1>1 DEF Alike
<1>3. m.bins[b] = bin /\ b \in S /\ b \in D
  BY <1>2
<1>4. pair.active = b
  BY <1>1 DEF update_volatility_accumulator, PairState
<1> HIDE DEF pair
<1>5. CASE max_amount_out(w.pair, bin, side) = 0
  <2>1. x = m /\ y = w
    BY <1>2, <1>3, <1>5 DEF FillBin
  <2> QED BY <1>1, <2>1
<1>6. CASE max_amount_out(w.pair, bin, side) # 0
  <2>1. x = FillAt(m1, bin, side) /\ y = FillAt(w1, bin, side)
    <3>1. x = FillAt([m EXCEPT !.pair = update_volatility_accumulator(@)], bin, side)
      BY <1>2, <1>3, <1>6 DEF FillBin
    <3>2. y = FillAt([w EXCEPT !.pair = update_volatility_accumulator(@)], bin, side)
      BY <1>6 DEF FillBin
    <3> QED BY <1>2, <3>1, <3>2 DEF pair
  <2>2. /\ m1.pair = pair /\ m1.left = w.left /\ m1.status = w.status /\ m1.out = w.out /\ m1.paid = w.paid /\ m1.kept = w.kept
        /\ m1.arrays = w.arrays /\ m1.array = w.array /\ m1.bins = m.bins
        /\ DOMAIN m1 = {"status", "pair", "bins", "left", "out", "paid", "kept", "arrays", "array"}
    BY <1>2 DEF Walks
  <2>3. /\ w1.pair = pair /\ w1.left = w.left /\ w1.status = w.status /\ w1.out = w.out /\ w1.paid = w.paid /\ w1.kept = w.kept
        /\ w1.arrays = w.arrays /\ w1.array = w.array /\ w1.bins = w.bins
        /\ DOMAIN w1 = {"status", "pair", "bins", "left", "out", "paid", "kept", "arrays", "array"}
    BY DEF Walks
  <2> DEFINE price == BinPrice(pair, bin)
             excluded == WithoutFee(w1, side)
             layers == Layers(pair, bin, price, excluded, side)
             s == swap_in_bin(pair, price, layers, excluded, w.left, side)
  <2> HIDE DEF m1, w1, bin, b
  <2>4. WithoutFee(m1, side) = excluded
    BY <2>2, <2>3 DEF WithoutFee
  <2>5. x = AfterFill(m1, price, layers, excluded, side) /\ y = AfterFill(w1, price, layers, excluded, side)
    BY <2>1, <2>2, <2>3, <2>4 DEF FillAt, FillWith
  <2> HIDE DEF excluded, layers, price
  <2>6. /\ x = [m1 EXCEPT !.left = @ - s.consumed, !.out = @ + s.out, !.paid = @ + layers.out, !.kept = @ + layers.used,
                          !.bins[b] = Taken(@, layers, side)]
        /\ y = [w1 EXCEPT !.left = @ - s.consumed, !.out = @ + s.out, !.paid = @ + layers.out, !.kept = @ + layers.used,
                          !.bins[b] = Taken(@, layers, side)]
    BY <1>4, <2>2, <2>3, <2>5 DEF AfterFill
  <2> HIDE DEF s
  <2>7. /\ x.status = w.status /\ x.pair = pair /\ x.left = w.left - s.consumed /\ x.out = w.out + s.out
        /\ x.paid = w.paid + layers.out /\ x.kept = w.kept + layers.used /\ x.arrays = w.arrays /\ x.array = w.array
        /\ x.bins = [m.bins EXCEPT ![b] = Taken(@, layers, side)]
    BY <2>2, <2>6
  <2>8. /\ y.status = w.status /\ y.pair = pair /\ y.left = w.left - s.consumed /\ y.out = w.out + s.out
        /\ y.paid = w.paid + layers.out /\ y.kept = w.kept + layers.used /\ y.arrays = w.arrays /\ y.array = w.array
        /\ y.bins = [w.bins EXCEPT ![b] = Taken(@, layers, side)]
    BY <2>3, <2>6
  <2>9. DOMAIN x.bins = S /\ DOMAIN y.bins = D /\ \A c \in S : x.bins[c] = y.bins[c]
    BY <1>1, <1>2, <1>3, <2>7, <2>8 DEF bin
  <2>10. Alike(x, y)
    BY <2>7, <2>8, <2>9 DEF Alike
  <2> QED BY <1>4, <2>8, <2>9, <2>10 DEF b
<1> QED BY <1>5, <1>6

\* Two walks alike step on alike, within the array or out of it at its end.
LEMMA StepAlike ==
    ASSUME NEW data, NEW side \in Sides, NEW from, NEW S, NEW D, NEW m \in Walks(S), NEW w \in Walks(D), Alike(m, w),
           Position(data, from, side, w), w.array = {array_index(w.pair.active)},
           NEW x, x = StepBin(m, side), NEW y, y = StepBin(w, side)
    PROVE  Alike(x, y) /\ Position(data, from, side, y) /\ DOMAIN x.bins = S /\ DOMAIN y.bins = D
<1> DEFINE next == IF side = "base" THEN w.pair.active - 1 ELSE w.pair.active + 1
           now == array_index(w.pair.active)
<1>1. /\ m.bins \in [S -> LadderBin] /\ w.bins \in [D -> LadderBin] /\ w.pair \in PairState
      /\ DOMAIN m.bins = S /\ DOMAIN w.bins = D
  BY DEF Walks
<1>2. /\ m.status = w.status /\ m.pair = w.pair /\ m.left = w.left /\ m.out = w.out /\ m.paid = w.paid
      /\ m.kept = w.kept /\ m.arrays = w.arrays /\ m.array = w.array
      /\ \A c \in S : m.bins[c] = w.bins[c]
  BY <1>1 DEF Alike
<1>3. CASE w.left = 0
  BY <1>1, <1>2, <1>3 DEF StepBin
<1>4. CASE w.left # 0 /\ next \notin BinIds
  <2>1. x = [m EXCEPT !.status = "exhausted"] /\ y = [w EXCEPT !.status = "exhausted"]
    BY <1>2, <1>4 DEF StepBin
  <2>2. /\ x.status = "exhausted" /\ x.pair = m.pair /\ x.left = m.left /\ x.out = m.out /\ x.paid = m.paid /\ x.kept = m.kept
        /\ x.arrays = m.arrays /\ x.array = m.array /\ x.bins = m.bins
    BY <2>1 DEF Walks
  <2>3. /\ y.status = "exhausted" /\ y.pair = w.pair /\ y.left = w.left /\ y.out = w.out /\ y.paid = w.paid /\ y.kept = w.kept
        /\ y.arrays = w.arrays /\ y.array = w.array /\ y.bins = w.bins
    BY <2>1 DEF Walks
  <2>4. Alike(x, y)
    BY <1>1, <1>2, <2>2, <2>3 DEF Alike
  <2>5. Position(data, from, side, y)
    BY <2>3 DEF Position
  <2> QED BY <1>1, <2>2, <2>3, <2>4, <2>5
<1>5. CASE w.left # 0 /\ next \in BinIds
  <2> DEFINE pair == [w.pair EXCEPT !.active = next]
  <2>1. x = [m EXCEPT !.pair.active = next] /\ y = [w EXCEPT !.pair.active = next]
    BY <1>2, <1>5 DEF StepBin
  <2>2. w.pair.active \in Int /\ next \in Int
    BY <1>1, <1>5, DlmmAssumption DEF PairState, BinIds
  <2>3. array_index(next) \in {now, IF side = "base" THEN now - 1 ELSE now + 1}
    <3>1. /\ now \in Int /\ w.pair.active \in BinsOf(now) /\ array_index(next) \in Int /\ next \in BinsOf(array_index(next))
          /\ BinsPerArray \in Nat \ {0}
      BY <2>2, InItsArray, DlmmAssumption
    <3> DEFINE q == array_index(next)
               a == w.pair.active
    <3> HIDE DEF q, now
    <3>2. /\ q \in Int /\ now \in Int /\ a \in Int
          /\ now * BinsPerArray <= a /\ a < (now + 1) * BinsPerArray
          /\ q * BinsPerArray <= next /\ next < (q + 1) * BinsPerArray
      <4>1. (now + 1) * BinsPerArray \in Int /\ (q + 1) * BinsPerArray \in Int
        BY <3>1 DEF q
      <4> QED BY <2>2, <3>1, <4>1 DEF q, BinsOf
    <3> HIDE DEF a
    <3>4. /\ (now + 1) * BinsPerArray = now * BinsPerArray + BinsPerArray /\ (q + 1) * BinsPerArray = q * BinsPerArray + BinsPerArray
          /\ (now - 1) * BinsPerArray = now * BinsPerArray - BinsPerArray /\ (q + 2) * BinsPerArray = q * BinsPerArray + 2 * BinsPerArray
          /\ (now + 2) * BinsPerArray = now * BinsPerArray + 2 * BinsPerArray
          /\ now * BinsPerArray \in Int /\ q * BinsPerArray \in Int
      BY <3>1, <3>2
    <3>5. CASE side = "base"
      <4>1. next = a - 1
        BY <3>5 DEF a
      <4>2. q * BinsPerArray < (now + 1) * BinsPerArray /\ now * BinsPerArray < (q + 2) * BinsPerArray
        BY <3>1, <3>2, <3>4, <4>1
      <4>3. q < now + 1 /\ now < q + 2
        BY <3>2, <4>2, ArraysRise
      <4> QED BY <3>2, <3>5, <4>3 DEF q
    <3>6. CASE side # "base"
      <4>1. next = a + 1
        BY <3>6 DEF a
      <4>2. q * BinsPerArray < (now + 2) * BinsPerArray /\ now * BinsPerArray < (q + 1) * BinsPerArray
        BY <3>1, <3>2, <3>4, <4>1
      <4>3. q < now + 2 /\ now < q + 1
        BY <3>2, <4>2, ArraysRise
      <4> QED BY <3>2, <3>6, <4>3 DEF q
    <3> QED BY <3>5, <3>6
  <2> HIDE DEF next
  <2>4. x = [m EXCEPT !.pair = pair] /\ y = [w EXCEPT !.pair = pair]
    BY <1>2, <2>1 DEF Walks
  <2>5. pair.active = next
    BY <1>1 DEF PairState
  <2> HIDE DEF pair
  <2>6. /\ x.status = m.status /\ x.pair = pair /\ x.left = m.left /\ x.out = m.out /\ x.paid = m.paid /\ x.kept = m.kept
        /\ x.arrays = m.arrays /\ x.array = m.array /\ x.bins = m.bins
    BY <2>4 DEF Walks
  <2>7. /\ y.status = w.status /\ y.pair = pair /\ y.left = w.left /\ y.out = w.out /\ y.paid = w.paid /\ y.kept = w.kept
        /\ y.arrays = w.arrays /\ y.array = w.array /\ y.bins = w.bins
    BY <2>4 DEF Walks
  <2>8. Alike(x, y)
    BY <1>1, <1>2, <2>6, <2>7 DEF Alike
  <2>9. Position(data, from, side, y)
    <3>1. PICK a \in Beyond(data.liquid, from, side) :
              /\ w.array = {a} /\ Cardinality(UpTo(data.liquid, from, a, side)) <= w.arrays
              /\ ~(needs_extension(from) /\ ~data.extension)
      BY DEF Position
    <3>2. a = now
      BY <3>1
    <3> QED BY <2>3, <2>5, <2>7, <3>1, <3>2 DEF Position
  <2> QED BY <1>1, <2>6, <2>7, <2>8, <2>9
<1> QED BY <1>3, <1>4, <1>5

\* Walks from the same place, one over the bins in memory, end alike.
LEMMA WalkAlike ==
    ASSUME NEW p, IsLadder(p), NEW all, Left(p, all), NEW was \in [Sides -> Int], NEW side \in Sides, NEW amount \in Nat,
           NEW active \in Int, NEW from, from = array_index(active),
           NEW S, NEW D, Suffice(p.data, active, side, S, D), S \subseteq D,
           NEW m, NEW w, GoodWalk(p, all, was, side, amount, m), GoodWalk(p, all, was, side, amount, w),
           DOMAIN m.bins = S, DOMAIN w.bins = D, Alike(m, w), Position(p.data, from, side, w)
    PROVE  Alike(BinWalk(p.data, m, side), BinWalk(p.data, w, side))
<1> DEFINE n == MostSteps
           data == p.data
           Good(x) == GoodWalk(p, all, was, side, amount, x)
           Both(x, y) == /\ Good(x) /\ Good(y) /\ DOMAIN x.bins = S /\ DOMAIN y.bins = D
                         /\ Alike(x, y) /\ Position(data, from, side, y)
<1>0. n \in Nat /\ data \in [liquid : SUBSET Int, extension : BOOLEAN] /\ IsFiniteSet(data.liquid)
  BY DlmmAssumption DEF MostSteps, IsLadder
<1>1. PICK t : BinWalk(data, m, side) = t[n] /\ t[0] = m /\ \A k \in 1..n : t[k] = Onward(data, t[k - 1], side)
  BY WalkUnfolds
<1>2. PICK u : BinWalk(data, w, side) = u[n] /\ u[0] = w /\ \A k \in 1..n : u[k] = Onward(data, u[k - 1], side)
  BY WalkUnfolds
<1>3. ASSUME NEW x, NEW y, Both(x, y) PROVE Both(Onward(data, x, side), Onward(data, y, side))
  <2>1. x.status = y.status /\ x.left = y.left /\ x \in Walks(S) /\ y \in Walks(D)
    BY <1>3 DEF Alike, GoodWalk
  <2>2. CASE y.status # "walking" \/ y.left = 0
    <3>1. Onward(data, x, side) = x /\ Onward(data, y, side) = y
      BY <2>1, <2>2 DEF Onward
    <3> QED BY <1>3, <3>1
  <2>3. CASE ~(y.status # "walking" \/ y.left = 0)
    <3> DEFINE e == Entered(data, x, side)
               g == Entered(data, y, side)
    <3>1. Good(e) /\ (e.status = "walking" => e.pair.active \in DOMAIN e.bins)
      BY <1>3, <2>1, <2>3, EnterKeeps
    <3>2. Good(g)
      BY <1>3, EnterKeeps
    <3>3. /\ Alike(e, g) /\ Position(data, from, side, g) /\ DOMAIN e.bins = S /\ DOMAIN g.bins = D
          /\ g.status = "walking" => g.array = {array_index(g.pair.active)}
      BY <1>0, <1>3, <2>1, EnterAlike
    <3>4. Onward(data, x, side) = Filled(e, side) /\ Onward(data, y, side) = Filled(g, side)
      BY <2>1, <2>3 DEF Onward
    <3>5. e.status = g.status /\ e.pair = g.pair /\ e \in Walks(S) /\ g \in Walks(D)
      BY <3>1, <3>2, <3>3 DEF Alike, GoodWalk
    <3> HIDE DEF e, g, Good
    <3>6. CASE g.status # "walking"
      <4>1. Filled(e, side) = e /\ Filled(g, side) = g
        BY <3>5, <3>6 DEF Filled
      <4> QED BY <3>1, <3>2, <3>3, <3>4, <4>1
    <3>7. CASE g.status = "walking"
      <4> DEFINE f == FillBin(e, side)
                 h == FillBin(g, side)
      <4>1. g.pair.active \in S /\ S \subseteq D
        BY <3>1, <3>3, <3>5, <3>7
      <4>2. Good(f) /\ Good(h)
        BY <3>1, <3>2, <3>3, <3>5, <3>7, <4>1, FillKeeps DEF Good
      <4>3. /\ Alike(f, h) /\ DOMAIN f.bins = S /\ DOMAIN h.bins = D
            /\ h.status = g.status /\ h.pair.active = g.pair.active /\ h.arrays = g.arrays /\ h.array = g.array
        BY <3>3, <3>5, <4>1, FillAlike
      <4>4. Filled(e, side) = StepBin(f, side) /\ Filled(g, side) = StepBin(h, side)
        BY <3>5, <3>7 DEF Filled
      <4> HIDE DEF f, h
      <4>5. f \in Walks(S) /\ h \in Walks(D)
        BY <4>2, <4>3 DEF Good, GoodWalk
      <4>6. Position(data, from, side, h) /\ h.array = {array_index(h.pair.active)}
        BY <3>3, <3>7, <4>3 DEF Position
      <4>7. Good(StepBin(f, side)) /\ Good(StepBin(h, side))
        BY <4>2, StepKeeps DEF Good
      <4>8. /\ Alike(StepBin(f, side), StepBin(h, side)) /\ Position(data, from, side, StepBin(h, side))
            /\ DOMAIN StepBin(f, side).bins = S /\ DOMAIN StepBin(h, side).bins = D
        BY <4>3, <4>5, <4>6, StepAlike
      <4> QED BY <3>4, <4>4, <4>7, <4>8
    <3> QED BY <3>6, <3>7
  <2> QED BY <2>2, <2>3
<1> HIDE DEF n
<1> DEFINE Q == {k \in Nat : k <= n => Both(t[k], u[k])}
<1>4. 0 \in Q
  <2>1. Both(m, w)
    OBVIOUS
  <2> HIDE DEF Both
  <2> QED BY <1>1, <1>2, <2>1
<1> HIDE DEF Both, data
<1>5. ASSUME NEW k \in Q PROVE k + 1 \in Q
  <2>1. k \in Nat /\ (k <= n => Both(t[k], u[k]))
    OBVIOUS
  <2> SUFFICES ASSUME k + 1 <= n PROVE Both(t[k + 1], u[k + 1])
    BY <2>1
  <2>2. k + 1 \in 1..n /\ k + 1 - 1 = k /\ k <= n
    BY <1>0, <2>1
  <2>3. t[k + 1] = Onward(data, t[k], side) /\ u[k + 1] = Onward(data, u[k], side)
    BY <1>1, <1>2, <2>2
  <2> QED BY <1>3, <2>1, <2>2, <2>3
<1>6. Q = Nat
  <2>1. Q \in SUBSET Nat
    OBVIOUS
  <2> HIDE DEF Q
  <2> QED BY <1>4, <1>5, <2>1, Induction
<1>7. Both(t[n], u[n])
  BY <1>0, <1>6
<1> QED BY <1>1, <1>2, <1>7 DEF Both, data

\* Whatever state a load was planned from, it has read the arrays a swap from the
\* active bin may need, if they exist.
LEMMA LoadSuffices ==
    ASSUME NEW p, IsLadder(p), NEW all, Left(p, all), NEW active \in Int, NEW state_active, NEW read, NEW side \in Sides,
           NEW loaded, loaded = load_dlmm_bins(p.data, all, active, state_active, read)
    PROVE  Suffice(p.data, active, side, DOMAIN loaded, DOMAIN all)
<1> DEFINE data == p.data
           planned == plan_for(data, active, data.extension)
           first == publish_bins(all, plan_for(data, state_active, read))
<1>1. SUFFICES ASSUME NEW a \in arrays_for_swap(data, active, side), BinsOf(a) \subseteq DOMAIN all
               PROVE  BinsOf(a) \subseteq DOMAIN loaded
  BY DEF Suffice
<1>2. /\ data \in [liquid : SUBSET Int, extension : BOOLEAN] /\ DOMAIN all \subseteq BinIds
      /\ \A c \in data.liquid : needs_extension(c) => data.extension
  BY DEF IsLadder, Left
<1>3. a \in ArraysBothWays(data, active)
  BY DEF ArraysBothWays
<1>4. CASE covers_both_directions(data, first, active)
  <2>1. loaded = first
    BY <1>4 DEF load_dlmm_bins
  <2> QED BY <1>3, <1>4, <2>1 DEF covers_both_directions
<1>5. CASE ~covers_both_directions(data, first, active)
  <2>1. loaded = publish_bins(all, planned)
    BY <1>5 DEF load_dlmm_bins
  <2>2. liquid_arrays(data, data.extension) = data.liquid
    BY <1>2 DEF liquid_arrays
  <2> DEFINE wide == [liquid |-> data.liquid, extension |-> TRUE]
  <2>3. planned = ArraysBothWays(wide, active)
    BY <2>2 DEF plan_for
  <2>4. a \in arrays_for_swap(wide, active, side)
    BY <1>2 DEF arrays_for_swap
  <2>5. a \in planned
    BY <2>3, <2>4 DEF ArraysBothWays
  <2>6. a \in Int
    BY <1>2 DEF arrays_for_swap, Beyond
  <2>7. \A b \in BinsOf(a) : array_index(b) = a
    <3> SUFFICES ASSUME NEW b \in BinsOf(a) PROVE array_index(b) = a
      OBVIOUS
    <3>1. b \in Int /\ BinsPerArray \in Nat \ {0}
      BY <2>6, DlmmAssumption DEF BinsOf
    <3> QED BY <2>6, <3>1, OneArray
  <2> HIDE DEF planned
  <2> QED BY <1>1, <2>1, <2>5, <2>7 DEF publish_bins
<1> QED BY <1>4, <1>5

\* Whatever was traded before and whenever the bins were loaded, the quote over the bins
\* in memory is the quote over all the bins of the ladder: the arrays planned are those a
\* swap from the active bin may need (pool/bins.rs load_dlmm_bins, quote/dlmm.rs).
THEOREM ArraysSuffice == Spec => []LoadedArraysSuffice
<1>1. TradeInv => LoadedArraysSuffice
  <2> SUFFICES ASSUME TradeInv, pool.kind = "dlmm", NEW side \in Sides, NEW amount \in Amounts
               PROVE  LET memory == WalkOver(BinsInMemory, pool.times[1], side, amount)
                          whole == WalkOver(market.bins, pool.times[1], side, amount)
                      IN  memory.status = whole.status /\ memory.out = whole.out
    BY DEF LoadedArraysSuffice
  <2> DEFINE all == market.bins
             loaded == BinsInMemory
             was == Change(vault)
             pair == update_references(market.pair, pool.times[1])
             Begin(bins) == [status |-> "walking", pair |-> pair, bins |-> bins, left |-> amount,
                             out |-> 0, paid |-> 0, kept |-> 0, arrays |-> 0, array |-> {}]
             active == market.pair.active
             from == array_index(active)
  <2>1. WellFormed(pool) /\ OnLadder
    BY PoolsAssumption DEF TradeInv
  <2>2. IsLadder(pool) /\ pool.times[1] \in {"filtered", "decaying", "old"}
    BY <2>1 DEF WellFormed, IsLadder
  <2>3. /\ market.pair \in PairState /\ market.pair.step = pool.market.pair.step /\ Left(pool, all)
        /\ \A b \in DOMAIN all : all[b].price = pool.market.bins[b].price
        /\ Booked(pool, all, was) /\ vault \in [Sides -> Int]
    BY <2>1 DEF OnLadder, LadderAt
  <2>4. was \in [Sides -> Int] /\ amount \in Nat
    <3>1. pool.vault \in Amount
      BY <2>1 DEF WellFormed
    <3>2. amount \in Nat
      BY TradesAssumption, WidthAssumption
    <3> QED BY <2>3, <3>1, <3>2 DEF Change, Amount
  <2>5. pair \in PairState /\ pair.step = pool.market.pair.step /\ pair.active = active
    <3>1. pair.active = active
      BY <2>2, <2>3 DEF update_references, PairState
    <3> QED BY <2>2, <2>3, <3>1, ReferencesType
  <2>6. /\ WalkOver(loaded, pool.times[1], side, amount) = BinWalk(pool.data, Begin(loaded), side)
        /\ WalkOver(all, pool.times[1], side, amount) = BinWalk(pool.data, Begin(all), side)
    BY DEF WalkOver, dlmm_swap_exact_in
  <2>7. active \in Int
    BY <2>3, DlmmAssumption DEF PairState, BinIds
  <2>8. Suffice(pool.data, active, side, DOMAIN loaded, DOMAIN all)
    BY <2>2, <2>3, <2>7, LoadSuffices DEF BinsInMemory
  <2>9. PICK S : loaded = [b \in S |-> all[b]] /\ S \subseteq DOMAIN all
    BY LoadedBins DEF BinsInMemory
  <2> HIDE DEF loaded, pair
  <2>10. all \in [DOMAIN all -> LadderBin]
    BY <2>3 DEF Left
  <2>11. loaded \in [S -> LadderBin] /\ DOMAIN loaded = S /\ \A b \in S : loaded[b] = all[b]
    <3> HIDE DEF all
    <3> QED BY <2>9, <2>10
  <2>12. ASSUME NEW T, T \subseteq DOMAIN all, NEW bins \in [T -> LadderBin], \A b \in T : bins[b] = all[b]
         PROVE  GoodWalk(pool, all, was, side, amount, Begin(bins))
    <3> DEFINE start == Begin(bins)
    <3>1. /\ start.status = "walking" /\ start.pair = pair /\ start.bins = bins /\ start.left = amount /\ start.out = 0
          /\ start.paid = 0 /\ start.kept = 0 /\ start.array = {} /\ DOMAIN bins = T
      OBVIOUS
    <3>2. start \in Walks(T)
      BY <2>4, <2>5 DEF Walks
    <3> HIDE DEF start
    <3>3. Over(bins, all) = all
      <4>1. all = [b \in DOMAIN all |-> all[b]]
        BY <2>3 DEF Left
      <4>2. Over(bins, all) = [b \in DOMAIN all |-> IF b \in T THEN bins[b] ELSE all[b]]
        BY <3>1 DEF Over
      <4>3. \A b \in DOMAIN all : (IF b \in T THEN bins[b] ELSE all[b]) = all[b]
        BY <2>12
      <4> HIDE DEF all
      <4> QED BY <4>1, <4>2, <4>3
    <3>4. Booked(pool, all, Moved(was, side, 0, 0))
      <4>1. \A s \in Sides : Moved(was, side, 0, 0)[s] = was[s]
        BY <2>4 DEF Moved
      <4> QED BY <2>3, <4>1 DEF Booked
    <3>5. start.left + start.kept <= amount /\ start.out <= start.paid
      BY <2>4, <3>1
    <3>6. Booked(pool, Over(start.bins, all), Moved(was, side, start.kept, start.paid))
      BY <3>1, <3>3, <3>4
    <3>7. \A b \in T : start.bins[b].price = pool.market.bins[b].price
      BY <2>3, <2>12, <3>1
    <3> QED BY <2>5, <2>12, <3>1, <3>2, <3>5, <3>6, <3>7 DEF GoodWalk, start
  <2>13. GoodWalk(pool, all, was, side, amount, Begin(loaded)) /\ GoodWalk(pool, all, was, side, amount, Begin(all))
    BY <2>9, <2>10, <2>11, <2>12
  <2>14. Alike(Begin(loaded), Begin(all)) /\ DOMAIN Begin(loaded).bins = S /\ DOMAIN Begin(all).bins = DOMAIN all
    BY <2>9, <2>11 DEF Alike
  <2>15. Position(pool.data, from, side, Begin(all))
    BY <2>5, DlmmAssumption DEF Position
  <2> HIDE DEF Begin, all, was, active, from
  <2>16. Alike(BinWalk(pool.data, Begin(loaded), side), BinWalk(pool.data, Begin(all), side))
    <3>1. Left(pool, all) /\ from = array_index(active) /\ active \in Int
      BY <2>3, <2>7 DEF all, active, from
    <3>2. Suffice(pool.data, active, side, S, DOMAIN all)
      BY <2>8, <2>11 DEF all, active
    <3> QED BY <2>2, <2>4, <2>9, <2>13, <2>14, <2>15, <3>1, <3>2, WalkAlike
  <2> QED BY <2>6, <2>16 DEF Alike, all, loaded
<1> QED BY <1>1, TradesInvariant, PTL

-----------------------------------------------------------------------------
(* Powers of a rate                                                         *)

\* Where a power has got, bit by bit.
Bits == [result : Nat, squared : Nat, rest : Nat]

\* A function is applied as often as one likes.
Repeats(t, n, start, step) == t = [k \in 0..n |-> IF k = 0 THEN start ELSE step[t[k - 1]]]

LEMMA Iterates ==
    ASSUME NEW S, NEW step \in [S -> S], NEW start \in S, NEW n \in Nat
    PROVE  \E t : t \in [0..n -> S] /\ Repeats(t, n, start, step)
<1> USE DEF Repeats
<1> DEFINE Recurs(t, m) == t \in [0..m -> S] /\ Repeats(t, m, start, step)
           P == {m \in Nat : \E t : Recurs(t, m)}
<1>1. 0 \in P
  BY Recurs([k \in 0..0 |-> start], 0)
<1>2. ASSUME NEW m \in P
      PROVE  m + 1 \in P
  <2>1. m \in Nat /\ \E t : Recurs(t, m)
    OBVIOUS
  <2>2. PICK t : Recurs(t, m)
    BY <2>1
  <2> DEFINE g == [k \in 0..(m + 1) |-> IF k = m + 1 THEN step[t[m]] ELSE t[k]]
  <2>3. t[m] \in S /\ m \in 0..m
    BY <2>1, <2>2
  <2>4. ASSUME NEW k \in 0..(m + 1)
        PROVE  g[k] \in S /\ g[k] = IF k = 0 THEN start ELSE step[g[k - 1]]
    <3>1. CASE k = m + 1
      BY <2>1, <2>3, <3>1
    <3>2. CASE k # m + 1
      <4>1. k \in 0..m /\ (k # 0 => k - 1 \in 0..m /\ k - 1 # m + 1)
        BY <2>1, <3>2
      <4> QED BY <2>1, <2>2, <3>2, <4>1
    <3> QED BY <3>1, <3>2
  <2>5. Recurs(g, m + 1)
    BY <2>4
  <2> HIDE DEF g
  <2>6. \E h : Recurs(h, m + 1)
    BY <2>5
  <2> HIDE DEF Recurs
  <2> QED BY <2>1, <2>6
<1>3. P = Nat
  <2>1. P \in SUBSET Nat
    OBVIOUS
  <2> HIDE DEF P
  <2> QED BY <1>1, <1>2, <2>1, Induction
<1> QED BY <1>3

\* A product with one that is rounded: it grows with both factors.
Rounds(mul, one) ==
    /\ one \in Nat /\ mul \in [Nat -> [Nat -> Nat]]
    /\ \A x, y, z \in Nat : x <= y => mul[x][z] <= mul[y][z] /\ mul[z][x] <= mul[z][y]
    /\ \A x \in Nat : mul[one][x] = x /\ mul[x][one] = x

PowerBit(mul, s) ==
    [result |-> IF s.rest % 2 = 1 THEN mul[s.result][s.squared] ELSE s.result,
     squared |-> mul[s.squared][s.squared],
     rest |-> s.rest \div 2]

\* What is multiplied is never less than the base squared so far.
Shrinks(one, s) == s \in Bits /\ s.squared <= s.result /\ s.result <= one

\* An exponent that is no greater: where it has the same bits left, its power is no less.
Fewer(s, t) == s.squared = t.squared /\ s.rest <= t.rest /\ (s.rest = t.rest => t.result <= s.result)

\* One more bit keeps that.
LEMMA BitShrinks ==
    ASSUME NEW mul, NEW one, Rounds(mul, one), NEW s, Shrinks(one, s)
    PROVE  Shrinks(one, PowerBit(mul, s))
<1> DEFINE r == s.result
           q == s.squared
<1>1. r \in Nat /\ q \in Nat /\ s.rest \in Nat /\ q <= r /\ r <= one /\ one \in Nat
  BY DEF Shrinks, Bits, Rounds
<1> HIDE DEF r, q
<1>2. mul[r][q] \in Nat /\ mul[q][q] \in Nat
  BY <1>1 DEF Rounds
<1>3. mul[q][q] <= mul[r][q]
  BY <1>1 DEF Rounds
<1>4. mul[r][q] <= r
  <2>1. mul[r][q] <= mul[r][one] /\ mul[r][one] = r
    <3>1. q <= one
      BY <1>1
    <3> QED BY <1>1, <3>1 DEF Rounds
  <2> QED BY <2>1
<1>5. s.rest \div 2 \in Nat
  BY <1>1
<1> DEFINE t == PowerBit(mul, s)
<1>6. t.result \in {mul[r][q], r} /\ t.squared = mul[q][q] /\ t.rest = s.rest \div 2 /\ t \in Bits
  BY <1>1, <1>2, <1>5 DEF PowerBit, Bits, r, q
<1> HIDE DEF t
<1>7. t.squared <= t.result /\ t.result <= one
  BY <1>1, <1>2, <1>3, <1>4, <1>6
<1> QED BY <1>6, <1>7 DEF Shrinks, t

LEMMA BitsFall ==
    ASSUME NEW mul, NEW one, Rounds(mul, one), NEW s, Shrinks(one, s), NEW t, Shrinks(one, t), Fewer(s, t)
    PROVE  Fewer(PowerBit(mul, s), PowerBit(mul, t))
<1> DEFINE q == s.squared
           r == s.result
           v == t.result
           m == s.rest
           n == t.rest
<1>1. /\ q \in Nat /\ r \in Nat /\ v \in Nat /\ m \in Nat /\ n \in Nat /\ one \in Nat
      /\ q <= r /\ r <= one /\ v <= one /\ t.squared = q /\ m <= n /\ (m = n => v <= r)
  BY DEF Shrinks, Bits, Rounds, Fewer
<1>2. /\ PowerBit(mul, s).result = IF m % 2 = 1 THEN mul[r][q] ELSE r
      /\ PowerBit(mul, t).result = IF n % 2 = 1 THEN mul[v][q] ELSE v
      /\ PowerBit(mul, s).squared = PowerBit(mul, t).squared
      /\ PowerBit(mul, s).rest = m \div 2 /\ PowerBit(mul, t).rest = n \div 2
  BY <1>1 DEF PowerBit
<1> HIDE DEF q, r, v, m, n
<1>3. mul[v][q] <= mul[one][q] /\ mul[one][q] = q /\ mul[v][q] \in Nat /\ mul[r][q] \in Nat
  BY <1>1 DEF Rounds
<1>4. m \div 2 <= n \div 2
  BY <1>1
<1>5. ASSUME m \div 2 = n \div 2
      PROVE  PowerBit(mul, t).result <= PowerBit(mul, s).result
  <2>1. CASE m = n
    <3>1. mul[v][q] <= mul[r][q] /\ v <= r
      BY <1>1, <2>1 DEF Rounds
    <3> QED BY <1>2, <2>1, <3>1
  <2>2. CASE m # n
    <3>1. m % 2 = 0 /\ n % 2 = 1
      BY <1>1, <1>5, <2>2
    <3> QED BY <1>1, <1>2, <1>3, <3>1
  <2> QED BY <2>1, <2>2
<1> QED BY <1>2, <1>4, <1>5 DEF Fewer

\* The bits of an exponent, taken one by one.
Powers(mul, one, base, exp, n, t) ==
    /\ t[0] = [result |-> one, squared |-> base, rest |-> exp]
    /\ \A k \in 1..n : t[k] = PowerBit(mul, t[k - 1])

\* The greater exponent has the smaller power.
LEMMA PowersFall ==
    ASSUME NEW mul, NEW one, Rounds(mul, one), NEW base \in Nat, base <= one, NEW i \in Nat, NEW j \in Nat, i <= j,
           NEW n \in Nat, NEW t, Powers(mul, one, base, i, n, t), NEW u, Powers(mul, one, base, j, n, u)
    PROVE  Shrinks(one, t[n]) /\ Shrinks(one, u[n]) /\ Fewer(t[n], u[n])
<1> DEFINE Good(k) == Shrinks(one, t[k]) /\ Shrinks(one, u[k]) /\ Fewer(t[k], u[k])
           Q == {k \in Nat : k <= n => Good(k)}
<1>1. 0 \in Q
  <2>1. t[0] = [result |-> one, squared |-> base, rest |-> i] /\ u[0] = [result |-> one, squared |-> base, rest |-> j]
    BY DEF Powers
  <2>2. one \in Nat
    BY DEF Rounds
  <2>3. Shrinks(one, t[0]) /\ Shrinks(one, u[0])
    BY <2>1, <2>2 DEF Shrinks, Bits
  <2>4. Fewer(t[0], u[0])
    BY <2>1, <2>2 DEF Fewer
  <2> QED BY <2>3, <2>4
<1>2. ASSUME NEW k \in Q PROVE k + 1 \in Q
  <2>1. k \in Nat /\ (k <= n => Good(k))
    OBVIOUS
  <2> SUFFICES ASSUME k + 1 <= n PROVE Good(k + 1)
    BY <2>1
  <2>2. k + 1 \in 1..n /\ k + 1 - 1 = k /\ k <= n
    BY <2>1
  <2>3. t[k + 1] = PowerBit(mul, t[k]) /\ u[k + 1] = PowerBit(mul, u[k])
    BY <2>2 DEF Powers
  <2> QED BY <2>1, <2>2, <2>3, BitShrinks, BitsFall
<1>3. Q = Nat
  <2>1. Q \in SUBSET Nat
    OBVIOUS
  <2> HIDE DEF Q
  <2> QED BY <1>1, <1>2, <2>1, Induction
<1> QED BY <1>3

\* A quotient grows with its dividend, rounded either way.
LEMMA DivMonotone ==
    ASSUME NEW x \in Nat, NEW y \in Nat, x <= y, NEW d \in Nat \ {0}
    PROVE  x \div d \in Nat /\ y \div d \in Nat /\ x \div d <= y \div d
<1>1. x \div d \in Nat /\ (x \div d) * d <= x /\ y \div d \in Nat
  BY DivBounds
<1>2. (x \div d) * d <= y
  BY <1>1
<1> QED BY <1>1, <1>2, DivAtLeast

LEMMA CeilMonotone ==
    ASSUME NEW x \in Nat, NEW y \in Nat, x <= y, NEW d \in Nat \ {0}
    PROVE  div_ceil(x, d) \in Nat /\ div_ceil(y, d) \in Nat /\ div_ceil(x, d) <= div_ceil(y, d)
<1>1. div_ceil(y, d) \in Nat /\ y <= div_ceil(y, d) * d
  BY DivCeilCovers
<1>2. div_ceil(y, d) * d \in Nat
  BY <1>1
<1>3. x <= div_ceil(y, d) * d
  BY <1>1, <1>2
<1> QED BY <1>1, <1>3, DivCeilAtMost

\* Products of parts of Q64, rounded down, and of RateScale, rounded up.
Floored == [x \in Nat |-> [y \in Nat |-> (x * y) \div Q64]]
Ceiled == [x \in Nat |-> [y \in Nat |-> div_ceil(x * y, RateScale)]]

LEMMA FlooredRounds == Rounds(Floored, Q64)
<1>1. Q64 \in Nat \ {0}
  BY DammAssumption
<1>2. ASSUME NEW x \in Nat, NEW y \in Nat
      PROVE  (x * y) \div Q64 \in Nat
  <2>1. x * y \in Nat
    OBVIOUS
  <2> QED BY <1>1, <2>1, DivBounds
<1>3. Floored \in [Nat -> [Nat -> Nat]]
  BY <1>2 DEF Floored
<1>4. ASSUME NEW x \in Nat, NEW y \in Nat, NEW z \in Nat, x <= y
      PROVE  Floored[x][z] <= Floored[y][z] /\ Floored[z][x] <= Floored[z][y]
  <2>1. x * z \in Nat /\ y * z \in Nat /\ x * z <= y * z /\ z * x = x * z /\ z * y = y * z
    BY <1>4
  <2>2. (x * z) \div Q64 <= (y * z) \div Q64
    BY <1>1, <2>1, DivMonotone
  <2> QED BY <2>1, <2>2 DEF Floored
<1>5. ASSUME NEW x \in Nat
      PROVE  Floored[Q64][x] = x /\ Floored[x][Q64] = x
  <2>1. (x * Q64) \div Q64 = x /\ Q64 * x = x * Q64
    BY <1>1
  <2> QED BY <1>1, <2>1 DEF Floored
<1> QED BY <1>1, <1>3, <1>4, <1>5 DEF Rounds

LEMMA CeiledRounds == Rounds(Ceiled, RateScale)
<1>1. RateScale \in Nat \ {0}
  BY ByrealAssumption
<1>2. ASSUME NEW x \in Nat, NEW y \in Nat
      PROVE  div_ceil(x * y, RateScale) \in Nat
  <2>1. x * y \in Nat
    OBVIOUS
  <2> QED BY <1>1, <2>1, DivCeilCovers
<1>3. Ceiled \in [Nat -> [Nat -> Nat]]
  BY <1>2 DEF Ceiled
<1>4. ASSUME NEW x \in Nat, NEW y \in Nat, NEW z \in Nat, x <= y
      PROVE  Ceiled[x][z] <= Ceiled[y][z] /\ Ceiled[z][x] <= Ceiled[z][y]
  <2>1. x * z \in Nat /\ y * z \in Nat /\ x * z <= y * z /\ z * x = x * z /\ z * y = y * z
    BY <1>4
  <2>2. div_ceil(x * z, RateScale) <= div_ceil(y * z, RateScale)
    BY <1>1, <2>1, CeilMonotone
  <2> QED BY <2>1, <2>2 DEF Ceiled
<1>5. ASSUME NEW x \in Nat
      PROVE  Ceiled[RateScale][x] = x /\ Ceiled[x][RateScale] = x
  <2>1. x * RateScale \in Nat /\ RateScale * x = x * RateScale
    BY <1>1
  <2>2. div_ceil(x * RateScale, RateScale) \in Nat /\ div_ceil(x * RateScale, RateScale) <= x
        /\ x * RateScale <= div_ceil(x * RateScale, RateScale) * RateScale
    BY <1>1, <2>1, DivCeilAtMost, DivCeilCovers
  <2>3. x <= div_ceil(x * RateScale, RateScale)
    BY <1>1, <2>2, TimesCancel
  <2>4. div_ceil(x * RateScale, RateScale) = x
    BY <2>2, <2>3
  <2> QED BY <1>1, <2>1, <2>4 DEF Ceiled
<1> QED BY <1>1, <1>3, <1>4, <1>5 DEF Rounds

\* Of parts of one, a bit's products stay numbers.
LEMMA BitType ==
    ASSUME NEW s \in Bits
    PROVE  /\ PowBit(s) \in Bits /\ PowBit(s) = PowerBit(Floored, s)
           /\ DecayBit(s) \in Bits /\ DecayBit(s) = PowerBit(Ceiled, s)
<1>1. s.result \in Nat /\ s.squared \in Nat /\ s.rest \in Nat
  BY DEF Bits
<1>2. /\ Floored[s.result][s.squared] = (s.result * s.squared) \div Q64
      /\ Floored[s.squared][s.squared] = (s.squared * s.squared) \div Q64
      /\ Ceiled[s.result][s.squared] = div_ceil(s.result * s.squared, RateScale)
      /\ Ceiled[s.squared][s.squared] = div_ceil(s.squared * s.squared, RateScale)
  BY <1>1 DEF Floored, Ceiled
<1>3. PowBit(s) = PowerBit(Floored, s) /\ DecayBit(s) = PowerBit(Ceiled, s)
  BY <1>2 DEF PowBit, DecayBit, PowerBit
<1>4. /\ Floored[s.result][s.squared] \in Nat /\ Floored[s.squared][s.squared] \in Nat
      /\ Ceiled[s.result][s.squared] \in Nat /\ Ceiled[s.squared][s.squared] \in Nat
  <2>1. \A x, y \in Nat : Floored[x][y] \in Nat /\ Ceiled[x][y] \in Nat
    BY Zenon, FlooredRounds, CeiledRounds DEF Rounds
  <2> QED BY <1>1, <2>1
<1>5. s.rest \div 2 \in Nat
  BY <1>1
<1> QED BY <1>1, <1>3, <1>4, <1>5 DEF PowerBit, Bits

LEMMA PowUnfolds ==
    ASSUME NEW base \in Nat, NEW exp \in Nat
    PROVE  \E t : /\ Powers(Floored, Q64, base, exp, PowBits, t)
                  /\ pow_q64(base, exp) = IF t[PowBits].rest = 0 THEN t[PowBits].result ELSE 0
<1> DEFINE start == [result |-> Q64, squared |-> base, rest |-> exp]
           step == [s \in Bits |-> PowBit(s)]
           Recurs(u) == u = [k \in 0..PowBits |-> IF k = 0 THEN start ELSE PowBit(u[k - 1])]
           t == CHOOSE u : Recurs(u)
<1>1. PowBits \in Nat /\ start \in Bits /\ step \in [Bits -> Bits]
  BY DammAssumption, BitType DEF Bits
<1>2. PICK u : u \in [0..PowBits -> Bits] /\ Repeats(u, PowBits, start, step)
  <2> HIDE DEF start, step
  <2> QED BY <1>1, Iterates
<1> USE DEF Repeats
<1>3. Recurs(u)
  <2>1. ASSUME NEW k \in 0..PowBits
        PROVE  u[k] = IF k = 0 THEN start ELSE PowBit(u[k - 1])
    <3>1. CASE k = 0
      BY <1>1, <1>2, <3>1
    <3>2. CASE k # 0
      <4>1. k - 1 \in 0..PowBits
        BY <1>1, <3>2
      <4>2. u[k - 1] \in Bits
        BY <1>2, <4>1
      <4>3. u[k] = step[u[k - 1]]
        BY <1>2, <3>2
      <4> QED BY <3>2, <4>2, <4>3
    <3> QED BY <3>1, <3>2
  <2>2. u = [k \in 0..PowBits |-> u[k]]
    BY <1>2
  <2> HIDE DEF start, step
  <2> QED BY <2>1, <2>2
<1>4. Recurs(t)
  <2>1. \E v : Recurs(v)
    BY <1>3
  <2> HIDE DEF Recurs
  <2> QED BY <2>1
<1>5. t[0] = start /\ \A k \in 1..PowBits : t[k] = PowBit(t[k - 1])
  <2> HIDE DEF start, t
  <2> QED BY <1>1, <1>4
<1>6. pow_q64(base, exp) = IF t[PowBits].rest = 0 THEN t[PowBits].result ELSE 0
  BY DEF pow_q64
<1> HIDE DEF Recurs, t
<1>7. ASSUME NEW k \in 0..PowBits PROVE t[k] \in Bits
  <2> DEFINE Q == {n \in Nat : n <= PowBits => t[n] \in Bits}
  <2>1. 0 \in Q
    BY <1>1, <1>5
  <2>2. ASSUME NEW n \in Q PROVE n + 1 \in Q
    <3> SUFFICES ASSUME n + 1 <= PowBits PROVE t[n + 1] \in Bits
      OBVIOUS
    <3>1. n \in Nat /\ n + 1 \in 1..PowBits /\ n + 1 - 1 = n /\ t[n] \in Bits
      BY <1>1
    <3> QED BY <1>5, <3>1, BitType
  <2>3. Q = Nat
    <3>1. Q \in SUBSET Nat
      OBVIOUS
    <3> HIDE DEF Q
    <3> QED BY <2>1, <2>2, <3>1, Induction
  <2> QED BY <2>3
<1>8. ASSUME NEW k \in 1..PowBits PROVE t[k] = PowerBit(Floored, t[k - 1])
  <2>1. k - 1 \in 0..PowBits
    BY <1>1
  <2> QED BY <1>5, <1>7, <2>1, BitType
<1>9. Powers(Floored, Q64, base, exp, PowBits, t)
  BY <1>5, <1>8 DEF Powers
<1> QED BY <1>6, <1>9

\* A power of a part of one is one, and the greater exponent has no greater power, with
\* every square and product rounded down (quote/damm_v2.rs pow_q64, the exponential fees).
THEOREM PowFalls ==
    ASSUME NEW base \in Nat, base <= Q64, NEW i \in Nat, NEW j \in Nat, i <= j
    PROVE  /\ pow_q64(base, i) \in Nat /\ pow_q64(base, j) \in Nat
           /\ pow_q64(base, i) <= Q64 /\ pow_q64(base, j) <= pow_q64(base, i)
<1>1. PICK t : /\ Powers(Floored, Q64, base, i, PowBits, t)
               /\ pow_q64(base, i) = IF t[PowBits].rest = 0 THEN t[PowBits].result ELSE 0
  BY PowUnfolds
<1>2. PICK u : /\ Powers(Floored, Q64, base, j, PowBits, u)
               /\ pow_q64(base, j) = IF u[PowBits].rest = 0 THEN u[PowBits].result ELSE 0
  BY PowUnfolds
<1>3. PowBits \in Nat /\ Q64 \in Nat
  BY DammAssumption
<1>4. Shrinks(Q64, t[PowBits]) /\ Shrinks(Q64, u[PowBits]) /\ Fewer(t[PowBits], u[PowBits])
  BY <1>1, <1>2, <1>3, PowersFall, FlooredRounds
<1>5. /\ t[PowBits].result \in Nat /\ u[PowBits].result \in Nat /\ t[PowBits].rest \in Nat /\ u[PowBits].rest \in Nat
      /\ t[PowBits].result <= Q64 /\ t[PowBits].rest <= u[PowBits].rest
      /\ (t[PowBits].rest = u[PowBits].rest => u[PowBits].result <= t[PowBits].result)
  BY <1>4 DEF Shrinks, Fewer, Bits
<1> QED BY <1>1, <1>2, <1>3, <1>5

\* An exponent's bits in as many turns as it counts, and none are left for more.
LEMMA PowersEnd ==
    ASSUME NEW mul, NEW one, Rounds(mul, one), NEW base \in Nat, base <= one, NEW i \in Nat, NEW n \in Nat, i <= n,
           NEW t, Powers(mul, one, base, i, n, t), NEW u, Powers(mul, one, base, i, i, u)
    PROVE  t[n].result = u[i].result /\ t[n].rest = 0
<1> DEFINE Q == {k \in Nat : k <= i => t[k] = u[k] /\ t[k].rest \in Nat /\ t[k].rest <= i - k}
           E == {k \in Nat : i <= k /\ k <= n => t[k].rest = 0 /\ t[k].result = u[i].result}
<1>1. /\ t[0] = [result |-> one, squared |-> base, rest |-> i] /\ t[0] = u[0]
      /\ \A k \in 1..n : t[k] = PowerBit(mul, t[k - 1])
      /\ \A k \in 1..i : u[k] = PowerBit(mul, u[k - 1])
  BY DEF Powers
<1>2. 0 \in Q
  BY <1>1
<1>3. ASSUME NEW k \in Q PROVE k + 1 \in Q
  <2> SUFFICES ASSUME k + 1 <= i
               PROVE  t[k + 1] = u[k + 1] /\ t[k + 1].rest \in Nat /\ t[k + 1].rest <= i - (k + 1)
    OBVIOUS
  <2>1. k \in Nat /\ k + 1 \in 1..i /\ k + 1 \in 1..n /\ k + 1 - 1 = k /\ t[k] = u[k] /\ t[k].rest \in Nat /\ t[k].rest <= i - k
    OBVIOUS
  <2>2. t[k + 1] = PowerBit(mul, t[k]) /\ u[k + 1] = PowerBit(mul, t[k])
    BY <1>1, <2>1
  <2>3. t[k + 1].rest = t[k].rest \div 2
    BY <2>2 DEF PowerBit
  <2> QED BY <2>1, <2>2, <2>3
<1>4. Q = Nat
  <2>1. Q \in SUBSET Nat
    OBVIOUS
  <2> HIDE DEF Q
  <2> QED BY <1>2, <1>3, <2>1, Induction
<1>5. t[i] = u[i] /\ t[i].rest = 0
  <2>1. i \in Q
    BY <1>4
  <2> QED BY <2>1
<1>6. 0 \in E
  BY <1>5
<1>7. ASSUME NEW k \in E PROVE k + 1 \in E
  <2> SUFFICES ASSUME i <= k + 1, k + 1 <= n
               PROVE  t[k + 1].rest = 0 /\ t[k + 1].result = u[i].result
    OBVIOUS
  <2>1. CASE k + 1 = i
    BY <1>5, <2>1
  <2>2. CASE k + 1 # i
    <3>1. k \in Nat /\ k + 1 \in 1..n /\ k + 1 - 1 = k /\ t[k].rest = 0 /\ t[k].result = u[i].result
      BY <2>2
    <3>2. t[k + 1] = PowerBit(mul, t[k])
      BY <1>1, <3>1
    <3>3. t[k + 1].rest = 0 \div 2 /\ t[k + 1].result = IF 0 % 2 = 1 THEN mul[t[k].result][t[k].squared] ELSE t[k].result
      BY <3>1, <3>2 DEF PowerBit
    <3> QED BY <3>1, <3>3
  <2> QED BY <2>1, <2>2
<1>8. E = Nat
  <2>1. E \in SUBSET Nat
    OBVIOUS
  <2> HIDE DEF E
  <2> QED BY <1>6, <1>7, <2>1, Induction
<1>9. n \in E
  BY <1>8
<1> QED BY <1>9

LEMMA DecayUnfolds ==
    ASSUME NEW base \in Nat, NEW exp \in Nat
    PROVE  \E t : Powers(Ceiled, RateScale, base, exp, exp, t) /\ decayed(base, exp) = t[exp].result
<1> DEFINE start == [result |-> RateScale, squared |-> base, rest |-> exp]
           step == [s \in Bits |-> DecayBit(s)]
           Recurs(u) == u = [k \in 0..exp |-> IF k = 0 THEN start ELSE DecayBit(u[k - 1])]
           t == CHOOSE u : Recurs(u)
<1>1. start \in Bits /\ step \in [Bits -> Bits]
  BY ByrealAssumption, BitType DEF Bits
<1>2. PICK u : u \in [0..exp -> Bits] /\ Repeats(u, exp, start, step)
  <2> HIDE DEF start, step
  <2> QED BY <1>1, Iterates
<1> USE DEF Repeats
<1>3. Recurs(u)
  <2>1. ASSUME NEW k \in 0..exp
        PROVE  u[k] = IF k = 0 THEN start ELSE DecayBit(u[k - 1])
    <3>1. CASE k = 0
      BY <1>1, <1>2, <3>1
    <3>2. CASE k # 0
      <4>1. k - 1 \in 0..exp
        BY <1>1, <3>2
      <4>2. u[k - 1] \in Bits
        BY <1>2, <4>1
      <4>3. u[k] = step[u[k - 1]]
        BY <1>2, <3>2
      <4> QED BY <3>2, <4>2, <4>3
    <3> QED BY <3>1, <3>2
  <2>2. u = [k \in 0..exp |-> u[k]]
    BY <1>2
  <2> HIDE DEF start, step
  <2> QED BY <2>1, <2>2
<1>4. Recurs(t)
  <2>1. \E v : Recurs(v)
    BY <1>3
  <2> HIDE DEF Recurs
  <2> QED BY <2>1
<1>5. t[0] = start /\ \A k \in 1..exp : t[k] = DecayBit(t[k - 1])
  <2> HIDE DEF start, t
  <2> QED BY <1>1, <1>4
<1>6. decayed(base, exp) = t[exp].result
  BY DEF decayed
<1> HIDE DEF Recurs, t
<1>7. ASSUME NEW k \in 0..exp PROVE t[k] \in Bits
  <2> DEFINE Q == {n \in Nat : n <= exp => t[n] \in Bits}
  <2>1. 0 \in Q
    BY <1>1, <1>5
  <2>2. ASSUME NEW n \in Q PROVE n + 1 \in Q
    <3> SUFFICES ASSUME n + 1 <= exp PROVE t[n + 1] \in Bits
      OBVIOUS
    <3>1. n \in Nat /\ n + 1 \in 1..exp /\ n + 1 - 1 = n /\ t[n] \in Bits
      OBVIOUS
    <3> QED BY <1>5, <3>1, BitType
  <2>3. Q = Nat
    <3>1. Q \in SUBSET Nat
      OBVIOUS
    <3> HIDE DEF Q
    <3> QED BY <2>1, <2>2, <3>1, Induction
  <2> QED BY <2>3
<1>8. ASSUME NEW k \in 1..exp PROVE t[k] = PowerBit(Ceiled, t[k - 1])
  <2>1. k - 1 \in 0..exp
    OBVIOUS
  <2> QED BY <1>5, <1>7, <2>1, BitType
<1>9. Powers(Ceiled, RateScale, base, exp, exp, t)
  BY <1>5, <1>8 DEF Powers
<1> QED BY <1>6, <1>9

\* A launch fee decays, with every square and product rounded up (quote/byreal_fee.rs
\* decay_fee_rate).
THEOREM DecayFalls ==
    ASSUME NEW base \in Nat, base <= RateScale, NEW i \in Nat, NEW j \in Nat, i <= j
    PROVE  /\ decayed(base, i) \in Nat /\ decayed(base, j) \in Nat
           /\ decayed(base, j) <= decayed(base, i)
<1>1. PICK t : Powers(Ceiled, RateScale, base, i, i, t) /\ decayed(base, i) = t[i].result
  BY DecayUnfolds
<1>2. PICK u : Powers(Ceiled, RateScale, base, j, j, u) /\ decayed(base, j) = u[j].result
  BY DecayUnfolds
<1>3. \E v : Powers(Ceiled, RateScale, base, i, j, v)
  <2> DEFINE start == [result |-> RateScale, squared |-> base, rest |-> i]
             step == [s \in Bits |-> DecayBit(s)]
  <2>1. start \in Bits /\ step \in [Bits -> Bits]
    BY ByrealAssumption, BitType DEF Bits
  <2>2. PICK v : v \in [0..j -> Bits] /\ Repeats(v, j, start, step)
    <3> HIDE DEF start, step
    <3> QED BY <2>1, Iterates
  <2>3. v[0] = start
    <3> HIDE DEF start, step
    <3> QED BY <2>2 DEF Repeats
  <2>4. ASSUME NEW k \in 1..j PROVE v[k] = PowerBit(Ceiled, v[k - 1])
    <3>1. k - 1 \in 0..j /\ k \in 0..j /\ k # 0
      OBVIOUS
    <3>2. v[k] = step[v[k - 1]]
      <4> HIDE DEF start, step
      <4> QED BY <2>2, <3>1 DEF Repeats
    <3>3. v[k - 1] \in Bits
      BY <2>2, <3>1
    <3> QED BY <3>2, <3>3, BitType
  <2>5. Powers(Ceiled, RateScale, base, i, j, v)
    BY <2>3, <2>4 DEF Powers
  <2> QED BY <2>5
<1>4. PICK v : Powers(Ceiled, RateScale, base, i, j, v)
  BY <1>3
<1>5. v[j].result = t[i].result /\ v[j].rest = 0
  BY <1>1, <1>4, PowersEnd, CeiledRounds
<1>6. u[j].rest = 0
  BY <1>2, PowersEnd, CeiledRounds
<1>7. Shrinks(RateScale, v[j]) /\ Shrinks(RateScale, u[j]) /\ Fewer(v[j], u[j])
  BY <1>2, <1>4, PowersFall, CeiledRounds
<1> QED BY <1>1, <1>2, <1>5, <1>6, <1>7 DEF Shrinks, Fewer, Bits

\* To no power, anything is one.
LEMMA PowOfZero ==
    ASSUME NEW base \in Int
    PROVE  pow_q64(base, 0) = Q64
<1> DEFINE S == {s \in [result : {Q64}, squared : Int, rest : {0}] : TRUE}
           start == [result |-> Q64, squared |-> base, rest |-> 0]
           step == [s \in S |-> PowBit(s)]
           Recurs(u) == u = [k \in 0..PowBits |-> IF k = 0 THEN start ELSE PowBit(u[k - 1])]
           t == CHOOSE u : Recurs(u)
<1>1. PowBits \in Nat /\ Q64 \in Nat \ {0}
  BY DammAssumption
<1>2. ASSUME NEW s \in S PROVE PowBit(s) \in S
  <2>1. s.result = Q64 /\ s.squared \in Int /\ s.rest = 0
    OBVIOUS
  <2>2. 0 % 2 = 0 /\ 0 \div 2 = 0
    OBVIOUS
  <2>3. (s.squared * s.squared) \div Q64 \in Int
    <3>1. s.squared * s.squared \in Int
      BY <2>1
    <3> QED BY <1>1, <3>1, IntDivBounds
  <2> QED BY <2>1, <2>2, <2>3 DEF PowBit
<1>3. start \in S /\ step \in [S -> S]
  BY <1>2
<1>4. PICK u : u \in [0..PowBits -> S] /\ Repeats(u, PowBits, start, step)
  <2> HIDE DEF start, step, S
  <2> QED BY <1>1, <1>3, Iterates
<1> USE DEF Repeats
<1>5. Recurs(u)
  <2>1. ASSUME NEW k \in 0..PowBits
        PROVE  u[k] = IF k = 0 THEN start ELSE PowBit(u[k - 1])
    <3>1. CASE k = 0
      BY <1>1, <1>4, <3>1
    <3>2. CASE k # 0
      <4>1. k - 1 \in 0..PowBits
        BY <1>1, <3>2
      <4> HIDE DEF S, start
      <4>2. u[k - 1] \in S
        BY <1>4, <4>1
      <4>3. u[k] = step[u[k - 1]]
        <5> HIDE DEF step
        <5> QED BY <1>4, <3>2
      <4> QED BY <3>2, <4>2, <4>3
    <3> QED BY <3>1, <3>2
  <2>2. u = [k \in 0..PowBits |-> u[k]]
    BY <1>4
  <2> HIDE DEF start, step, S
  <2> QED BY <2>1, <2>2
<1>6. Recurs(t)
  <2>1. \E v : Recurs(v)
    BY <1>5
  <2> HIDE DEF Recurs
  <2> QED BY <2>1
<1>7. t[0] = start /\ \A k \in 1..PowBits : t[k] = PowBit(t[k - 1])
  <2> HIDE DEF start, t
  <2> QED BY <1>1, <1>6
<1>8. pow_q64(base, 0) = IF t[PowBits].rest = 0 THEN t[PowBits].result ELSE 0
  BY DEF pow_q64
<1> HIDE DEF Recurs, t
<1> DEFINE Q == {n \in Nat : n <= PowBits => t[n] \in S}
<1>9. 0 \in Q
  BY <1>3, <1>7
<1>10. ASSUME NEW n \in Q PROVE n + 1 \in Q
  <2> SUFFICES ASSUME n + 1 <= PowBits PROVE t[n + 1] \in S
    OBVIOUS
  <2> HIDE DEF S
  <2>1. n \in Nat /\ n + 1 \in 1..PowBits /\ n + 1 - 1 = n /\ t[n] \in S
    BY <1>1
  <2> QED BY <1>2, <1>7, <2>1
<1>11. Q = Nat
  <2>1. Q \in SUBSET Nat
    OBVIOUS
  <2> HIDE DEF Q
  <2> QED BY <1>9, <1>10, <2>1, Induction
<1>12. t[PowBits] \in S
  <2> HIDE DEF S
  <2> QED BY <1>1, <1>11
<1> QED BY <1>8, <1>12

-----------------------------------------------------------------------------
(* Rates that follow a schedule                                             *)

\* A rate that no later one is above, where the program computes both.
Lower(later, earlier) ==
    later \in Nat \cup {NoFee} /\ earlier \in Nat \cup {NoFee} /\ (later # NoFee /\ earlier # NoFee => later <= earlier)

LEMMA FeesType ==
    ASSUME NEW fees \in BaseFees
    PROVE  /\ fees.cliff \in Nat /\ fees.number \in Nat /\ fees.frequency \in Nat /\ fees.reduction \in Nat
           /\ fees.expiry \in Nat /\ fees.init_price \in Nat /\ fees.control \in Nat /\ fees.bin_step \in Nat
           /\ fees.volatility \in Nat /\ fees.max \in Nat
           /\ fees.mode \in {"linear", "exponential", "limiter", "cap_linear", "cap_exponential"}
BY DEF BaseFees

\* A part of Q64 that is taken off leaves no more than that.
LEMMA OneLessType ==
    ASSUME NEW reduction \in Nat
    PROVE  OneLess(reduction) \in Int /\ OneLess(reduction) <= Q64
<1>1. Q64 \in Nat \ {0} /\ BasisPoints \in Nat \ {0}
  BY DammAssumption DEF BasisPoints
<1>2. reduction * Q64 \in Nat
  BY <1>1
<1>3. (reduction * Q64) \div BasisPoints \in Nat
  BY <1>1, <1>2, DivBounds
<1> QED BY <1>1, <1>3 DEF OneLess

\* A power of the cliff.
LEMMA PowerFalls ==
    ASSUME NEW cliff \in Nat, NEW reduction \in Nat, OneLess(reduction) >= 0, NEW i \in Nat, NEW j \in Nat, i <= j
    PROVE  /\ pow_q64(OneLess(reduction), i) \in Nat /\ pow_q64(OneLess(reduction), j) \in Nat
           /\ (pow_q64(OneLess(reduction), i) * cliff) \div Q64 \in Nat
           /\ (pow_q64(OneLess(reduction), j) * cliff) \div Q64 \in Nat
           /\ (pow_q64(OneLess(reduction), j) * cliff) \div Q64 <= (pow_q64(OneLess(reduction), i) * cliff) \div Q64
<1> DEFINE base == OneLess(reduction)
           x == pow_q64(base, i)
           y == pow_q64(base, j)
<1>1. base \in Nat /\ base <= Q64 /\ Q64 \in Nat \ {0}
  BY OneLessType, DammAssumption
<1> HIDE DEF base
<1>2. x \in Nat /\ y \in Nat /\ y <= x
  BY <1>1, PowFalls
<1> HIDE DEF x, y
<1>3. y * cliff \in Nat /\ x * cliff \in Nat /\ y * cliff <= x * cliff
  BY <1>2, TimesMonotone
<1>4. (y * cliff) \div Q64 \in Nat /\ (x * cliff) \div Q64 \in Nat /\ (y * cliff) \div Q64 <= (x * cliff) \div Q64
  BY <1>1, <1>3, DivMonotone
<1> QED BY <1>2, <1>4 DEF x, y, base

LEMMA LinearFalls ==
    ASSUME NEW cliff \in Nat, NEW reduction \in Nat, NEW i \in Nat, NEW j \in Nat, i <= j
    PROVE  Lower(AtLeast(cliff - reduction * j, NoFee), AtLeast(cliff - reduction * i, NoFee))
<1>1. reduction * i \in Nat /\ reduction * j \in Nat /\ reduction * i <= reduction * j
  BY TimesMonotone
<1> DEFINE x == cliff - reduction * i
           y == cliff - reduction * j
<1>2. x \in Int /\ y \in Int /\ y <= x
  BY <1>1
<1> HIDE DEF x, y
<1>3. Lower(AtLeast(y, NoFee), AtLeast(x, NoFee))
  BY <1>2 DEF AtLeast, NoFee, Lower
<1> QED BY <1>3 DEF x, y

LEMMA ScheduleFalls ==
    ASSUME NEW fees \in BaseFees, NEW i \in Nat, NEW j \in Nat, AtMost(i, fees.number) <= AtMost(j, fees.number),
           NEW exponential \in BOOLEAN
    PROVE  Lower(scheduled_fee(fees, j, exponential), scheduled_fee(fees, i, exponential))
<1> DEFINE m == AtMost(i, fees.number)
           n == AtMost(j, fees.number)
<1>1. m \in Nat /\ n \in Nat /\ m <= n /\ fees.cliff \in Nat /\ fees.reduction \in Nat
  BY FeesType DEF AtMost
<1> HIDE DEF m, n
<1>2. CASE ~exponential
  <2>1. Lower(AtLeast(fees.cliff - fees.reduction * n, NoFee), AtLeast(fees.cliff - fees.reduction * m, NoFee))
    BY <1>1, LinearFalls
  <2> QED BY <1>2, <2>1 DEF scheduled_fee, m, n
<1>3. CASE exponential
  <2>1. /\ scheduled_fee(fees, i, exponential) = fee_in_period(fees.cliff, fees.reduction, m)
        /\ scheduled_fee(fees, j, exponential) = fee_in_period(fees.cliff, fees.reduction, n)
    BY <1>3 DEF scheduled_fee, m, n
  <2>2. CASE OneLess(fees.reduction) < 0
    BY <2>1, <2>2 DEF fee_in_period, Lower
  <2>3. CASE ~(OneLess(fees.reduction) < 0)
    <3> DEFINE x == pow_q64(OneLess(fees.reduction), m)
               y == pow_q64(OneLess(fees.reduction), n)
    <3>1. OneLess(fees.reduction) >= 0
      BY <1>1, <2>3, OneLessType
    <3>2. (x * fees.cliff) \div Q64 \in Nat /\ (y * fees.cliff) \div Q64 \in Nat
          /\ (y * fees.cliff) \div Q64 <= (x * fees.cliff) \div Q64
      BY <1>1, <3>1, PowerFalls
    <3>3. /\ fee_in_period(fees.cliff, fees.reduction, m) \in {NoFee, (x * fees.cliff) \div Q64}
          /\ fee_in_period(fees.cliff, fees.reduction, n) \in {NoFee, (y * fees.cliff) \div Q64}
      BY DEF fee_in_period
    <3> HIDE DEF x, y
    <3> QED BY <2>1, <3>2, <3>3 DEF Lower
  <2> QED BY <2>2, <2>3
<1> QED BY <1>2, <1>3

\* What a rate limiter charges is no less than the rate without it.
LEMMA LimitedAbove ==
    ASSUME NEW fees \in BaseFees, fees.reduction > 0, NEW amount \in Nat
    PROVE  Lower(fees.cliff, rate_limited_fee(fees, amount))
<1> DEFINE cliff == fees.cliff
           reference == fees.reduction
           inc == ToNumerator(fees.number)
           max_fee == ToNumerator(fees.expiry)
           mi == (max_fee - cliff) \div inc
           a == (amount - reference) \div reference
           b == (amount - reference) % reference
           climbed(n) == cliff + cliff * n + (inc * n * (n + 1)) \div 2
           numerator == IF a < mi THEN reference * climbed(a) + b * (cliff + inc * (a + 1))
                        ELSE reference * climbed(mi) + ((a - mi) * reference + b) * max_fee
           fee == div_ceil(div_ceil(numerator, FeeScale) * FeeScale, amount)
<1>1. cliff \in Nat /\ reference \in Nat \ {0} /\ FeeScale \in Nat \ {0}
  BY FeesType, DammAssumption
<1>2. inc \in Nat /\ max_fee \in Nat
  <2>1. fees.number * FeeScale \in Nat /\ fees.expiry * FeeScale \in Nat /\ BasisPoints \in Nat \ {0}
    BY <1>1, FeesType DEF BasisPoints
  <2> QED BY <2>1, DivBounds DEF ToNumerator
<1>3. CASE amount <= reference
  <2>1. rate_limited_fee(fees, amount) = cliff
    BY <1>3 DEF rate_limited_fee
  <2> QED BY <1>1, <2>1 DEF Lower
<1>4. CASE ~(amount <= reference) /\ (max_fee < cliff \/ inc = 0)
  <2>1. rate_limited_fee(fees, amount) = NoFee
    BY <1>4 DEF rate_limited_fee
  <2> QED BY <1>1, <2>1 DEF Lower
<1>5. CASE ~(amount <= reference) /\ ~(max_fee < cliff \/ inc = 0)
  <2>1. rate_limited_fee(fees, amount) = fee
    <3> HIDE DEF cliff
    <3> QED BY <1>5 DEF rate_limited_fee, cliff
  <2> HIDE DEF inc, max_fee, cliff, reference
  <2>2. a \in Nat /\ b \in Nat /\ amount = reference * a + reference + b
    <3> DEFINE rest == amount - reference
    <3>1. rest \in Nat
      BY <1>1, <1>5
    <3> HIDE DEF rest
    <3>2. rest \div reference \in Nat /\ rest % reference \in Nat /\ rest = reference * (rest \div reference) + (rest % reference)
      BY <1>1, <3>1
    <3> QED BY <1>1, <1>5, <3>2 DEF rest
  <2>3. mi \in Nat
    <3>1. max_fee - cliff \in Nat /\ inc \in Nat \ {0}
      BY <1>1, <1>2, <1>5
    <3> QED BY <3>1, DivBounds
  <2> HIDE DEF mi, a, b
  <2>4. ASSUME NEW n \in Nat
        PROVE  climbed(n) \in Nat /\ cliff + cliff * n <= climbed(n)
    <3>1. inc * n * (n + 1) \in Nat
      BY <1>2
    <3>2. (inc * n * (n + 1)) \div 2 \in Nat
      BY <3>1
    <3> QED BY <1>1, <3>2
  <2> HIDE DEF climbed
  <2>5. numerator \in Nat /\ amount * cliff <= numerator
    <3>1. CASE a < mi
      <4>1. numerator = reference * climbed(a) + b * (cliff + inc * (a + 1))
        BY <3>1
      <4>2. reference * climbed(a) \in Nat /\ reference * (cliff + cliff * a) <= reference * climbed(a)
        <5>1. climbed(a) \in Nat /\ cliff + cliff * a <= climbed(a)
          BY <2>2, <2>4
        <5>2. cliff + cliff * a \in Nat
          BY <1>1, <2>2
        <5> QED BY <1>1, <5>1, <5>2, TimesMonotone
      <4>3. inc * (a + 1) \in Nat
        BY <1>2, <2>2
      <4>4. b * (cliff + inc * (a + 1)) \in Nat /\ b * cliff <= b * (cliff + inc * (a + 1))
        BY <1>1, <2>2, <4>3, TimesMonotone
      <4>5. amount * cliff = reference * (cliff + cliff * a) + b * cliff
        BY <1>1, <2>2
      <4>6. reference * (cliff + cliff * a) \in Nat /\ b * cliff \in Nat
        BY <1>1, <2>2
      <4> QED BY <4>1, <4>2, <4>4, <4>5, <4>6
    <3>2. CASE ~(a < mi)
      <4> DEFINE r == (a - mi) * reference + b
      <4>1. numerator = reference * climbed(mi) + r * max_fee
        BY <3>2
      <4>2. reference * climbed(mi) \in Nat /\ reference * (cliff + cliff * mi) <= reference * climbed(mi)
        <5>1. climbed(mi) \in Nat /\ cliff + cliff * mi <= climbed(mi)
          BY <2>3, <2>4
        <5>2. cliff + cliff * mi \in Nat
          BY <1>1, <2>3
        <5> QED BY <1>1, <5>1, <5>2, TimesMonotone
      <4>3. r \in Nat
        BY <1>1, <2>2, <2>3, <3>2
      <4>4. amount = reference * mi + reference + r
        BY <1>1, <2>2, <2>3
      <4> HIDE DEF r
      <4>5. r * max_fee \in Nat /\ r * cliff <= r * max_fee
        BY <1>1, <1>2, <1>5, <4>3, TimesMonotone
      <4>6. amount * cliff = reference * (cliff + cliff * mi) + r * cliff
        BY <1>1, <2>3, <4>3, <4>4
      <4>7. reference * (cliff + cliff * mi) \in Nat /\ r * cliff \in Nat
        BY <1>1, <2>3, <4>3
      <4> QED BY <4>1, <4>2, <4>5, <4>6, <4>7
    <3> QED BY <3>1, <3>2
  <2> HIDE DEF numerator
  <2>6. div_ceil(numerator, FeeScale) \in Nat /\ numerator <= div_ceil(numerator, FeeScale) * FeeScale
    BY <1>1, <2>5, DivCeilCovers
  <2> DEFINE d == div_ceil(numerator, FeeScale) * FeeScale
  <2>7. d \in Nat /\ amount * cliff <= d
    BY <1>1, <2>5, <2>6
  <2> HIDE DEF d
  <2>8. amount \in Nat \ {0}
    BY <1>1, <1>5
  <2>9. div_ceil(d, amount) \in Nat /\ d <= div_ceil(d, amount) * amount
    BY <2>7, <2>8, DivCeilCovers
  <2>10. cliff * amount <= div_ceil(d, amount) * amount
    BY <1>1, <2>7, <2>8, <2>9
  <2>11. cliff <= div_ceil(d, amount)
    BY <1>1, <2>8, <2>9, <2>10, TimesCancel
  <2> QED BY <1>1, <2>1, <2>9, <2>11 DEF Lower, d, fee, cliff
<1> QED BY <1>3, <1>4, <1>5

LEMMA VariableFeeType ==
    ASSUME NEW fees \in BaseFees
    PROVE  variable_fee(fees) \in Nat
<1> DEFINE moved == fees.volatility * fees.bin_step
<1>1. moved \in Nat /\ VariableScale \in Nat \ {0} /\ fees.control \in Nat
  BY FeesType, DammAssumption
<1> HIDE DEF moved
<1>2. fees.control * moved * moved \in Nat
  BY <1>1
<1>3. div_ceil(fees.control * moved * moved, VariableScale) \in Nat
  BY <1>1, <1>2, DivCeilCovers
<1> QED BY <1>3 DEF variable_fee, moved

\* The fee of a moment is no higher later.
LEMMA BaseFeeFalls ==
    ASSUME NEW fees \in BaseFees,
           fees.mode = "limiter" => fees.reduction > 0 \/ (fees.frequency = 0 /\ fees.expiry = 0 /\ fees.number = 0),
           NEW i \in Nat, NEW j \in Nat, i <= j, NEW side \in Sides, NEW amount \in Nat, NEW price \in Nat
    PROVE  Lower(base_fee(fees, j, side, amount, price), base_fee(fees, i, side, amount, price))
<1>1. /\ fees.cliff \in Nat /\ fees.number \in Nat /\ fees.frequency \in Nat /\ fees.reduction \in Nat
      /\ fees.expiry \in Nat /\ fees.init_price \in Nat
  BY FeesType
<1>2. CASE fees.mode \in {"linear", "exponential"}
  <2> DEFINE e == fees.mode = "exponential"
  <2>1. CASE fees.frequency = 0
    <3>1. base_fee(fees, j, side, amount, price) = fees.cliff /\ base_fee(fees, i, side, amount, price) = fees.cliff
      BY <1>2, <2>1 DEF base_fee
    <3> QED BY <1>1, <3>1 DEF Lower
  <2>2. CASE fees.frequency # 0
    <3>1. /\ base_fee(fees, j, side, amount, price) = scheduled_fee(fees, j \div fees.frequency, e)
          /\ base_fee(fees, i, side, amount, price) = scheduled_fee(fees, i \div fees.frequency, e)
      BY <1>2, <2>2 DEF base_fee
    <3>2. /\ i \div fees.frequency \in Nat /\ j \div fees.frequency \in Nat
          /\ i \div fees.frequency <= j \div fees.frequency
      BY <1>1, <2>2, DivMonotone
    <3>3. AtMost(i \div fees.frequency, fees.number) <= AtMost(j \div fees.frequency, fees.number)
      BY <1>1, <3>2 DEF AtMost
    <3>4. e \in BOOLEAN
      OBVIOUS
    <3> HIDE DEF e
    <3> QED BY <3>1, <3>2, <3>3, <3>4, ScheduleFalls
  <2> QED BY <2>1, <2>2
<1>3. CASE fees.mode = "limiter"
  <2> DEFINE limited(point) == rate_limiter_applies(fees, point, side)
  <2>1. \A point \in {i, j} : base_fee(fees, point, side, amount, price)
            = IF limited(point) THEN rate_limited_fee(fees, amount) ELSE fees.cliff
    BY <1>3 DEF base_fee
  <2>2. limited(j) => limited(i)
    BY <1>1 DEF rate_limiter_applies
  <2>3. limited(i) => fees.reduction > 0
    BY <1>1, <1>3 DEF rate_limiter_applies
  <2> HIDE DEF limited
  <2>4. CASE ~limited(i)
    BY <1>1, <2>1, <2>2, <2>4 DEF Lower
  <2>5. CASE limited(i)
    <3>1. Lower(fees.cliff, rate_limited_fee(fees, amount))
      BY <2>3, <2>5, LimitedAbove
    <3> QED BY <1>1, <2>1, <2>5, <3>1 DEF Lower
  <2> QED BY <2>4, <2>5
<1>4. CASE fees.mode \in {"cap_linear", "cap_exponential"}
  <2> DEFINE e == fees.mode = "cap_exponential"
             none(point) == point <= fees.expiry /\ price > fees.init_price /\ 0 \in {fees.init_price, fees.frequency}
             period(point) == MarketCapPeriod(fees, point, price)
  <2>1. \A point \in {i, j} : base_fee(fees, point, side, amount, price)
            = IF none(point) THEN NoFee ELSE scheduled_fee(fees, period(point), e)
    BY <1>4 DEF base_fee
  <2>2. ASSUME NEW point \in {i, j}, ~none(point)
        PROVE  period(point) \in Nat
    <3>1. CASE point <= fees.expiry /\ price > fees.init_price
      <4> DEFINE rise == (price - fees.init_price) * BasisPoints
      <4>1. rise \in Nat /\ fees.init_price \in Nat \ {0} /\ fees.frequency \in Nat \ {0}
        BY <1>1, <2>2, <3>1 DEF BasisPoints
      <4>2. period(point) = (rise \div fees.init_price) \div fees.frequency
        BY <1>1, <3>1 DEF MarketCapPeriod
      <4> HIDE DEF rise
      <4>3. rise \div fees.init_price \in Nat
        BY <4>1, DivBounds
      <4> QED BY <4>1, <4>2, <4>3, DivBounds
    <3>2. CASE ~(point <= fees.expiry /\ price > fees.init_price)
      BY <1>1, <3>2 DEF MarketCapPeriod
    <3> QED BY <3>1, <3>2
  <2>3. CASE ~none(i) /\ ~none(j)
    <3>1. period(j) = fees.number \/ period(j) = period(i)
      BY <1>1 DEF MarketCapPeriod
    <3>2. period(i) \in Nat /\ period(j) \in Nat
      BY <2>2, <2>3
    <3>3. AtMost(period(i), fees.number) <= AtMost(period(j), fees.number)
      <4> HIDE DEF period
      <4> QED BY <1>1, <3>1, <3>2 DEF AtMost
    <3>4. e \in BOOLEAN
      OBVIOUS
    <3> HIDE DEF e, none, period
    <3>5. Lower(scheduled_fee(fees, period(j), e), scheduled_fee(fees, period(i), e))
      BY <3>2, <3>3, <3>4, ScheduleFalls
    <3> QED BY <2>1, <2>3, <3>5
  <2>4. CASE none(i) \/ none(j)
    <3>1. \A point \in {i, j} : ~none(point) => scheduled_fee(fees, period(point), e) \in Nat \cup {NoFee}
      <4>1. ASSUME NEW point \in {i, j}, ~none(point)
            PROVE  scheduled_fee(fees, period(point), e) \in Nat \cup {NoFee}
        <5>1. period(point) \in Nat
          BY <2>2, <4>1
        <5>2. AtMost(period(point), fees.number) <= AtMost(period(point), fees.number) /\ e \in BOOLEAN
          <6> HIDE DEF period
          <6> QED BY <1>1, <5>1 DEF AtMost
        <5> HIDE DEF e, period
        <5> QED BY <5>1, <5>2, ScheduleFalls DEF Lower
      <4> QED BY <4>1
    <3> HIDE DEF none, period, e
    <3> QED BY <2>1, <2>4, <3>1 DEF Lower
  <2> QED BY <2>3, <2>4
<1> QED BY <1>2, <1>3, <1>4, FeesType

\* With the part for volatility, up to a most.
LEMMA TotalFalls ==
    ASSUME NEW x, NEW y, Lower(y, x), NEW part \in Nat, NEW most \in Nat
    PROVE  Lower(IF y = NoFee THEN NoFee ELSE AtMost(y + part, most), IF x = NoFee THEN NoFee ELSE AtMost(x + part, most))
BY DEF Lower, NoFee, AtMost

LEMMA DammRateFalls ==
    ASSUME NEW fees \in BaseFees,
           fees.mode = "limiter" => fees.reduction > 0 \/ (fees.frequency = 0 /\ fees.expiry = 0 /\ fees.number = 0),
           NEW i \in Nat, NEW j \in Nat, i <= j, NEW side \in Sides, NEW amount \in Nat, NEW price \in Nat
    PROVE  Lower(total_fee_numerator(fees, j, side, amount, price), total_fee_numerator(fees, i, side, amount, price))
<1>1. Lower(base_fee(fees, j, side, amount, price), base_fee(fees, i, side, amount, price))
  BY BaseFeeFalls
<1>2. variable_fee(fees) \in Nat /\ fees.max \in Nat
  BY VariableFeeType, FeesType
<1> QED BY <1>1, <1>2, TotalFalls DEF total_fee_numerator

\* A bonding curve's fee likewise.
LEMMA DbcFeeFalls ==
    ASSUME NEW fees \in BaseFees, NEW i \in Nat, NEW j \in Nat, i <= j, NEW side \in Sides
    PROVE  Lower(DbcFee(fees, j, side), DbcFee(fees, i, side))
<1>1. fees.cliff \in Nat /\ fees.number \in Nat /\ fees.frequency \in Nat /\ fees.reduction \in Nat
  BY FeesType
<1>2. Limited(fees, j, side) => Limited(fees, i, side)
  BY <1>1 DEF Limited
<1>3. CASE fees.mode = "limiter" \/ fees.frequency = 0
  <2>1. /\ DbcFee(fees, i, side) = IF Limited(fees, i, side) THEN NoFee ELSE fees.cliff
        /\ DbcFee(fees, j, side) = IF Limited(fees, j, side) THEN NoFee ELSE fees.cliff
    BY <1>3 DEF DbcFee
  <2> QED BY <1>1, <2>1 DEF Lower
<1>4. CASE fees.mode # "limiter" /\ fees.frequency # 0
  <2> DEFINE m == AtMost(i \div fees.frequency, fees.number)
             n == AtMost(j \div fees.frequency, fees.number)
             charge(period) == IF fees.mode = "exponential" THEN exponential_fee(fees.cliff, fees.reduction, period)
                               ELSE AtLeast(fees.cliff - fees.reduction * period, NoFee)
  <2>1. DbcFee(fees, i, side) = charge(m) /\ DbcFee(fees, j, side) = charge(n)
    BY <1>4 DEF DbcFee, Limited
  <2>2. m \in Nat /\ n \in Nat /\ m <= n
    <3>1. /\ i \div fees.frequency \in Nat /\ j \div fees.frequency \in Nat
          /\ i \div fees.frequency <= j \div fees.frequency
      BY <1>1, <1>4, DivMonotone
    <3> QED BY <1>1, <3>1 DEF AtMost
  <2> HIDE DEF m, n
  <2>3. CASE fees.mode # "exponential"
    BY <1>1, <2>1, <2>2, <2>3, LinearFalls
  <2>4. CASE fees.mode = "exponential"
    <3> DEFINE x == exponential_fee(fees.cliff, fees.reduction, m)
               y == exponential_fee(fees.cliff, fees.reduction, n)
    <3>1. charge(m) = x /\ charge(n) = y
      BY <2>4
    <3>2. CASE OneLess(fees.reduction) >= 0
      <4>1. x = (pow_q64(OneLess(fees.reduction), m) * fees.cliff) \div Q64
            /\ y = (pow_q64(OneLess(fees.reduction), n) * fees.cliff) \div Q64
        BY <3>2, <1>1, OneLessType DEF exponential_fee
      <4> HIDE DEF x, y
      <4>2. x \in Nat /\ y \in Nat /\ y <= x
        BY <1>1, <2>2, <3>2, <4>1, PowerFalls
      <4> QED BY <2>1, <3>1, <4>2 DEF Lower
    <3>3. CASE ~(OneLess(fees.reduction) >= 0) /\ m > 0
      <4>1. x = NoFee /\ y = NoFee
        BY <1>1, <2>2, <3>3, OneLessType DEF exponential_fee
      <4> QED BY <2>1, <3>1, <4>1 DEF Lower
    <3>4. CASE ~(OneLess(fees.reduction) >= 0) /\ m = 0
      <4>1. n > 0 => y = NoFee
        BY <1>1, <2>2, <3>4, OneLessType DEF exponential_fee
      <4>2. x \in Nat
        <5>1. x = (pow_q64(OneLess(fees.reduction), 0) * fees.cliff) \div Q64
          BY <3>4 DEF exponential_fee
        <5>2. Q64 \in Nat \ {0} /\ OneLess(fees.reduction) \in Int
          BY <1>1, OneLessType, DammAssumption
        <5>3. Q64 * fees.cliff \in Nat
          BY <1>1, <5>2
        <5> QED BY <5>1, <5>2, <5>3, PowOfZero, DivBounds
      <4> QED BY <2>1, <2>2, <3>1, <3>4, <4>1, <4>2 DEF Lower
    <3> QED BY <2>2, <3>2, <3>3, <3>4
  <2> QED BY <2>3, <2>4
<1> QED BY <1>3, <1>4

LEMMA DbcRateFalls ==
    ASSUME NEW fees \in BaseFees, NEW i \in Nat, NEW j \in Nat, i <= j, NEW side \in Sides
    PROVE  Lower(dbc_fee_numerator(fees, j, side), dbc_fee_numerator(fees, i, side))
<1>1. Lower(DbcFee(fees, j, side), DbcFee(fees, i, side))
  BY DbcFeeFalls
<1>2. variable_fee(fees) \in Nat /\ fees.max \in Nat
  BY VariableFeeType, FeesType
<1> QED BY <1>1, <1>2, TotalFalls DEF dbc_fee_numerator

\* Byreal's launch fee, and the rate it is part of.
LEMMA LaunchFeeFalls ==
    ASSUME NEW fees \in LaunchFees, NEW i \in Nat, NEW j \in Nat, i <= j, NEW side \in Sides
    PROVE  /\ base_fee_rate(fees, side, i) \in Nat /\ base_fee_rate(fees, side, j) \in Nat
           /\ base_fee_rate(fees, side, j) <= base_fee_rate(fees, side, i)
<1> DEFINE start == RateScale - (fees.decrease * RateScale) \div 100
           rate(time) == decayed(start, time \div fees.interval)
<1>1. /\ fees.decrease \in 0..100 /\ fees.interval \in Nat \ {0} /\ fees.init \in Nat
      /\ fees.pool_rate \in Nat /\ fees.config_rate \in Nat
  BY DEF LaunchFees
<1>2. RateScale \in Nat \ {0} /\ PPM \in Nat
  BY ByrealAssumption, PpmType
<1>3. start \in Nat /\ start <= RateScale
  <2>1. fees.decrease * RateScale \in Nat /\ fees.decrease * RateScale <= RateScale * 100
    BY <1>1, <1>2
  <2>2. (fees.decrease * RateScale) \div 100 \in Nat /\ (fees.decrease * RateScale) \div 100 <= RateScale
    BY <1>2, <2>1, DivBounds, DivAtMost
  <2> QED BY <1>2, <2>2
<1> HIDE DEF start
<1>4. i \div fees.interval \in Nat /\ j \div fees.interval \in Nat /\ i \div fees.interval <= j \div fees.interval
  BY <1>1, DivMonotone
<1>5. rate(i) \in Nat /\ rate(j) \in Nat /\ rate(j) <= rate(i)
  BY <1>3, <1>4, DecayFalls
<1>6. \A time \in {i, j} : decay_fee_rate(fees, time) = div_ceil(rate(time) * fees.init, 100) * (PPM \div RateScale)
  BY DEF decay_fee_rate, start
<1> HIDE DEF rate
<1>7. rate(i) * fees.init \in Nat /\ rate(j) * fees.init \in Nat /\ rate(j) * fees.init <= rate(i) * fees.init
  BY <1>1, <1>5, TimesMonotone
<1>8. /\ div_ceil(rate(i) * fees.init, 100) \in Nat /\ div_ceil(rate(j) * fees.init, 100) \in Nat
      /\ div_ceil(rate(j) * fees.init, 100) <= div_ceil(rate(i) * fees.init, 100)
  BY <1>7, CeilMonotone
<1>9. PPM \div RateScale \in Nat
  BY <1>2, DivBounds
<1>10. /\ decay_fee_rate(fees, i) \in Nat /\ decay_fee_rate(fees, j) \in Nat
       /\ decay_fee_rate(fees, j) <= decay_fee_rate(fees, i)
  BY <1>6, <1>8, <1>9, TimesMonotone
<1> QED BY <1>1, <1>10 DEF base_fee_rate, AtLeast

LEMMA ByrealRateFalls ==
    ASSUME NEW fees \in LaunchFees, NEW i \in Nat, NEW j \in Nat, i <= j, NEW side \in Sides, NEW price \in Nat, NEW v,
           NEW x, x = swap_fee_ppm(fees, price, v, side, i), x # NoRate,
           NEW y, y = swap_fee_ppm(fees, price, v, side, j), y # NoRate
    PROVE  y <= x
<1> DEFINE a == base_fee_rate(fees, side, i)
           b == base_fee_rate(fees, side, j)
<1>1. a \in Nat /\ b \in Nat /\ b <= a
  BY LaunchFeeFalls
<1> HIDE DEF a, b
<1>2. CASE ~fees.dynamic
  BY <1>1, <1>2 DEF swap_fee_ppm, a, b
<1>3. CASE fees.dynamic
  <2> DEFINE p_0 == (price * price) \div Q64
             p_index == price_index(fees.oracle)
             off == div_ceil(Step!Gap(p_0, p_index) * PPM, p_index)
  <2>1. x = dynamic_fee_rate(fees, a, price, v, side, i) /\ y = dynamic_fee_rate(fees, b, price, v, side, j)
    BY <1>3 DEF swap_fee_ppm, a, b
  <2>2. /\ x = a + arbitrage_fee(p_0, p_index, fees.buffer, a)
        /\ y = b + arbitrage_fee(p_0, p_index, fees.buffer, b)
        /\ p_index # 0
    BY <2>1 DEF dynamic_fee_rate
  <2>3. p_0 \in Nat /\ p_index \in Nat \ {0} /\ fees.buffer \in Nat
    <3>1. Q64 \in Nat \ {0} /\ price * price \in Nat
      BY DammAssumption
    <3>2. fees.buffer \in Nat /\ fees.oracle.price_0 \in Nat /\ fees.oracle.price_1 \in Nat \ {0}
      BY DEF LaunchFees, PriceFeed
    <3>3. fees.oracle.price_0 * Q64 \in Nat
      BY <3>1, <3>2
    <3> QED BY <2>2, <3>1, <3>2, <3>3, DivBounds DEF price_index
  <2> HIDE DEF p_0, p_index
  <2>4. off \in Nat
    <3>1. Step!Gap(p_0, p_index) \in Nat
      BY <2>3 DEF Step!Gap
    <3>2. Step!Gap(p_0, p_index) * PPM \in Nat
      BY <3>1, PpmType
    <3> QED BY <2>3, <3>2, DivCeilCovers
  <2>5. x = a + AtLeast(off - fees.buffer - a, 0) /\ y = b + AtLeast(off - fees.buffer - b, 0)
    BY <2>2 DEF arbitrage_fee
  <2> HIDE DEF off
  <2> QED BY <1>1, <2>3, <2>4, <2>5 DEF AtLeast
<1> QED BY <1>2, <1>3

-----------------------------------------------------------------------------
(* A fee that falls: no less of the input reaches a curve, and more of what *)
(* the curve gives is paid.                                                 *)

\* Fractions keep their order when they are rounded, either way.
LEMMA FractionFloors ==
    ASSUME NEW x \in Nat, NEW y \in Nat \ {0}, NEW c \in Nat, NEW d \in Nat \ {0}, x * d <= c * y
    PROVE  x \div y \in Nat /\ c \div d \in Nat /\ x \div y <= c \div d
<1> DEFINE k == x \div y
<1>1. k \in Nat /\ k * y <= x /\ c \div d \in Nat
  BY DivBounds
<1> HIDE DEF k
<1>2. k * y \in Nat /\ k * d \in Nat /\ (k * y) * d <= x * d /\ x * d \in Nat /\ c * y \in Nat
  BY <1>1
<1>3. (k * y) * d = (k * d) * y
  BY <1>1
<1>4. (k * d) * y <= c * y
  BY <1>2, <1>3
<1>5. k * d <= c
  BY <1>2, <1>4, TimesCancel
<1>6. k <= c \div d
  BY <1>1, <1>5, DivAtLeast
<1> QED BY <1>1, <1>6 DEF k

LEMMA FractionCeils ==
    ASSUME NEW x \in Nat, NEW y \in Nat \ {0}, NEW c \in Nat, NEW d \in Nat \ {0}, x * d <= c * y
    PROVE  div_ceil(x, y) \in Nat /\ div_ceil(c, d) \in Nat /\ div_ceil(x, y) <= div_ceil(c, d)
<1> DEFINE k == div_ceil(c, d)
<1>1. k \in Nat /\ c <= k * d
  BY DivCeilCovers
<1> HIDE DEF k
<1>2. k * d \in Nat /\ k * y \in Nat /\ x * d \in Nat /\ c * y \in Nat
  BY <1>1
<1>3. c * y <= (k * d) * y
  BY <1>1, <1>2, TimesMonotone
<1>4. (k * d) * y = (k * y) * d
  BY <1>1
<1>5. x * d <= (k * y) * d
  BY <1>2, <1>3, <1>4
<1>6. x <= k * y
  BY <1>2, <1>5, TimesCancel
<1>7. div_ceil(x, y) \in Nat /\ div_ceil(x, y) <= k
  BY <1>1, <1>6, DivCeilAtMost
<1> QED BY <1>1, <1>7 DEF k

\* What is left of an amount when a fee is taken off it.
LEMMA LeftMonotone ==
    ASSUME NEW scale \in Nat \ {0}, NEW high \in 0..scale, NEW low \in 0..scale, low <= high,
           NEW a \in Nat, NEW b \in Nat, a <= b
    PROVE  /\ a - div_ceil(a * high, scale) \in Nat /\ b - div_ceil(b * low, scale) \in Nat
           /\ a - div_ceil(a * high, scale) <= b - div_ceil(b * low, scale)
<1>1. high \in Nat /\ low \in Nat /\ low <= scale
  OBVIOUS
<1>2. a * low \in Nat /\ a * high \in Nat /\ a * low <= a * high /\ a * high <= a * scale /\ b * low \in Nat /\ b * low <= b * scale
  BY <1>1, TimesMonotone
<1> DEFINE x == a * low
           y == a * high
           z == b * low
<1> HIDE DEF x, y, z
<1>3. /\ div_ceil(x, scale) \in Nat /\ div_ceil(y, scale) \in Nat
      /\ div_ceil(x, scale) <= div_ceil(y, scale)
  BY <1>2, CeilMonotone DEF x, y
<1>4. div_ceil(y, scale) <= a /\ div_ceil(z, scale) \in Nat /\ div_ceil(z, scale) <= b
  BY <1>2, DivCeilAtMost DEF y, z
<1>5. a - div_ceil(a * low, scale) <= b - div_ceil(b * low, scale)
  BY <1>1, <1>4, LessFee DEF z
<1>6. a - div_ceil(x, scale) <= b - div_ceil(z, scale)
  BY <1>5 DEF x, z
<1> QED BY <1>3, <1>4, <1>6 DEF x, y, z

\* The price after more of the input is further on.
LEMMA NextDownFollows ==
    ASSUME NEW price \in Nat \ {0}, NEW liquidity \in Nat \ {0}, NEW a \in Nat, NEW b \in Nat, a <= b
    PROVE  next_sqrt_price_from_a(price, liquidity, b) <= next_sqrt_price_from_a(price, liquidity, a)
<1> DEFINE x == liquidity * price
           y == liquidity + b * price
           z == liquidity + a * price
<1>1. a * price \in Nat /\ b * price \in Nat /\ a * price <= b * price /\ x \in Nat
  BY TimesMonotone
<1>2. y \in Nat \ {0} /\ z \in Nat \ {0} /\ z <= y
  BY <1>1
<1> HIDE DEF x, y, z
<1>3. x * z <= x * y
  BY <1>1, <1>2, TimesMonotone
<1>4. div_ceil(x, y) <= div_ceil(x, z)
  BY <1>1, <1>2, <1>3, FractionCeils
<1> QED BY <1>4 DEF next_sqrt_price_from_a, x, y, z

LEMMA NextUpFollows ==
    ASSUME NEW price \in Nat \ {0}, NEW liquidity \in Nat \ {0}, NEW a \in Nat, NEW b \in Nat, a <= b
    PROVE  next_sqrt_price_from_b(price, liquidity, a) <= next_sqrt_price_from_b(price, liquidity, b)
<1> DEFINE x == a * Q64 * Q64
           y == b * Q64 * Q64
<1>1. Q64 \in Nat \ {0}
  BY DammAssumption
<1>2. a * Q64 \in Nat /\ b * Q64 \in Nat /\ a * Q64 <= b * Q64
  BY <1>1, TimesMonotone
<1>3. x \in Nat /\ y \in Nat /\ x <= y
  BY <1>1, <1>2, TimesMonotone
<1> HIDE DEF x, y
<1>4. x \div liquidity \in Nat /\ y \div liquidity \in Nat /\ x \div liquidity <= y \div liquidity
  BY <1>3, DivMonotone
<1> QED BY <1>4 DEF next_sqrt_price_from_b, x, y

\* And the curve gives more on a longer way.
LEMMA DeltaDownFollows ==
    ASSUME NEW price \in Nat, NEW a \in Nat, NEW b \in Nat, b <= a, a <= price, NEW liquidity \in Nat
    PROVE  delta_b(a, price, liquidity, FALSE) <= delta_b(b, price, liquidity, FALSE)
<1> DEFINE x == liquidity * (price - a)
           y == liquidity * (price - b)
<1>1. Q64 * Q64 \in Nat \ {0}
  BY DammAssumption
<1>2. price - a \in Nat /\ price - b \in Nat /\ price - a <= price - b
  OBVIOUS
<1>3. x \in Nat /\ y \in Nat /\ x <= y
  BY <1>2, TimesMonotone
<1> HIDE DEF x, y
<1>4. x \div (Q64 * Q64) <= y \div (Q64 * Q64)
  BY <1>1, <1>3, DivMonotone
<1> QED BY <1>4 DEF delta_b, x, y

\* liquidity * (a - price) / (price * a) grows with a.
LEMMA ReciprocalFraction ==
    ASSUME NEW price \in Nat \ {0}, NEW a \in Nat, NEW b \in Nat, price <= a, a <= b, NEW liquidity \in Nat
    PROVE  /\ liquidity * (a - price) \in Nat /\ liquidity * (b - price) \in Nat
           /\ price * a \in Nat \ {0} /\ price * b \in Nat \ {0}
           /\ (liquidity * (a - price)) * (price * b) <= (liquidity * (b - price)) * (price * a)
<1>1. a - price \in Nat /\ b - price \in Nat /\ a \in Nat \ {0} /\ b \in Nat \ {0}
  OBVIOUS
<1>2. liquidity * (a - price) \in Nat /\ liquidity * (b - price) \in Nat
  BY <1>1
<1>3. price * a \in Nat \ {0} /\ price * b \in Nat \ {0} /\ price * a <= price * b
  BY <1>1, TimesMonotone
<1>4. (a - price) * b <= (b - price) * a
  <2>1. (a - price) * b = a * b - price * b /\ (b - price) * a = a * b - price * a
    OBVIOUS
  <2>2. a * b \in Nat
    OBVIOUS
  <2> QED BY <1>3, <2>1, <2>2
<1> DEFINE x == (a - price) * b
           y == (b - price) * a
           k == liquidity * price
<1>5. x \in Nat /\ y \in Nat /\ k \in Nat
  BY <1>1
<1>6. (liquidity * (a - price)) * (price * b) = k * x /\ (liquidity * (b - price)) * (price * a) = k * y
  <2> DEFINE g == a - price
             h == b - price
  <2>1. g \in Nat /\ h \in Nat
    BY <1>1
  <2> HIDE DEF g, h
  <2>2. (liquidity * g) * (price * b) = (liquidity * price) * (g * b) /\ (liquidity * h) * (price * a) = (liquidity * price) * (h * a)
    BY <2>1
  <2> QED BY <2>2 DEF g, h
<1>7. x <= y
  BY <1>4
<1> HIDE DEF x, y, k
<1>8. k * x <= k * y
  BY <1>5, <1>7, TimesMonotone
<1> QED BY <1>2, <1>3, <1>6, <1>8

LEMMA DeltaUpFollows ==
    ASSUME NEW price \in Nat \ {0}, NEW a \in Nat, NEW b \in Nat, price <= a, a <= b, NEW liquidity \in Nat
    PROVE  delta_a(price, a, liquidity, FALSE) <= delta_a(price, b, liquidity, FALSE)
<1> DEFINE x == liquidity * (a - price)
           y == liquidity * (b - price)
           c == price * a
           d == price * b
<1>1. x \in Nat /\ y \in Nat /\ c \in Nat \ {0} /\ d \in Nat \ {0} /\ x * d <= y * c
  BY ReciprocalFraction
<1> HIDE DEF x, y, c, d
<1>2. x \div c <= y \div d
  BY <1>1, FractionFloors
<1> QED BY <1>2 DEF delta_a, x, y, c, d

\* A fair walk is never negative.
LEMMA ConcentratedType ==
    ASSUME NEW p, WellFormed(p), Ranged(p), p.kind = "damm", NEW price \in Prices(p), NEW side \in Sides, NEW a \in Nat
    PROVE  Concentrated(p, price, side, a).out \in Nat
<1>1. Paid(p, price, Concentrated(p, price, side, a).price, side, a, Concentrated(p, price, side, a).out)
  BY ConcentratedPaid
<1> QED BY <1>1 DEF Paid

\* DAMM v2's one segment gives no less for more.
LEMMA ConcentratedFollows ==
    ASSUME NEW p, WellFormed(p), Ranged(p), p.kind = "damm", NEW price \in Prices(p), NEW side \in Sides,
           NEW a \in Nat, NEW b \in Nat, a <= b, Concentrated(p, price, side, b).out > 0
    PROVE  Concentrated(p, price, side, a).out <= Concentrated(p, price, side, b).out
<1> DEFINE k == p.liquidity
           to(x) == NextPrice(p, price, side, x)
<1>1. k \in Nat \ {0} /\ p.sqrt_min \in Nat \ {0} /\ p.sqrt_max \in Nat
  BY DEF WellFormed
<1>2. price \in Nat \ {0}
  BY <1>1 DEF Prices, Lowest, Highest, Segments, Segment
<1>3. \A x \in {a, b} : ~OutOfRange(p, side, to(x)) =>
        /\ side = "base" => Concentrated(p, price, side, x).out = delta_b(to(x), price, k, FALSE)
        /\ side # "base" => Concentrated(p, price, side, x).out = delta_a(price, to(x), k, FALSE)
  BY DEF Concentrated
<1>4. ~OutOfRange(p, side, to(b))
  <2> SUFFICES ASSUME OutOfRange(p, side, to(b)) PROVE FALSE
    OBVIOUS
  <2>1. Concentrated(p, price, side, b).out = 0
    BY DEF Concentrated
  <2> QED BY <2>1
<1>5. CASE side = "base"
  <2>1. \A x \in {a, b} : to(x) = next_sqrt_price_from_a(price, k, x)
    BY <1>5 DEF NextPrice
  <2> HIDE DEF to, k
  <2>2. /\ to(a) \in Nat \ {0} /\ to(a) <= price /\ to(b) \in Nat \ {0}
        /\ to(b) <= to(a)
    BY <1>1, <1>2, <2>1, NextDown, NextDownFollows
  <2>3. ~OutOfRange(p, side, to(a))
    BY <1>1, <1>4, <1>5, <2>2 DEF OutOfRange
  <2>4. delta_b(to(a), price, k, FALSE) <= delta_b(to(b), price, k, FALSE)
    BY <1>1, <1>2, <2>2, DeltaDownFollows
  <2> QED BY <1>3, <1>4, <1>5, <2>3, <2>4
<1>6. CASE side # "base"
  <2>1. \A x \in {a, b} : to(x) = next_sqrt_price_from_b(price, k, x)
    BY <1>6 DEF NextPrice
  <2> HIDE DEF to, k
  <2>2. /\ to(a) \in Nat \ {0} /\ price <= to(a) /\ to(b) \in Nat \ {0}
        /\ to(a) <= to(b)
    BY <1>1, <1>2, <2>1, NextUp, NextUpFollows
  <2>3. ~OutOfRange(p, side, to(a))
    BY <1>1, <1>4, <1>6, <2>2 DEF OutOfRange
  <2>4. delta_a(price, to(a), k, FALSE) <= delta_a(price, to(b), k, FALSE)
    BY <1>1, <1>2, <2>2, DeltaUpFollows
  <2> QED BY <1>3, <1>4, <1>6, <2>3, <2>4
<1> QED BY <1>5, <1>6

\* Either curve of DAMM v2.
LEMMA OnPoolFollows ==
    ASSUME NEW p, WellFormed(p), p.kind = "damm", NEW price, Ranged(p) => price \in Prices(p),
           NEW v, Compounds(p) => Solvent(p, v), NEW side \in Sides,
           NEW a \in Nat, NEW b \in Nat, a <= b,
           NEW x, x = OnPool(p, price, v, side, a).out, NEW y, y = OnPool(p, price, v, side, b).out
    PROVE  x \in Nat /\ y \in Nat /\ (y > 0 => x <= y)
<1>1. CASE Ranged(p)
  <2>1. x = Concentrated(p, price, side, a).out /\ y = Concentrated(p, price, side, b).out
    BY <1>1 DEF OnPool, Ranged
  <2>2. x \in Nat /\ y \in Nat
    BY <1>1, <2>1, ConcentratedType
  <2>3. y > 0 => x <= y
    BY <1>1, <2>1, ConcentratedFollows
  <2> QED BY <2>2, <2>3
<1>2. CASE Compounds(p)
  <2>1. /\ v[side] \in Nat \ {0} /\ v[Across(side)] \in Nat
    <3>1. Across(side) \in Sides
      BY BothSides
    <3>2. v \in Amount /\ v[side] + Beside(p, side) > 0
      BY <1>2 DEF Solvent, Reserve
    <3>3. Beside(p, side) = 0
      BY <1>2 DEF Compounds, Beside
    <3>4. v[side] \in Nat /\ v[Across(side)] \in Nat
      BY <3>1, <3>2 DEF Amount
    <3> QED BY <3>2, <3>3, <3>4
  <2> DEFINE r == v[side]
             s == v[Across(side)]
  <2>2. x = ConstantProduct(r, s, a) /\ y = ConstantProduct(r, s, b)
    BY <1>2 DEF OnPool, Compounds
  <2>3. r \in Nat \ {0} /\ s \in Nat
    BY <2>1
  <2> HIDE DEF r, s
  <2>4. x \in Nat /\ y \in Nat
    BY <2>2, <2>3, ConstantProductType
  <2>5. y # 0 => x <= y
    BY <2>2, <2>3, ProductMonotone
  <2> QED BY <2>4, <2>5
<1> QED BY <1>1, <1>2 DEF Ranged, Compounds

\* What a fee is taken of.
LEMMA NetFollows ==
    ASSUME NEW x \in Nat, NEW y \in Nat, y > 0 => x <= y, NEW high \in 0..FeeScale, NEW low \in 0..FeeScale, low <= high,
           NEW m, NEW n,
           (m = x /\ n = y) \/ (m = x - ceil_fee(x, high) /\ n = y - ceil_fee(y, low)), NEW c, NEW d,
           NEW p, p = Quoting(m, c, x), NEW q, q = Quoting(n, d, y)
    PROVE  p.out \in Nat /\ q.out \in Nat /\ (q.out > 0 => p.out <= q.out)
<1>1. FeeScale \in Nat \ {0}
  BY DammAssumption
<1>2. m \in Nat /\ n \in Nat /\ n <= y
  BY FeeWithin
<1>3. y > 0 => m <= n
  <2>1. SUFFICES ASSUME y > 0, m # x \/ n # y PROVE x - ceil_fee(x, high) <= y - ceil_fee(y, low)
    OBVIOUS
  <2> QED BY <1>1, <2>1, LeftMonotone DEF ceil_fee
<1>4. p.out = m /\ q.out = n
  BY <1>2 DEF Quoting, NoQuote
<1> QED BY <1>2, <1>3, <1>4

\* Nothing is quoted as nothing.
LEMMA NoQuoteType == NoQuote.out = 0
BY DEF NoQuote

\* Where a concentrated or a compounding pool is quoted.
DammAt(p, price, v) ==
    /\ WellFormed(p) /\ p.kind = "damm" /\ price \in Nat
    /\ Ranged(p) => price \in Prices(p)
    /\ Compounds(p) => Solvent(p, v)

\* A swap of DAMM v2 that is made later pays no less.
LEMMA DammLater ==
    ASSUME NEW p, NEW price, NEW v, DammAt(p, price, v), NEW side \in Sides, NEW amount \in Nat,
           NEW i \in Nat, NEW j \in Nat, i <= j,
           NEW x, x = DammSwap(p, price, v, i, side, amount).quote.out,
           NEW y, y = DammSwap(p, price, v, j, side, amount).quote.out
    PROVE  x \in Nat /\ y \in Nat /\ (y > 0 => x <= y)
<1> DEFINE rate(time) == total_fee_numerator(p.fees, time, side, amount, price)
           on_input == fee_on_input(p.fees_in, side)
           in(r) == IF on_input THEN amount - ceil_fee(amount, r) ELSE amount
           swap(time) == DammSwap(p, price, v, time, side, amount)
           good(r) == r \in 0..(FeeScale - 1) /\ price # 0 /\ p.liquidity # 0
           raw(r) == OnPool(p, price, v, side, in(r))
           paid(r) == Quoting(IF on_input THEN raw(r).out ELSE raw(r).out - ceil_fee(raw(r).out, r), in(r), raw(r).out).out
<1>0. FeeScale \in Nat \ {0} /\ on_input \in BOOLEAN
  BY DammAssumption DEF fee_on_input
<1>9. /\ WellFormed(p) /\ p.kind = "damm" /\ price \in Nat
      /\ Ranged(p) => price \in Prices(p)
      /\ Compounds(p) => Solvent(p, v)
  BY DEF DammAt
<1>1. Lower(rate(j), rate(i))
  <2>1. p.fees \in BaseFees
    BY <1>9 DEF WellFormed, Scheduled
  <2>2. p.fees.mode = "limiter" => p.fees.reduction > 0 \/ (p.fees.frequency = 0 /\ p.fees.expiry = 0 /\ p.fees.number = 0)
    BY <1>9 DEF WellFormed, Scheduled
  <2> QED BY <1>9, <2>1, <2>2, DammRateFalls
<1>2. \A time \in {i, j} : /\ good(rate(time)) => swap(time).quote.out = paid(rate(time))
                           /\ ~good(rate(time)) => swap(time).quote.out = 0
  BY NoQuoteType DEF DammSwap, Paying
<1> HIDE DEF rate
<1> DEFINE a == rate(i)
           b == rate(j)
<1>3. Lower(b, a) /\ x = (IF good(a) THEN paid(a) ELSE 0) /\ y = (IF good(b) THEN paid(b) ELSE 0)
  BY <1>1, <1>2
<1> HIDE DEF a, b, swap
<1>4. ASSUME NEW high, good(high), NEW low, good(low), low <= high
      PROVE  paid(high) \in Nat /\ paid(low) \in Nat /\ (paid(low) > 0 => paid(high) <= paid(low))
  <2>1. high \in 0..FeeScale /\ low \in 0..FeeScale /\ low <= high /\ amount <= amount
        /\ FeeScale \in Nat \ {0} /\ on_input \in BOOLEAN
    BY <1>0, <1>4
  <2>2. in(high) \in Nat /\ in(low) \in Nat /\ in(high) <= in(low)
    <3> HIDE DEF good, on_input
    <3>1. amount - div_ceil(amount * high, FeeScale) \in Nat /\ amount - div_ceil(amount * low, FeeScale) \in Nat
          /\ amount - div_ceil(amount * high, FeeScale) <= amount - div_ceil(amount * low, FeeScale)
      BY <2>1, LeftMonotone
    <3>2. amount - ceil_fee(amount, high) \in Nat /\ amount - ceil_fee(amount, low) \in Nat
          /\ amount - ceil_fee(amount, high) <= amount - ceil_fee(amount, low)
      BY <3>1 DEF ceil_fee
    <3> QED BY <3>2
  <2> HIDE DEF in
  <2> DEFINE m == raw(high).out
             n == raw(low).out
  <2>3. m \in Nat /\ n \in Nat /\ (n > 0 => m <= n)
    BY <1>9, <2>2, OnPoolFollows
  <2> DEFINE u == paid(high)
             w == paid(low)
  <2> DEFINE f == IF on_input THEN m ELSE m - ceil_fee(m, high)
             g == IF on_input THEN n ELSE n - ceil_fee(n, low)
             s == Quoting(f, in(high), m)
             t == Quoting(g, in(low), n)
  <2>4. /\ (f = m /\ g = n) \/ (f = m - ceil_fee(m, high) /\ g = n - ceil_fee(n, low))
        /\ s = Quoting(f, in(high), m) /\ t = Quoting(g, in(low), n)
    OBVIOUS
  <2>6. u = s.out /\ w = t.out
    OBVIOUS
  <2> HIDE DEF m, n, u, w, f, g, s, t, on_input, good, paid
  <2>5. u \in Nat /\ w \in Nat /\ (w > 0 => u <= w)
    BY <2>1, <2>3, <2>4, <2>6, NetFollows
  <2> QED BY <2>5 DEF u, w
<1> HIDE DEF paid, raw, in, on_input
<1>5. good(a) => paid(a) \in Nat
  BY <1>4
<1>6. good(b) => paid(b) \in Nat
  BY <1>4
<1>7. good(a) /\ good(b) => b <= a
  BY <1>0, <1>3 DEF Lower, NoFee
<1>8. good(a) /\ good(b) /\ paid(b) > 0 => paid(a) <= paid(b)
  BY <1>4, <1>7
<1> HIDE DEF good
<1> QED BY <1>3, <1>5, <1>6, <1>8

\* One price is between another and where both are from.
Farther(a_to_b, price, near, far) ==
    /\ near \in Nat \ {0} /\ far \in Nat \ {0}
    /\ IF a_to_b THEN far <= near /\ near <= price ELSE price <= near /\ near <= far

\* A range gives no less as far as the one further on.
LEMMA ReachFollows ==
    ASSUME NEW price \in Nat \ {0}, NEW liquidity \in Nat \ {0}, NEW a_to_b \in BOOLEAN,
           NEW near, NEW far, Farther(a_to_b, price, near, far),
           NEW x, x = Step!deltas_to(price, near, liquidity, a_to_b).out,
           NEW y, y = Step!deltas_to(price, far, liquidity, a_to_b).out
    PROVE  x \in Nat /\ y \in Nat /\ x <= y
<1>1. near \in Nat \ {0} /\ far \in Nat \ {0} /\ Q64 \in Nat \ {0}
  BY DammAssumption DEF Farther
<1>2. CASE a_to_b
  <2> DEFINE g == price - near
             h == price - far
  <2>1. g \in Nat /\ h \in Nat /\ g <= h /\ Step!Gap(near, price) = g /\ Step!Gap(far, price) = h
    BY <1>1, <1>2 DEF Farther, Step!Gap
  <2> HIDE DEF g, h
  <2>2. x = (liquidity * g) \div Q64 /\ y = (liquidity * h) \div Q64
    BY <1>2, <2>1 DEF Step!deltas_to, Step!amount1_delta, Step!div_round
  <2>3. liquidity * g \in Nat /\ liquidity * h \in Nat /\ liquidity * g <= liquidity * h
    BY <2>1, TimesMonotone
  <2> QED BY <1>1, <2>2, <2>3, DivMonotone
<1>3. CASE ~a_to_b
  <2> DEFINE g == near - price
             h == far - price
             k == liquidity * Q64
  <2>1. g \in Nat /\ h \in Nat /\ Step!Gap(price, near) = g /\ Step!Gap(price, far) = h
        /\ price <= near /\ near <= far /\ k \in Nat
    BY <1>1, <1>3 DEF Farther, Step!Gap
  <2>2. /\ k * g \in Nat /\ k * h \in Nat /\ price * near \in Nat \ {0} /\ price * far \in Nat \ {0}
        /\ (k * g) * (price * far) <= (k * h) * (price * near)
    <3> HIDE DEF k
    <3> QED BY <1>1, <2>1, ReciprocalFraction
  <2>3. x = (liquidity * g * Q64) \div (price * near) /\ y = (liquidity * h * Q64) \div (price * far)
    <3> HIDE DEF g, h, k
    <3> QED BY <1>3, <2>1 DEF Step!deltas_to, Step!amount0_delta, Step!div_round
  <2>4. liquidity * g * Q64 = k * g /\ liquidity * h * Q64 = k * h
    <3> HIDE DEF g, h
    <3> QED BY <1>1, <2>1
  <2> DEFINE m == k * g
             n == k * h
             c == price * near
             d == price * far
  <2>5. m \in Nat /\ n \in Nat /\ c \in Nat \ {0} /\ d \in Nat \ {0} /\ m * d <= n * c /\ x = m \div c /\ y = n \div d
    BY <2>2, <2>3, <2>4
  <2> HIDE DEF m, n, c, d
  <2>6. m \div c \in Nat /\ n \div d \in Nat /\ m \div c <= n \div d
    BY <2>5, FractionFloors
  <2> QED BY <2>5, <2>6
<1> QED BY <1>2, <1>3

\* More of the input gets further.
LEMMA InputFollows ==
    ASSUME NEW price \in Nat \ {0}, NEW liquidity \in Nat \ {0}, NEW a_to_b \in BOOLEAN,
           NEW a \in Nat, NEW b \in Nat, a <= b
    PROVE  Farther(a_to_b, price, Step!next_sqrt_price_from_input(price, liquidity, a, a_to_b),
                                  Step!next_sqrt_price_from_input(price, liquidity, b, a_to_b))
<1> DEFINE to(x) == Step!next_sqrt_price_from_input(price, liquidity, x, a_to_b)
<1>1. Q64 \in Nat \ {0}
  BY DammAssumption
<1>2. CASE a_to_b
  <2> DEFINE k == liquidity * Q64
  <2>1. k \in Nat \ {0}
    BY <1>1
  <2>2. \A x \in {a, b} : to(x) = next_sqrt_price_from_a(price, k, x)
    BY <1>2 DEF Step!next_sqrt_price_from_input, Step!div_ceil, next_sqrt_price_from_a, div_ceil
  <2> HIDE DEF k, to
  <2>3. to(a) \in Nat \ {0} /\ to(a) <= price /\ to(b) \in Nat \ {0} /\ to(b) <= to(a)
    BY <2>1, <2>2, NextDown, NextDownFollows
  <2> QED BY <1>2, <2>3 DEF Farther, to
<1>3. CASE ~a_to_b
  <2> DEFINE m == a * Q64
             n == b * Q64
  <2>1. m \in Nat /\ n \in Nat /\ m <= n
    BY <1>1, TimesMonotone
  <2>2. to(a) = price + m \div liquidity /\ to(b) = price + n \div liquidity
    BY <1>3 DEF Step!next_sqrt_price_from_input
  <2> HIDE DEF m, n, to
  <2>3. m \div liquidity \in Nat /\ n \div liquidity \in Nat /\ m \div liquidity <= n \div liquidity
    BY <2>1, DivMonotone
  <2>4. to(a) \in Nat \ {0} /\ price <= to(a) /\ to(b) \in Nat \ {0} /\ to(a) <= to(b)
    BY <2>2, <2>3
  <2> QED BY <1>3, <2>4 DEF Farther, to
<1> QED BY <1>2, <1>3

\* What a step leaves for the price once the fee is off.
LEMMA ForPriceFollows ==
    ASSUME NEW amount \in Nat, NEW high \in 0..(PPM - 1), NEW low \in 0..(PPM - 1), low <= high
    PROVE  /\ Step!ForPrice(amount, high, TRUE) \in Nat /\ Step!ForPrice(amount, low, TRUE) \in Nat
           /\ Step!ForPrice(amount, high, TRUE) <= Step!ForPrice(amount, low, TRUE)
<1> DEFINE x == amount * (PPM - high)
           y == amount * (PPM - low)
<1>1. PPM \in Nat \ {0} /\ PPM - high \in Nat /\ PPM - low \in Nat /\ PPM - high <= PPM - low
  BY PpmType
<1>2. x \in Nat /\ y \in Nat /\ x <= y
  BY <1>1, TimesMonotone
<1> HIDE DEF x, y
<1>3. x \div PPM \in Nat /\ y \div PPM \in Nat /\ x \div PPM <= y \div PPM
  BY <1>1, <1>2, DivMonotone
<1> QED BY <1>3, PpmType DEF Step!ForPrice, x, y

\* A step gets nothing, or what there is on the way to where it ends.
LEMMA StepToGets ==
    ASSUME NEW next, NEW d, d.out \in Nat, NEW target, NEW amount, NEW rate, NEW a_to_b,
           NEW st, IsStepTo(st, next, d, target, amount, rate, a_to_b)
    PROVE  st.got \in Nat /\ (st.got > 0 => st.got = d.out /\ ~Step!Past(next, target, a_to_b))
<1>1. st = Step!NoStep \/ \E used : st = [next |-> next, used |-> used, got |-> d.out]
  BY DEF IsStepTo, Step!StepTo
<1>2. st.got \in {0, d.out}
  BY <1>1 DEF Step!NoStep
<1>3. st.got > 0 => st.got = d.out /\ ~Step!Past(next, target, a_to_b)
  BY StepToLands
<1> QED BY <1>2, <1>3

\* The input to a price is a number.
LEMMA ReachInput ==
    ASSUME NEW price \in Nat \ {0}, NEW liquidity \in Nat \ {0}, NEW a_to_b \in BOOLEAN, NEW to \in Nat \ {0}
    PROVE  Step!deltas_to(price, to, liquidity, a_to_b).in \in Nat
<1>1. Q64 \in Nat \ {0} /\ Step!Gap(price, to) \in Nat /\ Step!Gap(to, price) \in Nat
  BY DammAssumption DEF Step!Gap
<1> DEFINE g == Step!Gap(price, to)
           h == Step!Gap(to, price)
           x == liquidity * h * Q64
           y == liquidity * g
           z == to * price
<1>2. x \in Nat /\ y \in Nat /\ z \in Nat \ {0}
  <2>1. g \in Nat /\ h \in Nat
    BY <1>1
  <2> HIDE DEF g, h
  <2> QED BY <1>1, <2>1
<1>3. Step!deltas_to(price, to, liquidity, a_to_b).in = IF a_to_b THEN div_ceil(x, z) ELSE div_ceil(y, Q64)
  BY DEF Step!deltas_to, Step!amount0_delta, Step!amount1_delta, Step!div_round, Step!div_ceil, div_ceil
<1> HIDE DEF x, y, z
<1>4. div_ceil(x, z) \in Nat /\ div_ceil(y, Q64) \in Nat
  BY <1>1, <1>2, DivCeilCovers
<1> QED BY <1>3, <1>4

\* A step under a lower fee gets no less.
LEMMA StepFollows ==
    ASSUME NEW price \in Nat \ {0}, NEW liquidity \in Nat \ {0}, NEW a_to_b \in BOOLEAN, NEW target \in Nat \ {0},
           IF a_to_b THEN target <= price ELSE price <= target,
           NEW amount \in Nat, NEW high \in 0..(PPM - 1), NEW low \in 0..(PPM - 1), low <= high,
           NEW s, IsSwap(s, price, target, liquidity, amount, high, a_to_b),
           NEW t, IsSwap(t, price, target, liquidity, amount, low, a_to_b)
    PROVE  s.got \in Nat /\ t.got \in Nat /\ (t.got > 0 => s.got <= t.got)
<1> DEFINE reach(next) == Step!deltas_to(price, next, liquidity, a_to_b)
           to(x) == Step!next_sqrt_price_from_input(price, liquidity, x, a_to_b)
           a == Step!ForPrice(amount, high, TRUE)
           b == Step!ForPrice(amount, low, TRUE)
           whole == reach(target)
           enough(x) == Step!Deliverable(whole) /\ x >= whole.in
           m == to(a)
           n == to(b)
<1>1. a \in Nat /\ b \in Nat /\ a <= b
  BY ForPriceFollows
<1>2. /\ IF enough(a) THEN IsStepTo(s, target, whole, target, amount, high, a_to_b)
                      ELSE IsStepTo(s, m, reach(m), target, amount, high, a_to_b)
      /\ IF enough(b) THEN IsStepTo(t, target, whole, target, amount, low, a_to_b)
                      ELSE IsStepTo(t, n, reach(n), target, amount, low, a_to_b)
  BY DEF IsSwap, IsStepTo, Step!swap_step, Step!StepInside
<1>3. whole.in \in Nat
  BY ReachInput
<1>4. enough(a) => enough(b)
  <2> HIDE DEF a, b, whole
  <2> QED BY <1>1, <1>3
<1> HIDE DEF a, b, enough
<1>5. Farther(a_to_b, price, m, n)
  BY <1>1, InputFollows
<1> HIDE DEF to
<1>6. ASSUME NEW near, NEW far, Farther(a_to_b, price, near, far)
      PROVE  reach(near).out \in Nat /\ reach(far).out \in Nat /\ reach(near).out <= reach(far).out
  BY <1>6, ReachFollows
<1>7. Farther(a_to_b, price, target, target)
  BY DEF Farther
<1>8. ~Step!Past(m, target, a_to_b) => Farther(a_to_b, price, m, target)
  BY <1>5 DEF Farther, Step!Past
<1> HIDE DEF m, n
<1> DEFINE v == reach(target)
           x == reach(m)
           y == reach(n)
<1>9. /\ v.out \in Nat /\ x.out \in Nat /\ y.out \in Nat /\ x.out <= y.out
      /\ ~Step!Past(m, target, a_to_b) => x.out <= v.out
  BY <1>5, <1>6, <1>7, <1>8
<1>10. /\ IF enough(a) THEN IsStepTo(s, target, v, target, amount, high, a_to_b)
                       ELSE IsStepTo(s, m, x, target, amount, high, a_to_b)
       /\ IF enough(b) THEN IsStepTo(t, target, v, target, amount, low, a_to_b)
                       ELSE IsStepTo(t, n, y, target, amount, low, a_to_b)
  BY <1>2
<1> HIDE DEF v, x, y, reach, whole
<1>11. CASE enough(a)
  <2>1. s.got \in Nat /\ t.got \in Nat /\ (s.got > 0 => s.got = v.out) /\ (t.got > 0 => t.got = v.out)
    BY <1>4, <1>9, <1>10, <1>11, StepToGets
  <2> QED BY <1>9, <2>1
<1>12. CASE ~enough(a)
  <2>1. s.got \in Nat /\ (s.got > 0 => s.got = x.out /\ ~Step!Past(m, target, a_to_b))
    BY <1>9, <1>10, <1>12, StepToGets
  <2>2. t.got \in Nat /\ (t.got > 0 => t.got = IF enough(b) THEN v.out ELSE y.out)
    BY <1>9, <1>10, StepToGets
  <2> QED BY <1>9, <2>1, <2>2
<1> QED BY <1>11, <1>12

\* A Byreal swap that is made later pays no less.
LEMMA ByrealLater ==
    ASSUME NEW p, WellFormed(p), p.kind = "byreal", NEW price \in Prices(p), NEW v, NEW side \in Sides, NEW amount \in Nat,
           NEW i \in Nat, NEW j \in Nat, i <= j,
           NEW x, x = ByrealSwap(p, price, v, i, side, amount).quote.out,
           NEW y, y = ByrealSwap(p, price, v, j, side, amount).quote.out
    PROVE  x \in Nat /\ y \in Nat /\ (y > 0 => x <= y)
<1> DEFINE a_to_b == side = "base"
           rate(time) == swap_fee_ppm(p.fees, price, v, side, time)
           target == IF a_to_b THEN p.sqrt_min ELSE p.sqrt_max
           liquidity == p.liquidity
           step(r) == Step!swap_step(price, target, liquidity, amount, r, a_to_b, TRUE)
           made(time) == can_swap(p.fees, time) /\ rate(time) \in 0..(PPM - 1) /\ ~(step(rate(time)).used < amount)
           swap(time) == ByrealSwap(p, price, v, time, side, amount)
<1>1. /\ price \in Nat \ {0} /\ liquidity \in Nat \ {0} /\ target \in Nat \ {0}
      /\ IF a_to_b THEN target <= price ELSE price <= target
  <2>1. p.liquidity \in Nat \ {0} /\ p.sqrt_min \in Nat \ {0} /\ p.sqrt_max \in Nat
    BY DEF WellFormed
  <2> QED BY <2>1 DEF Prices, Lowest, Highest, Segments, Segment
<1>2. ASSUME NEW time, ~made(time) PROVE swap(time).quote.out = 0
  BY <1>2, NoQuoteType DEF ByrealSwap
<1>3. ASSUME NEW time, made(time)
      PROVE  \E c : swap(time).quote = Quoting(step(rate(time)).got, c, step(rate(time)).got)
  BY <1>3 DEF ByrealSwap
<1>4. ASSUME made(i), made(j) PROVE rate(j) <= rate(i)
  <2>1. p.fees \in LaunchFees
    BY DEF WellFormed, Scheduled
  <2>2. rate(i) # NoRate /\ rate(j) # NoRate
    <3> HIDE DEF rate, step
    <3> QED BY <1>4, PpmType DEF NoRate
  <2>3. price \in Nat
    BY <1>1
  <2> QED BY <2>1, <2>2, <2>3, ByrealRateFalls
<1>5. made(i) => rate(i) \in 0..(PPM - 1)
  OBVIOUS
<1>6. made(j) => rate(j) \in 0..(PPM - 1)
  OBVIOUS
<1>7. a_to_b \in BOOLEAN
  OBVIOUS
<1>8. ASSUME NEW high \in 0..(PPM - 1), NEW low \in 0..(PPM - 1), low <= high
      PROVE  step(high).got \in Nat /\ step(low).got \in Nat /\ (step(low).got > 0 => step(high).got <= step(low).got)
  <2> DEFINE s == step(high)
             t == step(low)
  <2>1. IsSwap(s, price, target, liquidity, amount, high, a_to_b) /\ IsSwap(t, price, target, liquidity, amount, low, a_to_b)
    BY DEF IsSwap
  <2> HIDE DEF s, t, target, liquidity, a_to_b
  <2>2. s.got \in Nat /\ t.got \in Nat /\ (t.got > 0 => s.got <= t.got)
    BY <1>1, <1>7, <1>8, <2>1, StepFollows
  <2> QED BY <2>2 DEF s, t
<1> DEFINE a == step(rate(i)).got
           b == step(rate(j)).got
<1> HIDE DEF rate, step, made
<1>9. made(i) => a \in Nat
  <2> SUFFICES ASSUME made(i) PROVE a \in Nat
    OBVIOUS
  <2>1. rate(i) <= rate(i)
    BY <1>5, PpmType
  <2> QED BY <1>5, <1>8, <2>1
<1>10. made(j) => b \in Nat
  <2> SUFFICES ASSUME made(j) PROVE b \in Nat
    OBVIOUS
  <2>1. rate(j) <= rate(j)
    BY <1>6, PpmType
  <2> QED BY <1>6, <1>8, <2>1
<1>11. made(i) /\ made(j) /\ b > 0 => a <= b
  BY <1>4, <1>5, <1>6, <1>8
<1> HIDE DEF a, b, swap
<1>12. x = swap(i).quote.out /\ y = swap(j).quote.out
  BY DEF swap
<1>13. made(i) => x = a
  <2> SUFFICES ASSUME made(i) PROVE x = a
    OBVIOUS
  <2>1. PICK c : swap(i).quote = Quoting(a, c, a)
    BY <1>3 DEF a
  <2> QED BY <1>9, <1>12, <2>1 DEF Quoting, NoQuote
<1>14. made(j) => y = b
  <2> SUFFICES ASSUME made(j) PROVE y = b
    OBVIOUS
  <2>1. PICK c : swap(j).quote = Quoting(b, c, b)
    BY <1>3 DEF b
  <2> QED BY <1>10, <1>12, <2>1 DEF Quoting, NoQuote
<1>15. (~made(i) => x = 0) /\ (~made(j) => y = 0)
  BY <1>2, <1>12
<1> QED BY <1>9, <1>10, <1>11, <1>13, <1>14, <1>15

\* Two purchases of which one has more to spend: as long as neither is done they
\* are at one price, and the larger is never behind.
Pos(w) == w.price \in Nat \ {0} /\ w.left \in Nat /\ w.out \in Nat /\ w.done \in BOOLEAN
Together(u, t) ==
    /\ Pos(u) /\ Pos(t) /\ u.out <= t.out
    /\ u.done \/ (~t.done /\ u.price = t.price /\ u.out = t.out /\ u.left <= t.left)

LEMMA UpPoint ==
    ASSUME NEW p, WellFormed(p), p.kind = "dbc", NEW i \in 1..Len(p.curve)
    PROVE  AtMost(p.curve[i].price, p.stop) \in Nat /\ p.curve[i].liquidity \in Nat \ {0}
<1>1. Segment(p, i).upper = AtMost(p.curve[i].price, p.stop) /\ Segment(p, i).upper \in Nat /\ p.curve[i].liquidity \in Nat \ {0}
  BY CurvePoints
<1> QED BY <1>1

\* What a segment does to a purchase at a price below its end.
LEMMA UpGives ==
    ASSUME NEW price \in Nat \ {0}, NEW point \in Nat, price < point, NEW k \in Nat \ {0},
           NEW a \in Nat, NEW b \in Nat, a <= b
    PROVE  LET x == next_sqrt_price_from_b(price, k, a)
               y == next_sqrt_price_from_b(price, k, b)
           IN  /\ delta_b(price, point, k, TRUE) \in Nat
               /\ x \in Nat \ {0} /\ y \in Nat \ {0}
               /\ delta_a(price, point, k, FALSE) \in Nat
               /\ delta_a(price, x, k, FALSE) \in Nat /\ delta_a(price, y, k, FALSE) \in Nat
               /\ delta_a(price, x, k, FALSE) <= delta_a(price, y, k, FALSE)
               /\ a < delta_b(price, point, k, TRUE) => delta_a(price, x, k, FALSE) <= delta_a(price, point, k, FALSE)
<1> DEFINE x == next_sqrt_price_from_b(price, k, a)
           y == next_sqrt_price_from_b(price, k, b)
<1>1. point \in Nat \ {0} /\ price <= point /\ k \in Nat
  OBVIOUS
<1>2. delta_b(price, point, k, TRUE) \in Nat /\ delta_a(price, point, k, FALSE) \in Nat
  BY <1>1, DeltasUp
<1>3. x \in Nat \ {0} /\ price <= x /\ y \in Nat \ {0} /\ price <= y /\ x <= y
  BY NextUp, NextUpFollows
<1>7. a < delta_b(price, point, k, TRUE) => x <= point
  BY <1>1, NextBelow
<1> HIDE DEF x, y
<1>4. delta_a(price, x, k, FALSE) \in Nat /\ delta_a(price, y, k, FALSE) \in Nat
  BY <1>1, <1>3, DeltasUp
<1>5. delta_a(price, x, k, FALSE) <= delta_a(price, y, k, FALSE)
  BY <1>1, <1>3, DeltaUpFollows
<1>6. ASSUME a < delta_b(price, point, k, TRUE) PROVE delta_a(price, x, k, FALSE) <= delta_a(price, point, k, FALSE)
  <2>1. x <= point
    BY <1>6, <1>7
  <2> QED BY <1>1, <1>3, <2>1, DeltaUpFollows
<1> QED BY <1>2, <1>3, <1>4, <1>5, <1>6 DEF x, y

\* A segment by itself.
LEMMA UpAlone ==
    ASSUME NEW p, WellFormed(p), p.kind = "dbc", NEW i \in 1..Len(p.curve), NEW w, Pos(w),
           NEW next, next = UpSegment(p, w, i)
    PROVE  Pos(next) /\ w.out <= next.out /\ (w.done => next.done)
<1> DEFINE point == AtMost(p.curve[i].price, p.stop)
           k == p.curve[i].liquidity
           full == delta_b(w.price, point, k, TRUE)
           to == next_sqrt_price_from_b(w.price, k, w.left)
           inside == delta_a(w.price, to, k, FALSE)
           across == delta_a(w.price, point, k, FALSE)
<1>1. point \in Nat /\ k \in Nat \ {0}
  BY UpPoint
<1>2. CASE w.done \/ point <= w.price
  <2>1. next = w
    BY <1>2 DEF UpSegment
  <2> QED BY <2>1 DEF Pos
<1>3. CASE ~(w.done \/ point <= w.price)
  <2>1. next = IF w.left < full THEN [out |-> w.out + inside, price |-> to, left |-> 0, done |-> TRUE]
               ELSE [out |-> w.out + across, price |-> point, left |-> w.left - full, done |-> w.left = full]
    BY <1>3 DEF UpSegment
  <2> HIDE DEF point, k
  <2>2. w.price \in Nat \ {0} /\ w.left \in Nat /\ w.out \in Nat /\ w.price < point /\ w.left <= w.left
    BY <1>1, <1>3 DEF Pos
  <2>3. full \in Nat /\ to \in Nat \ {0} /\ inside \in Nat /\ across \in Nat
    BY <1>1, <2>2, UpGives
  <2> HIDE DEF full, to, inside, across
  <2>4. CASE w.left < full
    BY <1>3, <2>1, <2>2, <2>3, <2>4 DEF Pos
  <2>5. CASE ~(w.left < full)
    <3>1. point \in Nat \ {0} /\ w.left - full \in Nat
      BY <1>1, <2>2, <2>3, <2>5
    <3> QED BY <1>3, <2>1, <2>2, <2>3, <2>5, <3>1 DEF Pos
  <2> QED BY <2>4, <2>5
<1> QED BY <1>2, <1>3

LEMMA UpTogether ==
    ASSUME NEW p, WellFormed(p), p.kind = "dbc", NEW i \in 1..Len(p.curve), NEW u, NEW t, Together(u, t),
           NEW m, m = UpSegment(p, u, i), NEW n, n = UpSegment(p, t, i)
    PROVE  Together(m, n)
<1> DEFINE point == AtMost(p.curve[i].price, p.stop)
           k == p.curve[i].liquidity
           price == u.price
           full == delta_b(price, point, k, TRUE)
           x == next_sqrt_price_from_b(price, k, u.left)
           y == next_sqrt_price_from_b(price, k, t.left)
           g == delta_a(price, x, k, FALSE)
           h == delta_a(price, y, k, FALSE)
           across == delta_a(price, point, k, FALSE)
<1>1. point \in Nat /\ k \in Nat \ {0}
  BY UpPoint
<1>2. Pos(u) /\ Pos(t) /\ u.out <= t.out
  BY DEF Together
<1>3. Pos(m) /\ Pos(n) /\ u.out <= m.out /\ t.out <= n.out
  BY <1>2, UpAlone
<1>4. CASE u.done
  <2>1. m = u
    BY <1>4 DEF UpSegment
  <2>2. u.out <= n.out
    BY <1>2, <1>3 DEF Pos
  <2> QED BY <1>3, <1>4, <2>1, <2>2 DEF Together
<1>5. CASE ~u.done
  <2>1. ~t.done /\ t.price = price /\ u.out = t.out /\ u.left <= t.left
    BY <1>5 DEF Together
  <2>2. CASE point <= price
    <3>1. m = u /\ n = t
      BY <2>1, <2>2 DEF UpSegment
    <3> QED BY <3>1
  <2>3. CASE ~(point <= price)
    <3>1. /\ m = IF u.left < full THEN [out |-> u.out + g, price |-> x, left |-> 0, done |-> TRUE]
                 ELSE [out |-> u.out + across, price |-> point, left |-> u.left - full, done |-> u.left = full]
          /\ n = IF t.left < full THEN [out |-> t.out + h, price |-> y, left |-> 0, done |-> TRUE]
                 ELSE [out |-> t.out + across, price |-> point, left |-> t.left - full, done |-> t.left = full]
      BY <1>5, <2>1, <2>3 DEF UpSegment
    <3> HIDE DEF point, k
    <3>2. price \in Nat \ {0} /\ u.left \in Nat /\ t.left \in Nat /\ u.out \in Nat /\ price < point
      BY <1>1, <1>2, <2>3 DEF Pos
    <3>3. /\ full \in Nat /\ across \in Nat /\ g \in Nat /\ h \in Nat /\ g <= h
          /\ u.left < full => g <= across
      <4> HIDE DEF price
      <4> QED BY <1>1, <2>1, <3>2, UpGives
    <3> HIDE DEF full, x, y, g, h, across
    <3>4. CASE u.left < full
      <4>1. m.out = u.out + g /\ m.done
        BY <3>1, <3>4
      <4>2. n.out = u.out + (IF t.left < full THEN h ELSE across)
        BY <2>1, <3>1
      <4>3. m.out <= n.out
        BY <3>2, <3>3, <3>4, <4>1, <4>2
      <4> QED BY <1>3, <4>1, <4>3 DEF Together
    <3>5. CASE ~(u.left < full)
      <4>1. ~(t.left < full)
        BY <2>1, <3>2, <3>3, <3>5
      <4>2. /\ m = [out |-> u.out + across, price |-> point, left |-> u.left - full, done |-> u.left = full]
            /\ n = [out |-> t.out + across, price |-> point, left |-> t.left - full, done |-> t.left = full]
        BY <3>1, <3>5, <4>1
      <4>3. m.out = n.out /\ m.price = n.price /\ m.left <= n.left
        BY <2>1, <3>2, <3>3, <4>2
      <4>4. ~(u.left = full) => ~(t.left = full)
        BY <2>1, <3>2, <3>3, <3>5
      <4>5. m.out <= n.out
        BY <1>3, <4>3 DEF Pos
      <4>6. (u.left = full => m.done) /\ (~(t.left = full) => ~n.done)
        <5> DEFINE e == u.left = full
                   f == t.left = full
        <5>1. /\ m = [out |-> u.out + across, price |-> point, left |-> u.left - full, done |-> e]
              /\ n = [out |-> t.out + across, price |-> point, left |-> t.left - full, done |-> f]
          BY <4>2
        <5> HIDE DEF e, f
        <5>2. m.done = e /\ n.done = f
          BY <5>1
        <5> QED BY <5>2 DEF e, f
      <4>7. m.done \/ ~n.done
        BY <4>4, <4>6
      <4> QED BY <1>3, <4>3, <4>5, <4>7 DEF Together
    <3> QED BY <3>4, <3>5
  <2> QED BY <2>2, <2>3
<1> QED BY <1>4, <1>5

\* So a purchase that has more to spend gets no less.
LEMMA UpFollows ==
    ASSUME NEW p, WellFormed(p), p.kind = "dbc", NEW price \in Nat \ {0}, NEW a \in Nat, NEW b \in Nat, a <= b
    PROVE  Together(quote_to_base(p, price, a), quote_to_base(p, price, b))
<1> DEFINE n == Len(p.curve)
<1>1. n \in Nat \ {0} /\ n \in Nat
  BY CurvePoints
<1>2. PICK u : /\ u[0] = Starting(price, a)
               /\ \A i \in 1..n : u[i] = UpSegment(p, u[i - 1], i)
               /\ quote_to_base(p, price, a) = u[n]
  BY <1>1, UpUnfolds
<1>3. PICK t : /\ t[0] = Starting(price, b)
               /\ \A i \in 1..n : t[i] = UpSegment(p, t[i - 1], i)
               /\ quote_to_base(p, price, b) = t[n]
  BY <1>1, UpUnfolds
<1> DEFINE P == {m \in Nat : m <= n => Together(u[m], t[m])}
<1>4. 0 \in P
  <2>1. Together(Starting(price, a), Starting(price, b))
    BY DEF Together, Starting, Pos
  <2> QED BY <1>2, <1>3, <2>1
<1>5. ASSUME NEW m \in P PROVE m + 1 \in P
  <2>1. m \in Nat /\ (m <= n => Together(u[m], t[m])) /\ m + 1 \in Nat
    OBVIOUS
  <2> SUFFICES ASSUME m + 1 <= n PROVE Together(u[m + 1], t[m + 1])
    BY <2>1
  <2> DEFINE i == m + 1
  <2>2. i \in 1..n /\ i - 1 = m /\ m <= n
    BY <1>1, <2>1
  <2> HIDE DEF i
  <2>3. Together(u[m], t[m]) /\ u[i] = UpSegment(p, u[m], i) /\ t[i] = UpSegment(p, t[m], i)
    BY <1>2, <1>3, <2>1, <2>2
  <2>4. Together(u[i], t[i])
    BY <2>2, <2>3, UpTogether
  <2> QED BY <2>4 DEF i
<1>6. P = Nat
  <2>1. P \in SUBSET Nat
    OBVIOUS
  <2> HIDE DEF P
  <2> QED BY <1>4, <1>5, <2>1, Induction
<1>7. Together(u[n], t[n])
  <2>1. n \in P /\ n <= n
    BY <1>1, <1>6
  <2> HIDE DEF n
  <2> QED BY <2>1
<1> QED BY <1>2, <1>3, <1>7

\* What a bonding curve's walk gives for no less of the input, where it is not refused.
LEMMA WalkedFollows ==
    ASSUME NEW p, WellFormed(p), p.kind = "dbc", NEW price \in Prices(p), NEW side \in Sides,
           NEW a \in Nat, NEW b \in Nat, a <= b, side = "base" => a = b,
           NEW u, u = Walked(p, price, side, a), NEW t, t = Walked(p, price, side, b)
    PROVE  (u.done => u.out \in Nat) /\ (t.done => t.out \in Nat) /\ (u.done /\ t.done => u.out <= t.out)
<1>1. Ranged(p) /\ price \in Nat \ {0}
  <2>1. Ranged(p) /\ Lowest(p) \in Nat \ {0} /\ Highest(p) \in Nat
    <3>1. Ranged(p) /\ p.sqrt_start \in Nat \ {0} /\ Lowest(p) = p.sqrt_start /\ Highest(p) \in Nat
      BY CurvePoints
    <3> QED BY <3>1
  <2> QED BY <2>1 DEF Prices
<1>2. CASE side = "quote"
  <2>1. Together(u, t)
    BY <1>1, <1>2, UpFollows DEF Walked
  <2> QED BY <2>1 DEF Together, Pos
<1>3. CASE side = "base"
  <2>1. u = t /\ u = base_to_quote(p, price, a)
    BY <1>3 DEF Walked
  <2>2. u.done => u.out \in Nat
    <3> SUFFICES ASSUME u.done PROVE u.out \in Nat
      OBVIOUS
    <3>1. base_to_quote(p, price, a).done
      BY <2>1
    <3>2. On(p, price, "base", a, u)
      BY <2>1, <3>1, DownPaid
    <3> QED BY <3>2 DEF On, Paid
  <2> QED BY <2>1, <2>2
<1> QED BY <1>2, <1>3 DEF Sides

\* A swap of a bonding curve that is made later pays no less, or is refused.
LEMMA DbcLater ==
    ASSUME NEW p, WellFormed(p), p.kind = "dbc", NEW price \in Prices(p), NEW v, NEW side \in Sides, NEW amount \in Nat,
           NEW i \in Nat, NEW j \in Nat, i <= j,
           NEW x, x = DbcSwap(p, price, v, i, side, amount).quote.out,
           NEW y, y = DbcSwap(p, price, v, j, side, amount).quote.out
    PROVE  x \in Nat /\ y \in Nat /\ (y > 0 => x <= y)
<1> DEFINE rate(time) == dbc_fee_numerator(p.fees, time, side)
           on_input == side = "quote" /\ p.fees_in = "quote"
           in(r) == IF on_input THEN amount - ceil_fee(amount, r) ELSE amount
           refused(r) == \/ is_complete(p, v) \/ r \notin 0..FeeScale
                         \/ (side = "quote" /\ v.quote + in(r) >= p.threshold)
           walk(r) == Walked(p, price, side, in(r))
           swap(time) == DbcSwap(p, price, v, time, side, amount)
           good(r) == ~refused(r) /\ walk(r).done
           net(r) == IF on_input THEN walk(r).out ELSE walk(r).out - ceil_fee(walk(r).out, r)
           paid(r) == Quoting(net(r), in(r), walk(r).out)
<1>1. Lower(rate(j), rate(i))
  <2>1. p.fees \in BaseFees
    BY DEF WellFormed, Scheduled
  <2> QED BY <2>1, DbcRateFalls
<1>2. \A time \in {i, j} : /\ good(rate(time)) => swap(time).quote = paid(rate(time))
                           /\ ~good(rate(time)) => swap(time).quote.out = 0
  BY NoQuoteType DEF DbcSwap, Outcome
<1>3. \A r : good(r) => r \in 0..FeeScale
  OBVIOUS
<1>4. FeeScale \in Nat \ {0} /\ on_input \in BOOLEAN /\ (on_input => side # "base")
  BY DammAssumption
<1>5. ASSUME NEW high, good(high), NEW low, good(low), low <= high
      PROVE  paid(high).out \in Nat /\ paid(low).out \in Nat /\ (paid(low).out > 0 => paid(high).out <= paid(low).out)
  <2>1. high \in 0..FeeScale /\ low \in 0..FeeScale /\ low <= high /\ amount <= amount
        /\ FeeScale \in Nat \ {0} /\ walk(high).done /\ walk(low).done
    BY <1>3, <1>4, <1>5
  <2>2. in(high) \in Nat /\ in(low) \in Nat /\ in(high) <= in(low) /\ (side = "base" => in(high) = in(low))
    <3> HIDE DEF good, on_input, walk
    <3>1. amount - div_ceil(amount * high, FeeScale) \in Nat /\ amount - div_ceil(amount * low, FeeScale) \in Nat
          /\ amount - div_ceil(amount * high, FeeScale) <= amount - div_ceil(amount * low, FeeScale)
      BY <2>1, LeftMonotone
    <3>2. amount - ceil_fee(amount, high) \in Nat /\ amount - ceil_fee(amount, low) \in Nat
          /\ amount - ceil_fee(amount, high) <= amount - ceil_fee(amount, low)
      BY <3>1 DEF ceil_fee
    <3> QED BY <1>4, <3>2
  <2> HIDE DEF in
  <2> DEFINE m == walk(high).out
             n == walk(low).out
             f == net(high)
             g == net(low)
             s == paid(high)
             t == paid(low)
  <2>3. m \in Nat /\ n \in Nat /\ m <= n
    BY <2>1, <2>2, WalkedFollows
  <2>4. /\ (f = m /\ g = n) \/ (f = m - ceil_fee(m, high) /\ g = n - ceil_fee(n, low))
        /\ s = Quoting(f, in(high), m) /\ t = Quoting(g, in(low), n)
    OBVIOUS
  <2> HIDE DEF m, n, f, g, s, t, on_input, good, paid, walk, net
  <2>5. s.out \in Nat /\ t.out \in Nat /\ (t.out > 0 => s.out <= t.out)
    BY <2>1, <2>3, <2>4, NetFollows
  <2> QED BY <2>5 DEF s, t
<1> HIDE DEF rate
<1> DEFINE a == rate(i)
           b == rate(j)
<1>6. Lower(b, a) /\ x = (IF good(a) THEN paid(a).out ELSE 0) /\ y = (IF good(b) THEN paid(b).out ELSE 0)
  BY <1>1, <1>2
<1> HIDE DEF a, b, swap, good, paid, walk, net, in, on_input
<1>7. ASSUME NEW r, good(r) PROVE paid(r).out \in Nat
  <2>1. r <= r
    BY <1>3, <1>4, <1>7
  <2> QED BY <1>5, <1>7, <2>1
<1>8. good(a) /\ good(b) => b <= a
  <2> SUFFICES ASSUME good(a), good(b) PROVE b <= a
    OBVIOUS
  <2>1. a # NoFee /\ b # NoFee
    BY <1>3, <1>4 DEF NoFee
  <2> QED BY <1>6, <2>1 DEF Lower
<1>9. good(a) /\ good(b) /\ paid(b).out > 0 => paid(a).out <= paid(b).out
  BY <1>5, <1>8
<1> QED BY <1>6, <1>7, <1>9

-----------------------------------------------------------------------------
(* A quote holds until it is used                                          *)

\* A pool priced by its vaults keeps the price it was opened at.
PriceStays == Compounds(pool) => market \in [price : Nat]

\* What is traded is one of the pools throughout, and a compounding one's price is read
\* and never moved.
LEMMA PriceStaysAlways == Spec => [](pool \in Pools /\ PriceStays)
<1>1. Init => pool \in Pools /\ PriceStays
  <2> SUFFICES ASSUME Init, Compounds(pool) PROVE market \in [price : Nat]
    BY DEF Init, PriceStays
  <2>1. WellFormed(pool) /\ market = pool.market
    BY PoolsAssumption DEF Init
  <2>2. pool.kind = "damm" /\ pool.fees_in = "compounding"
    BY DEF Compounds
  <2> QED BY <2>1, <2>2 DEF WellFormed
<1>2. (pool \in Pools /\ PriceStays) /\ [Next]_vars => (pool \in Pools /\ PriceStays)'
  <2> SUFFICES ASSUME pool \in Pools, PriceStays, [Next]_vars PROVE pool' \in Pools /\ PriceStays'
    OBVIOUS
  <2>1. CASE UNCHANGED vars
    <3>1. pool' = pool /\ market' = market
      BY <2>1 DEF vars
    <3> QED BY <3>1 DEF PriceStays, Compounds
  <2>2. CASE Next
    <3>1. PICK i \in DOMAIN pool.times, side \in Sides, amount \in Amounts : Swap(i, side, amount)
      BY <2>2 DEF Next
    <3>2. pool' = pool
      BY <3>1 DEF Swap
    <3>3. ASSUME Compounds(pool) PROVE market' \in [price : Nat]
      <4> DEFINE net == net_of_transfer_fee(side, amount)
                 swap == DammSwap(pool, market.price, vault, pool.times[i], side, net)
                 P == PricedAt(pool.times[i], side, net)
      <4>1. market' = priced(i, side, amount).market
        BY <3>1 DEF Swap
      <4>2. P = [quote |-> swap.quote, market |-> [market EXCEPT !.price = swap.price]]
        BY <3>3 DEF PricedAt, Markets, OnMarket, OnCurve, Compounds
      <4>3. priced(i, side, amount) = [P EXCEPT !.quote.out = net_of_transfer_fee(Across(side), @)]
        BY DEF priced
      <4>4. swap.price = market.price
        BY <3>3 DEF DammSwap, OnPool, Paying, Compounds
      <4>5. market \in [price : Nat]
        BY <3>3 DEF PriceStays
      <4> HIDE DEF swap, P
      <4>6. market' = [market EXCEPT !.price = swap.price]
        BY <4>1, <4>2, <4>3
      <4> QED BY <4>4, <4>5, <4>6
    <3> QED BY <3>2, <3>3 DEF PriceStays, Compounds
  <2> QED BY <2>1, <2>2
<1> QED BY <1>1, <1>2, PTL DEF Spec

\* The trader is quoted what the venue's swap gives, less what the mints withhold.
LEMMA QuotedOnCurve ==
    ASSUME pool.kind \in {"damm", "dbc", "byreal"}, NEW i, NEW side \in Sides, NEW amount \in Nat,
           NEW net, net = net_of_transfer_fee(side, amount)
    PROVE  \E swap : /\ quote(i, side, amount).out = net_of_transfer_fee(Across(side), swap.quote.out)
                     /\ pool.kind = "damm" => swap = DammSwap(pool, market.price, vault, pool.times[i], side, net)
                     /\ pool.kind = "dbc" => swap = DbcSwap(pool, market.price, vault, pool.times[i], side, net)
                     /\ pool.kind = "byreal" => swap = ByrealSwap(pool, market.price, vault, pool.times[i], side, net)
<1> DEFINE time == pool.times[i]
           P == PricedAt(time, side, net)
<1>1. PICK swap : /\ P = OnCurve(swap)
                  /\ pool.kind = "damm" => swap = DammSwap(pool, market.price, vault, time, side, net)
                  /\ pool.kind = "dbc" => swap = DbcSwap(pool, market.price, vault, time, side, net)
                  /\ pool.kind = "byreal" => swap = ByrealSwap(pool, market.price, vault, time, side, net)
  <2>1. ASSUME pool.kind = "damm" PROVE P = OnCurve(DammSwap(pool, market.price, vault, time, side, net))
    BY <2>1 DEF PricedAt, Markets, OnMarket
  <2>2. ASSUME pool.kind = "dbc" PROVE P = OnCurve(DbcSwap(pool, market.price, vault, time, side, net))
    BY <2>2 DEF PricedAt, Markets, OnMarket
  <2>3. ASSUME pool.kind = "byreal" PROVE P = OnCurve(ByrealSwap(pool, market.price, vault, time, side, net))
    BY <2>3 DEF PricedAt, Markets, OnMarket
  <2> QED BY <2>1, <2>2, <2>3
<1>2. Quotes(swap.quote)
  <2>1. CASE pool.kind = "damm"
    BY <1>1, <2>1, SwapQuotes
  <2>2. CASE pool.kind = "dbc"
    BY <1>1, <2>2, SwapQuotes
  <2>3. CASE pool.kind = "byreal"
    BY <1>1, <2>3, SwapQuotes
  <2> QED BY <2>1, <2>2, <2>3
<1>3. P = [quote |-> swap.quote, market |-> [market EXCEPT !.price = swap.price]]
  BY <1>1 DEF OnCurve
<1> DEFINE Q == swap.quote
           out == net_of_transfer_fee(Across(side), Q.out)
<1>4. priced(i, side, amount) = [P EXCEPT !.quote.out = out]
  BY <1>3 DEF priced
<1> HIDE DEF P, out
<1>5. priced(i, side, amount).quote = [Q EXCEPT !.out = out]
  BY <1>3, <1>4
<1>6. quote(i, side, amount).out = out
  BY <1>2, <1>5 DEF quote, Quotes, IsQuote, NoQuote
<1> QED BY <1>1, <1>6 DEF out

\* Where the venue pays no less later, nor is the trader quoted less.
LEMMA NetLater ==
    ASSUME WellFormed(pool), NEW side \in Sides, NEW x \in Nat, NEW y \in Nat, y > 0 => x <= y,
           net_of_transfer_fee(side, y) > 0
    PROVE  net_of_transfer_fee(side, x) <= net_of_transfer_fee(side, y)
<1>1. net_of_transfer_fee(side, 0) = 0
  <2>1. 0 \in Nat
    OBVIOUS
  <2>2. net_of_transfer_fee(side, 0) \in Nat /\ net_of_transfer_fee(side, 0) <= 0
    BY <2>1, NetBounds
  <2> QED BY <2>2
<1>2. x <= y + 0
  BY <1>1
<1>3. net_of_transfer_fee(side, x) <= net_of_transfer_fee(side, y) + 0
  BY <1>2, NetMonotone
<1>4. net_of_transfer_fee(side, x) \in Nat /\ net_of_transfer_fee(side, y) \in Nat
  BY NetBounds
<1> QED BY <1>3, <1>4

\* On the venues with a schedule of fees and one price, a later quote is no worse.
LEMMA ScheduleLater ==
    ASSUME TradeInv, PriceStays, pool.kind \in {"damm", "dbc", "byreal"},
           NEW i \in DOMAIN pool.times, NEW j \in DOMAIN pool.times, i < j, NEW side \in Sides, NEW amount \in Nat,
           quote(j, side, amount).out > 0
    PROVE  quote(i, side, amount).out <= quote(j, side, amount).out
<1> DEFINE net == net_of_transfer_fee(side, amount)
           soon == pool.times[i]
           later == pool.times[j]
<1>1. WellFormed(pool) /\ Across(side) \in Sides
  BY PoolsAssumption, BothSides DEF TradeInv
<1>2. net \in Nat
  BY <1>1, NetBounds
<1>3. soon \in Nat /\ later \in Nat /\ soon <= later
  <2>1. Scheduled(pool)
    BY <1>1 DEF WellFormed
  <2> DEFINE times == pool.times
  <2>2. times \in Seq(Nat) /\ \A a, b \in DOMAIN times : a < b => times[a] <= times[b]
    BY <2>1 DEF Scheduled
  <2>3. i \in DOMAIN times /\ j \in DOMAIN times
    OBVIOUS
  <2> HIDE DEF times
  <2>4. times[i] \in Nat /\ times[j] \in Nat /\ times[i] <= times[j]
    BY <2>2, <2>3
  <2> QED BY <2>4 DEF times
<1>4. Ranged(pool) => market.price \in Prices(pool)
  BY DEF TradeInv, OnRange
<1>5. Compounds(pool) => Solvent(pool, vault) /\ market.price \in Nat
  BY DEF TradeInv, OnProduct, ByProduct, PriceStays
<1>6. PICK a : /\ quote(i, side, amount).out = net_of_transfer_fee(Across(side), a.quote.out)
               /\ pool.kind = "damm" => a = DammSwap(pool, market.price, vault, soon, side, net)
               /\ pool.kind = "dbc" => a = DbcSwap(pool, market.price, vault, soon, side, net)
               /\ pool.kind = "byreal" => a = ByrealSwap(pool, market.price, vault, soon, side, net)
  BY QuotedOnCurve
<1>7. PICK b : /\ quote(j, side, amount).out = net_of_transfer_fee(Across(side), b.quote.out)
               /\ pool.kind = "damm" => b = DammSwap(pool, market.price, vault, later, side, net)
               /\ pool.kind = "dbc" => b = DbcSwap(pool, market.price, vault, later, side, net)
               /\ pool.kind = "byreal" => b = ByrealSwap(pool, market.price, vault, later, side, net)
  BY QuotedOnCurve
<1> DEFINE x == a.quote.out
           y == b.quote.out
           from == market.price
<1> HIDE DEF net, soon, later
<1>8. x \in Nat /\ y \in Nat /\ (y > 0 => x <= y)
  <2>1. CASE pool.kind = "damm"
    <3>1. x = DammSwap(pool, from, vault, soon, side, net).quote.out
          /\ y = DammSwap(pool, from, vault, later, side, net).quote.out
      BY <1>6, <1>7, <2>1
    <3>2. Ranged(pool) \/ Compounds(pool)
      BY <2>1 DEF Ranged, Compounds
    <3>3. from \in Nat
      <4>1. CASE Ranged(pool)
        BY <1>1, <1>4, <4>1, PriceType DEF Prices
      <4> QED BY <1>5, <3>2, <4>1
    <3> HIDE DEF x, y, from
    <3>4. /\ Ranged(pool) => from \in Prices(pool)
          /\ Compounds(pool) => Solvent(pool, vault)
      BY <1>4, <1>5 DEF from
    <3>5. DammAt(pool, from, vault)
      BY <1>1, <2>1, <3>3, <3>4 DEF DammAt
    <3> QED BY <1>2, <1>3, <3>1, <3>5, DammLater
  <2>2. CASE pool.kind = "dbc"
    <3>1. x = DbcSwap(pool, from, vault, soon, side, net).quote.out
          /\ y = DbcSwap(pool, from, vault, later, side, net).quote.out
      BY <1>6, <1>7, <2>2
    <3>2. from \in Prices(pool)
      BY <1>4, <2>2 DEF Ranged
    <3> HIDE DEF x, y, from
    <3> QED BY <1>1, <1>2, <1>3, <2>2, <3>1, <3>2, DbcLater
  <2>3. CASE pool.kind = "byreal"
    <3>1. x = ByrealSwap(pool, from, vault, soon, side, net).quote.out
          /\ y = ByrealSwap(pool, from, vault, later, side, net).quote.out
      BY <1>6, <1>7, <2>3
    <3>2. from \in Prices(pool)
      BY <1>4, <2>3 DEF Ranged
    <3> HIDE DEF x, y, from
    <3> QED BY <1>1, <1>2, <1>3, <2>3, <3>1, <3>2, ByrealLater
  <2> QED BY <2>1, <2>2, <2>3
<1>9. net_of_transfer_fee(Across(side), y) > 0
  BY <1>7
<1> HIDE DEF x, y
<1>10. net_of_transfer_fee(Across(side), x) <= net_of_transfer_fee(Across(side), y)
  BY <1>1, <1>8, <1>9, NetLater
<1> QED BY <1>6, <1>7, <1>10 DEF x, y

\* The venues without a schedule price the same whenever they are asked.
LEMMA TimelessQuote ==
    ASSUME WellFormed(pool), pool.kind \notin Markets, NEW i, NEW j, NEW side, NEW amount
    PROVE  quote(i, side, amount) = quote(j, side, amount)
BY DEF quote, priced, PricedAt

\* What they quote is an amount.
LEMMA QuoteType ==
    ASSUME TradeInv, pool.kind \in Products \cup {"meteora"}, NEW i, NEW side \in Sides, NEW amount \in Nat
    PROVE  quote(i, side, amount).out \in Nat
<1> DEFINE net == net_of_transfer_fee(side, amount)
           q == OnVaults(side, net)
           other == Across(side)
<1>1. WellFormed(pool) /\ other \in Sides
  BY PoolsAssumption, BothSides DEF TradeInv
<1>2. net \in Nat
  BY <1>1, NetBounds
<1>3. quote(i, side, amount).out = net_of_transfer_fee(other, q.out)
  BY <1>1, PricedQuote DEF quote
<1> HIDE DEF net
<1>4. q.out \in Nat
  <2>1. CASE q.out = 0
    BY <2>1
  <2>2. CASE q.out # 0 /\ pool.kind \in Products
    <3>1. Solvent(pool, vault)
      BY <2>2 DEF TradeInv, OnProduct, ByProduct
    <3>2. FairOn(pool, vault, side, net, q)
      BY <1>1, <1>2, <2>2, <3>1, OnVaultsFair
    <3> QED BY <3>2 DEF FairOn
  <2>3. CASE q.out # 0 /\ pool.kind = "meteora"
    <3>1. q = MeteoraStd(pool, share, side, net)
      BY <2>3 DEF OnVaults
    <3>2. share \in [Sides -> VaultShare] /\ \A s \in Sides : share[s].pool_lp <= share[s].lp_supply
      BY <2>3 DEF TradeInv, OnShares
    <3>3. q.debit \in Nat
      <4> HIDE DEF q
      <4> QED BY <1>1, <1>2, <2>3, <3>1, <3>2, SharesFair
    <3>4. q.out = q.debit
      <4>1. NoQuote.out = 0
        BY DEF NoQuote
      <4>2. \A o, c : Quoting(o, c, o).out = Quoting(o, c, o).debit
        BY DEF Quoting, NoQuote
      <4> QED BY <2>3, <3>1, <4>1, <4>2 DEF MeteoraStd
    <3> QED BY <3>3, <3>4
  <2> QED BY <2>1, <2>2, <2>3
<1> HIDE DEF q
<1> QED BY <1>1, <1>3, <1>4, NetBounds

-----------------------------------------------------------------------------
(* A ladder walked later                                                    *)

\* A fill with more to spend gives no less and leaves no less; where the smaller one has
\* something left, they are the same.
LEMMA FillFollows ==
    ASSUME NEW a \in Nat, NEW b \in Nat, a <= b, NEW most \in Nat, NEW price \in Nat \ {0}, NEW side \in Sides,
           NEW f, f = fill(a, most, price, side), NEW g, g = fill(b, most, price, side)
    PROVE  /\ f.out <= g.out /\ a - f.used <= b - g.used
           /\ f.used < a => g = f
<1> DEFINE max_in == amount_in_for(most, price, side)
           up(x) == amount_out_for(x, price, side)
<1>1. Q64 \in Nat \ {0} /\ most * Q64 \in Nat /\ most * price \in Nat
  BY DammAssumption
<1>2. max_in \in Nat
  BY <1>1, DivCeilCovers DEF amount_in_for
<1>3. up(a) \in Nat /\ up(b) \in Nat /\ up(a) <= up(b)
  <2>1. /\ price * a \in Nat /\ price * b \in Nat /\ price * a <= price * b
        /\ a * Q64 \in Nat /\ b * Q64 \in Nat /\ a * Q64 <= b * Q64
    BY <1>1, TimesMonotone
  <2>2. /\ (price * a) \div Q64 \in Nat /\ (price * b) \div Q64 \in Nat /\ (price * a) \div Q64 <= (price * b) \div Q64
    BY <1>1, <2>1, DivBounds, DivMonotone
  <2>3. /\ (a * Q64) \div price \in Nat /\ (b * Q64) \div price \in Nat /\ (a * Q64) \div price <= (b * Q64) \div price
    BY <1>1, <2>1, DivBounds, DivMonotone
  <2> QED BY <2>2, <2>3 DEF amount_out_for
<1>4. f.out \in Nat /\ f.out <= most /\ g.out \in Nat /\ g.used \in Nat /\ g.used <= b
  BY FillFair
<1>5. CASE most = 0
  <2>1. f = [used |-> 0, out |-> 0] /\ g = [used |-> 0, out |-> 0]
    BY <1>5 DEF fill
  <2> QED BY <2>1
<1>6. CASE most # 0 /\ a = 0
  <2>1. f = [used |-> 0, out |-> 0]
    BY <1>6 DEF fill
  <2> QED BY <1>4, <1>6, <2>1
<1>7. CASE most # 0 /\ a # 0 /\ a >= max_in
  <2>1. b # 0 /\ b >= max_in
    BY <1>2, <1>7
  <2>2. f = [used |-> max_in, out |-> most] /\ g = [used |-> max_in, out |-> most]
    BY <1>7, <2>1 DEF fill
  <2> HIDE DEF max_in
  <2> QED BY <1>2, <2>2
<1>8. CASE most # 0 /\ a # 0 /\ ~(a >= max_in)
  <2>1. f = [used |-> a, out |-> up(a)] /\ b # 0
    BY <1>8 DEF fill
  <2>2. CASE b >= max_in
    <3>1. g = [used |-> max_in, out |-> most]
      BY <1>8, <2>1, <2>2 DEF fill
    <3> HIDE DEF max_in, up
    <3> QED BY <1>2, <1>4, <2>1, <2>2, <3>1
  <2>3. CASE ~(b >= max_in)
    <3>1. g = [used |-> b, out |-> up(b)]
      BY <1>8, <2>1, <2>3 DEF fill
    <3> HIDE DEF max_in, up
    <3> QED BY <1>3, <2>1, <3>1
  <2> QED BY <2>2, <2>3
<1> QED BY <1>5, <1>6, <1>7, <1>8

\* So do the layers of a bin.
LEMMA LayersFollow ==
    ASSUME NEW early \in PairState, NEW late \in PairState, early.orders = late.orders,
           NEW bin \in LadderBin, NEW price \in Nat \ {0}, NEW side \in Sides, NEW a \in Nat, NEW b \in Nat, a <= b,
           NEW l, l = Layers(early, bin, price, a, side), NEW m, m = Layers(late, bin, price, b, side)
    PROVE  /\ l.out <= m.out
           /\ l.used < a => m = l
<1> DEFINE all == MakerOut(bin, side)
           rest == IF Fillable(early, bin, side) THEN bin.processed ELSE 0
           resting == IF Fillable(early, bin, side) THEN bin.open ELSE 0
           maker == fill(a, all, price, side)
           processed == fill(a - maker.used, rest, price, side)
           open == fill(a - maker.used - processed.used, resting, price, side)
           Maker == fill(b, all, price, side)
           Processed == fill(b - Maker.used, rest, price, side)
           Open == fill(b - Maker.used - Processed.used, resting, price, side)
<1>1. all \in Nat /\ rest \in Nat /\ resting \in Nat
  BY DEF MakerOut, LadderBin
<1>2. /\ l = [maker |-> maker, processed |-> processed, open |-> open,
              used |-> maker.used + processed.used + open.used, out |-> maker.out + processed.out + open.out]
      /\ m = [maker |-> Maker, processed |-> Processed, open |-> Open,
              used |-> Maker.used + Processed.used + Open.used, out |-> Maker.out + Processed.out + Open.out]
  BY DEF Layers, Fillable
<1>3. /\ maker.used \in Nat /\ maker.used <= a /\ maker.out \in Nat
      /\ Maker.used \in Nat /\ Maker.used <= b /\ Maker.out \in Nat
  BY <1>1, FillFair
<1>4. maker.out <= Maker.out /\ a - maker.used <= b - Maker.used /\ (maker.used < a => Maker = maker)
  BY <1>1, FillFollows
<1> HIDE DEF all, rest, resting, maker, Maker
<1> DEFINE a1 == a - maker.used
           b1 == b - Maker.used
<1>5. a1 \in Nat /\ b1 \in Nat /\ a1 <= b1
  BY <1>3, <1>4
<1>6. processed = fill(a1, rest, price, side) /\ Processed = fill(b1, rest, price, side)
  OBVIOUS
<1> HIDE DEF a1, b1, processed, Processed
<1>7. /\ processed.used \in Nat /\ processed.used <= a1 /\ processed.out \in Nat
      /\ Processed.used \in Nat /\ Processed.used <= b1 /\ Processed.out \in Nat
  BY <1>1, <1>5, <1>6, FillFair
<1>8. processed.out <= Processed.out /\ a1 - processed.used <= b1 - Processed.used
      /\ (processed.used < a1 => Processed = processed)
  BY <1>1, <1>5, <1>6, FillFollows
<1> DEFINE a2 == a1 - processed.used
           b2 == b1 - Processed.used
<1>9. a2 \in Nat /\ b2 \in Nat /\ a2 <= b2
  BY <1>5, <1>7, <1>8
<1>10. open = fill(a2, resting, price, side) /\ Open = fill(b2, resting, price, side)
  BY DEF a1, b1
<1> HIDE DEF a2, b2, open, Open
<1>11. /\ open.used \in Nat /\ open.used <= a2 /\ open.out \in Nat
       /\ Open.used \in Nat /\ Open.used <= b2 /\ Open.out \in Nat
  BY <1>1, <1>9, <1>10, FillFair
<1>12. open.out <= Open.out /\ (open.used < a2 => Open = open)
  BY <1>1, <1>9, <1>10, FillFollows
<1>13. l.out = maker.out + processed.out + open.out /\ m.out = Maker.out + Processed.out + Open.out
       /\ l.used = maker.used + processed.used + open.used
  BY <1>2
<1>14. l.out <= m.out
  BY <1>3, <1>4, <1>7, <1>8, <1>11, <1>12, <1>13
<1>15. ASSUME l.used < a PROVE m = l
  <2>1. maker.used < a /\ processed.used < a1 /\ open.used < a2
    BY <1>3, <1>7, <1>11, <1>13, <1>15 DEF a1, a2
  <2> QED BY <1>2, <1>4, <1>8, <1>12, <2>1
<1> QED BY <1>14, <1>15

\* A bin's fee grows with the pair's volatility.
LEMMA BinRateFollows ==
    ASSUME NEW early \in PairState, NEW late \in PairState, late.va <= early.va, early.step = late.step,
           early.base_rate = late.base_rate, early.control = late.control
    PROVE  bin_fee_rate(late) <= bin_fee_rate(early)
<1> DEFINE x == late.va * late.step
           y == early.va * late.step
           control == late.control
           base == late.base_rate
<1>1. x \in Nat /\ y \in Nat /\ x <= y /\ control \in Nat /\ base \in Nat
  <2>1. late.va \in Nat /\ early.va \in Nat /\ late.step \in Nat /\ control \in Nat /\ base \in Nat
    BY DEF PairState
  <2> QED BY <2>1, TimesMonotone
<1>2. /\ bin_fee_rate(late) = AtMost(base + div_ceil(control * x * x, VariableScale), MaxFeeRate)
      /\ bin_fee_rate(early) = AtMost(base + div_ceil(control * y * y, VariableScale), MaxFeeRate)
  BY DEF bin_fee_rate
<1> HIDE DEF x, y, control, base
<1>3. control * x * x \in Nat /\ control * y * y \in Nat /\ control * x * x <= control * y * y
  <2>1. control * x \in Nat /\ control * y \in Nat /\ control * x <= control * y
    BY <1>1, TimesMonotone
  <2>2. (control * x) * x <= (control * y) * x /\ (control * y) * x <= (control * y) * y
        /\ (control * x) * x \in Nat /\ (control * y) * x \in Nat /\ (control * y) * y \in Nat
    BY <1>1, <2>1, TimesMonotone
  <2> QED BY <2>2
<1> DEFINE m == div_ceil(control * x * x, VariableScale)
           n == div_ceil(control * y * y, VariableScale)
<1>4. m \in Nat /\ n \in Nat /\ m <= n
  BY <1>3, CeilMonotone, DammAssumption
<1>5. MaxFeeRate \in Nat
  BY DammAssumption DEF MaxFeeRate
<1> HIDE DEF m, n
<1>6. AtMost(base + m, MaxFeeRate) <= AtMost(base + n, MaxFeeRate)
  BY <1>1, <1>4, <1>5 DEF AtMost
<1> QED BY <1>2, <1>6 DEF m, n

\* A fee on top of an amount grows with the rate.
LEMMA OnTopFollows ==
    ASSUME NEW used \in Nat, NEW low \in Nat, NEW high \in Nat, low <= high, high < FeeScale
    PROVE  /\ fee_on_top(used, low) \in Nat /\ fee_on_top(used, high) \in Nat
           /\ fee_on_top(used, low) <= fee_on_top(used, high)
<1> DEFINE a == FeeScale - low
           b == FeeScale - high
           x == used * low
           y == used * high
<1>1. a \in Nat \ {0} /\ b \in Nat \ {0} /\ b <= a
  BY DammAssumption
<1>2. x \in Nat /\ y \in Nat /\ x <= y
  BY TimesMonotone
<1>3. fee_on_top(used, low) = div_ceil(x, a) /\ fee_on_top(used, high) = div_ceil(y, b)
  BY DEF fee_on_top
<1> HIDE DEF a, b, x, y
<1>4. x * b <= y * a
  <2>1. x * b <= y * b /\ y * b <= y * a /\ x * b \in Nat /\ y * b \in Nat /\ y * a \in Nat
    BY <1>1, <1>2, TimesMonotone
  <2> QED BY <2>1
<1> QED BY <1>1, <1>2, <1>3, <1>4, FractionCeils

\* With more left and a lower fee, more reaches the bin.
LEMMA ReachesBin ==
    ASSUME NEW high \in 0..FeeScale, NEW low \in 0..FeeScale, low <= high, NEW a \in Nat, NEW b \in Nat, a <= b,
           NEW on_input \in BOOLEAN,
           NEW x, x = (IF on_input THEN a - ceil_fee(a, high) ELSE a),
           NEW y, y = (IF on_input THEN b - ceil_fee(b, low) ELSE b)
    PROVE  x \in Nat /\ y \in Nat /\ x <= y
<1>1. FeeScale \in Nat \ {0}
  BY DammAssumption
<1>2. /\ a - div_ceil(a * high, FeeScale) \in Nat /\ b - div_ceil(b * low, FeeScale) \in Nat
      /\ a - div_ceil(a * high, FeeScale) <= b - div_ceil(b * low, FeeScale)
  BY <1>1, LeftMonotone
<1>3. /\ a - ceil_fee(a, high) \in Nat /\ b - ceil_fee(b, low) \in Nat
      /\ a - ceil_fee(a, high) <= b - ceil_fee(b, low)
  BY <1>2 DEF ceil_fee
<1> QED BY <1>3

\* So a bin gives no less at a lower fee, and once it is drained at the higher one there
\* is as much left to go on with, or more.
LEMMA SwapFollows ==
    ASSUME NEW early \in PairState, NEW late \in PairState, early.orders = late.orders, early.fee_on = late.fee_on,
           bin_fee_rate(late) <= bin_fee_rate(early),
           NEW bin \in LadderBin, NEW price \in Nat \ {0}, NEW side \in Sides, NEW a \in Nat, NEW b \in Nat, a <= b,
           NEW x, x = (IF bin_fee_on_input(early, side) THEN a - ceil_fee(a, bin_fee_rate(early)) ELSE a),
           NEW y, y = (IF bin_fee_on_input(late, side) THEN b - ceil_fee(b, bin_fee_rate(late)) ELSE b),
           NEW l, l = Layers(early, bin, price, x, side), NEW m, m = Layers(late, bin, price, y, side),
           NEW s, s = swap_in_bin(early, price, l, x, a, side), NEW t, t = swap_in_bin(late, price, m, y, b, side)
    PROVE  /\ s.out \in Nat /\ t.out \in Nat /\ s.out <= t.out
           /\ s.consumed \in Nat /\ t.consumed \in Nat /\ s.consumed <= a /\ t.consumed <= b
           /\ \/ m = l /\ a - s.consumed <= b - t.consumed
              \/ s.consumed = a
<1> DEFINE high == bin_fee_rate(early)
           low == bin_fee_rate(late)
           on_input == bin_fee_on_input(late, side)
<1>1. high \in Nat /\ high < FeeScale /\ low \in Nat /\ low < FeeScale /\ low <= high
  BY BinRate
<1>2. on_input \in BOOLEAN /\ bin_fee_on_input(early, side) = on_input
  BY DEF bin_fee_on_input
<1>3. FeeScale \in Nat \ {0}
  BY DammAssumption
<1>4. s = [consumed |-> IF l.used < x THEN l.used + (IF on_input THEN fee_on_top(l.used, high) ELSE 0) ELSE a,
           out |-> l.out - (IF on_input THEN 0 ELSE ceil_fee(l.out, high))]
  BY <1>2 DEF swap_in_bin
<1>5. t = [consumed |-> IF m.used < y THEN m.used + (IF on_input THEN fee_on_top(m.used, low) ELSE 0) ELSE b,
           out |-> m.out - (IF on_input THEN 0 ELSE ceil_fee(m.out, low))]
  BY DEF swap_in_bin
<1>6. x = (IF on_input THEN a - ceil_fee(a, high) ELSE a) /\ y = (IF on_input THEN b - ceil_fee(b, low) ELSE b)
  BY <1>2
<1> HIDE DEF high, low, on_input
<1>7. x \in Nat /\ y \in Nat /\ x <= y
  <2>1. high \in 0..FeeScale /\ low \in 0..FeeScale
    BY <1>1, <1>3
  <2> QED BY <1>1, <1>2, <1>6, <2>1, ReachesBin
<1>8. /\ l.used \in Nat /\ l.used <= x /\ l.out \in Nat
      /\ m.used \in Nat /\ m.used <= y /\ m.out \in Nat
  BY <1>7, LayersFair
<1>9. l.out <= m.out /\ (l.used < x => m = l)
  BY <1>7, LayersFollow
<1>10. /\ s.consumed \in Nat /\ s.consumed <= a /\ s.out \in Nat
       /\ t.consumed \in Nat /\ t.consumed <= b /\ t.out \in Nat
  <2>1. s.consumed \in Nat /\ s.consumed <= a /\ s.out \in Nat
    BY <1>8, ConsumedWithin
  <2>2. t.consumed \in Nat /\ t.consumed <= b /\ t.out \in Nat
    BY <1>8, ConsumedWithin
  <2> QED BY <2>1, <2>2
<1>11. s.out <= t.out
  <2> DEFINE c == l.out
             d == m.out
  <2>1. s.out = c - (IF on_input THEN 0 ELSE ceil_fee(c, high)) /\ t.out = d - (IF on_input THEN 0 ELSE ceil_fee(d, low))
    BY <1>4, <1>5
  <2>2. c \in Nat /\ d \in Nat /\ c <= d
    BY <1>8, <1>9
  <2> HIDE DEF c, d
  <2>3. high \in 0..FeeScale /\ low \in 0..FeeScale
    BY <1>1, <1>3
  <2>4. c - div_ceil(c * high, FeeScale) <= d - div_ceil(d * low, FeeScale)
    BY <1>1, <1>3, <2>2, <2>3, LeftMonotone
  <2>5. c - ceil_fee(c, high) <= d - ceil_fee(d, low)
    BY <2>4 DEF ceil_fee
  <2> QED BY <1>2, <2>1, <2>2, <2>5
<1>12. CASE l.used < x
  <2> DEFINE used == l.used
  <2>1. m = l /\ used < y
    BY <1>7, <1>8, <1>9, <1>12
  <2>2. /\ s.consumed = used + (IF on_input THEN fee_on_top(used, high) ELSE 0)
        /\ t.consumed = used + (IF on_input THEN fee_on_top(used, low) ELSE 0)
    BY <1>4, <1>5, <1>12, <2>1
  <2>3. used \in Nat
    BY <1>8
  <2> HIDE DEF used
  <2>4. fee_on_top(used, low) <= fee_on_top(used, high) /\ fee_on_top(used, low) \in Nat /\ fee_on_top(used, high) \in Nat
    BY <1>1, <2>3, OnTopFollows
  <2>5. t.consumed <= s.consumed
    BY <1>2, <2>2, <2>3, <2>4
  <2>6. a - s.consumed <= b - t.consumed
    BY <1>10, <2>5
  <2> QED BY <1>10, <1>11, <2>1, <2>6
<1>13. CASE ~(l.used < x)
  <2>1. s.consumed = a
    BY <1>4, <1>13
  <2> QED BY <1>10, <1>11, <2>1
<1> QED BY <1>12, <1>13

-----------------------------------------------------------------------------
(* The volatility of a bin                                                  *)

\* What a pair's volatility reaches at a bin, before its cap; and the bins ahead of one.
Reached(pair, b) == pair.va_ref + Distance(pair.index_ref, b) * VaStep
Ahead(start, side) == {b \in Int : IF side = "base" THEN b <= start ELSE b >= start}

\* References taken later reach no more at any bin ahead, unless the pair is walking back
\* towards the bin it is measured from.
LEMMA ReachedFalls ==
    ASSUME NEW pair \in PairState, VolatilityOfBin(pair), NEW side \in Sides,
           IF side = "base" THEN pair.active <= pair.index_ref ELSE pair.index_ref <= pair.active,
           NEW i \in {"filtered", "decaying", "old"}, NEW j \in {"filtered", "decaying", "old"}, Settled(i) <= Settled(j),
           NEW early, early = update_references(pair, i), NEW late, late = update_references(pair, j),
           NEW b \in Ahead(pair.active, side)
    PROVE  Reached(early, b) \in Nat /\ Reached(late, b) \in Nat /\ Reached(late, b) <= Reached(early, b)
<1> DEFINE active == pair.active
           ref == pair.index_ref
           here == Distance(active, b)
           away == Distance(ref, active)
           decayed_va == (pair.va * pair.reduction) \div BasisPoints
<1>1. /\ active \in Int /\ ref \in Int /\ pair.va \in Nat /\ pair.va_ref \in Nat /\ pair.reduction \in Nat
      /\ b \in Int /\ VaStep \in Nat
  BY DlmmAssumption DEF PairState, BinIds, Ahead
<1>2. IF side = "base" THEN b <= active /\ active <= ref ELSE active <= b /\ ref <= active
  BY DEF Ahead
<1>3. here \in Nat /\ away \in Nat /\ Distance(ref, b) = away + here
  <2> HIDE DEF active, ref
  <2> QED BY <1>1, <1>2 DEF Distance
<1>4. pair.va <= pair.va_ref + away * VaStep /\ pair.reduction <= BasisPoints
  BY DEF VolatilityOfBin
<1>5. decayed_va \in Nat /\ decayed_va <= pair.va
  <2>1. BasisPoints \in Nat \ {0}
    BY DEF BasisPoints
  <2>2. pair.va * pair.reduction \in Nat /\ pair.va * pair.reduction <= pair.va * BasisPoints
    BY <1>1, <1>4, <2>1, TimesMonotone
  <2> QED BY <1>1, <2>1, <2>2, DivBounds, DivAtMost
<1>6. ASSUME NEW age \in {"filtered", "decaying", "old"}
      PROVE  Reached(update_references(pair, age), b) =
               CASE age = "filtered" -> pair.va_ref + (away + here) * VaStep
                 [] age = "decaying" -> decayed_va + here * VaStep
                 [] age = "old" -> 0 + here * VaStep
  <2>1. CASE age = "filtered"
    BY <1>3, <2>1 DEF Reached, update_references
  <2>2. CASE age = "decaying"
    <3>1. update_references(pair, age) = [pair EXCEPT !.index_ref = active, !.va_ref = decayed_va]
      BY <2>2 DEF update_references
    <3> HIDE DEF decayed_va, active
    <3>2. update_references(pair, age).index_ref = active /\ update_references(pair, age).va_ref = decayed_va
      BY <3>1 DEF PairState
    <3> QED BY <2>2, <3>2 DEF Reached
  <2>3. CASE age = "old"
    <3>1. update_references(pair, age) = [pair EXCEPT !.index_ref = active, !.va_ref = 0]
      BY <2>3 DEF update_references
    <3> HIDE DEF active
    <3>2. update_references(pair, age).index_ref = active /\ update_references(pair, age).va_ref = 0
      BY <3>1 DEF PairState
    <3> QED BY <2>3, <3>2 DEF Reached
  <2> QED BY <2>1, <2>2, <2>3
<1> HIDE DEF here, away, decayed_va
<1> DEFINE filtered == pair.va_ref + (away + here) * VaStep
           decaying == decayed_va + here * VaStep
           old == 0 + here * VaStep
<1>7. filtered \in Nat /\ decaying \in Nat /\ old \in Nat /\ old <= decaying /\ decaying <= filtered
  <2>1. /\ here * VaStep \in Nat /\ away * VaStep \in Nat
        /\ (away + here) * VaStep = away * VaStep + here * VaStep
    BY <1>1, <1>3
  <2> QED BY <1>1, <1>4, <1>5, <2>1
<1> HIDE DEF filtered, decaying, old
<1>8. /\ Reached(early, b) = CASE i = "filtered" -> filtered [] i = "decaying" -> decaying [] i = "old" -> old
      /\ Reached(late, b) = CASE j = "filtered" -> filtered [] j = "decaying" -> decaying [] j = "old" -> old
  BY <1>6 DEF filtered, decaying, old
<1> QED BY <1>7, <1>8 DEF Settled

-----------------------------------------------------------------------------
(* Two walks, one of them later                                             *)

\* The same pair but for its references, which reach no more at the bins ahead.
PairsFollow(early, late, start, side) ==
    /\ early.step = late.step /\ early.base_rate = late.base_rate /\ early.control = late.control
    /\ early.max_va = late.max_va /\ early.fee_on = late.fee_on /\ early.orders = late.orders
    /\ early.active = late.active /\ late.active \in Ahead(start, side)
    /\ \A b \in Ahead(start, side) :
          Reached(early, b) \in Nat /\ Reached(late, b) \in Nat /\ Reached(late, b) <= Reached(early, b)

\* Walks in the same bin: they have drained the same bins, the later one for less.
Abreast(m, w, start, side) ==
    /\ m.status = w.status /\ m.arrays = w.arrays /\ m.array = w.array /\ m.bins = w.bins
    /\ m.left <= w.left /\ m.out <= w.out
    /\ PairsFollow(m.pair, w.pair, start, side)

\* The first may be done before the later one.
Follows(m, w, start, side) ==
    \/ Abreast(m, w, start, side)
    \/ m.status = "walking" /\ m.left = 0 /\ m.out <= w.out

\* A pair moved to a bin.
LEMMA PairsMove ==
    ASSUME NEW early \in PairState, NEW late \in PairState, NEW start, NEW side, PairsFollow(early, late, start, side),
           NEW b \in Ahead(start, side)
    PROVE  PairsFollow([early EXCEPT !.active = b], [late EXCEPT !.active = b], start, side)
<1>1. \A c : /\ Reached([early EXCEPT !.active = b], c) = Reached(early, c)
             /\ Reached([late EXCEPT !.active = b], c) = Reached(late, c)
  BY DEF Reached, PairState
<1> QED BY <1>1 DEF PairsFollow, PairState

\* Walks that are together enter the same array.
LEMMA EnterAbreast ==
    ASSUME NEW data, data.liquid \in SUBSET Int, NEW start \in Int, NEW side \in Sides, NEW D, NEW m \in Walks(D), NEW w \in Walks(D),
           Abreast(m, w, start, side),
           NEW x, x = Entered(data, m, side), NEW y, y = Entered(data, w, side)
    PROVE  Abreast(x, y, start, side) /\ x.left = m.left /\ y.left = w.left /\ y.out = w.out
<1> DEFINE from == array_index(w.pair.active)
           ahead == Beyond(data.liquid, from, side)
           array == Nearest(ahead, side)
           edge == IF side = "base" THEN (array + 1) * BinsPerArray - 1 ELSE array * BinsPerArray
           stops == (needs_extension(from) /\ ~data.extension) \/ ahead = {} \/ w.arrays = SwapArrays
<1>1. /\ m.status = w.status /\ m.arrays = w.arrays /\ m.array = w.array /\ m.bins = w.bins
      /\ m.left <= w.left /\ m.out <= w.out
      /\ PairsFollow(m.pair, w.pair, start, side) /\ m.pair.active = w.pair.active /\ w.pair.active \in Ahead(start, side)
  BY DEF Abreast, PairsFollow
<1>2. m.pair \in PairState /\ w.pair \in PairState /\ w.pair.active \in Int
  BY DlmmAssumption DEF Walks, PairState, BinIds
<1>3. CASE from \in w.array
  BY <1>1, <1>3 DEF Entered
<1>4. ASSUME NEW status, from \notin w.array, x = [m EXCEPT !.status = status], y = [w EXCEPT !.status = status]
      PROVE  Abreast(x, y, start, side) /\ x.left = m.left /\ y.left = w.left /\ y.out = w.out
  <2>1. /\ x.status = status /\ x.arrays = m.arrays /\ x.array = m.array /\ x.bins = m.bins /\ x.left = m.left /\ x.out = m.out
        /\ x.pair = m.pair
    BY <1>4 DEF Walks
  <2>2. /\ y.status = status /\ y.arrays = w.arrays /\ y.array = w.array /\ y.bins = w.bins /\ y.left = w.left /\ y.out = w.out
        /\ y.pair = w.pair
    BY <1>4 DEF Walks
  <2> QED BY <1>1, <2>1, <2>2 DEF Abreast
<1>5. CASE from \notin w.array /\ stops
  <2>1. x = [m EXCEPT !.status = "exhausted"] /\ y = [w EXCEPT !.status = "exhausted"]
    BY <1>1, <1>5 DEF Entered, Enter
  <2> QED BY <1>4, <1>5, <2>1
<1>6. CASE from \notin w.array /\ ~stops /\ ~(BinsOf(array) \subseteq DOMAIN w.bins)
  <2>1. x = [m EXCEPT !.status = "not_loaded"] /\ y = [w EXCEPT !.status = "not_loaded"]
    BY <1>1, <1>6 DEF Entered, Enter
  <2> QED BY <1>4, <1>6, <2>1
<1>7. CASE from \notin w.array /\ ~stops /\ BinsOf(array) \subseteq DOMAIN w.bins
  <2> DEFINE active == IF array # from THEN edge ELSE w.pair.active
  <2>1. /\ x = [m EXCEPT !.arrays = @ + 1, !.array = {array}, !.pair.active = active]
        /\ y = [w EXCEPT !.arrays = @ + 1, !.array = {array}, !.pair.active = active]
    BY <1>1, <1>7 DEF Entered, Enter
  <2>2. from \in Int /\ w.pair.active \in BinsOf(from)
    BY <1>2, InItsArray
  <2>3. array \in ahead
    BY <1>7, <2>2, NearestChosen
  <2>4. array \in Int /\ (IF side = "base" THEN array <= from ELSE array >= from)
    BY <2>3 DEF Beyond
  <2> HIDE DEF array, from, ahead
  <2>5. active \in Ahead(start, side)
    <3>1. CASE array = from
      BY <1>1, <3>1
    <3>2. CASE array # from
      <4> DEFINE a == w.pair.active
      <4>1. a \in Int /\ from * BinsPerArray <= a /\ a < (from + 1) * BinsPerArray /\ BinsPerArray \in Nat \ {0}
        <5>1. BinsPerArray \in Nat \ {0} /\ from * BinsPerArray \in Int /\ (from + 1) * BinsPerArray \in Int
          BY <2>2, DlmmAssumption
        <5> QED BY <1>2, <2>2, <5>1 DEF BinsOf
      <4>2. edge \in Int /\ (IF side = "base" THEN edge <= a ELSE edge >= a)
        <5>1. CASE side = "base"
          <6>1. array + 1 <= from
            BY <2>2, <2>4, <3>2, <5>1
          <6>2. (array + 1) * BinsPerArray <= from * BinsPerArray /\ (array + 1) * BinsPerArray \in Int /\ from * BinsPerArray \in Int
            BY <2>2, <2>4, <4>1, <6>1
          <6> HIDE DEF a
          <6> QED BY <4>1, <5>1, <6>2
        <5>2. CASE side # "base"
          <6>1. from + 1 <= array
            BY <2>2, <2>4, <3>2, <5>2
          <6>2. (from + 1) * BinsPerArray <= array * BinsPerArray /\ array * BinsPerArray \in Int /\ (from + 1) * BinsPerArray \in Int
            BY <2>2, <2>4, <4>1, <6>1
          <6> HIDE DEF a
          <6> QED BY <4>1, <5>2, <6>2
        <5> QED BY <5>1, <5>2
      <4>3. a \in Ahead(start, side)
        BY <1>1
      <4> HIDE DEF a, edge
      <4>4. edge \in Ahead(start, side)
        BY <4>1, <4>2, <4>3 DEF Ahead
      <4> QED BY <3>2, <4>4
    <3> QED BY <3>1, <3>2
  <2> HIDE DEF active
  <2>6. /\ x = [m EXCEPT !.arrays = m.arrays + 1, !.array = {array}, !.pair = [m.pair EXCEPT !.active = active]]
        /\ y = [w EXCEPT !.arrays = w.arrays + 1, !.array = {array}, !.pair = [w.pair EXCEPT !.active = active]]
    BY <2>1 DEF Walks
  <2>7. /\ x.status = m.status /\ x.arrays = m.arrays + 1 /\ x.array = {array} /\ x.bins = m.bins /\ x.left = m.left /\ x.out = m.out
        /\ x.pair = [m.pair EXCEPT !.active = active]
    BY <2>6 DEF Walks
  <2>8. /\ y.status = w.status /\ y.arrays = w.arrays + 1 /\ y.array = {array} /\ y.bins = w.bins /\ y.left = w.left /\ y.out = w.out
        /\ y.pair = [w.pair EXCEPT !.active = active]
    BY <2>6 DEF Walks
  <2>9. PairsFollow(x.pair, y.pair, start, side)
    BY <1>1, <1>2, <2>5, <2>7, <2>8, PairsMove
  <2> QED BY <1>1, <2>7, <2>8, <2>9 DEF Abreast
<1> QED BY <1>3, <1>5, <1>6, <1>7

\* They step on to the same bin, unless one is done.
LEMMA StepAbreast ==
    ASSUME NEW start \in Int, NEW side \in Sides, NEW D, NEW m \in Walks(D), NEW w \in Walks(D), Abreast(m, w, start, side),
           m.left # 0, NEW x, x = StepBin(m, side), NEW y, y = StepBin(w, side)
    PROVE  Abreast(x, y, start, side)
<1> DEFINE next == IF side = "base" THEN w.pair.active - 1 ELSE w.pair.active + 1
<1>1. /\ m.status = w.status /\ m.arrays = w.arrays /\ m.array = w.array /\ m.bins = w.bins
      /\ m.left <= w.left /\ m.out <= w.out
      /\ PairsFollow(m.pair, w.pair, start, side) /\ m.pair.active = w.pair.active /\ w.pair.active \in Ahead(start, side)
  BY DEF Abreast, PairsFollow
<1>2. m.pair \in PairState /\ w.pair \in PairState /\ w.pair.active \in Int /\ m.left \in Nat /\ w.left \in Nat
  BY DlmmAssumption DEF Walks, PairState, BinIds
<1>3. w.left # 0
  BY <1>1, <1>2
<1>4. CASE next \notin BinIds
  <2>1. x = [m EXCEPT !.status = "exhausted"] /\ y = [w EXCEPT !.status = "exhausted"]
    BY <1>1, <1>3, <1>4 DEF StepBin
  <2>2. /\ x.status = "exhausted" /\ x.arrays = m.arrays /\ x.array = m.array /\ x.bins = m.bins /\ x.left = m.left
        /\ x.out = m.out /\ x.pair = m.pair
    BY <2>1 DEF Walks
  <2>3. /\ y.status = "exhausted" /\ y.arrays = w.arrays /\ y.array = w.array /\ y.bins = w.bins /\ y.left = w.left
        /\ y.out = w.out /\ y.pair = w.pair
    BY <2>1 DEF Walks
  <2> QED BY <1>1, <2>2, <2>3 DEF Abreast
<1>5. CASE next \in BinIds
  <2>1. x = [m EXCEPT !.pair.active = next] /\ y = [w EXCEPT !.pair.active = next]
    BY <1>1, <1>3, <1>5 DEF StepBin
  <2>2. next \in Ahead(start, side)
    BY <1>1, <1>2 DEF Ahead
  <2> HIDE DEF next
  <2>3. x = [m EXCEPT !.pair = [m.pair EXCEPT !.active = next]] /\ y = [w EXCEPT !.pair = [w.pair EXCEPT !.active = next]]
    BY <2>1 DEF Walks
  <2>4. /\ x.status = m.status /\ x.arrays = m.arrays /\ x.array = m.array /\ x.bins = m.bins /\ x.left = m.left /\ x.out = m.out
        /\ x.pair = [m.pair EXCEPT !.active = next]
    BY <2>3 DEF Walks
  <2>5. /\ y.status = w.status /\ y.arrays = w.arrays /\ y.array = w.array /\ y.bins = w.bins /\ y.left = w.left /\ y.out = w.out
        /\ y.pair = [w.pair EXCEPT !.active = next]
    BY <2>3 DEF Walks
  <2>6. PairsFollow(x.pair, y.pair, start, side)
    BY <1>1, <1>2, <2>2, <2>4, <2>5, PairsMove
  <2> QED BY <1>1, <2>4, <2>5, <2>6 DEF Abreast
<1> QED BY <1>4, <1>5

\* The volatility of a pair that is updated in a bin.
LEMMA VolatilityAt ==
    ASSUME NEW pair \in PairState, NEW now, now = update_volatility_accumulator(pair)
    PROVE  /\ now \in PairState /\ now.va = AtMost(Reached(pair, pair.active), pair.max_va)
           /\ now.step = pair.step /\ now.base_rate = pair.base_rate /\ now.control = pair.control
           /\ now.reduction = pair.reduction /\ now.max_va = pair.max_va /\ now.va_ref = pair.va_ref
           /\ now.index_ref = pair.index_ref /\ now.active = pair.active /\ now.fee_on = pair.fee_on
           /\ now.orders = pair.orders
           /\ \A b : Reached(now, b) = Reached(pair, b)
<1> DEFINE va == AtMost(Reached(pair, pair.active), pair.max_va)
<1>1. now = [pair EXCEPT !.va = va]
  BY DEF update_volatility_accumulator, Reached
<1> HIDE DEF va
<1>2. /\ now.va = va
      /\ now.step = pair.step /\ now.base_rate = pair.base_rate /\ now.control = pair.control
      /\ now.reduction = pair.reduction /\ now.max_va = pair.max_va /\ now.va_ref = pair.va_ref
      /\ now.index_ref = pair.index_ref /\ now.active = pair.active /\ now.fee_on = pair.fee_on
      /\ now.orders = pair.orders
  BY <1>1 DEF PairState
<1>3. now \in PairState
  BY BinRate
<1>4. \A b : Reached(now, b) = Reached(pair, b)
  BY <1>2 DEF Reached
<1> QED BY <1>2, <1>3, <1>4 DEF va

\* The fields a fill changes.
WalkFields == {"status", "pair", "bins", "left", "out", "paid", "kept", "arrays", "array"}
WithBin(bins, b, taken) == [bins EXCEPT ![b] = taken]

Filling(u, consumed, out, paid, used, b, taken) ==
    [u EXCEPT !.left = @ - consumed, !.out = @ + out, !.paid = @ + paid, !.kept = @ + used, !.bins[b] = taken]

FilledFrom(x, u, consumed, out, b, taken) ==
    /\ x.status = u.status /\ x.arrays = u.arrays /\ x.array = u.array /\ x.pair = u.pair
    /\ x.left = u.left - consumed /\ x.out = u.out + out
    /\ x.bins = WithBin(u.bins, b, taken)

LEMMA FillFields ==
    ASSUME NEW u, DOMAIN u = WalkFields, NEW b, b = u.pair.active, NEW bin, bin = u.bins[b],
           NEW price, NEW l, NEW excluded, NEW side,
           NEW s, s = swap_in_bin(u.pair, price, l, excluded, u.left, side)
    PROVE  FilledFrom(AfterFill(u, price, l, excluded, side), u, s.consumed, s.out, b, Taken(bin, l, side))
<1> DEFINE taken == Taken(bin, l, side)
<1>1. AfterFill(u, price, l, excluded, side) = Filling(u, s.consumed, s.out, l.out, l.used, b, taken)
  BY DEF AfterFill, Filling
<1> HIDE DEF taken
<1>2. \A consumed, out, paid, used : FilledFrom(Filling(u, consumed, out, paid, used, b, taken), u, consumed, out, b, taken)
  <2> SUFFICES ASSUME NEW consumed, NEW out, NEW paid, NEW used
               PROVE  FilledFrom(Filling(u, consumed, out, paid, used, b, taken), u, consumed, out, b, taken)
    OBVIOUS
  <2> DEFINE y == Filling(u, consumed, out, paid, used, b, taken)
  <2>1. y.status = u.status /\ y.arrays = u.arrays /\ y.array = u.array /\ y.pair = u.pair
    BY DEF Filling, WalkFields
  <2>2. y.left = u.left - consumed /\ y.out = u.out + out
    BY DEF Filling, WalkFields
  <2>3. y.bins = WithBin(u.bins, b, taken)
    BY DEF Filling, WithBin, WalkFields
  <2> QED BY <2>1, <2>2, <2>3 DEF FilledFrom
<1> QED BY <1>1, <1>2 DEF taken

\* What a fill makes of a walk.
LEMMA FillUnfolds ==
    ASSUME NEW side, NEW D, NEW w \in Walks(D), w.pair.active \in D,
           NEW b, b = w.pair.active, NEW bin, bin = w.bins[b],
           max_amount_out(w.pair, bin, side) # 0,
           NEW pair, pair = update_volatility_accumulator(w.pair), pair.active = b,
           NEW price, price = BinPrice(pair, bin),
           NEW excluded, excluded = (IF bin_fee_on_input(pair, side) THEN w.left - ceil_fee(w.left, bin_fee_rate(pair)) ELSE w.left),
           NEW l, l = Layers(pair, bin, price, excluded, side),
           NEW s, s = swap_in_bin(pair, price, l, excluded, w.left, side),
           NEW x, x = FillBin(w, side)
    PROVE  /\ x.status = w.status /\ x.arrays = w.arrays /\ x.array = w.array /\ x.pair = pair
           /\ x.left = w.left - s.consumed /\ x.out = w.out + s.out
           /\ x.bins = WithBin(w.bins, b, Taken(bin, l, side))
<1> DEFINE u == [w EXCEPT !.pair = pair]
<1>1. /\ u.pair = pair /\ u.left = w.left /\ u.status = w.status /\ u.out = w.out /\ u.paid = w.paid /\ u.kept = w.kept
      /\ u.arrays = w.arrays /\ u.array = w.array /\ u.bins = w.bins
      /\ DOMAIN u = WalkFields
  BY DEF Walks, WalkFields
<1>2. x = FillAt(u, bin, side)
  <2>1. x = FillAt([w EXCEPT !.pair = update_volatility_accumulator(@)], bin, side)
    BY DEF FillBin
  <2> QED BY <2>1
<1> HIDE DEF u
<1>3. WithoutFee(u, side) = excluded
  <2>1. WithoutFee(u, side) = IF bin_fee_on_input(u.pair, side) THEN u.left - ceil_fee(u.left, bin_fee_rate(u.pair)) ELSE u.left
    BY DEF WithoutFee
  <2>2. u.pair = pair /\ u.left = w.left
    BY <1>1
  <2> QED BY Zenon, <2>1, <2>2
<1>4. x = AfterFill(u, price, l, excluded, side)
  BY <1>1, <1>2, <1>3 DEF FillAt, FillWith
<1>5. s = swap_in_bin(u.pair, price, l, excluded, u.left, side) /\ u.pair.active = b /\ u.bins[b] = bin
  BY <1>1
<1>6. FilledFrom(AfterFill(u, price, l, excluded, side), u, s.consumed, s.out, b, Taken(bin, l, side))
  BY Zenon, <1>1, <1>5, FillFields
<1>7. FilledFrom(x, u, s.consumed, s.out, b, Taken(bin, l, side))
  BY Zenon, <1>4, <1>6
<1> QED BY <1>1, <1>7 DEF FilledFrom

\* Walks that are together fill their bin alike, or the first is done with it.
LEMMA FillAbreast ==
    ASSUME NEW p, IsLadder(p), NEW start \in Int, NEW side \in Sides, NEW D, NEW m \in Walks(D), NEW w \in Walks(D),
           Abreast(m, w, start, side), w.pair.active \in D, PriceOfBin(p, w.pair.active) \in Nat \ {0},
           m.pair.step = p.market.pair.step, w.pair.active \in DOMAIN p.market.bins,
           w.bins[w.pair.active].price = p.market.bins[w.pair.active].price,
           NEW x, x = FillBin(m, side), NEW y, y = FillBin(w, side)
    PROVE  /\ x.status = m.status /\ y.status = w.status /\ x.out <= y.out
           /\ x.left # 0 => Abreast(x, y, start, side)
<1> DEFINE b == w.pair.active
           bin == w.bins[b]
           early == update_volatility_accumulator(m.pair)
           late == update_volatility_accumulator(w.pair)
           price == BinPrice(late, bin)
           excluded(pair, left) == IF bin_fee_on_input(pair, side) THEN left - ceil_fee(left, bin_fee_rate(pair)) ELSE left
           e == excluded(early, m.left)
           f == excluded(late, w.left)
           k == Layers(early, bin, price, e, side)
           l == Layers(late, bin, price, f, side)
           s == swap_in_bin(early, price, k, e, m.left, side)
           t == swap_in_bin(late, price, l, f, w.left, side)
<1>1. /\ m.status = w.status /\ m.arrays = w.arrays /\ m.array = w.array /\ m.bins = w.bins
      /\ m.left <= w.left /\ m.out <= w.out
      /\ PairsFollow(m.pair, w.pair, start, side) /\ m.pair.active = b /\ b \in Ahead(start, side)
  BY DEF Abreast, PairsFollow
<1>2. /\ m.pair \in PairState /\ w.pair \in PairState /\ m.left \in Nat /\ w.left \in Nat /\ m.out \in Nat /\ w.out \in Nat
      /\ bin \in LadderBin /\ m.bins[b] = bin /\ b \in D
  BY <1>1 DEF Walks
<1>3. /\ early \in PairState /\ late \in PairState /\ early.active = b /\ late.active = b
      /\ early.orders = late.orders /\ early.fee_on = late.fee_on /\ early.step = late.step
      /\ early.base_rate = late.base_rate /\ early.control = late.control
      /\ late.step = p.market.pair.step
  BY <1>1, <1>2, VolatilityAt DEF PairsFollow
<1>4. late.va <= early.va
  <2> DEFINE u == Reached(m.pair, b)
             v == Reached(w.pair, b)
             most == w.pair.max_va
             x0 == early.va
             y0 == late.va
  <2>1. x0 = AtMost(u, most) /\ y0 = AtMost(v, most)
    BY <1>1, <1>2, VolatilityAt DEF PairsFollow
  <2>2. u \in Nat /\ v \in Nat /\ v <= u
    BY <1>1 DEF PairsFollow
  <2>3. most \in Nat
    BY <1>2 DEF PairState
  <2> HIDE DEF u, v, most, x0, y0
  <2>4. y0 <= x0
    BY <2>1, <2>2, <2>3 DEF AtMost
  <2> QED BY <2>4 DEF x0, y0
<1>5. PairsFollow(early, late, start, side)
  BY <1>1, <1>2, VolatilityAt DEF PairsFollow
<1>6. max_amount_out(m.pair, bin, side) = max_amount_out(w.pair, bin, side)
  BY <1>1 DEF max_amount_out, Fillable, PairsFollow
<1>7. CASE max_amount_out(w.pair, bin, side) = 0
  <2>1. x = m /\ y = w
    BY <1>1, <1>2, <1>6, <1>7 DEF FillBin
  <2> QED BY <1>1, <2>1
<1>8. CASE max_amount_out(w.pair, bin, side) # 0
  <2>1. price \in Nat \ {0}
    <3>1. price = PriceOfBin(p, b)
      BY <1>3 DEF BinPrice, PriceOfBin
    <3> QED BY <3>1
  <2>2. BinPrice(early, bin) = price
    BY <1>3 DEF BinPrice
  <2>3. bin_fee_rate(late) <= bin_fee_rate(early)
    BY <1>3, <1>4, BinRateFollows
  <2> HIDE DEF early, late, price, bin
  <2>4. /\ e = (IF bin_fee_on_input(early, side) THEN m.left - ceil_fee(m.left, bin_fee_rate(early)) ELSE m.left)
        /\ f = (IF bin_fee_on_input(late, side) THEN w.left - ceil_fee(w.left, bin_fee_rate(late)) ELSE w.left)
    OBVIOUS
  <2> HIDE DEF e, f
  <2>5. /\ s.out \in Nat /\ t.out \in Nat /\ s.out <= t.out
        /\ s.consumed \in Nat /\ t.consumed \in Nat /\ s.consumed <= m.left /\ t.consumed <= w.left
        /\ \/ l = k /\ m.left - s.consumed <= w.left - t.consumed
           \/ s.consumed = m.left
    BY <1>1, <1>2, <1>3, <2>1, <2>3, <2>4, SwapFollows
  <2>6. /\ x.status = m.status /\ x.arrays = m.arrays /\ x.array = m.array /\ x.pair = early
        /\ x.left = m.left - s.consumed /\ x.out = m.out + s.out
        /\ x.bins = WithBin(m.bins, b, Taken(bin, k, side))
    <3>1. max_amount_out(m.pair, bin, side) # 0 /\ bin = m.bins[b] /\ b = m.pair.active /\ b \in D
      BY <1>1, <1>2, <1>6, <1>8 DEF bin
    <3>2. early = update_volatility_accumulator(m.pair)
      BY DEF early
    <3>3. early.active = b
      BY <1>3
    <3> HIDE DEF k, s, b
    <3>4. k = Layers(early, bin, price, e, side) /\ s = swap_in_bin(early, price, k, e, m.left, side)
      BY DEF k, s
    <3> QED BY <2>2, <2>4, <3>1, <3>2, <3>3, <3>4, FillUnfolds
  <2>7. /\ y.status = w.status /\ y.arrays = w.arrays /\ y.array = w.array /\ y.pair = late
        /\ y.left = w.left - t.consumed /\ y.out = w.out + t.out
        /\ y.bins = WithBin(w.bins, b, Taken(bin, l, side))
    <3>1. max_amount_out(w.pair, bin, side) # 0 /\ bin = w.bins[b] /\ b = w.pair.active /\ b \in D
      BY <1>2, <1>8 DEF bin
    <3>2. late = update_volatility_accumulator(w.pair) /\ price = BinPrice(late, bin)
      BY DEF late, price
    <3>3. late.active = b
      BY <1>3
    <3> HIDE DEF l, t, b
    <3>4. l = Layers(late, bin, price, f, side) /\ t = swap_in_bin(late, price, l, f, w.left, side)
      BY DEF l, t
    <3> QED BY <2>4, <3>1, <3>2, <3>3, <3>4, FillUnfolds
  <2> HIDE DEF s, t, k, l
  <2>8. x.out <= y.out
    BY <1>1, <1>2, <2>5, <2>6, <2>7
  <2>9. ASSUME x.left # 0 PROVE Abreast(x, y, start, side)
    <3>1. l = k /\ m.left - s.consumed <= w.left - t.consumed
      BY <1>2, <2>5, <2>6, <2>9
    <3>2. x.bins = y.bins
      BY <1>1, <2>6, <2>7, <3>1
    <3> QED BY <1>1, <1>5, <2>6, <2>7, <2>8, <3>1, <3>2 DEF Abreast
  <2> QED BY <2>6, <2>7, <2>8, <2>9
<1> QED BY <1>7, <1>8

\* A fill only adds to what a walk gives, and brings the pair's volatility up to date.
LEMMA FillGives ==
    ASSUME NEW p, IsLadder(p), NEW all, Left(p, all), NEW was \in [Sides -> Int], NEW side \in Sides, NEW amount \in Nat,
           NEW w, GoodWalk(p, all, was, side, amount, w), w.pair.active \in DOMAIN w.bins, NEW x, x = FillBin(w, side)
    PROVE  \/ x = w
           \/ x.pair = update_volatility_accumulator(w.pair) /\ w.out <= x.out
<1> DEFINE D == DOMAIN w.bins
           b == w.pair.active
           bin == w.bins[b]
           pair == update_volatility_accumulator(w.pair)
           price == BinPrice(pair, bin)
           excluded == IF bin_fee_on_input(pair, side) THEN w.left - ceil_fee(w.left, bin_fee_rate(pair)) ELSE w.left
           l == Layers(pair, bin, price, excluded, side)
           s == swap_in_bin(pair, price, l, excluded, w.left, side)
<1>1. /\ w \in Walks(D) /\ D \subseteq DOMAIN all /\ w.pair.step = p.market.pair.step
      /\ \A c \in D : w.bins[c].price = p.market.bins[c].price
      /\ b \in D
  BY DEF GoodWalk
<1>2. /\ w.pair \in PairState /\ w.bins \in [D -> LadderBin] /\ w.left \in Nat /\ w.out \in Nat /\ bin \in LadderBin
  BY <1>1 DEF Walks
<1>3. CASE max_amount_out(w.pair, bin, side) = 0
  BY <1>3 DEF FillBin
<1>4. CASE max_amount_out(w.pair, bin, side) # 0
  <2>1. pair \in PairState /\ pair.step = w.pair.step /\ pair.active = b
    BY <1>2, BinRate
  <2>2. price \in Nat \ {0}
    <3>1. b \in DOMAIN p.market.bins /\ bin.price = p.market.bins[b].price /\ pair.step = p.market.pair.step
      BY <1>1, <2>1 DEF Left
    <3>2. price = PriceOfBin(p, b)
      BY <2>1, <3>1 DEF BinPrice, PriceOfBin
    <3> QED BY <3>1, <3>2 DEF IsLadder
  <2>3. bin_fee_rate(pair) \in Nat /\ bin_fee_rate(pair) <= bin_fee_rate(pair)
    BY <2>1, BinRate
  <2> HIDE DEF pair, price, excluded, D
  <2>4. excluded = IF bin_fee_on_input(pair, side) THEN w.left - ceil_fee(w.left, bin_fee_rate(pair)) ELSE w.left
    BY DEF excluded
  <2>5. pair = update_volatility_accumulator(w.pair) /\ price = BinPrice(pair, bin)
    BY DEF pair, price
  <2> HIDE DEF b, bin
  <2>6. b = w.pair.active /\ bin = w.bins[b]
    BY DEF b, bin
  <2> HIDE DEF l, s
  <2>7. l = Layers(pair, bin, price, excluded, side) /\ s = swap_in_bin(pair, price, l, excluded, w.left, side)
    BY DEF l, s
  <2>8. s.out \in Nat
    <3>1. w.left <= w.left
      BY <1>2
    <3> QED BY <1>2, <2>1, <2>2, <2>3, <2>4, <2>7, <3>1, SwapFollows
  <2>9. x.pair = pair /\ x.out = w.out + s.out
    BY <1>1, <1>4, <2>1, <2>4, <2>5, <2>6, <2>7, FillUnfolds
  <2> QED BY <1>2, <2>5, <2>8, <2>9
<1> QED BY <1>3, <1>4

\* A step of a walk keeps it good, and gives no less than it gave.
LEMMA OutGrows ==
    ASSUME NEW p, IsLadder(p), NEW all, Left(p, all), NEW was \in [Sides -> Int], NEW side \in Sides, NEW amount \in Nat,
           NEW w, GoodWalk(p, all, was, side, amount, w), NEW x, x = Onward(p.data, w, side)
    PROVE  GoodWalk(p, all, was, side, amount, x) /\ w.out \in Nat /\ x.out \in Nat /\ w.out <= x.out
<1> DEFINE Good(y) == GoodWalk(p, all, was, side, amount, y)
           e == Entered(p.data, w, side)
           f == FillBin(e, side)
<1>1. \A y : Good(y) => y \in Walks(DOMAIN y.bins) /\ y.out \in Nat
  BY DEF GoodWalk, Walks
<1>2. CASE w.status # "walking" \/ w.left = 0
  <2>1. x = w
    BY <1>2 DEF Onward
  <2> QED BY <1>1, <2>1
<1>3. CASE ~(w.status # "walking" \/ w.left = 0)
  <2>1. Good(e) /\ (e.status = "walking" => e.pair.active \in DOMAIN e.bins)
    BY <1>3, EnterKeeps
  <2>2. x = Filled(e, side)
    BY <1>3 DEF Onward
  <2>3. e.out = w.out
    BY <1>1 DEF Entered, Enter, Walks
  <2> HIDE DEF e
  <2>4. CASE e.status # "walking"
    <3>1. x = e
      BY <2>2, <2>4 DEF Filled
    <3> QED BY <1>1, <2>1, <2>3, <3>1
  <2>5. CASE e.status = "walking"
    <3>1. Good(f)
      BY <2>1, <2>5, FillKeeps
    <3>2. f = e \/ e.out <= f.out
      BY <2>1, <2>5, FillGives
    <3>3. x = StepBin(f, side)
      BY <2>2, <2>5 DEF Filled
    <3> HIDE DEF f
    <3>4. Good(x)
      BY <3>1, <3>3, StepKeeps
    <3>5. x.out = f.out
      BY <1>1, <3>1, <3>3 DEF StepBin, Walks
    <3> HIDE DEF Good
    <3> QED BY <1>1, <2>1, <2>3, <3>1, <3>2, <3>4, <3>5 DEF Good
  <2> QED BY <2>4, <2>5
<1> QED BY <1>2, <1>3

\* A step keeps two walks one after the other.
LEMMA OnwardFollows ==
    ASSUME NEW p, IsLadder(p), NEW all, Left(p, all), NEW was \in [Sides -> Int], NEW side \in Sides, NEW amount \in Nat,
           NEW m, NEW w, GoodWalk(p, all, was, side, amount, m), GoodWalk(p, all, was, side, amount, w),
           NEW start \in Int, Follows(m, w, start, side),
           NEW x, x = Onward(p.data, m, side), NEW y, y = Onward(p.data, w, side)
    PROVE  Follows(x, y, start, side)
<1> DEFINE Good(z) == GoodWalk(p, all, was, side, amount, z)
           data == p.data
           D == DOMAIN w.bins
<1>1. \A z : Good(z) => z \in Walks(DOMAIN z.bins) /\ z.out \in Nat /\ z.left \in Nat
  BY DEF GoodWalk, Walks
<1>2. m.out \in Nat /\ w.out \in Nat /\ w.out <= y.out /\ y.out \in Nat
  BY <1>1, OutGrows
<1>3. CASE m.status = "walking" /\ m.left = 0 /\ m.out <= w.out
  <2>1. x = m
    BY <1>3 DEF Onward
  <2> QED BY <1>2, <1>3, <2>1 DEF Follows
<1>4. CASE Abreast(m, w, start, side)
  <2>1. m.status = w.status /\ m.left <= w.left /\ m.out <= w.out /\ m.bins = w.bins
    BY <1>4 DEF Abreast
  <2>2. CASE w.status # "walking"
    <3>1. x = m /\ y = w
      BY <2>1, <2>2 DEF Onward
    <3> QED BY <1>4, <3>1 DEF Follows
  <2>3. CASE w.status = "walking" /\ m.left = 0
    <3>1. m.status = "walking" /\ m.left = 0 /\ m.out <= w.out
      BY <2>1, <2>3
    <3> QED BY <1>3, <3>1
  <2>4. CASE w.status = "walking" /\ m.left # 0
    <3> DEFINE e == Entered(data, m, side)
               g == Entered(data, w, side)
    <3>1. w.left # 0 /\ m \in Walks(D) /\ w \in Walks(D)
      BY <1>1, <2>1, <2>4
    <3>2. x = Filled(e, side) /\ y = Filled(g, side)
      BY <2>1, <2>4, <3>1 DEF Onward
    <3>3. /\ Good(e) /\ Good(g)
          /\ e.status = "walking" => e.pair.active \in DOMAIN e.bins
          /\ g.status = "walking" => g.pair.active \in DOMAIN g.bins
      BY <2>1, <2>4, EnterKeeps
    <3>4. Abreast(e, g, start, side) /\ e.left = m.left
      <4>1. data.liquid \in SUBSET Int
        BY DEF IsLadder
      <4> QED BY <1>4, <3>1, <4>1, EnterAbreast
    <3> HIDE DEF e, g
    <3>5. e.status = g.status /\ e.bins = g.bins
      BY <3>4 DEF Abreast
    <3> DEFINE G == DOMAIN g.bins
    <3>6. e \in Walks(G) /\ g \in Walks(G)
      BY <1>1, <3>3, <3>5
    <3>7. CASE g.status # "walking"
      <4>1. x = e /\ y = g
        BY <3>2, <3>5, <3>7 DEF Filled
      <4> QED BY <3>4, <4>1 DEF Follows
    <3>8. CASE g.status = "walking"
      <4> DEFINE f == FillBin(e, side)
                 h == FillBin(g, side)
                 b == g.pair.active
      <4>1. b \in G /\ G \subseteq DOMAIN p.market.bins /\ g.bins[b].price = p.market.bins[b].price
            /\ e.pair.step = p.market.pair.step /\ e.pair.active \in DOMAIN e.bins
        BY <3>3, <3>5, <3>8 DEF GoodWalk, Left
      <4>2. PriceOfBin(p, b) \in Nat \ {0}
        BY <4>1 DEF IsLadder
      <4>3. /\ f.status = e.status /\ h.status = g.status /\ f.out <= h.out
            /\ f.left # 0 => Abreast(f, h, start, side)
        BY <3>4, <3>6, <4>1, <4>2, FillAbreast
      <4>4. Good(f) /\ Good(h)
        BY <3>3, <3>8, <4>1, FillKeeps
      <4>5. x = StepBin(f, side) /\ y = StepBin(h, side)
        BY <3>2, <3>5, <3>8 DEF Filled
      <4> HIDE DEF f, h
      <4>6. y.out = h.out
        BY <1>1, <4>4, <4>5 DEF StepBin, Walks
      <4>7. CASE f.left = 0
        <5>1. x = f
          BY <4>5, <4>7 DEF StepBin
        <5> QED BY <3>5, <3>8, <4>3, <4>6, <4>7, <5>1 DEF Follows
      <4>8. CASE f.left # 0
        <5>1. Abreast(f, h, start, side)
          BY <4>3, <4>8
        <5>2. f.bins = h.bins
          BY <5>1 DEF Abreast
        <5>3. f \in Walks(DOMAIN h.bins) /\ h \in Walks(DOMAIN h.bins)
          BY <1>1, <4>4, <5>2
        <5>4. Abreast(x, y, start, side)
          BY <4>5, <4>8, <5>1, <5>3, StepAbreast
        <5> QED BY <5>4 DEF Follows
      <4> QED BY <4>7, <4>8
    <3> QED BY <3>7, <3>8
  <2> QED BY <2>2, <2>3, <2>4
<1> QED BY <1>3, <1>4 DEF Follows

\* So do whole walks.
LEMMA WalkFollows ==
    ASSUME NEW p, IsLadder(p), NEW all, Left(p, all), NEW was \in [Sides -> Int], NEW side \in Sides, NEW amount \in Nat,
           NEW m, NEW w, GoodWalk(p, all, was, side, amount, m), GoodWalk(p, all, was, side, amount, w),
           NEW start \in Int, Follows(m, w, start, side),
           NEW x, x = BinWalk(p.data, m, side), NEW y, y = BinWalk(p.data, w, side)
    PROVE  Follows(x, y, start, side) /\ GoodWalk(p, all, was, side, amount, x) /\ GoodWalk(p, all, was, side, amount, y)
<1> DEFINE n == MostSteps
           data == p.data
           Good(z) == GoodWalk(p, all, was, side, amount, z)
           Both(u, v) == Good(u) /\ Good(v) /\ Follows(u, v, start, side)
<1>0. n \in Nat
  BY DlmmAssumption DEF MostSteps
<1>1. PICK t : x = t[n] /\ t[0] = m /\ \A k \in 1..n : t[k] = Onward(data, t[k - 1], side)
  BY WalkUnfolds
<1>2. PICK u : y = u[n] /\ u[0] = w /\ \A k \in 1..n : u[k] = Onward(data, u[k - 1], side)
  BY WalkUnfolds
<1>3. ASSUME NEW a, NEW b, Both(a, b) PROVE Both(Onward(data, a, side), Onward(data, b, side))
  <2>1. Good(Onward(data, a, side)) /\ Good(Onward(data, b, side))
    BY <1>3, OutGrows
  <2>2. Follows(Onward(data, a, side), Onward(data, b, side), start, side)
    BY <1>3, OnwardFollows
  <2> QED BY <2>1, <2>2
<1> HIDE DEF n
<1> DEFINE Q == {k \in Nat : k <= n => Both(t[k], u[k])}
<1>4. 0 \in Q
  <2>1. Both(m, w)
    OBVIOUS
  <2> HIDE DEF Both
  <2> QED BY <1>1, <1>2, <2>1
<1> HIDE DEF Both, data
<1>5. ASSUME NEW k \in Q PROVE k + 1 \in Q
  <2>1. k \in Nat /\ (k <= n => Both(t[k], u[k]))
    OBVIOUS
  <2> SUFFICES ASSUME k + 1 <= n PROVE Both(t[k + 1], u[k + 1])
    BY <2>1
  <2>2. k + 1 \in 1..n /\ k + 1 - 1 = k /\ k <= n
    BY <1>0, <2>1
  <2>3. t[k + 1] = Onward(data, t[k], side) /\ u[k + 1] = Onward(data, u[k], side)
    BY <1>1, <1>2, <2>2
  <2> QED BY <1>3, <2>1, <2>2, <2>3
<1>6. Q = Nat
  <2>1. Q \in SUBSET Nat
    OBVIOUS
  <2> HIDE DEF Q
  <2> QED BY <1>4, <1>5, <2>1, Induction
<1>7. Both(t[n], u[n])
  BY <1>0, <1>6
<1> QED BY <1>1, <1>2, <1>7 DEF Both

-----------------------------------------------------------------------------
(* What a walk leaves of the volatility                                     *)

\* Until a walk has spent everything it moves on a bin with every step; once it has, the
\* volatility is that of the bin it is in.
Moving(w, reduction, start, side, steps) ==
    /\ w.pair.reduction = reduction
    /\ w.status = "walking" /\ w.left = 0 /\ w.out # 0 => w.pair.va <= Reached(w.pair, w.pair.active)
    /\ w.status = "walking" /\ w.left # 0 =>
          IF side = "base" THEN w.pair.active <= start - steps ELSE w.pair.active >= start + steps

\* An array entered is ahead, and changes nothing else of the pair.
LEMMA EnterAhead ==
    ASSUME NEW data, data.liquid \in SUBSET Int, NEW side \in Sides, NEW D, NEW w \in Walks(D),
           NEW x, x = Entered(data, w, side)
    PROVE  /\ x.pair.active \in Ahead(w.pair.active, side) /\ x.pair.reduction = w.pair.reduction
           /\ x.left = w.left /\ x.out = w.out
<1> DEFINE start == w.pair.active
<1>1. /\ w.pair \in PairState /\ w.left \in Nat /\ w.out \in Nat /\ start \in Int
      /\ w.pair.va_ref \in Nat /\ w.pair.index_ref \in Int /\ VaStep \in Nat
  BY DlmmAssumption DEF Walks, PairState, BinIds
<1> HIDE DEF start
<1>2. start \in Ahead(start, side)
  BY <1>1 DEF Ahead
<1>3. \A b \in Ahead(start, side) : Reached(w.pair, b) \in Nat /\ Reached(w.pair, b) <= Reached(w.pair, b)
  <2> SUFFICES ASSUME NEW b \in Ahead(start, side) PROVE Reached(w.pair, b) \in Nat
    OBVIOUS
  <2> DEFINE away == Distance(w.pair.index_ref, b)
  <2>1. away \in Nat
    BY <1>1 DEF Distance, Ahead
  <2> HIDE DEF away
  <2>2. away * VaStep \in Nat
    BY <1>1, <2>1
  <2> QED BY <1>1, <2>2 DEF Reached, away
<1>4. Abreast(w, w, start, side)
  BY <1>1, <1>2, <1>3 DEF Abreast, PairsFollow, start
<1>5. Abreast(x, x, start, side) /\ x.left = w.left /\ x.out = w.out
  BY <1>1, <1>4, EnterAbreast
<1>6. x.pair.active \in Ahead(start, side)
  BY <1>5 DEF Abreast, PairsFollow
<1>7. x.pair.reduction = w.pair.reduction
  BY DEF Entered, Enter, Walks, PairState
<1> QED BY <1>5, <1>6, <1>7 DEF start

\* A step of a walk moves on, or ends it.
LEMMA OnwardMoves ==
    ASSUME NEW p, IsLadder(p), NEW all, Left(p, all), NEW was \in [Sides -> Int], NEW side \in Sides, NEW amount \in Nat,
           NEW w, GoodWalk(p, all, was, side, amount, w), NEW reduction, NEW start \in Int, NEW steps \in Nat,
           Moving(w, reduction, start, side, steps), NEW x, x = Onward(p.data, w, side)
    PROVE  Moving(x, reduction, start, side, steps + 1)
<1> DEFINE Good(z) == GoodWalk(p, all, was, side, amount, z)
           e == Entered(p.data, w, side)
           f == FillBin(e, side)
<1>1. \A z : Good(z) => z \in Walks(DOMAIN z.bins) /\ z.pair \in PairState /\ z.left \in Nat /\ z.pair.active \in Int
  BY DlmmAssumption DEF GoodWalk, Walks, PairState, BinIds
<1>2. CASE w.status # "walking" \/ w.left = 0
  <2>1. x = w
    BY <1>2 DEF Onward
  <2> QED BY <1>2, <2>1 DEF Moving
<1>3. CASE ~(w.status # "walking" \/ w.left = 0)
  <2>1. Good(e) /\ (e.status = "walking" => e.pair.active \in DOMAIN e.bins)
    BY <1>3, EnterKeeps
  <2>2. x = Filled(e, side)
    BY <1>3 DEF Onward
  <2>3. e.pair.active \in Ahead(w.pair.active, side) /\ e.pair.reduction = w.pair.reduction /\ e.left = w.left
    <3>1. p.data.liquid \in SUBSET Int /\ w \in Walks(DOMAIN w.bins)
      BY <1>1 DEF IsLadder
    <3> QED BY <3>1, EnterAhead
  <2>4. w.pair.reduction = reduction /\ (IF side = "base" THEN w.pair.active <= start - steps ELSE w.pair.active >= start + steps)
    BY <1>3 DEF Moving
  <2> HIDE DEF e
  <2>5. CASE e.status # "walking"
    <3>1. x = e
      BY <2>2, <2>5 DEF Filled
    <3> QED BY <2>3, <2>4, <2>5, <3>1 DEF Moving
  <2>6. CASE e.status = "walking"
    <3> DEFINE now == update_volatility_accumulator(e.pair)
    <3>1. Good(f) /\ f.status = e.status
      BY <2>1, <2>6, FillKeeps
    <3>2. f = e \/ f.pair = now
      BY <2>1, <2>6, FillGives
    <3>3. x = StepBin(f, side)
      BY <2>2, <2>6 DEF Filled
    <3>4. /\ e.pair \in PairState /\ now.active = e.pair.active /\ now.reduction = e.pair.reduction
          /\ now.va = AtMost(Reached(e.pair, e.pair.active), e.pair.max_va) /\ now \in PairState
          /\ \A b : Reached(now, b) = Reached(e.pair, b)
      BY <1>1, <2>1, VolatilityAt
    <3> HIDE DEF f, now
    <3>5. f.pair.active = e.pair.active /\ f.pair.reduction = reduction
      BY <2>3, <2>4, <3>2, <3>4
    <3>6. CASE f.left = 0
      <4>1. x = f
        BY <3>3, <3>6 DEF StepBin
      <4>2. f # e
        BY <1>3, <2>3, <3>6
      <4>3. now.va <= Reached(now, now.active)
        <5> DEFINE here == Reached(e.pair, e.pair.active)
                   most == e.pair.max_va
        <5>1. now.va = AtMost(here, most) /\ Reached(now, now.active) = here
          BY <3>4
        <5>2. here \in Int /\ most \in Nat
          <6>1. /\ e.pair.va_ref \in Nat /\ e.pair.index_ref \in Int /\ e.pair.active \in Int /\ VaStep \in Nat
                /\ most \in Nat
            BY <3>4, DlmmAssumption DEF PairState, BinIds
          <6> DEFINE away == Distance(e.pair.index_ref, e.pair.active)
          <6>2. away \in Int
            BY <6>1 DEF Distance
          <6> HIDE DEF away
          <6>3. away * VaStep \in Int
            BY <6>1, <6>2
          <6> QED BY <6>1, <6>3 DEF Reached, away
        <5> HIDE DEF here, most
        <5> QED BY <5>1, <5>2 DEF AtMost
      <4> QED BY <3>2, <3>5, <3>6, <4>1, <4>2, <4>3 DEF Moving
    <3>7. CASE f.left # 0
      <4> DEFINE next == IF side = "base" THEN f.pair.active - 1 ELSE f.pair.active + 1
      <4>1. f \in Walks(DOMAIN f.bins) /\ f.pair \in PairState
        BY <1>1, <3>1
      <4>2. CASE next \notin BinIds
        <5>1. x = [f EXCEPT !.status = "exhausted"]
          BY <3>3, <3>7, <4>2 DEF StepBin
        <5>2. x.status = "exhausted" /\ x.pair = f.pair
          BY <4>1, <5>1 DEF Walks
        <5> QED BY <3>5, <5>2 DEF Moving
      <4>3. CASE next \in BinIds
        <5>1. x = [f EXCEPT !.pair.active = next]
          BY <3>3, <3>7, <4>3 DEF StepBin
        <5> HIDE DEF next
        <5>2. x.pair.active = next /\ x.pair.reduction = f.pair.reduction /\ x.left = f.left
          BY <4>1, <5>1 DEF Walks, PairState
        <5>3. IF side = "base" THEN next <= start - (steps + 1) ELSE next >= start + (steps + 1)
          <6>1. w.pair.active \in Int /\ f.pair.active \in Ahead(w.pair.active, side)
            BY <1>1, <2>3, <3>5
          <6>2. f.pair.active \in Int /\ (IF side = "base" THEN f.pair.active <= w.pair.active ELSE f.pair.active >= w.pair.active)
            BY <6>1 DEF Ahead
          <6> QED BY <2>4, <6>1, <6>2 DEF next
        <5> QED BY <3>5, <3>7, <5>2, <5>3 DEF Moving
      <4> QED BY <4>2, <4>3
    <3> QED BY <3>6, <3>7
  <2> QED BY <2>5, <2>6
<1> QED BY <1>2, <1>3

\* There are fewer bins than steps: a walk that is not refused has spent everything.
LEMMA WalkSettles ==
    ASSUME NEW p, IsLadder(p), NEW all, Left(p, all), NEW was \in [Sides -> Int], NEW side \in Sides, NEW amount \in Nat,
           NEW m, GoodWalk(p, all, was, side, amount, m), m.out = 0,
           NEW x, x = BinWalk(p.data, m, side), x.status = "walking", x.out # 0
    PROVE  x.pair.va <= Reached(x.pair, x.pair.active) /\ x.pair.reduction = m.pair.reduction
<1> DEFINE n == MostSteps
           start == m.pair.active
           reduction == m.pair.reduction
           Good(z) == GoodWalk(p, all, was, side, amount, z)
           Both(z, k) == Good(z) /\ Moving(z, reduction, start, side, k)
<1>0. n = 2 * MaxBinId + 2 /\ n \in Nat /\ MaxBinId \in Nat
  BY DlmmAssumption DEF MostSteps
<1>1. \A z : Good(z) => z.pair \in PairState /\ z.pair.active \in -MaxBinId..MaxBinId
  BY DEF GoodWalk, Walks, PairState, BinIds
<1>2. start \in -MaxBinId..MaxBinId
  BY <1>1
<1>3. PICK t : x = t[n] /\ t[0] = m /\ \A k \in 1..n : t[k] = Onward(p.data, t[k - 1], side)
  BY WalkUnfolds
<1> HIDE DEF n, start, reduction
<1>4. Both(m, 0)
  BY <1>0, <1>2 DEF Moving, start, reduction
<1>5. ASSUME NEW z, NEW k \in Nat, Both(z, k) PROVE Both(Onward(p.data, z, side), k + 1)
  <2>1. Good(Onward(p.data, z, side))
    BY <1>5, OutGrows
  <2>2. start \in Int
    BY <1>0, <1>2
  <2>3. Moving(Onward(p.data, z, side), reduction, start, side, k + 1)
    BY <1>5, <2>2, OnwardMoves
  <2> QED BY <2>1, <2>3
<1> HIDE DEF Both
<1> DEFINE Q == {k \in Nat : k <= n => Both(t[k], k)}
<1>6. 0 \in Q
  BY <1>3, <1>4
<1>7. ASSUME NEW k \in Q PROVE k + 1 \in Q
  <2>1. k \in Nat /\ (k <= n => Both(t[k], k))
    OBVIOUS
  <2> SUFFICES ASSUME k + 1 <= n PROVE Both(t[k + 1], k + 1)
    BY <2>1
  <2>2. k + 1 \in 1..n /\ k + 1 - 1 = k /\ k <= n
    BY <1>0, <2>1
  <2>3. t[k + 1] = Onward(p.data, t[k], side)
    BY <1>3, <2>2
  <2> QED BY <1>5, <2>1, <2>2, <2>3
<1>8. Q = Nat
  <2>1. Q \in SUBSET Nat
    OBVIOUS
  <2> HIDE DEF Q
  <2> QED BY <1>6, <1>7, <2>1, Induction
<1>9. Both(x, n)
  BY <1>0, <1>3, <1>8
<1>10. Good(x) /\ Moving(x, reduction, start, side, n)
  BY <1>9 DEF Both
<1>11. x.pair.active \in -MaxBinId..MaxBinId
  BY <1>1, <1>10
<1>12. x.left = 0
  <2> SUFFICES ASSUME x.left # 0 PROVE FALSE
    OBVIOUS
  <2>1. IF side = "base" THEN x.pair.active <= start - n ELSE x.pair.active >= start + n
    BY <1>10 DEF Moving
  <2> QED BY <1>0, <1>2, <1>11, <2>1
<1> QED BY <1>10, <1>12 DEF Moving, reduction

\* The volatility a swap leaves is that of the bin it ends in.
VolatilityKept == pool.kind = "dlmm" => VolatilityOfBin(market.pair)

\* A quoted walk leaves its pair.
LEMMA PricedPair ==
    ASSUME WellFormed(pool), pool.kind = "dlmm", NEW was \in [Sides -> Int], LadderAt(market, was),
           NEW i \in DOMAIN pool.times, NEW side \in Sides, NEW amount \in Nat,
           NEW s, s = priced(i, side, amount),
           NEW w, w = WalkOver(BinsInMemory, pool.times[i], side, net_of_transfer_fee(side, amount))
    PROVE  /\ w.out \in Nat
           /\ s.quote.out = net_of_transfer_fee(Across(side), IF w.status = "walking" THEN w.out ELSE 0)
           /\ s.quote.out > 0 => w.status = "walking" /\ w.out # 0 /\ s.market.pair = w.pair
<1> DEFINE net == net_of_transfer_fee(side, amount)
           P == PricedAt(pool.times[i], side, net)
           given == IF w.status = "walking" THEN w.out ELSE 0
           out == net_of_transfer_fee(Across(side), P.quote.out)
<1>1. net \in Nat /\ Across(side) \in Sides
  BY NetBounds, BothSides
<1> HIDE DEF net
<1>2. w = WalkOver(BinsInMemory, pool.times[i], side, net)
  BY DEF net
<1>3. GoodWalk(pool, market.bins, was, side, net, w)
  BY <1>1, <1>2, WalkOverKeeps
<1>4. w.out \in Nat /\ w.pair \in PairState
  BY <1>3 DEF GoodWalk, Walks
<1>5. P = OnBins(w)
  BY <1>2 DEF PricedAt, Markets, OnMarket, DlmmSwap
<1>6. s = [P EXCEPT !.quote.out = out]
  BY DEF priced, net
<1> HIDE DEF out
<1>7. P.quote.out = given /\ s.quote.out = out /\ s.market = P.market
  <2>1. CASE w.status # "walking"
    <3>1. P = [quote |-> NoQuote, market |-> market]
      BY <1>5, <2>1 DEF OnBins
    <3> QED BY <1>6, <2>1, <3>1 DEF NoQuote
  <2>2. CASE w.status = "walking"
    <3> DEFINE Q == Quoting(w.out, w.kept, w.paid)
               after == [market EXCEPT !.pair = w.pair, !.bins = Over(w.bins, @)]
    <3>1. P = [quote |-> Q, market |-> after]
      BY <1>5, <2>2 DEF OnBins
    <3>2. Q.out = w.out /\ DOMAIN Q = {"out", "credit", "debit"}
      BY <1>4 DEF Quoting, NoQuote
    <3> HIDE DEF Q, after
    <3> QED BY <1>6, <2>2, <3>1, <3>2
  <2> QED BY <2>1, <2>2
<1>8. s.quote.out = net_of_transfer_fee(Across(side), given)
  BY <1>7 DEF out
<1>9. ASSUME s.quote.out > 0 PROVE w.status = "walking" /\ w.out # 0 /\ s.market.pair = w.pair
  <2>1. given # 0
    <3> SUFFICES ASSUME given = 0 PROVE FALSE
      OBVIOUS
    <3>1. 0 \in Nat
      OBVIOUS
    <3>2. net_of_transfer_fee(Across(side), 0) \in Nat /\ net_of_transfer_fee(Across(side), 0) <= 0
      BY <1>1, <3>1, NetBounds
    <3>3. s.quote.out = net_of_transfer_fee(Across(side), 0)
      BY <1>8
    <3> QED BY <1>9, <3>2, <3>3
  <2>2. w.status = "walking" /\ w.out # 0
    BY <2>1
  <2>3. P.market = [market EXCEPT !.pair = w.pair, !.bins = Over(w.bins, @)]
    BY <1>5, <2>2 DEF OnBins
  <2>4. market = [price |-> 0, pair |-> market.pair, bins |-> market.bins]
    BY DEF LadderAt
  <2>5. P.market.pair = w.pair
    BY <2>3, <2>4
  <2> QED BY <1>7, <2>2, <2>5
<1> QED BY <1>4, <1>8, <1>9

\* A swap keeps it.
LEMMA SwapKeepsVolatility ==
    ASSUME TradeInv, VolatilityKept, pool.kind = "dlmm",
           NEW i \in DOMAIN pool.times, NEW side \in Sides, NEW amount \in Amounts, Swap(i, side, amount)
    PROVE  VolatilityOfBin(market'.pair)
<1> DEFINE was == Change(vault)
           net == net_of_transfer_fee(side, amount)
           start == Beginning(pool.times[i], net)
           w == WalkOver(BinsInMemory, pool.times[i], side, net)
<1>1. WellFormed(pool) /\ amount \in Nat /\ OnLadder /\ net \in Nat
  BY PoolsAssumption, TradesAssumption, WidthAssumption, NetBounds DEF TradeInv
<1>2. LadderAt(market, was) /\ was \in [Sides -> Int]
  <2>1. \A s \in Sides : vault[s] \in Int /\ pool.vault[s] \in Nat
    BY <1>1 DEF OnLadder, WellFormed, Amount
  <2> QED BY <1>1, <2>1 DEF OnLadder, Change
<1> HIDE DEF was
<1>3. PICK p : p = priced(i, side, amount) /\ p.quote.out > 0 /\ market' = p.market
  BY DEF Swap, Settle
<1>4. w.status = "walking" /\ w.out # 0 /\ market'.pair = w.pair
  BY <1>1, <1>2, <1>3, PricedPair
<1>5. IsLadder(pool) /\ Left(pool, market.bins) /\ market.pair \in PairState
      /\ pool.times[i] \in {"filtered", "decaying", "old"}
  <2>1. IsLadder(pool) /\ pool.times[i] \in {"filtered", "decaying", "old"}
    BY <1>1 DEF WellFormed, IsLadder
  <2> QED BY <1>2, <2>1 DEF LadderAt
<1> HIDE DEF net, w, start
<1>6. GoodWalk(pool, market.bins, was, side, net, start) /\ w = BinWalk(pool.data, start, side)
  BY <1>1, <1>2, StartKeeps DEF w, start
<1>7. start.out = 0 /\ start.pair.reduction = market.pair.reduction
  <2>1. start.out = 0 /\ start.pair = update_references(market.pair, pool.times[i])
    BY DEF start, Beginning
  <2>2. update_references(market.pair, pool.times[i]).reduction = market.pair.reduction
    BY <1>5 DEF update_references, PairState
  <2> QED BY <2>1, <2>2
<1>8. w.pair.va <= Reached(w.pair, w.pair.active) /\ w.pair.reduction = start.pair.reduction
  BY <1>1, <1>2, <1>4, <1>5, <1>6, <1>7, WalkSettles
<1>9. market.pair.reduction <= BasisPoints
  BY DEF VolatilityKept, VolatilityOfBin
<1> QED BY <1>4, <1>7, <1>8, <1>9 DEF VolatilityOfBin, Reached

\* So the volatility is always that of the bin the last swap ended in, measured from the
\* reference (quote/dlmm.rs update_volatility_accumulator, once per bin).
THEOREM VolatilityAlways == Spec => []VolatilityKept
<1>1. Init => VolatilityKept
  <2> SUFFICES ASSUME Init, pool.kind = "dlmm" PROVE VolatilityOfBin(market.pair)
    BY DEF VolatilityKept
  <2>1. Scheduled(pool) /\ market = pool.market
    BY PoolsAssumption DEF Init, WellFormed
  <2> QED BY <2>1 DEF Scheduled
<1>2. TradeInv /\ VolatilityKept /\ [Next]_vars => VolatilityKept'
  <2> SUFFICES ASSUME TradeInv, VolatilityKept, [Next]_vars PROVE VolatilityKept'
    OBVIOUS
  <2>1. CASE UNCHANGED vars
    BY <2>1 DEF vars, VolatilityKept, VolatilityOfBin
  <2>2. CASE Next
    <3>1. PICK i \in DOMAIN pool.times, side \in Sides, amount \in Amounts : Swap(i, side, amount)
      BY <2>2 DEF Next
    <3>2. pool' = pool
      BY <3>1 DEF Swap
    <3>3. ASSUME pool.kind = "dlmm" PROVE VolatilityOfBin(market'.pair)
      BY <3>1, <3>3, SwapKeepsVolatility
    <3>4. (pool.kind = "dlmm" => VolatilityOfBin(market.pair))' <=> (pool'.kind = "dlmm" => VolatilityOfBin(market'.pair))
      BY DEF VolatilityOfBin
    <3> QED BY <3>2, <3>3, <3>4 DEF VolatilityKept
  <2> QED BY <2>1, <2>2
<1> QED BY <1>1, <1>2, TradesInvariant, PTL DEF Spec

\* On a ladder of bins a later quote is no worse, but for a walk back to the bin that the
\* volatility is measured from.
LEMMA LadderLater ==
    ASSUME TradeInv, VolatilityKept, pool.kind = "dlmm",
           NEW i \in DOMAIN pool.times, NEW j \in DOMAIN pool.times, i < j, NEW side \in Sides, NEW amount \in Nat,
           ~TowardsReference(side), quote(j, side, amount).out > 0
    PROVE  quote(i, side, amount).out <= quote(j, side, amount).out
<1> DEFINE was == Change(vault)
           net == net_of_transfer_fee(side, amount)
           pair == market.pair
           start == pair.active
           a == Beginning(pool.times[i], net)
           b == Beginning(pool.times[j], net)
           m == WalkOver(BinsInMemory, pool.times[i], side, net)
           w == WalkOver(BinsInMemory, pool.times[j], side, net)
           given(u) == IF u.status = "walking" THEN u.out ELSE 0
<1>1. WellFormed(pool) /\ OnLadder /\ net \in Nat /\ Across(side) \in Sides
  BY PoolsAssumption, NetBounds, BothSides DEF TradeInv
<1>2. LadderAt(market, was) /\ was \in [Sides -> Int]
  <2>1. \A s \in Sides : vault[s] \in Int /\ pool.vault[s] \in Nat
    BY <1>1 DEF OnLadder, WellFormed, Amount
  <2> QED BY <1>1, <2>1 DEF OnLadder, Change
<1> HIDE DEF was
<1>3. /\ IsLadder(pool) /\ Left(pool, market.bins) /\ pair \in PairState
      /\ pool.times[i] \in {"filtered", "decaying", "old"} /\ pool.times[j] \in {"filtered", "decaying", "old"}
      /\ Settled(pool.times[i]) <= Settled(pool.times[j])
  <2>1. /\ IsLadder(pool)
        /\ pool.times[i] \in {"filtered", "decaying", "old"} /\ pool.times[j] \in {"filtered", "decaying", "old"}
    BY <1>1 DEF WellFormed, IsLadder
  <2>2. Settled(pool.times[i]) <= Settled(pool.times[j])
    <3> DEFINE times == pool.times
    <3>1. \A x, y \in DOMAIN times : x < y => Settled(times[x]) <= Settled(times[y])
      BY <1>1 DEF WellFormed, Scheduled
    <3>2. i \in DOMAIN times /\ j \in DOMAIN times
      OBVIOUS
    <3> HIDE DEF times
    <3>3. Settled(times[i]) <= Settled(times[j])
      BY <3>1, <3>2
    <3> QED BY <3>3 DEF times
  <2> QED BY <1>2, <2>1, <2>2 DEF LadderAt
<1>4. VolatilityOfBin(pair)
  BY DEF VolatilityKept
<1>5. start \in Int /\ pair.index_ref \in Int /\ (IF side = "base" THEN start <= pair.index_ref ELSE pair.index_ref <= start)
  <2>1. start \in Int /\ pair.index_ref \in Int
    BY <1>3, DlmmAssumption DEF PairState, BinIds
  <2>2. ~(IF side = "base" THEN pair.index_ref < start ELSE pair.index_ref > start)
    BY DEF TowardsReference
  <2> QED BY <2>1, <2>2
<1>6. /\ m.out \in Nat /\ quote(i, side, amount).out = net_of_transfer_fee(Across(side), given(m))
      /\ w.out \in Nat /\ quote(j, side, amount).out = net_of_transfer_fee(Across(side), given(w))
  BY <1>1, <1>2, PricedPair DEF quote
<1>7. /\ GoodWalk(pool, market.bins, was, side, net, a) /\ m = BinWalk(pool.data, a, side)
      /\ GoodWalk(pool, market.bins, was, side, net, b) /\ w = BinWalk(pool.data, b, side)
  BY <1>1, <1>2, StartKeeps
<1> DEFINE early == update_references(pair, pool.times[i])
           late == update_references(pair, pool.times[j])
<1>8. \A c \in Ahead(start, side) : Reached(early, c) \in Nat /\ Reached(late, c) \in Nat /\ Reached(late, c) <= Reached(early, c)
  BY <1>3, <1>4, <1>5, ReachedFalls
<1>9. PairsFollow(early, late, start, side)
  <2>1. ASSUME NEW age \in {"filtered", "decaying", "old"}, NEW now, now = update_references(pair, age)
        PROVE  /\ now.step = pair.step /\ now.base_rate = pair.base_rate /\ now.control = pair.control
               /\ now.max_va = pair.max_va /\ now.fee_on = pair.fee_on /\ now.orders = pair.orders /\ now.active = pair.active
    BY <1>3, <2>1 DEF update_references, PairState
  <2>2. start \in Ahead(start, side)
    BY <1>5 DEF Ahead
  <2>3. /\ early.step = late.step /\ early.base_rate = late.base_rate /\ early.control = late.control
        /\ early.max_va = late.max_va /\ early.fee_on = late.fee_on /\ early.orders = late.orders
        /\ early.active = late.active /\ late.active = start
    BY <1>3, <2>1
  <2> HIDE DEF early, late, start
  <2> QED BY <1>8, <2>2, <2>3 DEF PairsFollow
<1>10. Follows(a, b, start, side)
  <2>1. /\ a.status = b.status /\ a.arrays = b.arrays /\ a.array = b.array /\ a.bins = b.bins
        /\ a.left = net /\ b.left = net /\ a.out = 0 /\ b.out = 0 /\ a.pair = early /\ b.pair = late
    BY DEF Beginning
  <2> HIDE DEF a, b, early, late, start
  <2> QED BY <1>1, <1>9, <2>1 DEF Follows, Abreast
<1> HIDE DEF a, b, early, late, start, net, m, w
<1>11. Follows(m, w, start, side)
  BY <1>1, <1>2, <1>3, <1>5, <1>7, <1>10, WalkFollows
<1>12. given(m) \in Nat /\ given(w) \in Nat /\ (given(w) > 0 => given(m) <= given(w))
  BY <1>6, <1>11 DEF Follows, Abreast
<1> HIDE DEF given
<1>13. net_of_transfer_fee(Across(side), given(w)) > 0
  BY <1>6
<1>14. net_of_transfer_fee(Across(side), given(m)) <= net_of_transfer_fee(Across(side), given(w))
  BY <1>1, <1>12, <1>13, NetLater
<1> QED BY <1>6, <1>14

\* A quote holds until it is used: swapped later, it pays no less unless the lower fee now
\* takes it past the end of the curve, in any state the trades before led to and but for a
\* walk back to the bin the volatility is measured from (quote/router.rs quote_damm_v2 and
\* quote_dbc, "the conservative side"; quote/dlmm.rs chain_now, "volatility only decays with
\* time"; quote/byreal.rs, the launch fee that decays).
THEOREM QuotesHold == Spec => []LaterPays
<1>1. TradeInv /\ PriceStays /\ VolatilityKept => LaterPays
  <2> SUFFICES ASSUME TradeInv, PriceStays, VolatilityKept,
                      NEW side \in Sides, NEW amount \in Amounts, NEW i \in DOMAIN pool.times, NEW j \in DOMAIN pool.times,
                      i < j, quote(j, side, amount).out > 0, ~TowardsReference(side)
               PROVE  quote(i, side, amount).out <= quote(j, side, amount).out
    BY DEF LaterPays
  <2>1. WellFormed(pool) /\ amount \in Nat /\ Across(side) \in Sides
    BY PoolsAssumption, TradesAssumption, BothSides DEF TradeInv
  <2>2. CASE pool.kind \in {"damm", "dbc", "byreal"}
    BY <2>1, <2>2, ScheduleLater
  <2>3. CASE pool.kind = "dlmm"
    BY <2>1, <2>3, LadderLater
  <2>4. CASE pool.kind \notin Markets
    <3>1. quote(i, side, amount) = quote(j, side, amount)
      BY <2>1, <2>4, TimelessQuote
    <3>2. pool.kind \in Products \cup {"meteora"}
      BY <2>1, <2>4 DEF WellFormed
    <3>3. quote(j, side, amount).out \in Nat
      BY <2>1, <3>2, QuoteType
    <3> QED BY <3>1, <3>3
  <2> QED BY <2>2, <2>3, <2>4 DEF Markets
<1> QED BY <1>1, TradesInvariant, PriceStaysAlways, VolatilityAlways, PTL
=============================================================================
