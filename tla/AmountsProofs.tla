--------------------------- MODULE AmountsProofs ---------------------------
(* Laws of the router's arithmetic, for every amount, rate and instant.       *)
EXTENDS Amounts, TLAPS

\* A division by a positive number, characterised: the quotient is the one natural
\* number whose multiple of the divisor is within one divisor below the dividend.
LEMMA DivLaw ==
  ASSUME NEW a \in Nat, NEW p \in Nat \ {0}
  PROVE  /\ a \div p \in Nat
         /\ p * (a \div p) <= a
         /\ a < p * (a \div p) + p
  BY SMT

\* ... and no other number is.
LEMMA DivUnique ==
  ASSUME NEW a \in Nat, NEW p \in Nat \ {0}, NEW q \in Nat,
         p * q <= a, a < p * q + p
  PROVE  a \div p = q
<1> DEFINE d == a \div p
<1>1. d \in Nat /\ p * d <= a /\ a < p * d + p
  BY DivLaw
<1>2. ASSUME NEW x \in Nat, NEW y \in Nat, x < y
      PROVE  p * x + p <= p * y
  <2>1. PICK z \in Nat : y = x + 1 + z
    <3>1. y - x - 1 \in Nat /\ y = x + 1 + (y - x - 1)
      BY <1>2, SMT
    <3> QED BY <3>1
  <2>2. p * y = p * x + p + p * z
    BY <2>1, SMT
  <2>3. p * z \in Nat /\ p * x \in Nat
    BY SMT
  <2> QED BY <2>2, <2>3, SMT
<1> HIDE DEF d
<1>3. p * d \in Nat /\ p * q \in Nat
  BY <1>1, SMT
<1>4. ~(d < q)
  BY <1>1, <1>2, <1>3, SMT
<1>5. ~(q < d)
  BY <1>1, <1>2, <1>3, SMT
<1> QED BY <1>1, <1>4, <1>5, SMT DEF d

\* Division keeps the order of its dividends.
LEMMA DivMonotone ==
  ASSUME NEW a \in Nat, NEW b \in Nat, NEW p \in Nat \ {0}, a <= b
  PROVE  a \div p <= b \div p
<1> DEFINE d == a \div p
           e == b \div p
<1>1. d \in Nat /\ e \in Nat /\ p * d <= a /\ b < p * e + p
  BY DivLaw
<1> HIDE DEF d, e
<1>2. ASSUME e < d PROVE FALSE
  <2>1. PICK z \in Nat : d = e + 1 + z
    <3>1. d - e - 1 \in Nat /\ d = e + 1 + (d - e - 1)
      BY <1>1, <1>2, SMT
    <3> QED BY <3>1
  <2>2. p * d = p * e + p + p * z /\ p * z \in Nat /\ p * e \in Nat
    BY <1>1, <2>1, SMT
  <2> QED BY <1>1, <2>2, SMT
<1>3. d <= e
  BY <1>1, <1>2, SMT
<1> QED BY <1>3 DEF d, e

\* A product grows with its factor.
LEMMA ProductMonotone ==
  ASSUME NEW x \in Nat, NEW y \in Nat, NEW f \in Nat, x <= y
  PROVE  x * f \in Nat /\ y * f \in Nat /\ x * f <= y * f
<1>1. PICK d \in Nat : y = x + d
  <2>1. y - x \in Nat /\ y = x + (y - x)
    BY SMT
  <2> QED BY <2>1
<1>2. x * f \in Nat /\ d * f \in Nat /\ y * f = x * f + d * f
  BY <1>1, SMT
<1> QED BY <1>2, SMT

\* The cadence bounds keep a period positive.
LEMMA PeriodPositive ==
  ASSUME NEW p \in MIN_PERIOD_SECS..MAX_PERIOD_SECS
  PROVE  p \in Nat \ {0}
  BY SMT DEF MIN_PERIOD_SECS

\* The fee never exceeds the input it is taken from (execute_buy, execute_sell:
\* checked_sub cannot fail).
LEMMA FeeWithinInput ==
  ASSUME NEW amount \in Nat, NEW bps \in 0..MAX_FEE_BPS
  PROVE  Fee(amount, bps) \in 0..amount
  BY SMT DEF Fee, BPS, MAX_FEE_BPS

\* No fee rate the program accepts takes more than the compiled-in cap.
LEMMA FeeWithinCap ==
  ASSUME NEW amount \in Nat, NEW bps \in 0..MAX_FEE_BPS
  PROVE  Fee(amount, bps) <= Fee(amount, MAX_FEE_BPS)
<1>1. amount * bps <= amount * MAX_FEE_BPS
  BY SMT DEF MAX_FEE_BPS
<1>2. amount * bps \in Nat /\ amount * MAX_FEE_BPS \in Nat
  BY SMT DEF MAX_FEE_BPS
<1> QED BY <1>1, <1>2, SMT DEF Fee, BPS

\* What is left after the largest fee grows with the amount.
LEMMA NetMonotone ==
  ASSUME NEW x \in Nat, NEW y \in Nat, x <= y
  PROVE  x - Fee(x, MAX_FEE_BPS) <= y - Fee(y, MAX_FEE_BPS)
  BY SMT DEF Fee, BPS, MAX_FEE_BPS

\* The clock gate: after a sell the next due instant is past now, at most one period
\* past it, and a whole number of periods past the previous one.
LEMMA NextDueLaw ==
  ASSUME NEW due \in Nat, NEW p \in Nat \ {0}, NEW now \in Nat, now >= due
  PROVE  /\ NextDue(due, p, now) \in Nat
         /\ NextDue(due, p, now) > now
         /\ NextDue(due, p, now) <= now + p
         /\ (now - due) \div p + 1 \in Nat
<1>1. now - due \in Nat
  BY SMT
<1>2. /\ (now - due) \div p \in Nat
      /\ p * ((now - due) \div p) <= now - due
      /\ now - due < p * ((now - due) \div p) + p
  BY <1>1, DivLaw
<1> DEFINE k == (now - due) \div p
<1>3. (k + 1) * p = p * k + p /\ p * k \in Nat
  BY <1>2, SMT
<1> HIDE DEF k
<1>4. NextDue(due, p, now) = due + (k + 1) * p
  BY DEF NextDue, k
<1> QED BY <1>1, <1>2, <1>3, <1>4, SMT DEF k

\* The slot of a grid, with its origin and its width, that an instant falls into.
SlotAt(opened, p, t) == (t - opened) \div p

\* The gate keeps to the grid of the opening instant: a sell in some slot of the grid
\* moves the gate to the start of the slot after it.
LEMMA NextDueOnGrid ==
  ASSUME NEW opened \in Nat, NEW due \in Nat, NEW p \in Nat \ {0}, NEW t \in Nat,
         opened <= due, due = opened + SlotAt(opened, p, due) * p, t >= due
  PROVE  /\ SlotAt(opened, p, t) \in Nat
         /\ SlotAt(opened, p, t) >= SlotAt(opened, p, due)
         /\ NextDue(due, p, t) = opened + (SlotAt(opened, p, t) + 1) * p
         /\ SlotAt(opened, p, NextDue(due, p, t)) = SlotAt(opened, p, t) + 1
<1> DEFINE e == SlotAt(opened, p, due)
           k == (t - due) \div p
<1>1. t - due \in Nat /\ t - opened \in Nat /\ due - opened \in Nat
  BY SMT
<1>2. e \in Nat
  BY <1>1, DivLaw DEF SlotAt
<1>3. k \in Nat /\ p * k <= t - due /\ t - due < p * k + p
  BY <1>1, DivLaw
<1>4. NextDue(due, p, t) = due + (k + 1) * p
  BY DEF NextDue
<1>5. due = opened + e * p
  OBVIOUS
<1> HIDE DEF k, e
<1>6. p * (e + k) = e * p + p * k /\ e * p \in Nat /\ p * k \in Nat
  BY <1>2, <1>3, SMT
<1>7. (t - opened) \div p = e + k
  <2>1. p * (e + k) <= t - opened /\ t - opened < p * (e + k) + p
    BY <1>3, <1>5, <1>6, SMT
  <2>2. e + k \in Nat
    BY <1>2, <1>3
  <2> QED BY <1>1, <2>1, <2>2, DivUnique
<1>8. NextDue(due, p, t) = opened + (e + k + 1) * p
  <2>1. (e + k + 1) * p = e * p + (k + 1) * p /\ (k + 1) * p \in Nat
    BY <1>2, <1>3, SMT
  <2> QED BY <1>4, <1>5, <1>6, <2>1, SMT
<1>9. (NextDue(due, p, t) - opened) \div p = e + k + 1
  <2>1. e + k + 1 \in Nat /\ p * (e + k + 1) \in Nat /\ (e + k + 1) * p = p * (e + k + 1)
    BY <1>2, <1>3, SMT
  <2>2. NextDue(due, p, t) - opened = p * (e + k + 1)
    BY <1>8, <2>1, SMT
  <2> QED BY <2>1, <2>2, DivUnique, SMT
<1> QED BY <1>2, <1>3, <1>7, <1>8, <1>9, SMT DEF SlotAt, e

\* The runway is counted in at least one period, and in no more than fit.
LEMMA RemainingLaw ==
  ASSUME NEW end \in Nat, NEW p \in Nat \ {0}, NEW now \in Nat
  PROVE  /\ remaining_periods(end, p, now) \in Nat \ {0}
         /\ remaining_periods(end, p, now) > 1 => remaining_periods(end, p, now) * p <= end - now
<1>1. CASE end - now < p
  BY <1>1 DEF remaining_periods
<1>2. CASE ~(end - now < p)
  <2>1. end - now \in Nat /\ end - now >= p
    BY <1>2, SMT
  <2>2. /\ (end - now) \div p \in Nat
        /\ p * ((end - now) \div p) <= end - now
        /\ end - now < p * ((end - now) \div p) + p
    BY <2>1, DivLaw
  <2>3. (end - now) \div p # 0
    BY <2>1, <2>2, SMT
  <2> QED BY <1>2, <2>2, <2>3, SMT DEF remaining_periods
<1> QED BY <1>1, <1>2

\* A keeper that computes its draw as amortizedDraw does never overdraws: residue
\* plus draw stays within the cap the program applies, unless the residue alone
\* is beyond it.
LEMMA DrawWithinCap ==
  ASSUME NEW wallet \in Nat, NEW residue \in Nat, NEW periods \in Nat \ {0},
         residue <= (wallet + residue) \div periods
  PROVE  LET draw == AmortizedDraw(wallet, residue, periods)
         IN  /\ draw \in 0..wallet
             /\ residue + draw <= AmortizationCap(wallet - draw, residue + draw, periods)
<1> DEFINE cap == (wallet + residue) \div periods
<1>1. cap \in Nat /\ periods * cap <= wallet + residue
  BY DivLaw, SMT
<1>2. cap <= periods * cap
  BY <1>1, SMT
<1>3. AmortizedDraw(wallet, residue, periods) = cap - residue
  BY <1>1, SMT DEF AmortizedDraw
<1>4. (wallet - (cap - residue)) + (residue + (cap - residue)) = wallet + residue
  BY <1>1, SMT
<1> QED BY <1>1, <1>2, <1>3, <1>4, SMT DEF AmortizationCap
\* What divides as often fits into the quotient.
LEMMA DivAtLeast ==
  ASSUME NEW a \in Nat, NEW p \in Nat \ {0}, NEW q \in Nat, p * q <= a
  PROVE  q <= a \div p
<1> DEFINE d == a \div p
<1>1. d \in Nat /\ a < p * d + p
  BY DivLaw
<1> HIDE DEF d
<1>2. ASSUME d < q PROVE FALSE
  <2>1. PICK z \in Nat : q = d + 1 + z
    <3>1. q - d - 1 \in Nat /\ q = d + 1 + (q - d - 1)
      BY <1>1, <1>2, SMT
    <3> QED BY <3>1
  <2>2. p * q = p * d + p + p * z /\ p * z \in Nat /\ p * d \in Nat
    BY <1>1, <2>1, SMT
  <2> QED BY <1>1, <2>2, SMT
<1>3. q <= d
  BY <1>1, <1>2, SMT
<1> QED BY <1>3 DEF d

\* As time goes by, the periods that are left become fewer, never more.
LEMMA RemainingShrinks ==
  ASSUME NEW end \in Nat, NEW p \in Nat \ {0}, NEW t \in Nat, NEW now \in Nat, t <= now
  PROVE  remaining_periods(end, p, now) <= remaining_periods(end, p, t)
<1>1. CASE end - now < p
  <2>1. remaining_periods(end, p, t) \in Nat \ {0}
    BY RemainingLaw
  <2> QED BY <1>1, <2>1, SMT DEF remaining_periods
<1>2. CASE ~(end - now < p)
  <2>1. end - now \in Nat /\ end - t \in Nat /\ end - now <= end - t /\ ~(end - t < p)
    BY <1>2, SMT
  <2>2. (end - now) \div p <= (end - t) \div p
    BY <2>1, DivMonotone
  <2> QED BY <1>2, <2>1, <2>2 DEF remaining_periods
<1> QED BY <1>1, <1>2

\* A draw that was computed while more periods were left is within the cap that the
\* program applies later: a late transaction of a keeper is not refused for it.
LEMMA DrawStaysWithinCap ==
  ASSUME NEW wallet \in Nat, NEW residue \in Nat, NEW periods \in Nat \ {0},
         NEW later \in Nat \ {0}, later <= periods,
         residue * periods <= wallet + residue,
         NEW pull \in Nat, pull <= AmortizedDraw(wallet, residue, periods)
  PROVE  /\ pull <= wallet
         /\ residue + pull <= AmortizationCap(wallet - pull, residue + pull, later)
<1> DEFINE sum == wallet + residue
           cap == sum \div periods
<1>1. sum \in Nat
  BY SMT
<1>2. cap \in Nat /\ periods * cap <= sum
  BY <1>1, DivLaw
<1>3. residue <= cap
  <2>1. periods * residue <= sum
    BY SMT
  <2> HIDE DEF sum
  <2> QED BY <1>1, <2>1, DivAtLeast
<1>4. residue + pull <= cap
  BY <1>2, <1>3, SMT DEF AmortizedDraw
<1>5. later * cap <= periods * cap /\ later * cap \in Nat /\ periods * cap \in Nat
  BY <1>2, ProductMonotone
<1>6. cap <= sum \div later
  <2>1. later * cap <= sum
    BY <1>1, <1>2, <1>5, SMT
  <2> HIDE DEF sum, cap
  <2> QED BY <1>1, <1>2, <2>1, DivAtLeast
<1>7. cap <= sum
  <2>1. 1 * cap <= periods * cap
    BY <1>2, ProductMonotone, SMT
  <2> QED BY <1>1, <1>2, <1>5, <2>1, SMT
<1>8. pull <= wallet
  BY <1>1, <1>2, <1>4, <1>7, SMT
<1>9. (wallet - pull) + (residue + pull) = sum
  BY SMT
<1>10. sum \div later \in Nat
  BY <1>1, DivLaw
<1> HIDE DEF sum, cap
<1> QED BY <1>2, <1>4, <1>6, <1>8, <1>9, <1>10, SMT DEF AmortizationCap

-----------------------------------------------------------------------------
(* The floors grow with the amount.                                            *)

\* A slippage band below more is more.
LEMMA DiscountMonotone ==
  ASSUME NEW x \in Nat, NEW y \in Nat, x <= y, NEW slippage \in 0..BPS
  PROVE  /\ Discount(x, slippage) \in Nat /\ Discount(y, slippage) \in Nat
         /\ Discount(x, slippage) <= Discount(y, slippage)
<1>1. BPS - slippage \in Nat /\ BPS \in Nat \ {0}
  BY SMT DEF BPS
<1>2. /\ x * (BPS - slippage) \in Nat /\ y * (BPS - slippage) \in Nat
      /\ x * (BPS - slippage) <= y * (BPS - slippage)
  BY <1>1, ProductMonotone
<1> QED BY <1>1, <1>2, DivLaw, DivMonotone DEF Discount

\* What a larger amount is worth is no less, in either direction.
LEMMA WorthMonotone ==
  ASSUME NEW x \in Nat, NEW y \in Nat, x <= y, NEW slippage \in 0..BPS,
         NEW price \in Nat \ {0}, NEW decimals, Scale(decimals) \in Nat \ {0}
  PROVE  /\ BuyWorth(x, price, decimals, slippage) \in Nat
         /\ SellWorth(x, price, decimals, slippage) \in Nat
         /\ BuyWorth(y, price, decimals, slippage) \in Nat
         /\ SellWorth(y, price, decimals, slippage) \in Nat
         /\ BuyWorth(x, price, decimals, slippage) <= BuyWorth(y, price, decimals, slippage)
         /\ SellWorth(x, price, decimals, slippage) <= SellWorth(y, price, decimals, slippage)
<1>1. /\ x * Scale(decimals) \in Nat /\ y * Scale(decimals) \in Nat
      /\ x * Scale(decimals) <= y * Scale(decimals)
  BY ProductMonotone
<1>2. x * price \in Nat /\ y * price \in Nat /\ x * price <= y * price
  BY ProductMonotone
<1>3. /\ IdealBuy(x, price, decimals) \in Nat /\ IdealBuy(y, price, decimals) \in Nat
      /\ IdealBuy(x, price, decimals) <= IdealBuy(y, price, decimals)
  BY <1>1, DivLaw, DivMonotone DEF IdealBuy
<1>4. /\ IdealSell(x, price, decimals) \in Nat /\ IdealSell(y, price, decimals) \in Nat
      /\ IdealSell(x, price, decimals) <= IdealSell(y, price, decimals)
  BY <1>2, DivLaw, DivMonotone DEF IdealSell
<1> QED BY <1>3, <1>4, DiscountMonotone DEF BuyWorth, SellWorth

\* At the price that makes one unit worth one unit, the ideal output is the input.
LEMMA IdealAtPar ==
  ASSUME NEW net \in Nat, NEW decimals, Scale(decimals) \in Nat \ {0}
  PROVE  /\ IdealBuy(net, Scale(decimals), decimals) = net
         /\ IdealSell(net, Scale(decimals), decimals) = net
<1> DEFINE scale == Scale(decimals)
<1>1. net * scale \in Nat /\ scale * net <= net * scale /\ net * scale < scale * net + scale
  BY SMT
<1> HIDE DEF scale
<1>2. scale \in Nat \ {0}
  BY DEF scale
<1>3. (net * scale) \div scale = net
  BY <1>1, <1>2, DivUnique
<1> QED BY <1>3 DEF IdealBuy, IdealSell, scale

\* The widths of the program: 2^64 * 10^12 and 2^64 * 10^4 are below 2^128.
WidthsMatch(decimals) == U64 * Scale(decimals) <= U128 /\ U64 * BPS <= U128

\* A wider band has a lower end, and no end is above the ideal.
LEMMA DiscountLaw ==
  ASSUME NEW net \in Nat, NEW wide \in 0..BPS, NEW narrow \in 0..BPS, narrow <= wide
  PROVE  /\ Discount(net, wide) \in Nat /\ Discount(net, narrow) \in Nat
         /\ Discount(net, wide) <= Discount(net, narrow) /\ Discount(net, narrow) <= net
<1>1. /\ BPS - wide \in Nat /\ BPS - narrow \in Nat /\ BPS \in Nat \ {0}
      /\ BPS - wide <= BPS - narrow /\ BPS - narrow <= BPS
  BY SMT DEF BPS
<1>2. /\ (BPS - wide) * net \in Nat /\ (BPS - narrow) * net \in Nat /\ BPS * net \in Nat
      /\ (BPS - wide) * net <= (BPS - narrow) * net /\ (BPS - narrow) * net <= BPS * net
  BY <1>1, ProductMonotone
<1>3. /\ net * (BPS - wide) = (BPS - wide) * net /\ net * (BPS - narrow) = (BPS - narrow) * net
      /\ net * BPS = BPS * net
  BY <1>1, SMT
<1>4. (net * BPS) \div BPS = net
  <2>1. BPS * net <= net * BPS /\ net * BPS < BPS * net + BPS
    BY <1>1, <1>2, <1>3, SMT
  <2> QED BY <1>1, <1>2, <1>3, <2>1, DivUnique
<1> QED BY <1>1, <1>2, <1>3, <1>4, DivLaw, DivMonotone DEF Discount

\* At par and as long as amounts fit a u64, both floors can be computed, and a min_out
\* with a band no wider than the program's is not below them, truncated or not.
LEMMA FloorAtPar ==
  ASSUME NEW net \in Nat, net < U64, NEW decimals, Scale(decimals) \in Nat \ {0},
         WidthsMatch(decimals),
         NEW slippage \in 0..BPS, NEW own \in 0..BPS, own <= slippage
  PROVE  /\ BuyFloorComputes(net, Scale(decimals), decimals, slippage)
         /\ SellFloorComputes(net, Scale(decimals), decimals, slippage)
         /\ price_floor(net, Scale(decimals), decimals, slippage) <= Discount(net, own)
         /\ sell_floor(net, Scale(decimals), decimals, slippage) <= Discount(net, own)
         /\ Discount(net, own) <= net
<1> DEFINE scale == Scale(decimals)
           low == Discount(net, slippage)
           high == Discount(net, own)
<1>1. IdealBuy(net, scale, decimals) = net /\ IdealSell(net, scale, decimals) = net
  BY IdealAtPar
<1>2. low \in Nat /\ high \in Nat /\ low <= high /\ high <= net
  BY DiscountLaw
<1>3. low % U64 <= high
  <2> HIDE DEF low, high
  <2>1. low % U64 <= low
    BY <1>2, WidthAssumption, SMT
  <2>2. low % U64 \in Int
    BY <1>2, WidthAssumption, SMT
  <2> QED BY <1>2, <2>1, <2>2, SMT
<1> HIDE DEF scale
<1>4. scale > 0 /\ scale \in Nat \ {0}
  BY SMT DEF scale
<1>5. Fits128(net * scale)
  <2>1. (net + 1) * scale <= U64 * scale /\ (net + 1) * scale \in Nat /\ U64 * scale \in Nat
    BY <1>4, ProductMonotone, WidthAssumption, SMT
  <2>2. (net + 1) * scale = net * scale + scale /\ net * scale \in Nat
    BY <1>4, SMT
  <2>3. U64 * scale <= U128
    BY DEF WidthsMatch, scale
  <2> QED BY <1>4, <2>1, <2>2, <2>3, WidthAssumption, SMT DEF Fits128
<1>6. Fits128(net * (BPS - slippage))
  <2>1. BPS \in Nat \ {0} /\ BPS - slippage \in Nat /\ BPS - slippage <= BPS
    BY SMT DEF BPS
  <2>2. (net + 1) * BPS <= U64 * BPS /\ (net + 1) * BPS \in Nat /\ U64 * BPS \in Nat
    BY <2>1, ProductMonotone, WidthAssumption, SMT
  <2>3. (net + 1) * BPS = net * BPS + BPS /\ net * BPS \in Nat
    BY <2>1, SMT
  <2>4. (BPS - slippage) * net <= BPS * net /\ (BPS - slippage) * net \in Nat
    BY <2>1, ProductMonotone
  <2>5. (BPS - slippage) * net = net * (BPS - slippage) /\ BPS * net = net * BPS
    BY <2>1, SMT
  <2>6. U64 * BPS <= U128
    BY DEF WidthsMatch
  <2> QED BY <2>1, <2>2, <2>3, <2>4, <2>5, <2>6, WidthAssumption, SMT DEF Fits128
<1> HIDE DEF low, high
<1>7. /\ price_floor(net, scale, decimals, slippage) = low % U64
      /\ sell_floor(net, scale, decimals, slippage) = low % U64
  BY <1>1 DEF price_floor, sell_floor, BuyWorth, SellWorth, low
<1>8. /\ BuyFloorComputes(net, scale, decimals, slippage)
      /\ SellFloorComputes(net, scale, decimals, slippage)
  BY <1>1, <1>4, <1>5, <1>6 DEF BuyFloorComputes, SellFloorComputes, scale
<1> QED BY <1>2, <1>3, <1>7, <1>8 DEF scale, high

\* A positive amount less a fee that is allowed is positive still.
LEMMA NetPositive ==
  ASSUME NEW amount \in Nat \ {0}, NEW bps \in 0..MAX_FEE_BPS
  PROVE  amount - Fee(amount, bps) \in Nat \ {0}
<1>1. Fee(amount, bps) \in 0..amount /\ Fee(amount, bps) <= Fee(amount, MAX_FEE_BPS)
  BY FeeWithinInput, FeeWithinCap
<1>2. Fee(amount, MAX_FEE_BPS) < amount /\ Fee(amount, MAX_FEE_BPS) \in Nat
  BY SMT DEF Fee, BPS, MAX_FEE_BPS
<1> QED BY <1>1, <1>2, SMT
=============================================================================
