------------------------------ MODULE Amounts ------------------------------
(* The arithmetic of the router (programs/recurring-buy/src/lib.rs and        *)
(* state.rs): the execution fee, the price floors of the two directions, the  *)
(* amortization cap, the clock gate, and the keeper's amortized draw.         *)
EXTENDS Integers

CONSTANTS
  U64,   \* how many values a u64 has (2^64 in the program, few for TLC)
  U128   \* how many values a u128 has (2^128 in the program)

ASSUME WidthAssumption ==
  /\ U64 \in Nat \ {0}
  /\ U128 \in Nat
  /\ U128 >= U64 * U64

BPS == 10000
MAX_FEE_BPS == 100
MIN_PERIOD_SECS == 60
MAX_PERIOD_SECS == 366 * 86400
MAX_TARGET_DECIMALS == 12

\* Powers are exact: 10u128.checked_pow(target_decimals).
Scale(decimals) == 10 ^ decimals

\* The protocol fee on an input amount, rounded down.  The product fits a u128
\* and the quotient a u64, so no width matters here.
Fee(amount, bps) == (amount * bps) \div BPS

\* The slippage band below an ideal output.
Discount(ideal, slippage) == (ideal * (BPS - slippage)) \div BPS

IdealBuy(net, price, decimals) == (net * Scale(decimals)) \div price
IdealSell(net, price, decimals) == (net * price) \div Scale(decimals)

\* The floors as documented: reference price less the slippage band.
BuyWorth(net, price, decimals, slippage) ==
  Discount(IdealBuy(net, price, decimals), slippage)
SellWorth(net, price, decimals, slippage) ==
  Discount(IdealSell(net, price, decimals), slippage)

\* u128 arithmetic is checked: a product that does not fit is BuyError::Overflow.
Fits128(product) == product < U128

BuyFloorComputes(net, price, decimals, slippage) ==
  /\ price > 0
  /\ Fits128(net * Scale(decimals))
  /\ Fits128(IdealBuy(net, price, decimals) * (BPS - slippage))
SellFloorComputes(net, price, decimals, slippage) ==
  /\ price > 0
  /\ Fits128(net * price)
  /\ Fits128(IdealSell(net, price, decimals) * (BPS - slippage))

\* A mutant of price_floor: the formula of the other direction.
BuggyFloorSellDirection(net, price, decimals, slippage) ==
  SellWorth(net, price, decimals, slippage) % U64

\* The floors as the program returns them: `floor as u64` keeps the low 64 bits.
price_floor(net, price, decimals, slippage) ==
  BuyWorth(net, price, decimals, slippage) % U64
sell_floor(net, price, decimals, slippage) ==
  SellWorth(net, price, decimals, slippage) % U64

\* Periods left, never below one.  Rust's division truncates toward zero; a
\* negative numerator ends below one either way.
remaining_periods(end_ts, period_secs, now) ==
  IF end_ts - now < period_secs THEN 1 ELSE (end_ts - now) \div period_secs

\* A mutant of AmortizationCap: the whole pot, as if one period were left.
BuggyCapWholePot(wallet, amount_in, periods) == wallet + amount_in

\* What a crank may sell of the pot: the wallet's balance plus the pulled amount.
AmortizationCap(wallet, amount_in, periods) == (wallet + amount_in) \div periods

\* Mutants of NextDue: one period from now, and one period from the last gate.
BuggyNextDueFromNow(next_due_ts, period_secs, now) == now + period_secs
BuggyNextDueCatchUp(next_due_ts, period_secs, now) == next_due_ts + period_secs

\* The gate jumps past now on the grid of the plan: missed periods are skipped.
NextDue(next_due_ts, period_secs, now) ==
  next_due_ts + ((now - next_due_ts) \div period_secs + 1) * period_secs

\* The keeper's amount to pull so that pull plus residue stays within the cap.
AmortizedDraw(wallet, residue, periods) ==
  LET cap == (wallet + residue) \div periods
  IN  IF cap > residue THEN cap - residue ELSE 0
=============================================================================
