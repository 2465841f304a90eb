------------------------------ MODULE Custody ------------------------------
(* What one subscriber is promised about their tokens, whoever keeps, sets the  *)
(* terms, lists the venues or pays in: tokens leave the wallet only by a pull   *)
(* along a line the subscriber granted, for no more than what the line has      *)
(* left; what was pulled is the subscriber's until a trade takes all of it; and *)
(* the trade pays the wallet, there and then, the worth of it at the terms of   *)
(* the day, less the largest fee, provided trading is allowed at all.  What the *)
(* subscriber spends from the wallet is not custody.                            *)
EXTENDS Amounts

CONSTANTS Usdc, Target, Lines

VARIABLES
  wallet,     \* what the subscriber's own accounts hold
  transit,    \* what was pulled and not traded
  allowance,  \* what may be pulled now, along each line of each asset
  trading,    \* may the asset be traded now?
  terms       \* price, decimals and slippage

vars == <<wallet, transit, allowance, trading, terms>>

Assets == {Usdc, Target}
Proceeds(asset) == IF asset = Usdc THEN Target ELSE Usdc

\* What a trade of the net amount is worth, before the u64 truncation of the code.
Worth(asset, net) ==
  IF asset = Usdc
  THEN BuyWorth(net, terms.price, terms.decimals, terms.slippage)
  ELSE SellWorth(net, terms.price, terms.decimals, terms.slippage)

Init ==
  /\ allowance = [l \in Assets \X Lines |-> 0]
  /\ trading = [a \in Assets |-> FALSE]

\* What a step draws along a line, and that it draws along no other.
Drawn(l) == allowance[l] - allowance'[l]
Draws(l) ==
  /\ Drawn(l) >= 0
  /\ Drawn(l) <= wallet[l[1]]
  /\ \A other \in Assets \X Lines : other # l => allowance'[other] = allowance[other]

\* A pull moves what it draws and nothing else.
Pull(l) ==
  /\ Draws(l)
  /\ wallet' = [wallet EXCEPT ![l[1]] = @ - Drawn(l)]
  /\ transit' = [transit EXCEPT ![l[1]] = @ + Drawn(l)]
  /\ UNCHANGED <<trading, terms>>

\* A trade, of what was in transit and of what it draws itself.  A sell is the last
\* one for the time being: the plan is not due again at the same instant.
Trade(l) ==
  LET in  == l[1]
      out == Proceeds(in)
      amount == transit[in] + Drawn(l)
  IN  /\ trading[in]
      /\ terms.price > 0
      /\ Draws(l)
      /\ amount > 0
      /\ transit'[in] = 0
      /\ transit'[out] >= transit[out]
      /\ wallet'[in] >= wallet[in] - Drawn(l)
      /\ wallet'[out] - wallet[out] >= Worth(in, amount - Fee(amount, MAX_FEE_BPS))
      /\ in = Target => ~trading'[in]
      /\ UNCHANGED terms

\* Somebody pays in.
Receive ==
  /\ \A a \in Assets : wallet'[a] >= wallet[a] /\ transit'[a] >= transit[a]
  /\ UNCHANGED <<allowance, trading, terms>>

\* Grants, revocations, plans, pauses, terms and time: no token moves.
Settle == UNCHANGED <<wallet, transit>>

Next == (\E l \in Assets \X Lines : Pull(l) \/ Trade(l)) \/ Receive \/ Settle

Spec == Init /\ [][Next]_vars
=============================================================================
