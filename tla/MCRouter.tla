------------------------------ MODULE MCRouter ------------------------------
(* Instances of Router for TLC: one subscriber u, one other wallet k who is    *)
(* keeper, admin, fee wallet and donor, and a pool with tokens of both mints.  *)
EXTENDS Router

CONSTANTS u, k, V1, V2, V3, V4

\* A balance sheet: what u and k hold of each mint, and what the pool does.
Balances(uUsdc, uTarget, kUsdc, kTarget, pool) ==
  [a \in Accounts |->
     CASE a = Ata(u, Usdc) -> uUsdc
       [] a = Ata(u, Target) -> uTarget
       [] a = Ata(k, Usdc) -> kUsdc
       [] a = Ata(k, Target) -> kTarget
       [] a[1] = Pool -> pool
       [] OTHER -> 0]

NoTransfers == {}
AllCreated == Accounts

\* Who the fee goes to: the subscriber's PDA, and the subscriber itself or another wallet.
OwnRecipient == {u, Pda(u)}
OtherRecipient == {k, Pda(u)}

Terms(mint, amount, length) ==
  {[mint |-> mint, amountPerPeriod |-> amount, periodLengthS |-> length, expiryTs |-> 1000]}

\* Trades in both directions: prices that make a buy floor exceed and undercut its
\* input, fees at, over and under the cap, a venue that pays too little, a list of
\* no venue after one of two, and a list that is too long.
TradeBal == Balances(100, 200, 2, 2, 200)
BuyGrants == Terms(Usdc, 100, 60)
SellGrants == Terms(Target, 100, 60)
Donation(mint) == [from |-> k, mint |-> mint, to |-> Pda(u), amount |-> 2]
BuyLists == {<<>>, <<V2, V1>>, <<V1, V2, V3, V4>>}
BuyTransfers == {Donation(Usdc), Donation(Target)}

\* Balances that fit the seven bits a u64 has in the Narrow run.
NarrowBal == Balances(50, 0, 0, 0, 120)
SellTransfers == {Donation(Target)}
TradeLists == {<<V1>>}

\* One plan over four periods of a minute, the clock in steps of half a minute.
ScheduleTimes == {30 * i : i \in 0..10}
ScheduleBal == Balances(0, 12, 0, 0, 0)
ScheduleGrants == Terms(Target, 12, 1000)
=============================================================================
