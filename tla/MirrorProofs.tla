---------------------------- MODULE MirrorProofs ----------------------------
(* The daemon's mirror of the chain.  MirrorAgrees says ENABLED, of which there *)
(* is no proof rule here; what takes its place is the outcome itself, written   *)
(* as one equation for each variable, and a proof that it is a landing.         *)
EXTENDS DaemonProofs

\* The balances that the pull of a transaction leaves.
Before(t) == IF t.pull = 0 THEN bal ELSE AfterPull(t.id, t.pull)

\* What a transaction does to the accounts: the pull, the fee, the swap at par.
AfterSwap(b, user, in, fee, net, destination) ==
  LET source == Transient(user, in)
      out    == Other(in)
  IN  Pays(Takes(Transfer(b, source, Ata(destination, in), fee), source, Ata(Pool, in), net),
           Ata(Pool, out), Ata(user, out), net)

\* What it does to the chain if nothing in it is refused: every variable has one value.
Outcome(t) ==
  LET user   == t.id[1]
      in     == t.id[2]
      amount == Before(t)[Transient(user, in)]
      p      == plan[user]
  IN  /\ bal' = AfterSwap(Before(t), user, in, Fee(amount, feeConfig.fee_bps), t.net,
                        feeConfig.destination)
      /\ IF t.pull = 0 THEN UNCHANGED delegation ELSE Charge(t.id, t.pull)
      /\ event' = [kind |-> IF in = Usdc THEN "buy" ELSE "sell", user |-> user,
                   amount_in |-> amount, fee |-> Fee(amount, feeConfig.fee_bps),
                   venue |-> MS]
      /\ IF in = Usdc
         THEN UNCHANGED <<plan, history>>
         ELSE /\ plan' = [plan EXCEPT ![user].next_due_ts =
                            NextDue(p.next_due_ts, p.period_secs, now)]
              /\ history' = [history EXCEPT
                   ![user].slots = @ \cup {Slot(user, now)},
                   ![user].sells = @ + 1,
                   ![user].late = IF now > p.end_ts THEN @ + 1 ELSE @]
      /\ UNCHANGED <<now, config, feeConfig, approved>>

-----------------------------------------------------------------------------
(* What still holds of a transaction.                                          *)

\* What the daemon took to be pullable at an earlier instant still is: the period may
\* have rolled since, which only makes room.
LEMMA AvailableStaysPullable ==
  ASSUME NEW d \in Delegation, NEW t \in Nat, now \in Nat, t <= now,
         NEW x \in Nat, x <= Available(d, t), x > 0
  PROVE  Pulled(d) + x <= d.amountPerPeriod
<1>1. /\ d.amountPerPeriod \in Nat /\ d.amountPulledInPeriod \in Nat
      /\ d.currentPeriodStartTs \in Nat /\ d.periodLengthS \in Nat
  BY DEF Delegation
<1>2. CASE t >= d.currentPeriodStartTs + d.periodLengthS
  <2>1. Rolled(d)
    BY <1>1, <1>2, SMT DEF Rolled
  <2> QED BY <1>1, <1>2, <2>1, SMT DEF Pulled, Available
<1>3. CASE ~(t >= d.currentPeriodStartTs + d.periodLengthS)
  <2>1. x <= d.amountPerPeriod - d.amountPulledInPeriod
    BY <1>1, <1>3, SMT DEF Available
  <2>2. Pulled(d) \in Nat /\ Pulled(d) <= d.amountPulledInPeriod
    BY <1>1, SMT DEF Pulled
  <2> QED BY <1>1, <2>1, <2>2, SMT
<1> QED BY <1>2, <1>3

LEMMA ComposedFields ==
  ASSUME NEW id, NEW pull, NEW residue, NEW bps, NEW destination,
         NEW t, t = Composed(id, pull, residue, bps, destination)
  PROVE  /\ t.pull = pull /\ t.net = (pull + residue) - Fee(pull + residue, bps)
         /\ t.min_out = floorOut(t.net) /\ t.fee_to = destination
<1>1. t.pull = pull /\ t.fee_to = destination
  BY DEF Composed
<1>2. t.net = (pull + residue) - Fee(pull + residue, bps)
  BY DEF Composed
<1>3. t.min_out = floorOut((pull + residue) - Fee(pull + residue, bps))
  BY DEF Composed
<1> QED BY <1>1, <1>2, <1>3

LEMMA StillHoldsFacts ==
  ASSUME RouterTypeOK, NEW k \in Daemons, NEW t \in Tx, StillHolds(k, t)
  PROVE  LET user   == t.id[1]
             in     == t.id[2]
             amount == t.pull + Residue(t.id)
             p      == plan[user]
         IN  /\ Operates(in) /\ t.id \in Mine(k) /\ now < delegation[t.id].expiryTs
             /\ t.pull <= bal[Ata(user, in)]
             /\ amount \in Nat \ {0} /\ amount <= bal[Ata(Pool, Other(in))]
             /\ t.net = amount - Fee(amount, feeConfig.fee_bps)
             /\ t.min_out = floorOut(t.net) /\ t.fee_to = feeConfig.destination
             /\ t.pull > 0 => Pulled(delegation[t.id]) + t.pull
                                <= delegation[t.id].amountPerPeriod
             /\ in = Target =>
                  /\ p # None /\ Due(p)
                  /\ amount <= AmortizationCap(bal[Ata(user, Target)] - t.pull, amount,
                                 remaining_periods(p.end_ts, p.period_secs, now))
<1> DEFINE id      == t.id
           user    == id[1]
           in      == id[2]
           d       == delegation[id]
           p       == plan[user]
           residue == Residue(id)
           pot     == bal[Ata(user, Target)]
<1>1. PICK since \in Times :
        /\ since <= now
        /\ Workable(k, id, since)
        /\ t = Composed(id, PullAt(id, since), residue, feeConfig.fee_bps,
                        feeConfig.destination)
  BY DEF StillHolds
<1> DEFINE avail == Available(d, since)
           periods == remaining_periods(p.end_ts, p.period_secs, since)
<1>2. /\ id \in DelegationIds /\ user \in Users /\ in \in Mints /\ t.pull \in Nat
  BY DEF Tx, DelegationIds
<1>3. /\ now \in Nat /\ since \in Nat /\ bal \in [Accounts -> Nat]
  BY InputTypes DEF RouterTypeOK, LedgerTypeOK
<1>4. residue \in Nat /\ pot \in Nat
  BY <1>2, <1>3, AccountsExist DEF Residue
<1>5. /\ t.pull = PullAt(id, since)
      /\ t.net = (t.pull + residue) - Fee(t.pull + residue, feeConfig.fee_bps)
      /\ t.min_out = floorOut(t.net) /\ t.fee_to = feeConfig.destination
  <2> HIDE DEF id, residue
  <2>1. /\ t.pull = PullAt(id, since) /\ t.fee_to = feeConfig.destination
        /\ t.net = (PullAt(id, since) + residue)
                     - Fee(PullAt(id, since) + residue, feeConfig.fee_bps)
        /\ t.min_out = floorOut(t.net)
    BY <1>1, ComposedFields
  <2> QED BY <2>1
<1>6. /\ Operates(in) /\ id \in Mine(k) /\ now < d.expiryTs
      /\ t.pull <= bal[Ata(user, in)] /\ t.pull + residue <= bal[Ata(Pool, Other(in))]
      /\ IF in = Usdc THEN t.pull > 0
         ELSE /\ Crankable(p, since) /\ t.pull + residue > 0
              /\ residue * periods <= pot + residue
  BY <1>1, <1>5 DEF Workable
<1>7. d \in Delegation
  BY <1>2, <1>6 DEF Mine, RouterTypeOK, RailTypeOK
<1>8. avail \in Nat
  BY <1>3, <1>7, AvailableType
<1>9. t.pull + residue \in Nat \ {0}
  BY <1>2, <1>4, <1>6, SMT
<1>10. ASSUME in = Target
       PROVE  /\ p # None /\ Due(p) /\ t.pull <= avail
              /\ t.pull + residue <= AmortizationCap(pot - t.pull, t.pull + residue,
                                       remaining_periods(p.end_ts, p.period_secs, now))
  <2>1. in # Usdc
    BY <1>10, LedgerAssumption
  <2>2. Crankable(p, since) /\ residue * periods <= pot + residue
    BY <1>6, <2>1
  <2>3. p \in SellPlan /\ p # None
    BY <1>2, <2>2 DEF Crankable, RouterTypeOK
  <2>4. /\ p.end_ts \in Nat /\ p.next_due_ts \in Nat /\ p.period_secs \in Nat \ {0}
    BY <2>3, PeriodPositive DEF SellPlan
  <2>5. Due(p)
    BY <1>1, <1>3, <2>2, <2>4, SMT DEF Crankable, Due
  <2>6. t.pull = Draw(p, since, pot, residue, avail)
    BY <1>5, <2>1 DEF PullAt
  <2>7. /\ periods \in Nat \ {0}
        /\ remaining_periods(p.end_ts, p.period_secs, now) \in Nat \ {0}
        /\ remaining_periods(p.end_ts, p.period_secs, now) <= periods
    BY <1>1, <1>3, <2>4, RemainingLaw, RemainingShrinks
  <2> HIDE DEF p, pot, residue, avail, periods
  <2>8. AmortizedDraw(pot, residue, periods) \in Int
    BY <1>4, <2>7, DivLaw, SMT DEF AmortizedDraw
  <2>9. t.pull <= AmortizedDraw(pot, residue, periods) /\ t.pull <= avail
    BY <1>2, <1>8, <2>6, <2>8, SMT DEF Draw, periods
  <2>10. residue + t.pull <= AmortizationCap(pot - t.pull, residue + t.pull,
                               remaining_periods(p.end_ts, p.period_secs, now))
    BY <1>2, <1>4, <2>2, <2>7, <2>9, DrawStaysWithinCap
  <2>11. residue + t.pull = t.pull + residue
    BY <1>2, <1>4, SMT
  <2> QED BY <2>3, <2>5, <2>9, <2>10, <2>11
<1>11. ASSUME t.pull > 0 PROVE Pulled(d) + t.pull <= d.amountPerPeriod
  <2>1. t.pull <= avail
    <3>1. CASE in = Usdc
      BY <1>5, <1>8, <3>1, SMT DEF PullAt
    <3>2. CASE in = Target
      BY <1>10, <3>2
    <3> QED BY <1>2, <3>1, <3>2 DEF Mints
  <2> QED BY <1>1, <1>2, <1>3, <1>7, <1>11, <2>1, AvailableStaysPullable
<1>12. /\ Operates(in) /\ id \in Mine(k) /\ now < d.expiryTs
       /\ t.pull <= bal[Ata(user, in)] /\ t.pull + residue <= bal[Ata(Pool, Other(in))]
  BY <1>6
<1>13. /\ t.pull > 0 => Pulled(d) + t.pull <= d.amountPerPeriod
       /\ in = Target =>
            /\ p # None /\ Due(p)
            /\ t.pull + residue <= AmortizationCap(pot - t.pull, t.pull + residue,
                                     remaining_periods(p.end_ts, p.period_secs, now))
  BY <1>10, <1>11
<1>14. Operates(t.id[2]) /\ t.id \in Mine(k) /\ now < delegation[t.id].expiryTs
  BY <1>12
<1>15. LET amount == t.pull + Residue(t.id)
       IN  /\ amount \in Nat \ {0} /\ amount <= bal[Ata(Pool, Other(t.id[2]))]
           /\ t.net = amount - Fee(amount, feeConfig.fee_bps)
           /\ t.min_out = floorOut(t.net) /\ t.fee_to = feeConfig.destination
  BY <1>5, <1>9, <1>12
<1>16. t.pull > 0 => Pulled(delegation[t.id]) + t.pull <= delegation[t.id].amountPerPeriod
  BY <1>13
<1>17. LET amount == t.pull + Residue(t.id)
       IN  t.id[2] = Target =>
             /\ p # None /\ Due(p)
             /\ amount <= AmortizationCap(bal[Ata(user, Target)] - t.pull, amount,
                            remaining_periods(p.end_ts, p.period_secs, now))
  BY <1>13
<1> QED BY <1>12, <1>14, <1>15, <1>16, <1>17

-----------------------------------------------------------------------------
(* What the chain makes of it.                                                  *)

\* A fee and a swap at par leave nothing of the input and pay the user all of it.
LEMMA SwapVerifies ==
  ASSUME RouterTypeOK, feeConfig.destination \in Wallets,
         NEW b \in [Accounts -> Nat], NEW user \in Users, NEW in \in Mints,
         NEW kind, NEW venue, NEW fee \in Nat, NEW net \in Nat, NEW floor, NEW offer,
         b[Transient(user, in)] = fee + net, net <= b[Ata(Pool, Other(in))],
         NEW min_out \in Nat, floor <= min_out, min_out <= net,
         net \in offer.amount_in, Pool \in offer.sink, net \in offer.out,
         user \in offer.payee, min_out \in offer.min_out,
         bal' = AfterSwap(b, user, in, fee, net, feeConfig.destination),
         event' = [kind |-> kind, user |-> user, amount_in |-> b[Transient(user, in)],
                   fee |-> fee, venue |-> venue]
  PROVE  SkimSwapAndVerify(b, kind, user, in, venue, fee, floor, offer)
<1> DEFINE out     == Other(in)
           source  == Transient(user, in)
           pool    == Ata(Pool, out)
           dest    == Ata(user, out)
           wallet  == Ata(feeConfig.destination, in)
           venueIn == Ata(Pool, in)
           skimmed == Transfer(b, source, wallet, fee)
           taken   == Takes(skimmed, source, venueIn, net)
<1>1. feeConfig.destination \in Wallets /\ out \in Mints /\ out # in /\ user \in Wallets
  BY LedgerAssumption DEF RouterTypeOK, FeeConfig, Other, Mints
<1>2. /\ source \in Accounts /\ pool \in Accounts /\ dest \in Accounts
      /\ wallet \in Accounts /\ venueIn \in Accounts
  BY <1>1, AccountsExist
<1>3. /\ source # wallet /\ source # venueIn /\ source # pool /\ source # dest
      /\ pool # dest /\ pool # wallet /\ pool # venueIn /\ dest # wallet /\ dest # venueIn
  BY <1>1, LedgerAssumption DEF Ata, Transient
<1> HIDE DEF source, pool, dest, wallet, venueIn
<1>4. b[source] = fee + net /\ net <= b[pool]
  BY DEF source, pool
<1>5. /\ skimmed \in [Accounts -> Nat] /\ skimmed[source] = net
      /\ skimmed[pool] = b[pool] /\ skimmed[dest] = b[dest]
  <2>1. fee <= b[source]
    BY <1>4, SMT
  <2>2. skimmed \in [Accounts -> Nat]
    BY <1>2, <2>1, TransferType
  <2>3. skimmed[source] = b[source] - fee
    BY <1>2, <1>3 DEF Transfer
  <2>4. skimmed[pool] = b[pool] /\ skimmed[dest] = b[dest]
    BY <1>2, <1>3 DEF Transfer
  <2> QED BY <1>4, <2>2, <2>3, <2>4, SMT
<1> HIDE DEF skimmed
<1>6. /\ taken \in [Accounts -> Nat] /\ taken[source] = 0
      /\ taken[pool] = b[pool] /\ taken[dest] = b[dest]
  <2>1. taken \in [Accounts -> Nat]
    BY <1>2, <1>5, TransferType DEF Takes
  <2>2. taken[source] = skimmed[source] - net
    BY <1>2, <1>3, <1>5 DEF Takes, Transfer
  <2>3. taken[pool] = skimmed[pool] /\ taken[dest] = skimmed[dest]
    BY <1>2, <1>3, <1>5 DEF Takes, Transfer
  <2> QED BY <1>5, <2>1, <2>2, <2>3, SMT
<1> HIDE DEF taken
<1>7. bal' = Pays(taken, pool, dest, net)
  BY DEF AfterSwap, source, pool, dest, wallet, venueIn, skimmed, taken
<1>8. bal'[dest] - b[dest] = net
  <2>1. bal'[dest] = taken[dest] + net
    BY <1>2, <1>3, <1>6, <1>7 DEF Pays, Transfer
  <2>2. b[dest] \in Nat
    BY <1>2
  <2> QED BY <1>6, <2>1, <2>2, SMT
<1>9. MinOutHolds(bal'[dest] - b[dest], floor, offer)
  BY <1>8 DEF MinOutHolds
<1>10. Drained(taken, user, in)
  BY <1>6 DEF Drained, source
<1>11. net \in 0..skimmed[source]
  BY <1>5, SMT
<1>12. net <= taken[pool]
  BY <1>4, <1>6
<1> QED
  BY <1>7, <1>9, <1>10, <1>11, <1>12
  DEF SkimSwapAndVerify, source, pool, dest, wallet, venueIn, skimmed, taken

\* A token account holds a u64.
AmountsFit == \A a \in Accounts : bal[a] < U64

\* What the pull leaves: the whole amount in the transient, the rest of the pot, and
\* the pool as it was.
LEMMA BeforeBalances ==
  ASSUME RouterTypeOK, NEW t \in Tx, t.pull <= bal[Ata(t.id[1], t.id[2])]
  PROVE  LET user == t.id[1]
             in   == t.id[2]
             b    == Before(t)
         IN  /\ b \in [Accounts -> Nat]
             /\ b[Transient(user, in)] = t.pull + Residue(t.id)
             /\ b[Ata(user, in)] = bal[Ata(user, in)] - t.pull
             /\ b[Ata(Pool, Other(in))] = bal[Ata(Pool, Other(in))]
<1> DEFINE user    == t.id[1]
           in      == t.id[2]
           wallet  == Ata(user, in)
           transit == Transient(user, in)
           pool    == Ata(Pool, Other(in))
           b       == Before(t)
<1>1. user \in Users /\ in \in Mints /\ t.pull \in Nat
  BY DEF Tx, DelegationIds
<1>2. wallet \in Accounts /\ transit \in Accounts /\ pool \in Accounts
  BY <1>1, AccountsExist
<1>3. wallet # transit /\ wallet # pool /\ transit # pool
  <2>1. Ata(user, in) # Transient(user, in)
    BY <1>1, AccountsDiffer
  <2>2. Ata(user, in) # Ata(Pool, Other(in)) /\ Transient(user, in) # Ata(Pool, Other(in))
    BY <1>1, AccountsDiffer, AccountsExist
  <2> QED BY <2>1, <2>2
<1>4. bal \in [Accounts -> Nat]
  BY DEF RouterTypeOK, LedgerTypeOK
<1>5. Residue(t.id) = bal[transit] /\ t.pull <= bal[wallet]
  BY DEF Residue
<1>6. b = IF t.pull = 0 THEN bal ELSE Transfer(bal, wallet, transit, t.pull)
  BY DEF Before, AfterPull
<1> HIDE DEF b, wallet, transit, pool
<1>7. CASE t.pull = 0
  <2>1. b = bal
    BY <1>6, <1>7
  <2> QED
    BY <1>2, <1>4, <1>5, <1>7, <2>1, SMT DEF b, wallet, transit, pool
<1>8. CASE t.pull # 0
  <2>1. b = Transfer(bal, wallet, transit, t.pull)
    BY <1>6, <1>8
  <2>2. b \in [Accounts -> Nat]
    BY <1>1, <1>2, <1>4, <1>5, <2>1, TransferType
  <2>3. b[transit] = bal[transit] + t.pull /\ b[wallet] = bal[wallet] - t.pull /\ b[pool] = bal[pool]
    BY <1>2, <1>3, <1>4, <2>1 DEF Transfer
  <2>4. b[transit] = t.pull + Residue(t.id)
    BY <1>1, <1>2, <1>4, <1>5, <2>3, SMT
  <2> QED BY <2>2, <2>3, <2>4 DEF b, wallet, transit, pool
<1> QED BY <1>7, <1>8

LEMMA OutcomeExecutes ==
  ASSUME RouterTypeOK, AmountsFit, WidthsMatch(TargetDecimals),
         NEW k \in Daemons, NEW t \in Tx, StillHolds(k, t), Outcome(t)
  PROVE  Execute(k, t)
<1> DEFINE user    == t.id[1]
           in      == t.id[2]
           b       == Before(t)
           amount  == t.pull + Residue(t.id)
           fee     == Fee(amount, feeConfig.fee_bps)
           p       == plan[user]
           scale   == Scale(config.target_decimals)
           buyLow  == price_floor(t.net, config.price_ref_micros,
                        config.target_decimals, config.max_slippage_bps)
           sellLow == sell_floor(t.net, config.price_ref_micros,
                        config.target_decimals, config.max_slippage_bps)
<1>1. /\ user \in Users /\ in \in Mints /\ t.pull \in Nat /\ t.net \in Nat /\ t.min_out \in Nat
  BY DEF Tx, DelegationIds
<1>2. /\ Operates(in) /\ t.id \in Mine(k) /\ now < delegation[t.id].expiryTs
      /\ t.pull <= bal[Ata(user, in)]
      /\ amount \in Nat \ {0} /\ amount <= bal[Ata(Pool, Other(in))]
      /\ t.net = amount - fee
      /\ t.min_out = floorOut(t.net) /\ t.fee_to = feeConfig.destination
      /\ t.pull > 0 => Pulled(delegation[t.id]) + t.pull <= delegation[t.id].amountPerPeriod
  BY StillHoldsFacts
<1>3. in = Target =>
        /\ p # None /\ Due(p)
        /\ amount <= AmortizationCap(bal[Ata(user, Target)] - t.pull, amount,
                       remaining_periods(p.end_ts, p.period_secs, now))
  BY StillHoldsFacts
<1>4. /\ b \in [Accounts -> Nat] /\ b[Transient(user, in)] = amount
      /\ b[Ata(user, in)] = bal[Ata(user, in)] - t.pull
      /\ b[Ata(Pool, Other(in))] = bal[Ata(Pool, Other(in))]
  BY <1>2, BeforeBalances
<1>5. /\ config # None /\ feeConfig # None /\ CanExecute(MS, in) /\ feeConfig.destination \in Wallets
      /\ config.price_ref_micros = scale
      /\ config.max_slippage_bps \in 0..BPS /\ SLIPPAGE_BPS <= config.max_slippage_bps
  BY <1>2 DEF Operates, CanExecute, RouterTypeOK, Config
<1>6. /\ feeConfig.fee_bps \in 0..MAX_FEE_BPS
      /\ scale \in Nat \ {0} /\ WidthsMatch(config.target_decimals)
  BY <1>5, ScaleAssumption DEF RouterTypeOK, FeeConfig, Config
<1>7. fee \in Nat /\ amount = fee + t.net /\ t.net <= amount /\ t.net > 0
  <2>1. fee \in 0..amount /\ amount - fee \in Nat \ {0}
    BY <1>2, <1>6, FeeWithinInput, NetPositive
  <2> HIDE DEF fee, amount
  <2> QED BY <1>1, <1>2, <2>1, SMT
<1>8. t.net < U64 /\ t.net <= b[Ata(Pool, Other(in))]
  <2>1. Ata(Pool, Other(in)) \in Accounts
    BY <1>1, AccountsExist
  <2>2. bal[Ata(Pool, Other(in))] < U64 /\ bal[Ata(Pool, Other(in))] \in Nat /\ U64 \in Nat
    BY <2>1, WidthAssumption DEF AmountsFit, RouterTypeOK, LedgerTypeOK
  <2> HIDE DEF amount
  <2> QED BY <1>1, <1>2, <1>4, <1>7, <2>2, SMT
<1>9. /\ BuyFloorComputes(t.net, config.price_ref_micros, config.target_decimals,
                          config.max_slippage_bps)
      /\ SellFloorComputes(t.net, config.price_ref_micros, config.target_decimals,
                           config.max_slippage_bps)
      /\ buyLow <= Discount(t.net, SLIPPAGE_BPS) /\ sellLow <= Discount(t.net, SLIPPAGE_BPS)
      /\ Discount(t.net, SLIPPAGE_BPS) <= t.net
  BY <1>1, <1>5, <1>6, <1>8, DaemonAssumption, FloorAtPar
<1>10. t.min_out = Discount(t.net, SLIPPAGE_BPS)
  BY <1>2 DEF floorOut, Discount
<1>11. PullsFor(k, t)
  <2>1. t.pull # 0 => t.pull > 0
    BY <1>1, SMT
  <2>2. delegation[t.id] # None /\ delegation[t.id].delegatee = k
    BY <1>2 DEF Mine
  <2>3. t.pull = 0 => UNCHANGED delegation
    BY DEF Outcome
  <2>4. t.pull # 0 => Charge(t.id, t.pull)
    BY DEF Outcome
  <2> QED BY <1>2, <2>1, <2>2, <2>3, <2>4 DEF PullsFor, CanPull
<1>12. /\ t.net \in Offer(t).amount_in /\ Pool \in Offer(t).sink /\ t.net \in Offer(t).out
       /\ user \in Offer(t).payee /\ t.min_out \in Offer(t).min_out
  BY DEF Offer
<1>13. bal' = AfterSwap(b, user, in, fee, t.net, feeConfig.destination)
  BY <1>4 DEF Outcome
<1>14. event' = [kind |-> IF in = Usdc THEN "buy" ELSE "sell", user |-> user,
                 amount_in |-> b[Transient(user, in)], fee |-> fee, venue |-> MS]
  BY <1>4 DEF Outcome
<1>15. CASE in = Usdc
  <2>1. SkimSwapAndVerify(b, "buy", user, Usdc, MS, fee, buyLow, Offer(t))
    <3>1. event' = [kind |-> "buy", user |-> user, amount_in |-> b[Transient(user, in)],
                    fee |-> fee, venue |-> MS]
      BY <1>14, <1>15
    <3> HIDE DEF b, fee, amount, buyLow
    <3>2. SkimSwapAndVerify(b, "buy", user, in, MS, fee, buyLow, Offer(t))
      BY <1>1, <1>4, <1>5, <1>7, <1>8, <1>9, <1>10, <1>12, <1>13, <3>1, SwapVerifies
    <3> QED BY <1>15, <3>2
  <2>2. UNCHANGED <<now, config, feeConfig, plan, approved, history>>
    BY <1>15 DEF Outcome
  <2>3. ExecuteBuy(b, user, MS, Offer(t))
    <3> HIDE DEF b
    <3>1. b[Transient(user, Usdc)] = amount /\ amount > 0
      BY <1>2, <1>4, <1>15
    <3> HIDE DEF amount, user
    <3> QED BY <1>2, <1>5, <1>7, <1>9, <1>15, <2>1, <2>2, <3>1 DEF ExecuteBuy
  <2> QED BY <1>2, <1>5, <1>11, <1>15, <2>3 DEF Execute, Before
<1>16. CASE in = Target
  <2>1. SkimSwapAndVerify(b, "sell", user, Target, MS, fee, sellLow, Offer(t))
    <3>1. event' = [kind |-> "sell", user |-> user, amount_in |-> b[Transient(user, in)],
                    fee |-> fee, venue |-> MS]
      BY <1>14, <1>16, LedgerAssumption
    <3> HIDE DEF b, fee, amount, sellLow
    <3>2. SkimSwapAndVerify(b, "sell", user, in, MS, fee, sellLow, Offer(t))
      BY <1>1, <1>4, <1>5, <1>7, <1>8, <1>9, <1>10, <1>12, <1>13, <3>1, SwapVerifies
    <3> QED BY <1>16, <3>2
  <2>2. /\ UNCHANGED <<now, config, feeConfig, approved>>
        /\ plan' = [plan EXCEPT ![user].next_due_ts =
                      NextDue(p.next_due_ts, p.period_secs, now)]
        /\ history' = [history EXCEPT
             ![user].slots = @ \cup {Slot(user, now)},
             ![user].sells = @ + 1,
             ![user].late = IF now > p.end_ts THEN @ + 1 ELSE @]
    BY <1>16, LedgerAssumption DEF Outcome
  <2>3. WithinSchedule(b, user, amount)
    BY <1>3, <1>4, <1>16 DEF WithinSchedule
  <2>4. ExecuteSell(b, user, MS, Offer(t))
    <3> HIDE DEF b
    <3>1. b[Transient(user, Target)] = amount /\ amount > 0
      BY <1>2, <1>4, <1>16
    <3> HIDE DEF amount, user
    <3> QED BY <1>2, <1>3, <1>5, <1>7, <1>9, <1>16, <2>1, <2>2, <2>3, <3>1 DEF ExecuteSell
  <2>5. in # Usdc
    BY <1>16, LedgerAssumption
  <2> QED BY <1>2, <1>5, <1>11, <2>4, <2>5 DEF Execute, Before
<1> QED BY <1>1, <1>15, <1>16 DEF Mints

\* MirrorLands (daemon.mjs on itself, AUDIT.md M2-5): a transaction composed from what
\* still is the case is accepted, whatever has happened in between and however much
\* later it arrives.  MirrorAgrees says ENABLED Land(k, s); here is the step that
\* Outcome describes, one equation for each variable, and it is a Land(k, s).  The two
\* hypotheses are of the program's widths, and of the token program's.
THEOREM MirrorLands ==
  ASSUME DInv, AmountsFit, WidthsMatch(TargetDecimals),
         NEW k \in Daemons, NEW s \in 1..InFlight,
         flight[k][s] # None, StillHolds(k, flight[k][s]),
         Outcome(flight[k][s]), Forget(k, s), UNCHANGED <<pc, seen, todo, item>>
  PROVE  Land(k, s)
<1>1. RouterTypeOK /\ flight[k][s] \in Tx
  <2>1. IInv /\ OwnTypeOK
    BY DInvParts
  <2>2. flight[k][s] \in Tx \cup {None}
    BY <2>1 DEF OwnTypeOK
  <2> QED BY <2>1, <2>2 DEF IInv, TypeOK
<1>2. Execute(k, flight[k][s])
  BY <1>1, OutcomeExecutes
<1> QED BY <1>2 DEF Land
=============================================================================
