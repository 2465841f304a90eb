---------------------------- MODULE CustodyProofs ----------------------------
(* Proof that the property of every user implements the abstract custody, as   *)
(* long as no floor is beyond the width of a u64.                              *)
EXTENDS RouterProofs

-----------------------------------------------------------------------------
(* What the rail lets be pulled.                                               *)

LEMMA PullableType ==
  ASSUME RouterTypeOK, NEW id \in DelegationIds
  PROVE  Pullable(delegation[id]) \in Int
<1> DEFINE d == delegation[id]
<1>1. d \in Delegation \cup {None} /\ now \in Nat
  BY InputTypes DEF RouterTypeOK, RailTypeOK, LedgerTypeOK
<1>2. CASE d = None
  BY <1>2 DEF Pullable
<1>3. CASE d # None
  <2>1. d.amountPerPeriod \in Nat /\ d.amountPulledInPeriod \in Nat
    BY <1>1, <1>3 DEF Delegation
  <2>2. Pulled(d) \in Nat
    BY <2>1 DEF Pulled
  <2> HIDE DEF d
  <2>3. Pullable(d) \in Int
    BY <2>1, <2>2, SMT DEF Pullable
  <2> QED BY <2>3 DEF d
<1> QED BY <1>2, <1>3

\* A pull takes what it pulls from what may be pulled along its delegation: the period
\* that it starts, if it does, is the one that now is in.
LEMMA PullSpends ==
  ASSUME RouterTypeOK, NEW id \in DelegationIds, NEW x \in Nat, CanPull(id, x), Charge(id, x),
         now' = now
  PROVE  Pullable(delegation[id]) - Pullable(delegation[id])' = x
<1> DEFINE d == delegation[id]
           e == delegation'[id]
<1>1. /\ d \in Delegation /\ d # None /\ now < d.expiryTs /\ now \in Nat
      /\ d.amountPerPeriod \in Nat /\ d.periodLengthS \in Nat \ {0}
      /\ d.currentPeriodStartTs \in Nat /\ d.amountPulledInPeriod \in Nat
      /\ d.expiryTs \in Nat
  BY InputTypes DEF CanPull, RouterTypeOK, RailTypeOK, LedgerTypeOK, Delegation
<1>2. /\ e.currentPeriodStartTs = PeriodStart(d)
      /\ e.amountPulledInPeriod = Pulled(d) + x
      /\ e.periodLengthS = d.periodLengthS
      /\ e.amountPerPeriod = d.amountPerPeriod
      /\ e.expiryTs = d.expiryTs
      /\ e # None
  <2>1. delegation' = [delegation EXCEPT ![id] =
          [d EXCEPT !.currentPeriodStartTs = PeriodStart(d),
                    !.amountPulledInPeriod = Pulled(d) + x]]
    BY DEF Charge, RouterTypeOK, RailTypeOK
  <2>2. e = [d EXCEPT !.currentPeriodStartTs = PeriodStart(d),
                      !.amountPulledInPeriod = Pulled(d) + x]
    BY <2>1 DEF RouterTypeOK, RailTypeOK
  <2>3. e \in Delegation
    BY PullType
  <2> HIDE DEF d, e
  <2>4. /\ e.currentPeriodStartTs = PeriodStart(d)
        /\ e.amountPulledInPeriod = Pulled(d) + x
        /\ e.periodLengthS = d.periodLengthS
        /\ e.amountPerPeriod = d.amountPerPeriod
        /\ e.expiryTs = d.expiryTs
    BY <1>1, <2>2 DEF Delegation
  <2>5. e # None
    BY <2>3, RailAssumption
  <2> QED BY <2>4, <2>5
<1>3. ~(now - PeriodStart(d) >= d.periodLengthS)
  <2>1. CASE Rolled(d)
    <3> DEFINE q == (now - d.currentPeriodStartTs) \div d.periodLengthS
    <3>1. now - d.currentPeriodStartTs \in Nat
      BY <1>1, <2>1, SMT DEF Rolled
    <3>2. /\ q \in Nat
          /\ now - d.currentPeriodStartTs < d.periodLengthS * q + d.periodLengthS
      BY <1>1, <3>1, DivLaw
    <3>3. PeriodStart(d) = d.currentPeriodStartTs + q * d.periodLengthS
      BY <2>1 DEF PeriodStart
    <3>4. q * d.periodLengthS \in Nat /\ q * d.periodLengthS = d.periodLengthS * q
      BY <1>1, <3>2, SMT
    <3> HIDE DEF d, q
    <3> QED BY <1>1, <3>2, <3>3, <3>4, SMT
  <2>2. CASE ~Rolled(d)
    BY <2>2 DEF PeriodStart, Rolled
  <2> QED BY <2>1, <2>2
<1>4. Pulled(d) \in Nat
  BY <1>1 DEF Pulled
<1>5. Pullable(d) = d.amountPerPeriod - Pulled(d)
  BY <1>1, SMT DEF Pullable
<1>6. Pullable(delegation[id])' = d.amountPerPeriod - (Pulled(d) + x)
  <2>1. /\ now' = now
        /\ Pullable(delegation[id])' =
             IF e = None THEN 0
             ELSE IF now' >= e.expiryTs THEN 0
             ELSE e.amountPerPeriod - Pulled(delegation[id])'
        /\ Pulled(delegation[id])' =
             IF now' - e.currentPeriodStartTs >= e.periodLengthS
             THEN 0 ELSE e.amountPulledInPeriod
    BY DEF Pullable, Pulled, Rolled
  <2> HIDE DEF d, e
  <2> QED BY <1>1, <1>2, <1>3, <2>1, SMT
<1> HIDE DEF d
<1> QED BY <1>1, <1>4, <1>5, <1>6, SMT DEF d

-----------------------------------------------------------------------------
(* What an execution does to the accounts.                                     *)

LEMMA TransferGains ==
  ASSUME NEW b \in [Accounts -> Nat], NEW from \in Accounts, NEW to \in Accounts,
         NEW x \in Nat, x <= b[from]
  PROVE  /\ Transfer(b, from, to, x) \in [Accounts -> Nat]
         /\ \A a \in Accounts : a # from => Transfer(b, from, to, x)[a] >= b[a]
<1>1. Transfer(b, from, to, x) \in [Accounts -> Nat]
  BY TransferType
<1>2. ASSUME NEW a \in Accounts, a # from PROVE Transfer(b, from, to, x)[a] >= b[a]
  BY <1>2, SMT DEF Transfer
<1> QED BY <1>1, <1>2

\* A user's accounts are not the pool's, and the transient account of one mint is not
\* any account of the other.
LEMMA AccountsDiffer ==
  ASSUME NEW u \in Users, NEW v \in Users, NEW m \in Mints, NEW n \in Mints
  PROVE  /\ Ata(u, m) # Ata(Pool, n) /\ Transient(u, m) # Ata(Pool, n)
         /\ Ata(u, m) # Transient(v, n)
         /\ u # v => Ata(u, m) # Ata(v, n) /\ Transient(u, m) # Transient(v, n)
         /\ Other(m) # m /\ Other(m) \in Mints
         /\ \A o \in Owners : Transient(u, m) # Ata(o, Other(m))
  BY LedgerAssumption DEF Ata, Transient, Pda, Other, Mints

\* An execution clears the transient account of its input, takes from no account but
\* that one and the pool's, and pays the user the floor.
LEMMA SettleGains ==
  ASSUME RouterTypeOK, NEW b \in [Accounts -> Nat], NEW offer, Sound(offer),
         NEW user \in Users, NEW in \in Mints, NEW venue,
         NEW fee \in Nat, NEW floor \in Int, NEW kind,
         feeConfig # None, fee <= b[Transient(user, in)],
         SkimSwapAndVerify(b, kind, user, in, venue, fee, floor, offer)
  PROVE  /\ bal' \in [Accounts -> Nat] /\ bal'[Transient(user, in)] = 0
         /\ \A a \in Accounts :
              a # Transient(user, in) /\ a # Ata(Pool, Other(in)) => bal'[a] >= b[a]
         /\ bal'[Ata(user, Other(in))] - b[Ata(user, Other(in))] >= floor
<1> DEFINE out     == Other(in)
           source  == Transient(user, in)
           pool    == Ata(Pool, out)
           skimmed == Transfer(b, source, Ata(feeConfig.destination, in), fee)
<1>1. /\ Ata(feeConfig.destination, in) \in Accounts
      /\ source \in Accounts /\ pool \in Accounts /\ out \in Mints
      /\ Ata(user, out) \in Accounts
  BY AccountsExist DEF RouterTypeOK, FeeConfig
<1>2. PICK amount_in \in 0..skimmed[source], sink \in offer.sink,
           out_amount \in offer.out, payee \in offer.payee :
        LET taken == Takes(skimmed, source, Ata(sink, in), amount_in)
        IN  /\ Drained(taken, user, in)
            /\ out_amount <= taken[pool]
            /\ bal' = Pays(taken, pool, Ata(payee, out), out_amount)
            /\ MinOutHolds(bal'[Ata(user, out)] - b[Ata(user, out)], floor, offer)
  BY DEF SkimSwapAndVerify
<1> DEFINE taken == Takes(skimmed, source, Ata(sink, in), amount_in)
<1>3. Ata(sink, in) \in Accounts /\ Ata(payee, out) \in Accounts /\ payee \in Owners
      /\ out_amount \in Nat
  BY <1>1, AccountsExist DEF Sound
<1>4. /\ skimmed \in [Accounts -> Nat]
      /\ \A a \in Accounts : a # source => skimmed[a] >= b[a]
  BY <1>1, TransferGains
<1>5. /\ taken \in [Accounts -> Nat]
      /\ \A a \in Accounts : a # source => taken[a] >= skimmed[a]
  <2>1. skimmed[source] \in Nat
    BY <1>1, <1>4
  <2>2. amount_in \in Nat /\ amount_in <= skimmed[source]
    BY <2>1, SMT
  <2> HIDE DEF skimmed, source
  <2> QED BY <1>1, <1>3, <1>4, <2>2, TransferGains DEF Takes
<1>6. /\ taken[source] = 0
      /\ out_amount <= taken[pool]
      /\ bal' = Transfer(taken, pool, Ata(payee, out), out_amount)
      /\ MinOutHolds(bal'[Ata(user, out)] - b[Ata(user, out)], floor, offer)
  BY <1>2 DEF Drained, Pays
<1>7. source # pool /\ source # Ata(payee, out)
  BY <1>3, AccountsDiffer, AccountsExist
<1> HIDE DEF taken, skimmed, source, pool, out
<1>8. /\ bal' \in [Accounts -> Nat]
      /\ \A a \in Accounts : a # pool => bal'[a] >= taken[a]
  BY <1>1, <1>3, <1>5, <1>6, TransferGains
<1>9. bal'[source] = 0
  BY <1>1, <1>5, <1>6, <1>7 DEF Transfer
<1>10. ASSUME NEW a \in Accounts, a # source, a # pool PROVE bal'[a] >= b[a]
  <2>1. /\ bal'[a] \in Nat /\ taken[a] \in Nat /\ skimmed[a] \in Nat /\ b[a] \in Nat
        /\ bal'[a] >= taken[a] /\ taken[a] >= skimmed[a] /\ skimmed[a] >= b[a]
    BY <1>4, <1>5, <1>8, <1>10
  <2> QED BY <2>1, SMT
<1>11. bal'[Ata(user, out)] - b[Ata(user, out)] >= floor
  <2>1. PICK min_out \in offer.min_out :
          floor <= min_out /\ min_out <= bal'[Ata(user, out)] - b[Ata(user, out)]
    BY <1>6 DEF MinOutHolds
  <2>2. min_out \in Int /\ bal'[Ata(user, out)] - b[Ata(user, out)] \in Int
    BY <1>1, <1>8 DEF Sound
  <2> QED BY <2>1, <2>2, SMT
<1> QED BY <1>8, <1>9, <1>10, <1>11 DEF source, pool, out

-----------------------------------------------------------------------------
(* What an execution of either direction comes to.                             *)

\* execute_buy or execute_sell, by the mint that is sold.
Executes(b, user, in, venue, offer) ==
  \/ in = Usdc /\ ExecuteBuy(b, user, venue, offer)
  \/ in = Target /\ ExecuteSell(b, user, venue, offer)

\* All that a user holds of a mint is worth no more of the other than a u64 can say.
FloorsFit ==
  config # None /\ config.price_ref_micros > 0 =>
    \A u \in Users, m \in Mints : Worth(m, Holdings(bal, u, m)) < U64

LEMMA ConfigTypes ==
  ASSUME RouterTypeOK, config # None
  PROVE  /\ config.price_ref_micros \in Nat
         /\ config.target_decimals = TargetDecimals
         /\ config.max_slippage_bps \in 0..BPS
  BY DEF RouterTypeOK, Config

LEMMA ExecutionRuns ==
  ASSUME IInv, NEW b \in [Accounts -> Nat], NEW user \in Users, NEW in \in Mints,
         NEW venue, NEW offer, Sound(offer), Executes(b, user, in, venue, offer)
  PROVE  LET amount == b[Transient(user, in)]
             net    == amount - Fee(amount, feeConfig.fee_bps)
         IN  /\ Running /\ config.price_ref_micros > 0 /\ amount > 0
             /\ in = Target => Awaits(plan[user]) /\ ~Awaits(plan[user])'
             /\ in = Usdc => plan' = plan
             /\ \A v \in Users : v # user => plan'[v] = plan[v]
             /\ UNCHANGED <<now, config, feeConfig>>
             /\ bal' \in [Accounts -> Nat] /\ bal'[Transient(user, in)] = 0
             /\ \A a \in Accounts :
                  a # Transient(user, in) /\ a # Ata(Pool, Other(in)) => bal'[a] >= b[a]
             /\ bal'[Ata(user, Other(in))] - b[Ata(user, Other(in))] >= Worth(in, net) % U64
<1> DEFINE amount == b[Transient(user, in)]
           fee    == Fee(amount, feeConfig.fee_bps)
           net    == amount - fee
<1>1. RouterTypeOK
  BY IInvByUser
<1>2. /\ Running /\ config # None /\ feeConfig # None /\ amount > 0
      /\ config.price_ref_micros > 0 /\ UNCHANGED <<now, config, feeConfig>>
  BY DEF Executes, ExecuteBuy, ExecuteSell, CanExecute, Running, BuyFloorComputes,
         SellFloorComputes
<1>3. amount \in Nat /\ fee \in Nat /\ fee <= amount
  BY <1>1, <1>2, FeeCovered
<1>4. \E kind :
        SkimSwapAndVerify(b, kind, user, in, venue, fee, Worth(in, net) % U64, offer)
  <2>1. config.target_decimals = TargetDecimals
    BY <1>1, <1>2, ConfigTypes
  <2>2. Usdc # Target
    BY LedgerAssumption
  <2> QED BY <2>1, <2>2 DEF Executes, ExecuteBuy, ExecuteSell, Worth, price_floor, sell_floor
<1>5. Worth(in, net) \in Nat
  <2>1. net \in Nat
    BY <1>3, SMT
  <2>2. /\ config.price_ref_micros \in Nat \ {0} /\ config.max_slippage_bps \in 0..BPS
        /\ Scale(TargetDecimals) \in Nat \ {0}
    BY <1>1, <1>2, ConfigTypes, ScaleAssumption
  <2>3. net <= net
    BY <2>1, SMT
  <2> HIDE DEF net
  <2> QED BY <2>1, <2>2, <2>3, WorthMonotone DEF Worth
<1>6. Worth(in, net) % U64 \in Int
  BY <1>5, WidthAssumption, SMT
<1> HIDE DEF amount, fee, net
<1>7. /\ bal' \in [Accounts -> Nat] /\ bal'[Transient(user, in)] = 0
      /\ \A a \in Accounts :
           a # Transient(user, in) /\ a # Ata(Pool, Other(in)) => bal'[a] >= b[a]
      /\ bal'[Ata(user, Other(in))] - b[Ata(user, Other(in))] >= Worth(in, net) % U64
  BY <1>1, <1>2, <1>3, <1>4, <1>6, SettleGains DEF amount
<1>8. in = Usdc => plan' = plan
  BY LedgerAssumption DEF Executes, ExecuteBuy
<1>9. \A v \in Users : v # user => plan'[v] = plan[v]
  BY <1>1 DEF Executes, ExecuteBuy, ExecuteSell, RouterTypeOK
<1>10. in = Target => Awaits(plan[user]) /\ ~Awaits(plan[user])'
  <2> SUFFICES ASSUME in = Target PROVE Awaits(plan[user]) /\ ~Awaits(plan[user])'
    OBVIOUS
  <2> DEFINE p == plan[user]
             gate == NextDue(p.next_due_ts, p.period_secs, now)
  <2>1. /\ p # None /\ Due(p)
        /\ plan' = [plan EXCEPT ![user].next_due_ts = gate]
    BY LedgerAssumption DEF Executes, ExecuteSell
  <2>2. /\ p \in SellPlan /\ now \in Nat /\ now >= p.next_due_ts
        /\ p.period_secs \in Nat \ {0} /\ p.next_due_ts \in Nat
    BY <1>1, <2>1, SellSteps
  <2>3. gate \in Nat /\ gate > now
    BY <2>2, NextDueLaw
  <2>4. plan'[user] = [p EXCEPT !.next_due_ts = gate]
    BY <1>1, <2>1 DEF RouterTypeOK
  <2> HIDE DEF p, gate
  <2>5. plan'[user].next_due_ts = gate
    BY <2>2, <2>4 DEF SellPlan
  <2>6. ~(plan'[user].next_due_ts <= now')
    BY <1>2, <2>2, <2>3, <2>5, SMT
  <2>7. p.next_due_ts <= now
    BY <2>2, SMT
  <2> QED BY <2>1, <2>6, <2>7 DEF Awaits, Due, p
<1> QED BY <1>2, <1>7, <1>8, <1>9, <1>10 DEF amount, fee, net

-----------------------------------------------------------------------------
(* The refinement, one kind of step after the other.                           *)

\* A delegation that a step leaves alone, with the clock, lets as much be pulled.
LEMMA LineKept ==
  ASSUME NEW id, delegation'[id] = delegation[id], now' = now
  PROVE  Pullable(delegation[id])' = Pullable(delegation[id])
  BY DEF Pullable, Pulled, Rolled

\* The allowance along one line goes down by x, and no other moves.
LEMMA DrawsAlong ==
  ASSUME RouterTypeOK, NEW u \in Users, NEW in \in Mints, NEW n \in Nonces, NEW x \in Nat,
         x <= bal[Ata(u, in)], now' = now,
         Pullable(delegation[<<u, in, n>>]) - Pullable(delegation[<<u, in, n>>])' = x,
         \A id \in DelegationIds : id # <<u, in, n>> => delegation'[id] = delegation[id]
  PROVE  Vault(u)!Drawn(<<in, n>>) = x /\ Vault(u)!Draws(<<in, n>>)
<1>1. <<in, n>> \in Mints \X Nonces /\ <<in, n>>[1] = in /\ <<in, n>>[2] = n
  OBVIOUS
<1>2. Vault(u)!Drawn(<<in, n>>) = x
  BY <1>1 DEF Vault!Drawn
<1>3. \A l \in Mints \X Nonces : l # <<in, n>> =>
        Pullable(delegation[<<u, l[1], l[2]>>])' = Pullable(delegation[<<u, l[1], l[2]>>])
  BY LineKept DEF DelegationIds
<1> QED BY <1>1, <1>2, <1>3, SMT DEF Vault!Draws, Vault!Assets, Mints

LEMMA PullsAlong ==
  ASSUME RouterTypeOK, NEW u \in Users, NEW in \in Mints, NEW n \in Nonces,
         Pull(u, in, n)
  PROVE  Vault(u)!Pull(<<in, n>>)
<1> DEFINE id == <<u, in, n>>
<1>1. PICK x \in PullAmount : CanPull(id, x) /\ bal' = AfterPull(id, x) /\ Charge(id, x)
  BY DEF Pull, TransferRecurring
<1>2. x \in Nat /\ now' = now /\ UNCHANGED <<config, feeConfig, plan>>
      /\ id \in DelegationIds
  BY RailAssumption DEF Pull, TransferRecurring, OutsideProgram, DelegationIds
<1>3. x <= bal[Ata(u, in)]
  BY <1>1 DEF CanPull
<1>4. Pullable(delegation[id]) - Pullable(delegation[id])' = x
  BY <1>1, <1>2, PullSpends
<1>5. \A other \in DelegationIds : other # id => delegation'[other] = delegation[other]
  BY <1>1 DEF Charge, RouterTypeOK, RailTypeOK
<1>6. Vault(u)!Drawn(<<in, n>>) = x /\ Vault(u)!Draws(<<in, n>>)
  BY <1>2, <1>3, <1>4, <1>5, DrawsAlong
<1>7. /\ bal \in [Accounts -> Nat] /\ bal' = Transfer(bal, Ata(u, in), Transient(u, in), x)
      /\ \A m \in Mints : Ata(u, m) \in Accounts /\ Transient(u, m) \in Accounts
  BY <1>1, AccountsExist DEF AfterPull, RouterTypeOK, LedgerTypeOK
<1>8. \A m \in Mints :
        /\ bal'[Ata(u, m)] = IF m = in THEN bal[Ata(u, m)] - x ELSE bal[Ata(u, m)]
        /\ bal'[Transient(u, m)] = IF m = in THEN bal[Transient(u, m)] + x
                                             ELSE bal[Transient(u, m)]
  <2>1. \A m \in Mints : /\ Ata(u, m) # Transient(u, in) /\ Transient(u, m) # Ata(u, in)
                         /\ m # in => Ata(u, m) # Ata(u, in)
                         /\ m # in => Transient(u, m) # Transient(u, in)
    BY AccountsDiffer DEF Ata, Transient
  <2> QED BY <1>7, <2>1 DEF Transfer
<1>9. /\ [m \in Mints |-> bal'[Ata(u, m)]] =
           [[m \in Mints |-> bal[Ata(u, m)]] EXCEPT ![in] = @ - x]
      /\ [m \in Mints |-> bal'[Transient(u, m)]] =
           [[m \in Mints |-> bal[Transient(u, m)]] EXCEPT ![in] = @ + x]
  BY <1>8
<1>10. Running' = Running /\ Awaits(plan[u])' = Awaits(plan[u])
  BY <1>2 DEF Running, Awaits
<1> HIDE DEF id
<1> QED BY <1>2, <1>6, <1>9, <1>10 DEF Vault!Pull

\* What a trade must pay is no more than the floor it was held to: the fee was no larger
\* than the largest, and the floor was not truncated.
LEMMA FloorCovers ==
  ASSUME RouterTypeOK, FloorsFit, Running, config.price_ref_micros > 0,
         NEW u \in Users, NEW in \in Mints, NEW amount \in Nat,
         amount <= Holdings(bal, u, in)
  PROVE  LET net == amount - Fee(amount, feeConfig.fee_bps)
             y   == amount - Fee(amount, MAX_FEE_BPS)
         IN  /\ Worth(in, net) % U64 \in Int /\ Worth(in, y) \in Int
             /\ Worth(in, y) <= Worth(in, net) % U64
             /\ Worth(in, net) % U64 = Worth(in, net)
<1> DEFINE net  == amount - Fee(amount, feeConfig.fee_bps)
           y    == amount - Fee(amount, MAX_FEE_BPS)
           held == Holdings(bal, u, in)
<1>1. /\ config.price_ref_micros \in Nat \ {0} /\ config.max_slippage_bps \in 0..BPS
      /\ Scale(TargetDecimals) \in Nat \ {0}
  BY ConfigTypes, ScaleAssumption DEF Running
<1>2. /\ feeConfig.fee_bps \in 0..MAX_FEE_BPS /\ MAX_FEE_BPS \in 0..MAX_FEE_BPS
  <2>1. MAX_FEE_BPS \in 0..MAX_FEE_BPS
    BY SMT DEF MAX_FEE_BPS
  <2> QED BY <2>1 DEF Running, RouterTypeOK, FeeConfig
<1>3. /\ Fee(amount, feeConfig.fee_bps) \in 0..amount /\ Fee(amount, MAX_FEE_BPS) \in 0..amount
      /\ Fee(amount, feeConfig.fee_bps) <= Fee(amount, MAX_FEE_BPS)
  BY <1>2, FeeWithinInput, FeeWithinCap
<1>4. held \in Nat
  BY AccountsExist DEF RouterTypeOK, LedgerTypeOK, Holdings
<1>5. y \in Nat /\ net \in Nat /\ y <= net /\ net <= held
  BY <1>3, <1>4, SMT
<1>6. Worth(in, held) < U64
  BY DEF FloorsFit, Running
<1> HIDE DEF net, y, held
<1>7. /\ Worth(in, y) \in Nat /\ Worth(in, net) \in Nat /\ Worth(in, held) \in Nat
      /\ Worth(in, y) <= Worth(in, net) /\ Worth(in, net) <= Worth(in, held)
  BY <1>1, <1>4, <1>5, WorthMonotone DEF Worth
<1>8. Worth(in, net) % U64 = Worth(in, net)
  <2>1. Worth(in, net) \in 0..(U64 - 1) /\ U64 \in Nat \ {0}
    BY <1>6, <1>7, WidthAssumption, SMT
  <2> QED BY <2>1, SMT
<1> QED BY <1>7, <1>8 DEF net, y

\* The arithmetic of the abstract custody is the program's.
LEMMA SameAmounts ==
  ASSUME NEW u \in Users
  PROVE  /\ \A a, bps : Vault(u)!Fee(a, bps) = Fee(a, bps)
         /\ Vault(u)!MAX_FEE_BPS = MAX_FEE_BPS
         /\ \A a, p, d, s : Vault(u)!BuyWorth(a, p, d, s) = BuyWorth(a, p, d, s)
         /\ \A a, p, d, s : Vault(u)!SellWorth(a, p, d, s) = SellWorth(a, p, d, s)
<1>1. Vault(u)!BPS = BPS
  BY DEF Vault!BPS, BPS
<1>2. \A d : Vault(u)!Scale(d) = Scale(d)
  BY DEF Vault!Scale, Scale
<1>3. \A i, s : Vault(u)!Discount(i, s) = Discount(i, s)
  BY <1>1 DEF Vault!Discount, Discount
<1> QED BY <1>1, <1>2, <1>3 DEF Vault!Fee, Fee, Vault!MAX_FEE_BPS, MAX_FEE_BPS,
                                Vault!BuyWorth, BuyWorth, Vault!IdealBuy, IdealBuy,
                                Vault!SellWorth, SellWorth, Vault!IdealSell, IdealSell

LEMMA TradesWhole ==
  ASSUME IInv, FloorsFit, NEW u \in Users, NEW in \in Mints, NEW n \in Nonces,
         NEW x \in Nat, x <= bal[Ata(u, in)],
         NEW b \in [Accounts -> Nat], b = Transfer(bal, Ata(u, in), Transient(u, in), x),
         NEW venue, NEW offer, Sound(offer), Executes(b, u, in, venue, offer),
         Pullable(delegation[<<u, in, n>>]) - Pullable(delegation[<<u, in, n>>])' = x,
         \A id \in DelegationIds : id # <<u, in, n>> => delegation'[id] = delegation[id]
  PROVE  Vault(u)!Trade(<<in, n>>)
<1> DEFINE out    == Other(in)
           amount == b[Transient(u, in)]
           y      == amount - Fee(amount, MAX_FEE_BPS)
<1>1. RouterTypeOK /\ bal \in [Accounts -> Nat]
  BY IInvByUser DEF RouterTypeOK, LedgerTypeOK
<1>2. /\ Running /\ config.price_ref_micros > 0 /\ amount > 0
      /\ in = Target => Awaits(plan[u]) /\ ~Awaits(plan[u])'
      /\ UNCHANGED <<now, config, feeConfig>>
      /\ bal' \in [Accounts -> Nat] /\ bal'[Transient(u, in)] = 0
      /\ \A a \in Accounts : a # Transient(u, in) /\ a # Ata(Pool, out) => bal'[a] >= b[a]
      /\ bal'[Ata(u, out)] - b[Ata(u, out)] >=
           Worth(in, amount - Fee(amount, feeConfig.fee_bps)) % U64
  BY ExecutionRuns
<1>3. out \in Mints /\ out # in
      /\ \A m \in Mints : Ata(u, m) \in Accounts /\ Transient(u, m) \in Accounts
  BY AccountsDiffer, AccountsExist
<1>4. /\ Ata(u, in) # Transient(u, in) /\ Ata(u, out) # Transient(u, in)
      /\ Ata(u, out) # Ata(u, in) /\ Transient(u, out) # Transient(u, in)
      /\ Transient(u, out) # Ata(u, in)
      /\ \A m \in Mints : Ata(u, m) # Ata(Pool, out) /\ Transient(u, m) # Ata(Pool, out)
  BY <1>3, AccountsDiffer DEF Ata, Transient
<1>5. /\ amount = bal[Transient(u, in)] + x
      /\ b[Ata(u, in)] = bal[Ata(u, in)] - x
      /\ b[Ata(u, out)] = bal[Ata(u, out)]
      /\ b[Transient(u, out)] = bal[Transient(u, out)]
  BY <1>1, <1>3, <1>4 DEF Transfer
<1>6. /\ amount \in Nat /\ bal[Ata(u, in)] \in Nat /\ bal[Transient(u, in)] \in Nat
      /\ bal'[Ata(u, in)] >= b[Ata(u, in)] /\ bal'[Transient(u, out)] >= b[Transient(u, out)]
  BY <1>1, <1>2, <1>3, <1>4
<1>7. amount <= Holdings(bal, u, in)
  BY <1>5, <1>6, SMT DEF Holdings
<1>8. bal'[Ata(u, out)] - bal[Ata(u, out)] >= Worth(in, y)
  <2>1. bal[Ata(u, out)] \in Int /\ bal'[Ata(u, out)] \in Int
    BY <1>1, <1>2, <1>3
  <2>2. bal'[Ata(u, out)] - bal[Ata(u, out)] >=
          Worth(in, amount - Fee(amount, feeConfig.fee_bps)) % U64
    BY <1>2, <1>5
  <2>3. /\ Worth(in, amount - Fee(amount, feeConfig.fee_bps)) % U64 \in Int
        /\ Worth(in, y) \in Int
        /\ Worth(in, y) <= Worth(in, amount - Fee(amount, feeConfig.fee_bps)) % U64
    BY <1>1, <1>2, <1>6, <1>7, FloorCovers
  <2> HIDE DEF amount, y, out
  <2> QED BY <2>1, <2>2, <2>3, SMT
<1>9. Vault(u)!Drawn(<<in, n>>) = x /\ Vault(u)!Draws(<<in, n>>)
  BY <1>1, <1>2, DrawsAlong
<1>10. Vault(u)!Proceeds(in) = out /\ Vault(u)!Worth(in, y) = Worth(in, y)
  <2>1. config # None /\ config.target_decimals = TargetDecimals
    BY <1>1, <1>2, ConfigTypes DEF Running
  <2> QED BY <2>1, SameAmounts DEF Vault!Proceeds, Vault!Worth, Worth, Other
<1>11. Vault(u)!Fee(amount, Vault(u)!MAX_FEE_BPS) = Fee(amount, MAX_FEE_BPS)
  BY SameAmounts
<1>12. /\ config # None /\ bal'[Transient(u, out)] >= bal[Transient(u, out)]
       /\ bal'[Ata(u, in)] >= bal[Ata(u, in)] - x
  BY <1>2, <1>5, <1>6 DEF Running
<1>13. (in = Target => ~(Running /\ (in = Target => Awaits(plan[u])))')
       /\ Running /\ (in = Target => Awaits(plan[u]))
  BY <1>2
<1> HIDE DEF out, amount, y
<1> QED BY <1>2, <1>3, <1>5, <1>8, <1>9, <1>10, <1>11, <1>12, <1>13
        DEF Vault!Trade, y

\* A step that moves none of the user's tokens.
LEMMA Settles ==
  ASSUME NEW u \in Users,
         \A m \in Mints : /\ bal'[Ata(u, m)] = bal[Ata(u, m)]
                          /\ bal'[Transient(u, m)] = bal[Transient(u, m)]
  PROVE  Vault(u)!Next
<1>1. Vault(u)!Settle
  BY DEF Vault!Settle
<1> QED BY <1>1 DEF Vault!Next

\* A step in which the user only gains, and nothing of the user's terms changes.
LEMMA Receives ==
  ASSUME NEW u \in Users,
         \A m \in Mints : /\ bal'[Ata(u, m)] >= bal[Ata(u, m)]
                          /\ bal'[Transient(u, m)] >= bal[Transient(u, m)],
         \A m \in Mints, n \in Nonces : delegation'[<<u, m, n>>] = delegation[<<u, m, n>>],
         plan'[u] = plan[u], UNCHANGED <<now, config, feeConfig>>
  PROVE  Vault(u)!Next
<1>1. \A l \in Mints \X Nonces :
        Pullable(delegation[<<u, l[1], l[2]>>])' = Pullable(delegation[<<u, l[1], l[2]>>])
  BY LineKept
<1>2. Running' = Running /\ Awaits(plan[u])' = Awaits(plan[u])
  BY DEF Running, Awaits
<1>3. Vault(u)!Receive
  BY <1>1, <1>2 DEF Vault!Receive, Vault!Assets, Mints
<1> QED BY <1>3 DEF Vault!Next

\* Another user's execution can only bring tokens to u.
LEMMA OthersTrade ==
  ASSUME IInv, NEW u \in Users, NEW w \in Users, w # u, NEW in \in Mints,
         NEW b \in [Accounts -> Nat],
         \A m \in Mints : /\ b[Ata(u, m)] = bal[Ata(u, m)]
                          /\ b[Transient(u, m)] = bal[Transient(u, m)],
         NEW venue, NEW offer, Sound(offer), Executes(b, w, in, venue, offer),
         \A m \in Mints, n \in Nonces : delegation'[<<u, m, n>>] = delegation[<<u, m, n>>]
  PROVE  Vault(u)!Next
<1>1. /\ UNCHANGED <<now, config, feeConfig>> /\ plan'[u] = plan[u]
      /\ \A a \in Accounts :
           a # Transient(w, in) /\ a # Ata(Pool, Other(in)) => bal'[a] >= b[a]
  BY ExecutionRuns
<1>2. \A m \in Mints :
        /\ Ata(u, m) \in Accounts /\ Transient(u, m) \in Accounts
        /\ Ata(u, m) # Transient(w, in) /\ Ata(u, m) # Ata(Pool, Other(in))
        /\ Transient(u, m) # Transient(w, in) /\ Transient(u, m) # Ata(Pool, Other(in))
  BY AccountsDiffer, AccountsExist
<1>3. \A m \in Mints : /\ bal'[Ata(u, m)] >= bal[Ata(u, m)]
                       /\ bal'[Transient(u, m)] >= bal[Transient(u, m)]
  BY <1>1, <1>2
<1> QED BY <1>1, <1>3, Receives

LEMMA CrankCustody ==
  ASSUME IInv, FloorsFit, Crank, NEW u \in Users
  PROVE  Vault(u)!Next
<1>1. PICK w \in Users, v \in Venues, in \in Mints : Executes(bal, w, in, v, AnyOffer)
  BY DEF Crank, Executes, Mints
<1>2. UNCHANGED delegation /\ now' = now
  BY <1>1 DEF Crank, Executes, ExecuteBuy, ExecuteSell
<1>3. RouterTypeOK /\ bal \in [Accounts -> Nat]
  BY IInvByUser DEF RouterTypeOK, LedgerTypeOK
<1>4. CASE w = u
  <2>1. PICK n : n \in Nonces
    BY RailAssumption
  <2>2. <<u, in, n>> \in DelegationIds
    BY <2>1 DEF DelegationIds
  <2>3. 0 \in Nat /\ 0 <= bal[Ata(u, in)]
    BY <1>3, AccountsExist
  <2>4. Pullable(delegation[<<u, in, n>>]) - Pullable(delegation[<<u, in, n>>])' = 0
    BY <1>2, <1>3, <2>2, PullableType, LineKept, SMT
  <2>5. bal = Transfer(bal, Ata(u, in), Transient(u, in), 0)
    BY <1>3, AccountsExist DEF Transfer
  <2>6. Vault(u)!Trade(<<in, n>>)
    BY <1>1, <1>2, <1>3, <1>4, <2>1, <2>3, <2>4, <2>5, AnyOfferSound, TradesWhole
  <2> QED BY <2>1, <2>6 DEF Vault!Next, Vault!Assets, Mints
<1>5. CASE w # u
  BY <1>1, <1>2, <1>3, <1>5, AnyOfferSound, OthersTrade
<1> QED BY <1>4, <1>5

LEMMA DelegationsCustody ==
  ASSUME IInv, Delegations, NEW u \in Users
  PROVE  Vault(u)!Next
<1>1. RouterTypeOK /\ bal \in [Accounts -> Nat]
  BY IInvByUser DEF RouterTypeOK, LedgerTypeOK
<1>2. PICK w \in Users, m \in Mints, n \in Nonces :
        (\E k \in Keepers : Grant(w, m, n, k)) \/ Revoke(w, m, n) \/ Pull(w, m, n)
  BY DEF Delegations
<1>3. CASE (\E k \in Keepers : Grant(w, m, n, k)) \/ Revoke(w, m, n)
  BY <1>3, Settles DEF Grant, Revoke, CreateDelegation, RevokeDelegation
<1>4. CASE Pull(w, m, n) /\ w = u
  <2>1. Vault(u)!Pull(<<m, n>>)
    BY <1>1, <1>4, PullsAlong
  <2> QED BY <2>1 DEF Vault!Next, Vault!Assets, Mints
<1>5. CASE Pull(w, m, n) /\ w # u
  <2>1. PICK x : bal' = Transfer(bal, Ata(w, m), Transient(w, m), x)
    BY <1>5 DEF Pull, TransferRecurring, AfterPull
  <2>2. \A o \in Mints :
          /\ Ata(u, o) \in Accounts /\ Transient(u, o) \in Accounts
          /\ Ata(u, o) # Ata(w, m) /\ Ata(u, o) # Transient(w, m)
          /\ Transient(u, o) # Ata(w, m) /\ Transient(u, o) # Transient(w, m)
    BY <1>5, AccountsDiffer, AccountsExist
  <2>3. \A o \in Mints : /\ bal'[Ata(u, o)] = bal[Ata(u, o)]
                         /\ bal'[Transient(u, o)] = bal[Transient(u, o)]
    BY <1>1, <2>1, <2>2 DEF Transfer
  <2> QED BY <2>3, Settles
<1> QED BY <1>2, <1>3, <1>4, <1>5

LEMMA TransferCustody ==
  ASSUME IInv, NEW t \in DirectTransfers, TokenTransfer(t), NEW u \in Users, t.from # u
  PROVE  Vault(u)!Next
<1>1. RouterTypeOK /\ bal \in [Accounts -> Nat]
  BY IInvByUser DEF RouterTypeOK, LedgerTypeOK
<1>2. /\ t.from \in Wallets /\ t.mint \in Mints /\ t.to \in Owners /\ t.amount \in Nat
      /\ t.amount <= bal[Ata(t.from, t.mint)]
      /\ bal' = Transfer(bal, Ata(t.from, t.mint), Ata(t.to, t.mint), t.amount)
      /\ UNCHANGED <<now, delegation, config, feeConfig, plan>>
  BY RouterAssumption DEF TokenTransfer, OutsideProgram
<1>3. Ata(t.from, t.mint) \in Accounts /\ Ata(t.to, t.mint) \in Accounts
  BY <1>2, AccountsExist
<1>4. \A m \in Mints :
        /\ Ata(u, m) \in Accounts /\ Transient(u, m) \in Accounts
        /\ Ata(u, m) # Ata(t.from, t.mint) /\ Transient(u, m) # Ata(t.from, t.mint)
  BY <1>2, AccountsExist, LedgerAssumption DEF Ata, Transient
<1>5. \A m \in Mints : /\ bal'[Ata(u, m)] >= bal[Ata(u, m)]
                       /\ bal'[Transient(u, m)] >= bal[Transient(u, m)]
  BY <1>1, <1>2, <1>3, <1>4, TransferGains
<1> QED BY <1>2, <1>5, Receives

LEMMA CustodyStep ==
  ASSUME IInv, FloorsFit, [Next]_vars, NEW u \in Users, ~PaysItself(u)
  PROVE  [Vault(u)!Next]_(Vault(u)!vars)
<1>1. CASE Admin \/ Plan \/ TimePasses
  BY <1>1, Settles DEF Admin, Plan, InitConfig, SetPause, SetParams, SetWhitelist,
                       InitFeeConfig, SetFee, OpenSellPlan, CloseSellPlan, railVars,
                       TimePasses, Tick
<1>2. CASE Crank
  BY <1>2, CrankCustody
<1>3. CASE Delegations
  BY <1>3, DelegationsCustody
<1>4. CASE \E t \in DirectTransfers : TokenTransfer(t)
  BY <1>4, TransferCustody DEF PaysItself
<1>5. CASE UNCHANGED vars
  BY <1>5, Settles DEF vars
<1> QED BY <1>1, <1>2, <1>3, <1>4, <1>5 DEF Next

LEMMA InitCustody ==
  ASSUME Init, NEW u \in Users
  PROVE  Vault(u)!Init
<1>1. \A l \in Mints \X Nonces : Pullable(delegation[<<u, l[1], l[2]>>]) = 0
  <2>1. \A l \in Mints \X Nonces : <<u, l[1], l[2]>> \in DelegationIds
    BY DEF DelegationIds
  <2> QED BY <2>1 DEF Init, RailInit, Pullable
<1>2. ~Running
  BY DEF Init, Running
<1> QED BY <1>1, <1>2 DEF Vault!Init, Vault!Assets, Mints

\* In every step that a user does not pay in, whatever keepers, the admin and other
\* users do, and whatever mock_swap is made to take and pay, the user's tokens implement
\* the abstract custody, as long as no floor is too large for a u64 (price_floor and
\* sell_floor keep its low bits).  Of venues that do more than mock_swap it says nothing.
THEOREM CustodyKept == Spec /\ []FloorsFit => KeepsCustody
<1>1. Init => \A u \in Users : Vault(u)!Init
  BY InitCustody
<1>2. IInv /\ FloorsFit /\ [Next]_vars
        => [\A u \in Users : ~PaysItself(u) => [Vault(u)!Next]_(Vault(u)!vars)]_vars
  BY CustodyStep
<1> QED BY <1>1, <1>2, Invariance, PTL DEF Spec, KeepsCustody

-----------------------------------------------------------------------------
(* The price, of every execution, to the fee that was taken.                    *)

\* What an execution reports is what it found in the transient and the fee on it.
LEMMA ExecutionReports ==
  ASSUME NEW b, NEW user, NEW in \in Mints, NEW venue, NEW offer,
         Executes(b, user, in, venue, offer)
  PROVE  LET amount == b[Transient(user, in)]
         IN  /\ event'.user = user /\ event'.amount_in = amount
             /\ event'.fee = Fee(amount, feeConfig.fee_bps)
             /\ event'.kind = "buy" <=> in = Usdc
<1>1. CASE in = Usdc
  <2>1. ExecuteBuy(b, user, venue, offer)
    BY <1>1, LedgerAssumption DEF Executes
  <2> QED BY <1>1, <2>1 DEF ExecuteBuy, SkimSwapAndVerify
<1>2. CASE in = Target
  <2>1. ExecuteSell(b, user, venue, offer) /\ in # Usdc
    BY <1>2, LedgerAssumption DEF Executes
  <2> QED BY <1>2, <2>1 DEF ExecuteSell, SkimSwapAndVerify
<1> QED BY <1>1, <1>2 DEF Mints

\* An execution, from balances that a pull may have moved to the transient, pays.
LEMMA ExecutionPays ==
  ASSUME IInv, FloorsFit, NEW b \in [Accounts -> Nat], NEW user \in Users,
         NEW in \in Mints, NEW venue, NEW offer, Sound(offer),
         Executes(b, user, in, venue, offer),
         b[Transient(user, in)] <= Holdings(bal, user, in),
         b[Ata(user, Other(in))] = bal[Ata(user, Other(in))]
  PROVE  PaidInFull
<1> DEFINE amount == b[Transient(user, in)]
           net    == amount - Fee(amount, feeConfig.fee_bps)
           out    == Ata(user, Other(in))
<1>1. /\ Running /\ config.price_ref_micros > 0
      /\ bal'[out] - b[out] >= Worth(in, net) % U64
  BY ExecutionRuns
<1>2. amount \in Nat
  BY AccountsExist
<1>3. Worth(in, net) % U64 = Worth(in, net)
  BY <1>1, <1>2, IInvByUser, FloorCovers
<1>4. /\ event'.user = user /\ event'.amount_in - event'.fee = net
      /\ (IF event'.kind = "buy" THEN Usdc ELSE Target) = in
  BY ExecutionReports DEF Mints
<1>5. bal'[out] - bal[out] >= Worth(in, net)
  BY <1>1, <1>3
<1> HIDE DEF net, amount
<1> QED BY <1>4, <1>5 DEF PaidInFull

\* No other step emits an event.
LEMMA QuietEvents ==
  ASSUME \/ Admin \/ Plan \/ Delegations \/ TimePasses
         \/ \E t \in DirectTransfers : TokenTransfer(t)
  PROVE  event' = None
  BY DEF Admin, InitConfig, SetPause, SetParams, SetWhitelist, InitFeeConfig, SetFee,
         Plan, OpenSellPlan, CloseSellPlan, Delegations, Grant, Revoke, Pull,
         TokenTransfer, TimePasses, OutsideProgram

LEMMA NextPays ==
  ASSUME IInv, FloorsFit, [Next]_vars
  PROVE  [PaidInFull]_vars
<1>1. CASE Crank
  <2>1. PICK u \in Users, v \in Venues, in \in Mints : Executes(bal, u, in, v, AnyOffer)
    BY <1>1 DEF Crank, Executes, Mints
  <2>2. bal \in [Accounts -> Nat]
    BY IInvByUser DEF RouterTypeOK, LedgerTypeOK
  <2>3. bal[Transient(u, in)] \in Nat /\ bal[Ata(u, in)] \in Nat
    BY <2>2, AccountsExist
  <2>4. bal[Transient(u, in)] <= Holdings(bal, u, in)
    BY <2>3, SMT DEF Holdings
  <2> QED BY <2>1, <2>2, <2>4, AnyOfferSound, ExecutionPays
<1>2. CASE Admin \/ Plan \/ Delegations \/ TimePasses
           \/ \E t \in DirectTransfers : TokenTransfer(t)
  BY <1>2, QuietEvents DEF PaidInFull
<1>3. CASE UNCHANGED vars
  BY <1>3
<1> QED BY <1>1, <1>2, <1>3 DEF Next

\* PaysReferencePrice (state.rs:33-35): the floor that the documents promise, at the
\* terms of the day and on the net input of every execution, whatever the keeper asks for
\* and mock_swap is made to take and pay.  Without FloorsFit it is false: the truncation
\* of the floor to 64 bits is all that stands between the code and the promise.
THEOREM PaysReferencePrice == Spec /\ []FloorsFit => NeverUnderpaid
<1>1. IInv /\ FloorsFit /\ [Next]_vars => [PaidInFull]_vars
  BY NextPays
<1> QED BY <1>1, Invariance, PTL DEF Spec, NeverUnderpaid

-----------------------------------------------------------------------------
(* Either alone stops the flow.                                                *)

LEMMA GainsStop ==
  ASSUME IInv, NEW u \in Users, bal' \in [Accounts -> Nat],
         \A m \in Mints : /\ bal'[Ata(u, m)] >= bal[Ata(u, m)]
                          /\ bal'[Transient(u, m)] >= bal[Transient(u, m)]
  PROVE  FlowStops(u)
<1>1. bal \in [Accounts -> Nat]
  BY IInvByUser DEF RouterTypeOK, LedgerTypeOK
<1>2. \A m \in Mints : /\ bal[Ata(u, m)] \in Nat /\ bal[Transient(u, m)] \in Nat
                       /\ bal'[Ata(u, m)] \in Nat /\ bal'[Transient(u, m)] \in Nat
  BY <1>1, AccountsExist
<1>3. \A m \in Mints : Holdings(bal', u, m) >= Holdings(bal, u, m)
  BY <1>2, SMT DEF Holdings
<1> QED BY <1>3, AccountsExist DEF FlowStops

\* Whatever can be pulled was pullable.
LEMMA CanPullPullable ==
  ASSUME RouterTypeOK, NEW id \in DelegationIds, NEW x \in Nat, CanPull(id, x)
  PROVE  Pullable(delegation[id]) > 0
<1> DEFINE d == delegation[id]
<1>1. /\ d # None /\ d \in Delegation /\ now < d.expiryTs /\ x > 0
      /\ Pulled(d) + x <= d.amountPerPeriod
  BY DEF CanPull, RouterTypeOK, RailTypeOK
<1>2. /\ now \in Nat /\ d.expiryTs \in Nat /\ d.amountPerPeriod \in Nat
      /\ d.amountPulledInPeriod \in Nat
  BY <1>1, InputTypes DEF RouterTypeOK, LedgerTypeOK, Delegation
<1>3. Pulled(d) \in Nat
  BY <1>2 DEF Pulled
<1> HIDE DEF d
<1>4. Pullable(d) > 0
  BY <1>1, <1>2, <1>3, SMT DEF Pullable
<1> QED BY <1>4 DEF d

\* An execution, with or without a pull in front of it.
LEMMA ExecutionFlow ==
  ASSUME IInv, NEW u \in Users, NEW w \in Users, NEW in \in Mints,
         NEW x \in Nat, x <= bal[Ata(w, in)], x > 0 => ~Unpullable(w, in),
         NEW b \in [Accounts -> Nat], b = Transfer(bal, Ata(w, in), Transient(w, in), x),
         NEW venue, NEW offer, Sound(offer), Executes(b, w, in, venue, offer)
  PROVE  FlowStops(u)
<1>1. /\ Running /\ (in = Target => Awaits(plan[w])) /\ bal' \in [Accounts -> Nat]
      /\ \A a \in Accounts :
           a # Transient(w, in) /\ a # Ata(Pool, Other(in)) => bal'[a] >= b[a]
  BY ExecutionRuns
<1>2. bal \in [Accounts -> Nat]
  BY IInvByUser DEF RouterTypeOK, LedgerTypeOK
<1>3. \A m \in Mints :
        /\ Ata(u, m) \in Accounts /\ Transient(u, m) \in Accounts
        /\ Ata(u, m) # Transient(w, in) /\ Ata(u, m) # Ata(Pool, Other(in))
        /\ Transient(u, m) # Ata(Pool, Other(in)) /\ Transient(u, m) # Ata(w, in)
  BY AccountsDiffer, AccountsExist
<1>4. ASSUME NEW m \in Mints, u # w \/ m # in
      PROVE  /\ bal'[Ata(u, m)] >= bal[Ata(u, m)]
             /\ bal'[Transient(u, m)] >= bal[Transient(u, m)]
  <2>1. Ata(u, m) # Ata(w, in) /\ Transient(u, m) # Transient(w, in)
    BY <1>4, AccountsDiffer DEF Ata, Transient, Pda
  <2>2. b[Ata(u, m)] = bal[Ata(u, m)] /\ b[Transient(u, m)] = bal[Transient(u, m)]
    BY <1>2, <1>3, <2>1 DEF Transfer
  <2> QED BY <1>1, <1>3, <2>1, <2>2
<1>5. CASE u # w
  BY <1>1, <1>4, <1>5, GainsStop
<1>6. CASE u = w
  <2>1. ASSUME NEW m \in Mints, Unpullable(u, m)
        PROVE  bal'[Ata(u, m)] >= bal[Ata(u, m)]
    <3>1. CASE m # in
      BY <1>4, <3>1
    <3>2. CASE m = in
      <4>1. ~(x > 0)
        BY <1>6, <2>1, <3>2
      <4>2. x = 0
        BY <4>1, SMT
      <4>3. b[Ata(u, m)] = bal[Ata(u, m)] - 0 /\ bal[Ata(u, m)] \in Nat
        BY <1>2, <1>3, <1>6, <3>2, <4>2 DEF Transfer
      <4>4. bal'[Ata(u, m)] >= b[Ata(u, m)]
        BY <1>1, <1>3
      <4> QED BY <4>3, <4>4, SMT
    <3> QED BY <3>1, <3>2
  <2>2. ASSUME ~Awaits(plan[u])
        PROVE  Holdings(bal', u, Target) >= Holdings(bal, u, Target)
    <3>1. Target # in /\ Target \in Mints
      BY <1>1, <1>6, <2>2 DEF Mints
    <3>2. /\ bal'[Ata(u, Target)] >= bal[Ata(u, Target)]
          /\ bal'[Transient(u, Target)] >= bal[Transient(u, Target)]
      BY <1>4, <3>1
    <3>3. /\ bal[Ata(u, Target)] \in Nat /\ bal[Transient(u, Target)] \in Nat
          /\ bal'[Ata(u, Target)] \in Nat /\ bal'[Transient(u, Target)] \in Nat
      BY <1>1, <1>2, <1>3, <3>1
    <3> QED BY <3>2, <3>3, SMT DEF Holdings
  <2> QED BY <1>1, <2>1, <2>2 DEF FlowStops
<1> QED BY <1>5, <1>6

\* A pull of its own: it takes along a delegation, and sells nothing.
LEMMA PullFlow ==
  ASSUME IInv, NEW u \in Users, NEW w \in Users, NEW in \in Mints, NEW n \in Nonces,
         Pull(w, in, n)
  PROVE  FlowStops(u)
<1> DEFINE id      == <<w, in, n>>
           wallet  == Ata(w, in)
           transit == Transient(w, in)
<1>1. PICK x \in PullAmount : CanPull(id, x) /\ bal' = Transfer(bal, wallet, transit, x)
  BY DEF Pull, TransferRecurring, AfterPull
<1>2. RouterTypeOK /\ bal \in [Accounts -> Nat] /\ id \in DelegationIds /\ x \in Nat
  BY IInvByUser, RailAssumption DEF RouterTypeOK, LedgerTypeOK, DelegationIds
<1>3. x <= bal[wallet] /\ ~Unpullable(w, in)
  <2>1. Pullable(delegation[id]) > 0 /\ Pullable(delegation[id]) \in Int
    BY <1>1, <1>2, CanPullPullable, PullableType
  <2>2. ~(Pullable(delegation[id]) <= 0)
    BY <2>1, SMT
  <2> QED BY <1>1, <2>2 DEF CanPull, Unpullable
<1>4. wallet \in Accounts /\ transit \in Accounts /\ wallet # transit
  BY AccountsExist, AccountsDiffer
<1>5. bal' \in [Accounts -> Nat]
  BY <1>1, <1>2, <1>3, <1>4, TransferType
<1>6. \A m \in Mints :
        /\ Ata(u, m) \in Accounts /\ Transient(u, m) \in Accounts
        /\ Ata(u, m) # transit /\ Transient(u, m) # wallet
  BY AccountsDiffer, AccountsExist
<1>7. ASSUME NEW m \in Mints, u # w \/ m # in
      PROVE  /\ bal'[Ata(u, m)] = bal[Ata(u, m)]
             /\ bal'[Transient(u, m)] = bal[Transient(u, m)]
  <2>1. Ata(u, m) # wallet /\ Transient(u, m) # transit
    BY <1>7, AccountsDiffer DEF Ata, Transient, Pda
  <2> QED BY <1>1, <1>2, <1>6, <2>1 DEF Transfer
<1>8. ASSUME u = w
      PROVE  Holdings(bal', u, in) = Holdings(bal, u, in)
  <2>1. bal'[wallet] = bal[wallet] - x /\ bal'[transit] = bal[transit] + x
    BY <1>1, <1>2, <1>4 DEF Transfer
  <2>2. bal[wallet] \in Nat /\ bal[transit] \in Nat
    BY <1>2, <1>4
  <2> HIDE DEF wallet, transit
  <2>3. bal'[wallet] + bal'[transit] = bal[wallet] + bal[transit]
    BY <1>2, <2>1, <2>2, SMT
  <2> QED BY <1>8, <2>3 DEF Holdings, wallet, transit
<1>9. \A m \in Mints : /\ Holdings(bal', u, m) = Holdings(bal, u, m)
                       /\ Holdings(bal, u, m) \in Nat
  <2>1. \A m \in Mints : Holdings(bal, u, m) \in Nat
    BY <1>2, <1>6 DEF Holdings
  <2>2. \A m \in Mints : Holdings(bal', u, m) = Holdings(bal, u, m)
    BY <1>7, <1>8 DEF Holdings
  <2> QED BY <2>1, <2>2
<1>10. \A m \in Mints : Holdings(bal', u, m) >= Holdings(bal, u, m)
  BY <1>9, SMT
<1>11. ASSUME NEW m \in Mints, Unpullable(u, m)
       PROVE  bal'[Ata(u, m)] >= bal[Ata(u, m)]
  <2>1. u # w \/ m # in
    BY <1>3, <1>11
  <2> QED BY <1>2, <1>6, <1>7, <2>1
<1> QED BY <1>10, <1>11, AccountsExist DEF FlowStops

LEMMA NextFlow ==
  ASSUME IInv, [Next]_vars, NEW u \in Users, ~PaysItself(u)
  PROVE  FlowStops(u)
<1>1. RouterTypeOK /\ bal \in [Accounts -> Nat]
  BY IInvByUser DEF RouterTypeOK, LedgerTypeOK
<1>2. ASSUME bal' = bal PROVE FlowStops(u)
  <2>1. \A m \in Mints : bal[Ata(u, m)] \in Nat /\ bal[Transient(u, m)] \in Nat
    BY <1>1, AccountsExist
  <2> QED BY <1>1, <1>2, <2>1, GainsStop
<1>3. CASE Admin \/ Plan \/ TimePasses \/ UNCHANGED vars
  BY <1>2, <1>3 DEF Admin, Plan, InitConfig, SetPause, SetParams, SetWhitelist,
                    InitFeeConfig, SetFee, OpenSellPlan, CloseSellPlan, railVars,
                    TimePasses, Tick, vars
<1>4. CASE Crank
  <2>1. PICK w \in Users, v \in Venues, in \in Mints : Executes(bal, w, in, v, AnyOffer)
    BY <1>4 DEF Crank, Executes, Mints
  <2>2. /\ 0 \in Nat /\ 0 <= bal[Ata(w, in)] /\ ~(0 > 0)
        /\ bal = Transfer(bal, Ata(w, in), Transient(w, in), 0)
    BY <1>1, AccountsExist DEF Transfer
  <2> QED BY <1>1, <2>1, <2>2, AnyOfferSound, ExecutionFlow
<1>5. CASE Delegations
  <2>1. PICK w \in Users, m \in Mints, n \in Nonces :
          (\E k \in Keepers : Grant(w, m, n, k)) \/ Revoke(w, m, n) \/ Pull(w, m, n)
    BY <1>5 DEF Delegations
  <2>2. CASE (\E k \in Keepers : Grant(w, m, n, k)) \/ Revoke(w, m, n)
    BY <1>2, <2>2 DEF Grant, Revoke, CreateDelegation, RevokeDelegation
  <2> QED BY <2>1, <2>2, PullFlow
<1>6. CASE \E t \in DirectTransfers : TokenTransfer(t)
  <2>1. PICK t \in DirectTransfers : TokenTransfer(t) /\ t.from # u
    BY <1>6 DEF PaysItself
  <2>2. /\ t.from \in Wallets /\ t.mint \in Mints /\ t.to \in Owners /\ t.amount \in Nat
        /\ t.amount <= bal[Ata(t.from, t.mint)]
        /\ bal' = Transfer(bal, Ata(t.from, t.mint), Ata(t.to, t.mint), t.amount)
    BY <2>1, RouterAssumption DEF TokenTransfer
  <2>3. Ata(t.from, t.mint) \in Accounts /\ Ata(t.to, t.mint) \in Accounts
    BY <2>2, AccountsExist
  <2>4. \A m \in Mints :
          /\ Ata(u, m) \in Accounts /\ Transient(u, m) \in Accounts
          /\ Ata(u, m) # Ata(t.from, t.mint) /\ Transient(u, m) # Ata(t.from, t.mint)
    BY <2>1, <2>2, AccountsExist, LedgerAssumption DEF Ata, Transient
  <2>5. /\ bal' \in [Accounts -> Nat]
        /\ \A m \in Mints : /\ bal'[Ata(u, m)] >= bal[Ata(u, m)]
                            /\ bal'[Transient(u, m)] >= bal[Transient(u, m)]
    BY <1>1, <2>2, <2>3, <2>4, TransferGains
  <2> QED BY <2>5, GainsStop
<1> QED BY <1>3, <1>4, <1>5, <1>6 DEF Next

\* Either alone stops the flow (lib.rs:276), at any price, fee and floor: unlike
\* the price of a sale, it does not depend on floors that fit.
THEOREM RevocationStopsTheFlow == Spec => EitherStopsTheFlow
<1>1. IInv /\ [Next]_vars => [\A u \in Users : ~PaysItself(u) => FlowStops(u)]_vars
  BY NextFlow
<1> QED BY <1>1, Invariance, PTL DEF Spec, EitherStopsTheFlow
=============================================================================
