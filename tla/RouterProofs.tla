--------------------------- MODULE RouterProofs ---------------------------
(* Proofs about Router: its type invariant, and that every user's plan keeps   *)
(* the abstract schedule.                                                      *)
EXTENDS Router, AmountsProofs

\* The inputs the handlers are given are numbers.
LEMMA InputTypes ==
  /\ \A x \in Price : x \in Nat
  /\ \A x \in Slippage : x \in Nat
  /\ \A x \in FeeBps : x \in Nat
  /\ \A x \in EndTs : x \in Nat
  /\ \A x \in PeriodSecs : x \in Nat
  /\ \A x \in Payout : x \in Nat
  /\ \A w \in FeeWallets : w \in Owners
  /\ \A w \in Deployers : w \in Wallets
  /\ \A t \in Times : t \in Nat
  BY RouterAssumption, LedgerAssumption

\* The owners and accounts the handlers name exist.
LEMMA AccountsExist ==
  /\ \A o \in Owners, m \in Mints : Ata(o, m) \in Accounts
  /\ \A u \in Users, m \in Mints : Transient(u, m) \in Accounts
  /\ \A u \in Users : u \in Owners
  /\ Pool \in Owners
  /\ \A w \in Wallets : w \in Owners
  /\ Usdc \in Mints /\ Target \in Mints
  /\ \A m \in Mints : Other(m) \in Mints
  BY LedgerAssumption DEF Ata, Transient, Accounts, Owners, Mints, Other

\* A transfer of no more than the source holds keeps every balance a natural number.
LEMMA TransferType ==
  ASSUME NEW b \in [Accounts -> Nat], NEW from \in Accounts, NEW to \in Accounts,
         NEW x \in Nat, x <= b[from]
  PROVE  Transfer(b, from, to, x) \in [Accounts -> Nat]
  BY SMT DEF Transfer

\* An offer whose sinks, payees and amounts exist.
Sound(offer) ==
  /\ offer.sink \subseteq Owners /\ offer.payee \subseteq Owners
  /\ offer.out \subseteq Nat /\ offer.min_out \subseteq Nat

LEMMA AnyOfferSound == Sound(AnyOffer)
  BY RouterAssumption DEF Sound, AnyOffer

\* What the fee, the venue and its payment leave behind is again a ledger, and the
\* event is an event.
LEMMA SettleType ==
  ASSUME RouterTypeOK, NEW b \in [Accounts -> Nat], NEW offer, Sound(offer),
         NEW user \in Users, NEW in \in Mints, NEW venue \in Venues,
         NEW fee \in Nat, NEW floor, NEW kind \in {"buy", "sell"},
         feeConfig # None, fee <= b[Transient(user, in)],
         SkimSwapAndVerify(b, kind, user, in, venue, fee, floor, offer)
  PROVE  bal' \in [Accounts -> Nat] /\ event' \in Event
<1> DEFINE out     == Other(in)
           source  == Transient(user, in)
           skimmed == Transfer(b, source, Ata(feeConfig.destination, in), fee)
<1>1. /\ feeConfig.destination \in Owners
      /\ source \in Accounts /\ out \in Mints
      /\ Ata(feeConfig.destination, in) \in Accounts
      /\ Ata(Pool, out) \in Accounts
  BY AccountsExist DEF RouterTypeOK, LedgerTypeOK, FeeConfig
<1>2. skimmed \in [Accounts -> Nat]
  BY <1>1, TransferType
<1>3. PICK amount_in \in 0..skimmed[source], sink \in offer.sink,
           out_amount \in offer.out, payee \in offer.payee :
        LET taken == Takes(skimmed, source, Ata(sink, in), amount_in)
        IN  /\ out_amount <= taken[Ata(Pool, out)]
            /\ bal' = Pays(taken, Ata(Pool, out), Ata(payee, out), out_amount)
  BY DEF SkimSwapAndVerify
<1> DEFINE taken == Takes(skimmed, source, Ata(sink, in), amount_in)
<1>4. taken \in [Accounts -> Nat]
  <2>1. skimmed[source] \in Nat
    BY <1>1, <1>2
  <2>2. amount_in \in Nat /\ amount_in <= skimmed[source]
    BY <2>1, SMT
  <2>3. Ata(sink, in) \in Accounts
    BY AccountsExist DEF Sound
  <2> HIDE DEF skimmed, source
  <2> QED BY <1>1, <1>2, <2>2, <2>3, TransferType DEF Takes
<1>5. bal' \in [Accounts -> Nat]
  <2>1. out_amount \in Nat /\ out_amount <= taken[Ata(Pool, out)]
    BY <1>3 DEF Sound
  <2>2. Ata(payee, out) \in Accounts
    BY <1>1, AccountsExist DEF Sound
  <2> HIDE DEF taken, out
  <2>3. bal' = Transfer(taken, Ata(Pool, out), Ata(payee, out), out_amount)
    BY <1>3 DEF Pays, taken, out
  <2> QED BY <1>1, <1>4, <2>1, <2>2, <2>3, TransferType
<1>6. event' = [kind |-> kind, user |-> user, amount_in |-> b[source],
                fee |-> fee, venue |-> venue]
  BY DEF SkimSwapAndVerify
<1> QED BY <1>1, <1>5, <1>6 DEF Event

-----------------------------------------------------------------------------
(* Type correctness, one lemma per group of actions.                          *)

\* The admin's lists become a config's array and count.
LEMMA ListedType ==
  ASSUME NEW list \in Lists, Len(list) <= MAX_SWAP_PROGRAMS
  PROVE  /\ Listed(list) \in [1..MAX_SWAP_PROGRAMS -> Venues]
         /\ ListedCount(list) \in 0..MAX_SWAP_PROGRAMS
         /\ {list[i] : i \in 1..Len(list)} \subseteq Venues
<1>1. list \in Seq(Venues) /\ DefaultKey \in Venues
  BY RouterAssumption DEF Venues
<1>2. Len(list) \in Nat /\ \A i \in 1..Len(list) : list[i] \in Venues
  BY <1>1
<1>3. \A i \in 1..MAX_SWAP_PROGRAMS : i <= Len(list) => i \in 1..Len(list)
  BY <1>2, SMT DEF MAX_SWAP_PROGRAMS
<1> QED BY <1>1, <1>2, <1>3 DEF Listed, ListedCount

LEMMA AdminType ==
  ASSUME RouterTypeOK, Admin
  PROVE  RouterTypeOK'
<1> USE DEF RouterTypeOK, LedgerTypeOK, RailTypeOK, railVars
<1>1. ASSUME NEW w \in Deployers, InitConfig(w) PROVE RouterTypeOK'
  <2>1. PICK list \in Lists, price \in Price, slippage \in Slippage :
          /\ Len(list) <= MAX_SWAP_PROGRAMS
          /\ slippage <= BPS
          /\ config' = [admin |-> w,
                        swap_programs |-> Listed(list),
                        swap_program_count |-> ListedCount(list),
                        price_ref_micros |-> price,
                        target_decimals |-> TargetDecimals,
                        max_slippage_bps |-> slippage,
                        paused |-> FALSE]
          /\ approved' = {list[i] : i \in 1..Len(list)}
    BY <1>1 DEF InitConfig
  <2>2. slippage \in 0..BPS /\ price \in Nat /\ w \in Wallets
    <3>1. slippage \in Nat /\ price \in Nat /\ w \in Wallets
      BY InputTypes
    <3>2. slippage <= BPS
      BY <2>1
    <3> QED BY <3>1, <3>2, SMT DEF BPS
  <2>3. config' \in Config /\ approved' \subseteq Venues
    BY <2>1, <2>2, ListedType DEF Config
  <2> QED BY <1>1, <2>3 DEF InitConfig
<1>2. ASSUME NEW w \in Wallets, SetPause(w) PROVE RouterTypeOK'
  BY <1>2, RouterAssumption DEF SetPause, IsAdmin, Config
<1>3. ASSUME NEW w \in Wallets, SetParams(w) PROVE RouterTypeOK'
  <2>1. PICK price \in Price, slippage \in Slippage :
          /\ slippage <= BPS
          /\ config' = [config EXCEPT !.price_ref_micros = price,
                                      !.max_slippage_bps = slippage]
    BY <1>3 DEF SetParams
  <2>2. slippage \in 0..BPS /\ price \in Nat
    <3>1. slippage \in Nat /\ price \in Nat
      BY InputTypes
    <3>2. slippage <= BPS
      BY <2>1
    <3> QED BY <3>1, <3>2, SMT DEF BPS
  <2>3. config' \in Config
    BY <1>3, <2>1, <2>2 DEF SetParams, IsAdmin, Config
  <2> QED BY <1>3, <2>3 DEF SetParams
<1>4. ASSUME NEW w \in Wallets, SetWhitelist(w) PROVE RouterTypeOK'
  <2>1. PICK list \in Lists :
          /\ Len(list) <= MAX_SWAP_PROGRAMS
          /\ config' = [config EXCEPT !.swap_programs = Listed(list),
                                      !.swap_program_count = ListedCount(list)]
          /\ approved' = {list[i] : i \in 1..Len(list)}
    BY <1>4 DEF SetWhitelist
  <2>2. config' \in Config
    BY <1>4, <2>1, ListedType DEF SetWhitelist, IsAdmin, Config
  <2> QED BY <1>4, <2>1, <2>2, ListedType DEF SetWhitelist
<1>5. ASSUME NEW w \in Wallets, InitFeeConfig(w) PROVE RouterTypeOK'
  <2>1. PICK fee_bps \in FeeBps, destination \in FeeWallets :
          /\ fee_bps <= MAX_FEE_BPS
          /\ feeConfig' = [fee_bps |-> fee_bps, destination |-> destination]
    BY <1>5 DEF InitFeeConfig, FeeAllowed
  <2>2. fee_bps \in 0..MAX_FEE_BPS /\ destination \in Owners
    BY <2>1, InputTypes, SMT DEF MAX_FEE_BPS
  <2> QED BY <1>5, <2>1, <2>2 DEF InitFeeConfig, FeeConfig
<1>6. ASSUME NEW w \in Wallets, SetFee(w) PROVE RouterTypeOK'
  <2>1. PICK fee_bps \in FeeBps, destination \in FeeWallets :
          /\ fee_bps <= MAX_FEE_BPS
          /\ feeConfig' = [feeConfig EXCEPT !.fee_bps = fee_bps,
                                            !.destination = destination]
    BY <1>6 DEF SetFee, FeeAllowed
  <2>2. fee_bps \in 0..MAX_FEE_BPS /\ destination \in Owners
    BY <2>1, InputTypes, SMT DEF MAX_FEE_BPS
  <2> QED BY <1>6, <2>1, <2>2 DEF SetFee, FeeConfig
<1> QED BY <1>1, <1>2, <1>3, <1>4, <1>5, <1>6 DEF Admin

LEMMA PlanType ==
  ASSUME RouterTypeOK, Plan
  PROVE  RouterTypeOK'
<1> USE DEF RouterTypeOK, LedgerTypeOK, RailTypeOK, railVars
<1>1. ASSUME NEW u \in Users, OpenSellPlan(u) PROVE RouterTypeOK'
  <2>1. PICK end_ts \in EndTs, period_secs \in PeriodSecs :
          /\ PeriodAllowed(period_secs)
          /\ end_ts > now + period_secs
          /\ plan' = [plan EXCEPT ![u] =
               [end_ts |-> end_ts, period_secs |-> period_secs, next_due_ts |-> now]]
          /\ history' = [history EXCEPT ![u] =
               [opened |-> now, slots |-> {}, sells |-> 0, late |-> 0,
                pot |-> Holdings(bal, u, Target),
                periods |-> remaining_periods(end_ts, period_secs, now)]]
    BY <1>1 DEF OpenSellPlan
  <2>2. /\ end_ts \in Nat /\ now \in Nat
        /\ period_secs \in MIN_PERIOD_SECS..MAX_PERIOD_SECS
        /\ period_secs \in Nat \ {0}
    <3>1. end_ts \in Nat /\ now \in Nat /\ period_secs \in Nat
      BY InputTypes
    <3>2. period_secs \in MIN_PERIOD_SECS..MAX_PERIOD_SECS
      BY <2>1 DEF PeriodAllowed
    <3>3. period_secs # 0
      BY <3>2, PeriodPositive
    <3> QED BY <3>1, <3>2, <3>3
  <2>3. Holdings(bal, u, Target) \in Nat
    BY AccountsExist, SMT DEF Holdings
  <2>4. remaining_periods(end_ts, period_secs, now) \in Nat
    BY <2>2, RemainingLaw
  <2>5. [opened |-> now, slots |-> {}, sells |-> 0, late |-> 0, pot |-> Holdings(bal, u, Target),
         periods |-> remaining_periods(end_ts, period_secs, now)] \in History
    BY <2>2, <2>3, <2>4 DEF History
  <2>6. [end_ts |-> end_ts, period_secs |-> period_secs, next_due_ts |-> now] \in SellPlan
    BY <2>2 DEF SellPlan
  <2>7. /\ plan' \in [Users -> SellPlan \cup {None}]
        /\ history' \in [Users -> History \cup {None}]
    BY <2>1, <2>5, <2>6
  <2>8. /\ plan'[u] # None /\ history'[u] # None
        /\ \A v \in Users : v # u => plan'[v] = plan[v] /\ history'[v] = history[v]
    BY <2>1, <2>5, <2>6, RouterAssumption
  <2>9. UNCHANGED <<railVars, config, feeConfig, approved>> /\ event' = None
    BY <1>1 DEF OpenSellPlan
  <2> QED BY <2>7, <2>8, <2>9
<1>2. ASSUME NEW u \in Users, CloseSellPlan(u) PROVE RouterTypeOK'
  BY <1>2 DEF CloseSellPlan
<1> QED BY <1>1, <1>2 DEF Plan

\* The fee the handlers skim is covered by the transient they skim it from.
LEMMA FeeCovered ==
  ASSUME RouterTypeOK, NEW b \in [Accounts -> Nat], NEW user \in Users, NEW mint \in Mints, feeConfig # None
  PROVE  /\ b[Transient(user, mint)] \in Nat
         /\ Fee(b[Transient(user, mint)], feeConfig.fee_bps) \in Nat
         /\ Fee(b[Transient(user, mint)], feeConfig.fee_bps) <= b[Transient(user, mint)]
<1>1. b[Transient(user, mint)] \in Nat
  BY AccountsExist
<1>2. feeConfig.fee_bps \in 0..MAX_FEE_BPS
  BY DEF RouterTypeOK, FeeConfig
<1>3. Fee(b[Transient(user, mint)], feeConfig.fee_bps) \in 0..b[Transient(user, mint)]
  BY <1>1, <1>2, FeeWithinInput
<1> HIDE DEF Transient
<1> QED BY <1>1, <1>3

LEMMA BuyType ==
  ASSUME RouterTypeOK, RailTypeOK', NEW b \in [Accounts -> Nat], NEW offer, Sound(offer),
         NEW user \in Users, NEW venue \in Venues, ExecuteBuy(b, user, venue, offer)
  PROVE  RouterTypeOK'
<1> DEFINE fee   == Fee(b[Transient(user, Usdc)], feeConfig.fee_bps)
           floor == price_floor(b[Transient(user, Usdc)] - fee, config.price_ref_micros,
                                config.target_decimals, config.max_slippage_bps)
<1>1. /\ feeConfig # None
      /\ SkimSwapAndVerify(b, "buy", user, Usdc, venue, fee, floor, offer)
      /\ UNCHANGED <<now, config, feeConfig, plan, approved, history>>
  BY DEF ExecuteBuy, CanExecute
<1>2. fee \in Nat /\ fee <= b[Transient(user, Usdc)]
  BY <1>1, AccountsExist, FeeCovered
<1> HIDE DEF fee, floor
<1>3. bal' \in [Accounts -> Nat] /\ event' \in Event
  BY <1>1, <1>2, AccountsExist, SettleType
<1> QED BY <1>1, <1>3 DEF RouterTypeOK, LedgerTypeOK

\* A due plan's gate, slot and counters after a sell.
LEMMA SellSteps ==
  ASSUME RouterTypeOK, NEW user \in Users, plan[user] # None, Due(plan[user])
  PROVE  LET p == plan[user] IN
         /\ p \in SellPlan
         /\ p.period_secs \in Nat \ {0} /\ p.next_due_ts \in Nat /\ p.end_ts \in Nat
         /\ now \in Nat /\ now >= p.next_due_ts
         /\ NextDue(p.next_due_ts, p.period_secs, now) \in Nat
<1>1. /\ plan[user] \in SellPlan
      /\ plan[user].period_secs \in MIN_PERIOD_SECS..MAX_PERIOD_SECS
      /\ plan[user].next_due_ts \in Nat /\ plan[user].end_ts \in Nat
  BY DEF RouterTypeOK, SellPlan
<1>2. now \in Nat /\ now >= plan[user].next_due_ts
  BY InputTypes DEF RouterTypeOK, LedgerTypeOK, Due
<1>3. plan[user].period_secs \in Nat \ {0}
  BY <1>1, PeriodPositive
<1> QED BY <1>1, <1>2, <1>3, NextDueLaw

-----------------------------------------------------------------------------
(* The inductive invariant.  A sell notes the slot it falls into, which is a   *)
(* number only because the plan was opened before: types and schedule go       *)
(* together.                                                                   *)

IInv == TypeOK /\ GateOnGrid /\ AtMostOneLate

\* What GateOnGrid and AtMostOneLate say of one user's plan.
PlanOK(u) ==
  plan[u] # None =>
    /\ plan[u].next_due_ts >= history[u].opened
    /\ plan[u].next_due_ts = history[u].opened + Elapsed(u) * plan[u].period_secs
    /\ plan[u].next_due_ts <= now + plan[u].period_secs
    /\ \A s \in history[u].slots : s < Elapsed(u)
    /\ history[u].late <= 1
    /\ history[u].late = 1 => plan[u].next_due_ts > plan[u].end_ts

LEMMA IInvByUser ==
  /\ IInv <=> RouterTypeOK /\ \A u \in Users : PlanOK(u)
  /\ IInv' <=> RouterTypeOK' /\ \A u \in Users : PlanOK(u)'
  BY DEF IInv, TypeOK, GateOnGrid, AtMostOneLate, PlanOK

\* A plan that a step leaves alone stays as it should be: the clock only advances.
LEMMA PlanUntouched ==
  ASSUME RouterTypeOK, RouterTypeOK', NEW u \in Users, PlanOK(u), now' >= now,
         plan'[u] = plan[u],
         \/ history'[u] = history[u]
         \/ /\ history[u] # None
            /\ history'[u] = [history[u] EXCEPT !.pot = 0]
  PROVE  PlanOK(u)'
<1> SUFFICES ASSUME plan[u] # None
             PROVE  PlanOK(u)'
  BY DEF PlanOK
<1>1. /\ plan[u].next_due_ts \in Nat /\ plan[u].period_secs \in Nat
      /\ plan[u].period_secs \in MIN_PERIOD_SECS..MAX_PERIOD_SECS
      /\ history[u] \in History
  <2>1. plan[u] \in SellPlan /\ history[u] \in History
    BY DEF RouterTypeOK
  <2> QED BY <2>1, PeriodPositive DEF SellPlan
<1>2. /\ history'[u].opened = history[u].opened
      /\ history'[u].slots = history[u].slots
      /\ history'[u].late = history[u].late
  BY <1>1 DEF History
<1>3. now \in Nat /\ now' \in Nat
  BY InputTypes DEF RouterTypeOK, LedgerTypeOK
<1>4. Elapsed(u)' = Elapsed(u)
  BY <1>2 DEF Elapsed, Slot
<1>5. plan[u].next_due_ts <= now' + plan[u].period_secs
  <2>1. plan[u].next_due_ts <= now + plan[u].period_secs
    BY DEF PlanOK
  <2> QED BY <1>1, <1>3, <2>1, SMT
<1> QED BY <1>2, <1>4, <1>5 DEF PlanOK

\* A sell changes three fields of a plan's history.
WithSell(h, s, n, l) == [h EXCEPT !.slots = s, !.sells = n, !.late = l]

LEMMA WithSellType ==
  ASSUME NEW h \in History, NEW s, s \subseteq Nat, NEW n \in Nat, NEW l \in Nat
  PROVE  /\ WithSell(h, s, n, l) \in History
         /\ WithSell(h, s, n, l).opened = h.opened
         /\ WithSell(h, s, n, l).slots = s
         /\ WithSell(h, s, n, l).sells = n
         /\ WithSell(h, s, n, l).late = l
  BY DEF History, WithSell

\* A sell of u's plan in slot s moves the gate to slot s + 1, ahead of every slot sold
\* in, and completes the plan if it comes late.
LEMMA SellKeepsPlan ==
  ASSUME RouterTypeOK, NEW u \in Users, PlanOK(u), plan[u] # None, Due(plan[u]),
         plan' = [plan EXCEPT ![u].next_due_ts =
                    NextDue(plan[u].next_due_ts, plan[u].period_secs, now)],
         history' = [history EXCEPT
           ![u].slots = @ \cup {Slot(u, now)},
           ![u].sells = @ + 1,
           ![u].late = IF now > plan[u].end_ts THEN @ + 1 ELSE @],
         now' = now
  PROVE  /\ plan' \in [Users -> SellPlan \cup {None}]
         /\ history' \in [Users -> History \cup {None}]
         /\ \A v \in Users : plan'[v] = None <=> history'[v] = None
         /\ PlanOK(u)'
<1> DEFINE p      == plan[u]
           h      == history[u]
           slot   == Slot(u, now)
           gate   == NextDue(p.next_due_ts, p.period_secs, now)
           slots2 == h.slots \cup {slot}
           sells2 == h.sells + 1
           late2  == IF now > p.end_ts THEN h.late + 1 ELSE h.late
<1>1. /\ p \in SellPlan /\ h \in History
      /\ p.period_secs \in Nat \ {0} /\ p.next_due_ts \in Nat /\ p.end_ts \in Nat
      /\ h.opened \in Nat /\ h.sells \in Nat /\ h.late \in Nat /\ h.slots \subseteq Nat
      /\ now \in Nat /\ now >= p.next_due_ts /\ p.next_due_ts <= p.end_ts
  BY SellSteps DEF RouterTypeOK, History, Due
<1>2. /\ Elapsed(u) = SlotAt(h.opened, p.period_secs, p.next_due_ts)
      /\ slot = SlotAt(h.opened, p.period_secs, now)
      /\ h.opened <= p.next_due_ts /\ p.next_due_ts - h.opened \in Nat
  BY <1>1, SMT DEF PlanOK, Elapsed, Slot, SlotAt
<1>3. /\ Elapsed(u) \in Nat
      /\ p.next_due_ts = h.opened + Elapsed(u) * p.period_secs
  BY <1>1, <1>2, DivLaw DEF PlanOK, SlotAt
<1>4. /\ slot \in Nat /\ slot >= Elapsed(u)
      /\ gate = h.opened + (slot + 1) * p.period_secs
      /\ SlotAt(h.opened, p.period_secs, gate) = slot + 1
  BY <1>1, <1>2, <1>3, NextDueOnGrid
<1>5. gate \in Nat /\ gate > now /\ gate <= now + p.period_secs
  BY <1>1, NextDueLaw
<1>6. /\ plan'[u] = [p EXCEPT !.next_due_ts = gate]
      /\ history'[u] = [h EXCEPT !.slots = slots2, !.sells = sells2, !.late = late2]
      /\ \A v \in Users : v # u => plan'[v] = plan[v] /\ history'[v] = history[v]
  BY DEF RouterTypeOK
<1>7. slots2 \subseteq Nat /\ sells2 \in Nat /\ late2 \in Nat
  <2> HIDE DEF slot
  <2> QED BY <1>1, <1>4, SMT
<1> HIDE DEF gate, slot, slots2, sells2, late2, h, p
<1>8. /\ plan'[u] \in SellPlan
      /\ plan'[u].next_due_ts = gate
      /\ plan'[u].period_secs = p.period_secs
      /\ plan'[u].end_ts = p.end_ts
  BY <1>1, <1>5, <1>6 DEF SellPlan
<1>9. /\ history'[u] \in History
      /\ history'[u].opened = h.opened
      /\ history'[u].slots = slots2
      /\ history'[u].late = late2
  <2>1. h \in History /\ slots2 \subseteq Nat /\ sells2 \in Nat /\ late2 \in Nat
    BY <1>1, <1>7
  <2>2. history'[u] = [h EXCEPT !.slots = slots2, !.sells = sells2, !.late = late2]
    BY <1>6
  <2>3. history'[u] = WithSell(h, slots2, sells2, late2)
    BY <2>2 DEF WithSell
  <2>4. WithSell(h, slots2, sells2, late2) \in History
    BY <2>1, WithSellType
  <2>5. WithSell(h, slots2, sells2, late2).opened = h.opened
    BY <2>1, WithSellType
  <2>6. WithSell(h, slots2, sells2, late2).late = late2
    BY <2>1, WithSellType
  <2>7. WithSell(h, slots2, sells2, late2).slots = slots2
    BY <2>1, WithSellType
  <2> QED BY <2>3, <2>4, <2>5, <2>6, <2>7
<1>10. Elapsed(u)' = slot + 1
  BY <1>4, <1>8, <1>9 DEF Elapsed, Slot, SlotAt
<1>11. \A s \in slots2 : s < slot + 1
  <2>1. \A s \in h.slots : s < Elapsed(u)
    BY DEF PlanOK, h
  <2> QED BY <1>1, <1>3, <1>4, <2>1, SMT DEF slots2
<1>12. late2 <= 1 /\ (late2 = 1 => gate > p.end_ts)
  <2>1. h.late <= 1 /\ (h.late = 1 => p.next_due_ts > p.end_ts)
    BY DEF PlanOK, h, p
  <2> QED BY <1>1, <1>5, <2>1, SMT DEF late2
<1>13. PlanOK(u)'
  <2>1. gate >= h.opened
    BY <1>1, <1>2, <1>5, SMT
  <2> QED BY <1>4, <1>5, <1>8, <1>9, <1>10, <1>11, <1>12, <2>1 DEF PlanOK
<1>14. /\ plan' \in [Users -> SellPlan \cup {None}]
       /\ history' \in [Users -> History \cup {None}]
  BY <1>6, <1>8, <1>9 DEF RouterTypeOK
<1>15. \A v \in Users : plan'[v] = None <=> history'[v] = None
  BY <1>6, <1>8, <1>9, RouterAssumption DEF RouterTypeOK
<1> QED BY <1>13, <1>14, <1>15

LEMMA SellStep ==
  ASSUME IInv, RailTypeOK', NEW b \in [Accounts -> Nat], NEW offer, Sound(offer),
         NEW user \in Users, NEW venue \in Venues, ExecuteSell(b, user, venue, offer)
  PROVE  IInv'
<1> USE IInvByUser
<1> DEFINE fee   == Fee(b[Transient(user, Target)], feeConfig.fee_bps)
           floor == sell_floor(b[Transient(user, Target)] - fee, config.price_ref_micros,
                               config.target_decimals, config.max_slippage_bps)
<1>1. /\ feeConfig # None
      /\ plan[user] # None
      /\ Due(plan[user])
      /\ SkimSwapAndVerify(b, "sell", user, Target, venue, fee, floor, offer)
      /\ plan' = [plan EXCEPT ![user].next_due_ts =
                    NextDue(plan[user].next_due_ts, plan[user].period_secs, now)]
      /\ history' = [history EXCEPT
           ![user].slots = @ \cup {Slot(user, now)},
           ![user].sells = @ + 1,
           ![user].late = IF now > plan[user].end_ts THEN @ + 1 ELSE @]
      /\ UNCHANGED <<now, config, feeConfig, approved>>
  BY DEF ExecuteSell, CanExecute
<1>2. fee \in Nat /\ fee <= b[Transient(user, Target)]
  BY <1>1, AccountsExist, FeeCovered
<1> HIDE DEF fee, floor
<1>3. bal' \in [Accounts -> Nat] /\ event' \in Event
  BY <1>1, <1>2, AccountsExist, SettleType
<1>4. /\ plan' \in [Users -> SellPlan \cup {None}]
      /\ history' \in [Users -> History \cup {None}]
      /\ \A v \in Users : plan'[v] = None <=> history'[v] = None
      /\ PlanOK(user)'
  BY <1>1, SellKeepsPlan
<1>5. RouterTypeOK'
  BY <1>1, <1>3, <1>4 DEF RouterTypeOK, LedgerTypeOK
<1>6. \A v \in Users \ {user} : plan'[v] = plan[v] /\ history'[v] = history[v]
  BY <1>1 DEF RouterTypeOK
<1>7. now' >= now
  BY <1>1, InputTypes, SMT DEF RouterTypeOK, LedgerTypeOK
<1>8. \A v \in Users \ {user} : PlanOK(v)'
  BY <1>5, <1>6, <1>7, PlanUntouched
<1> QED BY <1>4, <1>5, <1>8

\* Steps that leave every plan, and of its history all but the pot, alone.
LEMMA QuietStep ==
  ASSUME IInv, RouterTypeOK', now' >= now, plan' = plan,
         \A u \in Users :
           \/ history'[u] = history[u]
           \/ /\ history[u] # None
              /\ history'[u] = [history[u] EXCEPT !.pot = 0]
  PROVE  IInv'
  BY IInvByUser, PlanUntouched

LEMMA PlanStep ==
  ASSUME IInv, Plan
  PROVE  IInv'
<1> USE IInvByUser
<1>1. RouterTypeOK'
  BY PlanType
<1>2. now \in Nat /\ now' = now /\ now' >= now
  <2>1. now \in Nat
    BY InputTypes DEF RouterTypeOK, LedgerTypeOK
  <2>2. now' = now
    BY DEF Plan, OpenSellPlan, CloseSellPlan, railVars
  <2> QED BY <2>1, <2>2, SMT
<1>3. PICK u \in Users : OpenSellPlan(u) \/ CloseSellPlan(u)
  BY DEF Plan
<1>4. \A v \in Users \ {u} : plan'[v] = plan[v] /\ history'[v] = history[v]
  BY <1>3 DEF OpenSellPlan, CloseSellPlan, RouterTypeOK
<1>5. \A v \in Users \ {u} : PlanOK(v)'
  BY <1>1, <1>2, <1>4, PlanUntouched
<1>6. CASE OpenSellPlan(u)
  <2>1. PICK end_ts \in EndTs, period_secs \in PeriodSecs :
          /\ PeriodAllowed(period_secs)
          /\ plan' = [plan EXCEPT ![u] =
               [end_ts |-> end_ts, period_secs |-> period_secs, next_due_ts |-> now]]
          /\ history' = [history EXCEPT ![u] =
               [opened |-> now, slots |-> {}, sells |-> 0, late |-> 0,
                pot |-> Holdings(bal, u, Target),
                periods |-> remaining_periods(end_ts, period_secs, now)]]
    BY <1>6 DEF OpenSellPlan
  <2>2. period_secs \in Nat \ {0}
    BY <2>1, PeriodPositive DEF PeriodAllowed
  <2>3. /\ plan'[u].next_due_ts = now /\ plan'[u].period_secs = period_secs
        /\ plan'[u].end_ts = end_ts
        /\ history'[u].opened = now /\ history'[u].slots = {} /\ history'[u].late = 0
    BY <2>1 DEF RouterTypeOK
  <2>4. (now - now) \div period_secs = 0
    BY <1>2, <2>2, SMT
  <2>5. Elapsed(u)' = 0
    BY <1>2, <2>3, <2>4 DEF Elapsed, Slot
  <2>6. 0 * period_secs = 0
    BY <2>2, SMT
  <2>7. now >= now /\ now = now + 0 /\ now <= now + period_secs
    BY <1>2, <2>2, SMT
  <2>8. PlanOK(u)'
    BY <1>2, <2>3, <2>5, <2>6, <2>7 DEF PlanOK
  <2> QED BY <1>1, <1>5, <2>8
<1>7. CASE CloseSellPlan(u)
  <2>1. plan'[u] = None
    BY <1>7 DEF CloseSellPlan, RouterTypeOK
  <2>2. PlanOK(u)'
    BY <2>1 DEF PlanOK
  <2> QED BY <1>1, <1>5, <2>2
<1> QED BY <1>3, <1>6, <1>7

\* A pull that the rail accepts leaves a ledger and a delegation.
LEMMA PullType ==
  ASSUME RouterTypeOK, NEW id \in DelegationIds, NEW x \in Nat, CanPull(id, x), Charge(id, x)
  PROVE  /\ AfterPull(id, x) \in [Accounts -> Nat]
         /\ delegation' \in [DelegationIds -> Delegation \cup {None}]
         /\ delegation'[id] \in Delegation
<1> DEFINE d == delegation[id]
<1>1. /\ d \in Delegation
      /\ d.currentPeriodStartTs \in Nat /\ d.periodLengthS \in Nat \ {0}
      /\ d.amountPulledInPeriod \in Nat
  BY DEF CanPull, RouterTypeOK, RailTypeOK, Delegation
<1>2. now \in Nat /\ bal \in [Accounts -> Nat]
  BY InputTypes DEF RouterTypeOK, LedgerTypeOK
<1>3. AfterPull(id, x) \in [Accounts -> Nat]
  <2>1. id[1] \in Users /\ id[2] \in Mints /\ x <= bal[Ata(id[1], id[2])]
    BY DEF DelegationIds, CanPull
  <2>2. Ata(id[1], id[2]) \in Accounts /\ Transient(id[1], id[2]) \in Accounts
    BY <2>1, AccountsExist
  <2> QED BY <1>2, <2>1, <2>2, TransferType DEF AfterPull
<1>4. Pulled(d) + x \in Nat
  BY <1>1 DEF Pulled
<1>5. PeriodStart(d) \in Nat
  <2>1. CASE Rolled(d)
    <3>1. now - d.currentPeriodStartTs \in Nat
      BY <1>1, <1>2, <2>1, SMT DEF Rolled
    <3>2. ((now - d.currentPeriodStartTs) \div d.periodLengthS) \in Nat
      BY <1>1, <3>1, DivLaw
    <3>3. ((now - d.currentPeriodStartTs) \div d.periodLengthS) * d.periodLengthS \in Nat
      BY <1>1, <3>2, SMT
    <3> HIDE DEF d
    <3> QED BY <1>1, <2>1, <3>3, SMT DEF PeriodStart
  <2>2. CASE ~Rolled(d)
    BY <1>1, <2>2 DEF PeriodStart
  <2> QED BY <2>1, <2>2
<1>6. [d EXCEPT !.currentPeriodStartTs = PeriodStart(d),
                !.amountPulledInPeriod = Pulled(d) + x] \in Delegation
  BY <1>1, <1>4, <1>5 DEF Delegation
<1>7. delegation' = [delegation EXCEPT ![id] =
        [d EXCEPT !.currentPeriodStartTs = PeriodStart(d),
                  !.amountPulledInPeriod = Pulled(d) + x]]
  BY DEF Charge, RouterTypeOK, RailTypeOK
<1> QED BY <1>3, <1>6, <1>7 DEF RouterTypeOK, RailTypeOK

LEMMA DelegationsStep ==
  ASSUME IInv, Delegations
  PROVE  IInv'
<1> USE IInvByUser
<1>1. PICK u \in Users, m \in Mints, n \in Nonces :
        (\E k \in Keepers : Grant(u, m, n, k)) \/ Revoke(u, m, n) \/ Pull(u, m, n)
  BY DEF Delegations
<1>2. /\ UNCHANGED <<now, config, feeConfig, plan, approved, history>>
      /\ event' = None
  BY <1>1 DEF Grant, Revoke, Pull, OutsideProgram, CreateDelegation, RevokeDelegation,
              TransferRecurring
<1>3. now \in Nat
  BY InputTypes DEF RouterTypeOK, LedgerTypeOK
<1>4. now' >= now
  BY <1>2, <1>3, SMT
<1>5. bal' \in [Accounts -> Nat] /\ delegation' \in [DelegationIds -> Delegation \cup {None}]
  <2>1. CASE \E k \in Keepers : Grant(u, m, n, k)
    <3>1. PICK k \in Keepers : CreateDelegation(u, m, n, k)
      BY <2>1 DEF Grant
    <3>2. PICK g \in Grants :
            delegation' = [delegation EXCEPT ![<<u, m, n>>] =
              [delegatee |-> k, amountPerPeriod |-> g.amountPerPeriod,
               periodLengthS |-> g.periodLengthS, currentPeriodStartTs |-> now,
               amountPulledInPeriod |-> 0, expiryTs |-> g.expiryTs]]
      BY <3>1 DEF CreateDelegation
    <3>3. /\ k \in Wallets /\ g.amountPerPeriod \in Nat
          /\ g.periodLengthS \in Nat \ {0} /\ g.expiryTs \in Nat
      BY RailAssumption
    <3>4. [delegatee |-> k, amountPerPeriod |-> g.amountPerPeriod,
           periodLengthS |-> g.periodLengthS, currentPeriodStartTs |-> now,
           amountPulledInPeriod |-> 0, expiryTs |-> g.expiryTs] \in Delegation
      BY <1>3, <3>3 DEF Delegation
    <3>5. bal' = bal
      BY <3>1 DEF CreateDelegation
    <3> QED BY <3>2, <3>4, <3>5 DEF RouterTypeOK, LedgerTypeOK, RailTypeOK
  <2>2. CASE Revoke(u, m, n)
    BY <2>2 DEF Revoke, RevokeDelegation, RouterTypeOK, LedgerTypeOK, RailTypeOK
  <2>3. CASE Pull(u, m, n)
    <3>1. <<u, m, n>> \in DelegationIds
      BY DEF DelegationIds
    <3>2. PICK x \in PullAmount :
            /\ CanPull(<<u, m, n>>, x)
            /\ bal' = AfterPull(<<u, m, n>>, x)
            /\ Charge(<<u, m, n>>, x)
      BY <2>3 DEF Pull, TransferRecurring
    <3>3. x \in Nat
      BY RailAssumption
    <3> QED BY <3>1, <3>2, <3>3, PullType
  <2> QED BY <1>1, <2>1, <2>2, <2>3
<1>6. RouterTypeOK'
  BY <1>2, <1>5 DEF RouterTypeOK, LedgerTypeOK, RailTypeOK
<1> QED BY <1>2, <1>4, <1>6, QuietStep

LEMMA TokenTransferStep ==
  ASSUME IInv, NEW t \in DirectTransfers, TokenTransfer(t)
  PROVE  IInv'
<1> USE IInvByUser
<1>1. /\ t.from \in Wallets /\ t.mint \in Mints /\ t.to \in Owners /\ t.amount \in Nat
  BY RouterAssumption
<1>2. /\ Ata(t.from, t.mint) \in Accounts /\ Ata(t.to, t.mint) \in Accounts
      /\ bal \in [Accounts -> Nat]
  BY <1>1, AccountsExist DEF RouterTypeOK, LedgerTypeOK
<1>3. bal' \in [Accounts -> Nat]
  BY <1>1, <1>2, TransferType DEF TokenTransfer
<1>4. \A u \in Users :
        \/ history'[u] = history[u]
        \/ /\ history[u] # None
           /\ history'[u] = [history[u] EXCEPT !.pot = 0]
  BY DEF TokenTransfer
<1>5. /\ history' \in [Users -> History \cup {None}]
      /\ \A u \in Users : history[u] = None <=> history'[u] = None
  <2>1. \A u \in Users :
          \/ history'[u] = history[u]
          \/ /\ history[u] \in History
             /\ history'[u] = [history[u] EXCEPT !.pot = 0]
    BY <1>4 DEF RouterTypeOK
  <2>2. \A h \in History : [h EXCEPT !.pot = 0] \in History
    BY DEF History
  <2>3. \A h \in History : h # None
    BY RouterAssumption
  <2>4. history' = [u \in Users |-> history'[u]]
    BY DEF TokenTransfer
  <2>5. \A u \in Users :
          /\ history'[u] \in History \cup {None}
          /\ history[u] = None <=> history'[u] = None
    <3> SUFFICES ASSUME NEW v \in Users
                 PROVE  /\ history'[v] \in History \cup {None}
                        /\ history[v] = None <=> history'[v] = None
      OBVIOUS
    <3>1. history[v] \in History \cup {None}
      BY DEF RouterTypeOK
    <3>2. CASE history'[v] = history[v]
      BY <3>1, <3>2
    <3>3. CASE /\ history[v] \in History
               /\ history'[v] = [history[v] EXCEPT !.pot = 0]
      <4>1. history'[v] \in History
        BY <3>3, <2>2
      <4> QED BY <3>3, <4>1, <2>3
    <3> QED BY <2>1, <3>2, <3>3
  <2> QED BY <2>4, <2>5
<1>6. /\ UNCHANGED <<now, delegation, config, feeConfig, plan, approved>>
      /\ event' = None
  BY DEF TokenTransfer, OutsideProgram
<1>7. RouterTypeOK'
  BY <1>3, <1>5, <1>6 DEF RouterTypeOK, LedgerTypeOK, RailTypeOK
<1>8. now' >= now
  <2>1. now \in Nat
    BY InputTypes DEF RouterTypeOK, LedgerTypeOK
  <2> QED BY <1>6, <2>1, SMT
<1> QED BY <1>4, <1>6, <1>7, <1>8, QuietStep

LEMMA TimeStep ==
  ASSUME IInv, TimePasses
  PROVE  IInv'
<1> USE IInvByUser
<1>1. /\ UNCHANGED <<bal, delegation, config, feeConfig, plan, approved, history>>
      /\ event' = None /\ now' \in Times /\ now' > now
  BY DEF TimePasses, Tick, OutsideProgram
<1>2. RouterTypeOK'
  BY <1>1 DEF RouterTypeOK, LedgerTypeOK, RailTypeOK
<1>3. now' >= now
  <2>1. now \in Nat /\ now' \in Nat
    BY <1>1, InputTypes DEF RouterTypeOK, LedgerTypeOK
  <2> QED BY <1>1, <2>1, SMT
<1> QED BY <1>1, <1>2, <1>3, QuietStep

LEMMA AdminStep ==
  ASSUME IInv, Admin
  PROVE  IInv'
<1> USE IInvByUser
<1>1. RouterTypeOK'
  BY AdminType
<1>2. UNCHANGED <<now, plan, history>>
  BY DEF Admin, InitConfig, SetPause, SetParams, SetWhitelist, InitFeeConfig, SetFee, railVars
<1>3. now' >= now
  <2>1. now \in Nat
    BY InputTypes DEF RouterTypeOK, LedgerTypeOK
  <2> QED BY <1>2, <2>1, SMT
<1> QED BY <1>1, <1>2, <1>3, QuietStep

LEMMA BuyStep ==
  ASSUME IInv, RailTypeOK', NEW b \in [Accounts -> Nat], NEW offer, Sound(offer),
         NEW user \in Users, NEW venue \in Venues, ExecuteBuy(b, user, venue, offer)
  PROVE  IInv'
<1> USE IInvByUser
<1>1. RouterTypeOK'
  BY BuyType
<1>2. UNCHANGED <<now, plan, history>>
  BY DEF ExecuteBuy
<1>3. now' >= now
  <2>1. now \in Nat
    BY InputTypes DEF RouterTypeOK, LedgerTypeOK
  <2> QED BY <1>2, <2>1, SMT
<1> QED BY <1>1, <1>2, <1>3, QuietStep

LEMMA InitIInv == Init => IInv
<1> SUFFICES ASSUME Init PROVE IInv
  OBVIOUS
<1>1. now \in Times /\ bal \in [Accounts -> Nat]
  BY LedgerAssumption DEF Init, LedgerInit
<1>2. RouterTypeOK
  BY <1>1 DEF Init, RailInit, RouterTypeOK, LedgerTypeOK, RailTypeOK
<1>3. \A u \in Users : PlanOK(u)
  BY DEF Init, PlanOK
<1> QED BY <1>2, <1>3, IInvByUser

LEMMA NextIInv == IInv /\ [Next]_vars => IInv'
<1> SUFFICES ASSUME IInv, [Next]_vars PROVE IInv'
  OBVIOUS
<1>1. CASE Admin
  BY <1>1, AdminStep
<1>2. CASE Plan
  BY <1>2, PlanStep
<1>3. CASE Crank
  <2>1. RouterTypeOK /\ bal \in [Accounts -> Nat]
    BY IInvByUser DEF RouterTypeOK, LedgerTypeOK
  <2>2. RailTypeOK'
    BY <1>3, <2>1 DEF Crank, RouterTypeOK, RailTypeOK
  <2> QED BY <1>3, <2>1, <2>2, AnyOfferSound, BuyStep, SellStep DEF Crank
<1>4. CASE Delegations
  BY <1>4, DelegationsStep
<1>5. CASE \E t \in DirectTransfers : TokenTransfer(t)
  BY <1>5, TokenTransferStep
<1>6. CASE TimePasses
  BY <1>6, TimeStep
<1>7. CASE UNCHANGED vars
  BY <1>7 DEF vars, IInv, TypeOK, RouterTypeOK, LedgerTypeOK, RailTypeOK, GateOnGrid,
              AtMostOneLate, Elapsed, Slot
<1> QED BY <1>1, <1>2, <1>3, <1>4, <1>5, <1>6, <1>7 DEF Next

THEOREM Invariance == Spec => []IInv
  BY InitIInv, NextIInv, PTL DEF Spec

\* Whatever keepers, mock_swap, the admin and the users do, every account of the program
\* and of the ledger stays in its domain: no execution overdraws a token account,
\* no config leaves its bounds.
THEOREM TypeCorrect == Spec => []TypeOK
<1>1. IInv => TypeOK
  BY DEF IInv
<1> QED BY <1>1, Invariance, PTL

\* The clock gate of every plan stays on the plan's grid, within a period of the clock
\* and ahead of every slot already sold in.
THEOREM GateStaysOnGrid == Spec => []GateOnGrid
<1>1. IInv => GateOnGrid
  BY DEF IInv
<1> QED BY <1>1, Invariance, PTL

\* No plan ever sells twice after its end, and none is left open to do so.
THEOREM NoSecondLateSell == Spec => []AtMostOneLate
<1>1. IInv => AtMostOneLate
  BY DEF IInv
<1> QED BY <1>1, Invariance, PTL

-----------------------------------------------------------------------------
(* No crank ever calls a venue which is off the admin's latest list.  That the  *)
(* entries which count are those of the list is not visible in the event, and   *)
(* so has to be carried along (Current).                                        *)

\* Every entry of the array that counts is of the admin's latest list.
Current ==
  config # None =>
    \A i \in 1..config.swap_program_count : config.swap_programs[i] \in approved

VInv == TypeOK /\ Current /\ WhitelistHonoured

\* The entries of a list that was copied are those of the list.
LEMMA ListedEntries ==
  ASSUME NEW list \in Lists, Len(list) <= MAX_SWAP_PROGRAMS
  PROVE  \A i \in 1..ListedCount(list) : Listed(list)[i] \in {list[j] : j \in 1..Len(list)}
<1>1. list \in Seq(Venues)
  BY RouterAssumption DEF Venues
<1>2. Len(list) \in Nat
  BY <1>1
<1>3. \A i \in 1..Len(list) : i \in 1..MAX_SWAP_PROGRAMS /\ i <= Len(list)
  BY <1>2, SMT DEF MAX_SWAP_PROGRAMS
<1> QED BY <1>3 DEF Listed, ListedCount

LEMMA InitVInv == Init => VInv
<1>1. Init => TypeOK
  BY InitIInv DEF IInv
<1> QED BY <1>1 DEF Init, VInv, Current, WhitelistHonoured

\* The admin's instructions emit nothing; those that set the list set both sides.
LEMMA AdminVenues ==
  ASSUME VInv, Admin
  PROVE  (Current /\ WhitelistHonoured)'
<1>1. ASSUME NEW w \in Deployers, InitConfig(w) PROVE Current' /\ event' = None
  <2>1. PICK list \in Lists, price \in Price, slippage \in Slippage :
          /\ Len(list) <= MAX_SWAP_PROGRAMS
          /\ config' = [admin |-> w,
                        swap_programs |-> Listed(list),
                        swap_program_count |-> ListedCount(list),
                        price_ref_micros |-> price,
                        target_decimals |-> TargetDecimals,
                        max_slippage_bps |-> slippage,
                        paused |-> FALSE]
          /\ approved' = {list[i] : i \in 1..Len(list)}
    BY <1>1 DEF InitConfig
  <2>2. config'.swap_programs = Listed(list) /\ config'.swap_program_count = ListedCount(list)
    BY <2>1
  <2> QED BY <1>1, <2>1, <2>2, ListedEntries DEF InitConfig, Current
<1>2. ASSUME NEW w \in Wallets, SetWhitelist(w) PROVE Current' /\ event' = None
  <2>1. PICK list \in Lists :
          /\ Len(list) <= MAX_SWAP_PROGRAMS
          /\ config' = [config EXCEPT !.swap_programs = Listed(list),
                                      !.swap_program_count = ListedCount(list)]
          /\ approved' = {list[i] : i \in 1..Len(list)}
    BY <1>2 DEF SetWhitelist
  <2>2. config \in Config
    BY <1>2 DEF SetWhitelist, IsAdmin, VInv, TypeOK, RouterTypeOK
  <2>3. config'.swap_programs = Listed(list) /\ config'.swap_program_count = ListedCount(list)
    BY <2>1, <2>2 DEF Config
  <2> QED BY <1>2, <2>1, <2>3, ListedEntries DEF SetWhitelist, Current
<1>3. ASSUME NEW w \in Wallets, SetPause(w) \/ SetParams(w)
      PROVE Current' /\ event' = None
  <2>1. config \in Config /\ config # None
    BY <1>3 DEF SetPause, SetParams, IsAdmin, VInv, TypeOK, RouterTypeOK
  <2>2. /\ config'.swap_programs = config.swap_programs
        /\ config'.swap_program_count = config.swap_program_count
        /\ approved' = approved /\ event' = None
    BY <1>3, <2>1 DEF SetPause, SetParams, Config
  <2> QED BY <2>1, <2>2 DEF VInv, Current
<1>4. ASSUME NEW w \in Wallets, InitFeeConfig(w) \/ SetFee(w)
      PROVE Current' /\ event' = None
  BY <1>4 DEF InitFeeConfig, SetFee, VInv, Current
<1> QED BY <1>1, <1>2, <1>3, <1>4 DEF Admin, WhitelistHonoured

\* A crank calls a venue that is among the entries which count.
LEMMA CrankVenues ==
  ASSUME VInv, Crank
  PROVE  (Current /\ WhitelistHonoured)'
<1>1. PICK u \in Users, v \in Venues :
        ExecuteBuy(bal, u, v, AnyOffer) \/ ExecuteSell(bal, u, v, AnyOffer)
  BY DEF Crank
<1>2. /\ config # None /\ is_whitelisted(v)
      /\ config' = config /\ approved' = approved
      /\ event'.venue = v
  BY <1>1 DEF ExecuteBuy, ExecuteSell, CanExecute, SkimSwapAndVerify
<1>3. v \in approved
  BY <1>2 DEF VInv, Current, is_whitelisted
<1> QED BY <1>2, <1>3 DEF VInv, Current, WhitelistHonoured

\* Nothing else touches the config, the list or the event.
LEMMA OtherVenues ==
  ASSUME VInv, \/ Plan \/ Delegations \/ TimePasses \/ UNCHANGED vars
               \/ \E t \in DirectTransfers : TokenTransfer(t)
  PROVE  (Current /\ WhitelistHonoured)'
<1>1. config' = config /\ approved' = approved /\ (event' = None \/ event' = event)
  BY DEF Plan, OpenSellPlan, CloseSellPlan, Delegations, Grant, Revoke, Pull,
         TokenTransfer, TimePasses, OutsideProgram, vars
<1> QED BY <1>1 DEF VInv, Current, WhitelistHonoured

\* VenuesHonoured (INV-4): whatever lists the admin sets, in whatever order, longer or
\* shorter than the one before, a venue that a crank calls is on the latest.
THEOREM VenuesHonoured == Spec => []WhitelistHonoured
<1>1. TypeOK /\ TypeOK' /\ VInv /\ [Next]_vars => VInv'
  <2> SUFFICES ASSUME TypeOK', VInv, [Next]_vars PROVE VInv'
    OBVIOUS
  <2>1. CASE Admin
    BY <2>1, AdminVenues DEF VInv
  <2>2. CASE Crank
    BY <2>2, CrankVenues DEF VInv
  <2>3. CASE \/ Plan \/ Delegations \/ TimePasses \/ UNCHANGED vars
             \/ \E t \in DirectTransfers : TokenTransfer(t)
    BY <2>3, OtherVenues DEF VInv
  <2> QED BY <2>1, <2>2, <2>3 DEF Next
<1>2. VInv => WhitelistHonoured
  BY DEF VInv
<1> QED BY <1>1, <1>2, InitVInv, TypeCorrect, PTL DEF Spec
=============================================================================
