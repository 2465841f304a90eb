------------------------------- MODULE Router -------------------------------
(* The recurring-buy program (programs/recurring-buy/src): its accounts, its   *)
(* ten instructions, each one atomic transaction of the chain that either      *)
(* commits as a whole or leaves no trace, interleaved with the rail, the       *)
(* wallets and the clock.  Every instruction may come from anyone who can sign *)
(* for it; execute_buy and execute_sell from anyone at all.                    *)
EXTENDS Amounts, Rail, Sequences

CONSTANTS
  Programs,         \* swap programs
  DefaultKey,       \* Pubkey::default(), the padding of the whitelist
  Deployers,        \* wallets that may come first to init_config
  TargetDecimals,   \* decimals of the target mint
  \* The inputs considered, one set per kind of argument.
  Pauses, Price, Slippage, FeeBps, FeeWallets, Lists, EndTs, PeriodSecs,
  Payout,           \* min_out, and what the venue pays
  Sinks,            \* owners mock_swap may be made to send its input to
  DirectTransfers   \* token transfers the wallets may sign: [from, mint, to, amount]

MAX_SWAP_PROGRAMS == 3
Venues == Programs \cup {DefaultKey}

Config == [admin : Wallets,
           swap_programs : [1..MAX_SWAP_PROGRAMS -> Venues],
           swap_program_count : 0..MAX_SWAP_PROGRAMS,
           price_ref_micros : Nat,
           target_decimals : {TargetDecimals},
           max_slippage_bps : 0..BPS,
           paused : BOOLEAN]
FeeConfig == [fee_bps : 0..MAX_FEE_BPS, destination : Owners]
SellPlan == [end_ts : Nat, period_secs : MIN_PERIOD_SECS..MAX_PERIOD_SECS,
             next_due_ts : Nat]
\* BuyExecuted and SellExecuted.
Event == [kind : {"buy", "sell"}, user : Users, amount_in : Nat, fee : Nat,
          venue : Venues]
\* What a plan's life looked like so far; only properties read it.
History == [opened : Nat, slots : SUBSET Nat, sells : Nat, late : Nat,
            pot : Nat, periods : Nat]

ASSUME RouterAssumption ==
  /\ DefaultKey \notin Programs
  /\ Deployers \subseteq Wallets
  /\ TargetDecimals \in Nat
  /\ Pauses \subseteq BOOLEAN /\ FeeWallets \subseteq Owners
  /\ Price \subseteq Nat /\ Slippage \subseteq Nat /\ FeeBps \subseteq Nat
  /\ EndTs \subseteq Nat /\ PeriodSecs \subseteq Nat /\ Payout \subseteq Nat
  /\ \A l \in Lists : l \in Seq(Venues)
  /\ Sinks \subseteq Owners
  /\ DirectTransfers \subseteq
       [from : Wallets, mint : Mints, to : Owners, amount : Nat]
  /\ None \notin Config /\ None \notin FeeConfig /\ None \notin SellPlan
  /\ None \notin Event /\ None \notin History

\* Powers of ten are natural numbers.
ASSUME ScaleAssumption == Scale(TargetDecimals) \in Nat \ {0}

VARIABLES
  config,      \* the Config PDA
  feeConfig,   \* the FeeConfig PDA
  plan,        \* each user's SellPlan PDA
  event,       \* the event the last transaction emitted
  approved,    \* history: the venues of the admin's latest list
  history      \* history: of each user's open plan

railVars == <<now, bal, delegation>>
vars == <<now, bal, delegation, config, feeConfig, plan, event, approved, history>>

RouterTypeOK ==
  /\ LedgerTypeOK
  /\ RailTypeOK
  /\ config \in Config \cup {None}
  /\ feeConfig \in FeeConfig \cup {None}
  /\ plan \in [Users -> SellPlan \cup {None}]
  /\ event \in Event \cup {None}
  /\ approved \subseteq Venues
  /\ history \in [Users -> History \cup {None}]
  /\ \A u \in Users : plan[u] = None <=> history[u] = None

Init ==
  /\ LedgerInit
  /\ RailInit
  /\ config = None
  /\ feeConfig = None
  /\ plan = [u \in Users |-> None]
  /\ event = None
  /\ approved = {}
  /\ history = [u \in Users |-> None]

-----------------------------------------------------------------------------
(* The admin's instructions.                                                  *)

\* The array a list of venues is copied into, and how many entries count.
Listed(list) ==
  [i \in 1..MAX_SWAP_PROGRAMS |-> IF i <= Len(list) THEN list[i] ELSE DefaultKey]
ListedCount(list) == Len(list)

\* One-time: the account does not exist yet.  Whoever comes first is the admin.
InitConfig(admin) ==
  /\ config = None
  /\ \E list \in Lists, price \in Price, slippage \in Slippage :
       /\ Len(list) <= MAX_SWAP_PROGRAMS
       /\ slippage <= BPS
       /\ TargetDecimals <= MAX_TARGET_DECIMALS
       /\ config' = [admin |-> admin,
                     swap_programs |-> Listed(list),
                     swap_program_count |-> ListedCount(list),
                     price_ref_micros |-> price,
                     target_decimals |-> TargetDecimals,
                     max_slippage_bps |-> slippage,
                     paused |-> FALSE]
       /\ approved' = {list[i] : i \in 1..Len(list)}
  /\ event' = None
  /\ UNCHANGED <<railVars, feeConfig, plan, history>>

\* has_one = admin: the signer is the admin the config names.
IsAdmin(admin) == config # None /\ config.admin = admin

SetPause(admin) ==
  /\ IsAdmin(admin)
  /\ \E paused \in Pauses : config' = [config EXCEPT !.paused = paused]
  /\ event' = None
  /\ UNCHANGED <<railVars, feeConfig, plan, approved, history>>

SetParams(admin) ==
  /\ IsAdmin(admin)
  /\ \E price \in Price, slippage \in Slippage :
       /\ slippage <= BPS
       /\ config' = [config EXCEPT !.price_ref_micros = price,
                                   !.max_slippage_bps = slippage]
  /\ event' = None
  /\ UNCHANGED <<railVars, feeConfig, plan, approved, history>>

SetWhitelist(admin) ==
  /\ IsAdmin(admin)
  /\ \E list \in Lists :
       /\ Len(list) <= MAX_SWAP_PROGRAMS
       /\ config' = [config EXCEPT !.swap_programs = Listed(list),
                                   !.swap_program_count = ListedCount(list)]
       /\ approved' = {list[i] : i \in 1..Len(list)}
  /\ event' = None
  /\ UNCHANGED <<railVars, feeConfig, plan, history>>

\* A mutant of FeeAllowed: no cap.
BuggyFeeAnyBps(fee_bps) == TRUE

\* The compiled-in cap.
FeeAllowed(fee_bps) == fee_bps <= MAX_FEE_BPS

InitFeeConfig(admin) ==
  /\ IsAdmin(admin)
  /\ feeConfig = None
  /\ \E fee_bps \in FeeBps, destination \in FeeWallets :
       /\ FeeAllowed(fee_bps)
       /\ feeConfig' = [fee_bps |-> fee_bps, destination |-> destination]
  /\ event' = None
  /\ UNCHANGED <<railVars, config, plan, approved, history>>

SetFee(admin) ==
  /\ IsAdmin(admin)
  /\ feeConfig # None
  /\ \E fee_bps \in FeeBps, destination \in FeeWallets :
       /\ FeeAllowed(fee_bps)
       /\ feeConfig' = [feeConfig EXCEPT !.fee_bps = fee_bps,
                                         !.destination = destination]
  /\ event' = None
  /\ UNCHANGED <<railVars, config, plan, approved, history>>

-----------------------------------------------------------------------------
(* The subscriber's sell plan.                                                *)

\* A mutant of PeriodAllowed: no lower bound but zero.
BuggyPeriodAnyPositive(period_secs) == period_secs \in 1..MAX_PERIOD_SECS

\* The cadence bounds.
PeriodAllowed(period_secs) == period_secs \in MIN_PERIOD_SECS..MAX_PERIOD_SECS

OpenSellPlan(user) ==
  /\ plan[user] = None
  /\ now \in SignTimes
  /\ \E end_ts \in EndTs, period_secs \in PeriodSecs :
       /\ PeriodAllowed(period_secs)
       /\ end_ts > now + period_secs
       /\ plan' = [plan EXCEPT ![user] =
            [end_ts |-> end_ts, period_secs |-> period_secs, next_due_ts |-> now]]
       /\ history' = [history EXCEPT ![user] =
            [opened |-> now, slots |-> {}, sells |-> 0, late |-> 0,
             pot |-> Holdings(bal, user, Target),
             periods |-> remaining_periods(end_ts, period_secs, now)]]
  /\ event' = None
  /\ UNCHANGED <<railVars, config, feeConfig, approved>>

CloseSellPlan(user) ==
  /\ plan[user] # None
  /\ plan' = [plan EXCEPT ![user] = None]
  /\ history' = [history EXCEPT ![user] = None]
  /\ event' = None
  /\ UNCHANGED <<railVars, config, feeConfig, approved>>

-----------------------------------------------------------------------------
(* The permissionless cranks.                                                 *)

\* A mutant of is_whitelisted: the padding of the array counts too.
BuggyWholeArrayWhitelisted(venue) ==
  \E i \in 1..MAX_SWAP_PROGRAMS : config.swap_programs[i] = venue

\* Only the first swap_program_count entries of the array count.
is_whitelisted(venue) ==
  \E i \in 1..config.swap_program_count : config.swap_programs[i] = venue

\* A mutant of Drained: not checked.
BuggyDrainedUnchecked(b, user, in) == TRUE

\* Nothing of the input is left with the program.
Drained(b, user, in) == b[Transient(user, in)] = 0

\* What the keeper asks of an execution, a set of values for each choice: what the
\* venue takes and for whom, what it pays and to whom, and min_out.
AnyOffer == [amount_in |-> Nat, sink |-> Sinks, out |-> Payout, payee |-> Owners,
             min_out |-> Payout]

\* min_out is not below the floor, and what came out is not below min_out.
MinOutHolds(out, floor, offer) ==
  \E min_out \in offer.min_out : floor <= min_out /\ min_out <= out

\* mock_swap's swap, whose accounts the keeper passes as it likes: it takes an amount
\* of the input, on the signature of the PDA, and pays another amount out of its pool.
Takes(b, source, sink, amount_in) == Transfer(b, source, sink, amount_in)
Pays(b, pool, payee, out_amount) == Transfer(b, pool, payee, out_amount)

\* Both handlers from the fee on, from the balances b: the fee leaves the transient
\* for the fee's owner, the venue swaps, and then the outcome is verified.  Draining
\* the input depends on the venue's first transfer only, the second being of the
\* other mint.  The venue does what mock_swap does and no more.  The program signs for
\* the PDA as a whole (lib.rs:189-203, 226-228), so another program on the list could
\* also move the PDA's account of the other mint: no venue here is such a program.
SkimSwapAndVerify(b, kind, user, in, venue, fee, floor, offer) ==
  LET out     == Other(in)
      source  == Transient(user, in)
      dest    == Ata(user, out)
      skimmed == Transfer(b, source, Ata(feeConfig.destination, in), fee)
  IN  \E amount_in \in 0..skimmed[source], sink \in offer.sink :
        LET taken == Takes(skimmed, source, Ata(sink, in), amount_in)
        IN  /\ amount_in \in offer.amount_in
            /\ Drained(taken, user, in)
            /\ \E out_amount \in offer.out, payee \in offer.payee :
                 /\ out_amount <= taken[Ata(Pool, out)]
                 /\ bal' = Pays(taken, Ata(Pool, out), Ata(payee, out), out_amount)
                 /\ MinOutHolds(bal'[dest] - b[dest], floor, offer)
            /\ event' = [kind |-> kind, user |-> user, amount_in |-> b[source],
                         fee |-> fee, venue |-> venue]

\* A mutant of CanExecute: a pause is not looked at.
BuggyCanExecutePaused(venue, in) ==
  /\ config # None
  /\ feeConfig # None
  /\ is_whitelisted(venue)
  /\ Ata(feeConfig.destination, in) \in Created

\* The conditions the two handlers share: both configs exist, no pause, a listed venue,
\* and a token account for the fee on the input, which must exist even for no fee.
CanExecute(venue, in) ==
  /\ config # None
  /\ feeConfig # None
  /\ ~config.paused
  /\ is_whitelisted(venue)
  /\ Ata(feeConfig.destination, in) \in Created

\* execute_buy, from the balances b the instructions before it in its transaction left.
ExecuteBuy(b, user, venue, offer) ==
  LET amount_in == b[Transient(user, Usdc)]
      fee       == Fee(amount_in, feeConfig.fee_bps)
      net_in    == amount_in - fee
      floor     == price_floor(net_in, config.price_ref_micros,
                               config.target_decimals, config.max_slippage_bps)
  IN  /\ CanExecute(venue, Usdc)
      /\ amount_in > 0
      /\ net_in > 0
      /\ BuyFloorComputes(net_in, config.price_ref_micros,
                          config.target_decimals, config.max_slippage_bps)
      /\ SkimSwapAndVerify(b, "buy", user, Usdc, venue, fee, floor, offer)
      /\ UNCHANGED <<now, config, feeConfig, plan, approved, history>>

\* A mutant of Due: no terminal state.
BuggyDueNoTerminalState(p) == now >= p.next_due_ts

\* Another one: no clock gate.
BuggyDueNoClockGate(p) == p.next_due_ts <= p.end_ts

\* The plan is neither complete nor early.
Due(p) == p.next_due_ts <= p.end_ts /\ now >= p.next_due_ts

\* The slot of the plan's grid that an instant falls into; properties only.
Slot(user, t) == (t - history[user].opened) \div plan[user].period_secs

WithinSchedule(b, user, amount_in) ==
  amount_in <= AmortizationCap(b[Ata(user, Target)], amount_in,
                 remaining_periods(plan[user].end_ts, plan[user].period_secs, now))

\* execute_sell, likewise.
ExecuteSell(b, user, venue, offer) ==
  LET p         == plan[user]
      amount_in == b[Transient(user, Target)]
      fee       == Fee(amount_in, feeConfig.fee_bps)
      net_in    == amount_in - fee
      floor     == sell_floor(net_in, config.price_ref_micros,
                              config.target_decimals, config.max_slippage_bps)
  IN  /\ CanExecute(venue, Target)
      /\ p # None
      /\ Due(p)
      /\ amount_in > 0
      /\ WithinSchedule(b, user, amount_in)
      /\ net_in > 0
      /\ SellFloorComputes(net_in, config.price_ref_micros,
                           config.target_decimals, config.max_slippage_bps)
      /\ SkimSwapAndVerify(b, "sell", user, Target, venue, fee, floor, offer)
      /\ plan' = [plan EXCEPT ![user].next_due_ts =
                    NextDue(p.next_due_ts, p.period_secs, now)]
      /\ history' = [history EXCEPT
           ![user].slots = @ \cup {Slot(user, now)},
           ![user].sells = @ + 1,
           ![user].late = IF now > p.end_ts THEN @ + 1 ELSE @]
      /\ UNCHANGED <<now, config, feeConfig, approved>>

-----------------------------------------------------------------------------
(* Everything else that happens on the chain.                                 *)

OutsideProgram == UNCHANGED <<config, feeConfig, plan, approved>> /\ event' = None

Grant(user, mint, nonce, keeper) ==
  CreateDelegation(user, mint, nonce, keeper) /\ OutsideProgram /\ UNCHANGED history
Revoke(user, mint, nonce) ==
  RevokeDelegation(user, mint, nonce) /\ OutsideProgram /\ UNCHANGED history
Pull(user, mint, nonce) ==
  TransferRecurring(user, mint, nonce) /\ OutsideProgram /\ UNCHANGED history

\* A wallet spends its own tokens: a payment, a top-up of another's pot, a
\* donation to a transient account.  Spending from a pot voids what its plan
\* promised of it.
TokenTransfer(t) ==
  /\ t.amount <= bal[Ata(t.from, t.mint)]
  /\ bal' = Transfer(bal, Ata(t.from, t.mint), Ata(t.to, t.mint), t.amount)
  /\ history' = [u \in Users |->
       IF u = t.from /\ t.mint = Target /\ history[u] # None
       THEN [history[u] EXCEPT !.pot = 0] ELSE history[u]]
  /\ OutsideProgram
  /\ UNCHANGED <<now, delegation>>

TimePasses == Tick /\ OutsideProgram /\ UNCHANGED <<delegation, history>>

Admin ==
  \/ \E w \in Deployers : InitConfig(w)
  \/ \E w \in Wallets :
       SetPause(w) \/ SetParams(w) \/ SetWhitelist(w) \/ InitFeeConfig(w) \/ SetFee(w)

Plan == \E u \in Users : OpenSellPlan(u) \/ CloseSellPlan(u)

\* A crank in a transaction of its own.
Crank ==
  /\ \E u \in Users, v \in Venues :
       ExecuteBuy(bal, u, v, AnyOffer) \/ ExecuteSell(bal, u, v, AnyOffer)
  /\ UNCHANGED delegation

Delegations ==
  \E u \in Users, m \in Mints, n \in Nonces :
    \/ \E k \in Keepers : Grant(u, m, n, k)
    \/ Revoke(u, m, n)
    \/ Pull(u, m, n)

Next ==
  \/ Admin
  \/ Plan
  \/ Crank
  \/ Delegations
  \/ \E t \in DirectTransfers : TokenTransfer(t)
  \/ TimePasses

Spec == Init /\ [][Next]_vars

-----------------------------------------------------------------------------
(* The sell plan of a user as the abstract schedule sees it.                  *)

Opened(u) == plan[u] # None

Plans(u) == INSTANCE Schedule WITH
  open   <- Opened(u),
  clock  <- IF Opened(u) THEN Slot(u, now) ELSE 0,
  last   <- IF Opened(u) THEN Slot(u, plan[u].end_ts) ELSE 0,
  next   <- IF Opened(u) THEN Slot(u, plan[u].next_due_ts) ELSE 0,
  served <- IF Opened(u) THEN history[u].slots ELSE {},
  count  <- IF Opened(u) THEN history[u].sells ELSE 0

\* What the rail lets be pulled along a delegation now.
Pullable(d) ==
  IF d = None THEN 0 ELSE IF now >= d.expiryTs THEN 0 ELSE d.amountPerPeriod - Pulled(d)

Running == config # None /\ feeConfig # None /\ ~config.paused
Awaits(p) == IF p = None THEN FALSE ELSE p.next_due_ts <= now /\ p.next_due_ts <= p.end_ts

\* The property of a user as the abstract custody sees it.
Vault(u) == INSTANCE Custody WITH
  Lines     <- Nonces,
  wallet    <- [m \in Mints |-> bal[Ata(u, m)]],
  transit   <- [m \in Mints |-> bal[Transient(u, m)]],
  allowance <- [l \in Mints \X Nonces |-> Pullable(delegation[<<u, l[1], l[2]>>])],
  trading   <- [m \in Mints |-> Running /\ (m = Target => Awaits(plan[u]))],
  terms     <- IF config = None THEN [price |-> 0, decimals |-> 0, slippage |-> 0]
               ELSE [price |-> config.price_ref_micros, decimals |-> config.target_decimals,
                     slippage |-> config.max_slippage_bps]

-----------------------------------------------------------------------------
(* Properties.                                                                *)

\* Every account, clock and history variable stays in its domain; in particular no
\* sequence of skims, swaps, pulls and payments overdraws a token account.
TypeOK == RouterTypeOK

\* Step in which u itself signs a payment.
PaysItself(u) == \E t \in DirectTransfers : t.from = u /\ TokenTransfer(t)

\* KeepsCustody (SPEC.md 2, 4 and 6; lib.rs:276 "either alone stops the flow"): each
\* user's tokens implement the abstract custody in every step the user did not pay
\* in: what goes out of the wallet goes along an open allowance, what goes out of the
\* transient was sold whole, at the documented floor less the largest fee, into the
\* user's own wallet, while the router runs and, for a sell, the plan is due; a pull
\* of another time, donations, a revocation, a closed plan, new terms and other users
\* come in between at will.
KeepsCustody ==
  /\ \A u \in Users : Vault(u)!Init
  /\ [][\A u \in Users : ~PaysItself(u) => [Vault(u)!Next]_(Vault(u)!vars)]_vars

\* No delegation of the user's lets anything of the mint be pulled now.
Unpullable(u, m) == \A n \in Nonces : Pullable(delegation[<<u, m, n>>]) <= 0

\* Without a delegation to pull along a wallet loses nothing; without a plan that is due
\* none of the user's target tokens are sold, pulled or not; and while the router does
\* not run nothing of either mint is.
FlowStops(u) ==
  /\ \A m \in Mints : Unpullable(u, m) => bal'[Ata(u, m)] >= bal[Ata(u, m)]
  /\ ~Awaits(plan[u]) => Holdings(bal', u, Target) >= Holdings(bal, u, Target)
  /\ ~Running => \A m \in Mints : Holdings(bal', u, m) >= Holdings(bal, u, m)

\* EitherStopsTheFlow (lib.rs:276, SPEC_M2 6 on close_sell_plan): what revoking the
\* delegation, closing the plan or pausing stops, each alone, in every step that the user
\* does not pay in.
EitherStopsTheFlow == [][\A u \in Users : ~PaysItself(u) => FlowStops(u)]_vars

Elapsed(u) == Slot(u, plan[u].next_due_ts)

\* GateOnGrid (execute_sell, the clock gate): next_due_ts stays on the grid of the
\* opening instant, never more than one period ahead of the clock, and ahead of
\* every slot already sold in: a long idle time leaves no backlog of due sells
\* and no sell locks the plan out of its next slot.
GateOnGrid ==
  \A u \in Users : plan[u] # None =>
    /\ plan[u].next_due_ts >= history[u].opened
    /\ plan[u].next_due_ts = history[u].opened + Elapsed(u) * plan[u].period_secs
    /\ plan[u].next_due_ts <= now + plan[u].period_secs
    /\ \A s \in history[u].slots : s < Elapsed(u)

\* AtMostOneLate (M2 INV-8): at most one sell of a plan happens after its end, and
\* once it has, the plan is complete for good.
AtMostOneLate ==
  \A u \in Users : plan[u] # None =>
    /\ history[u].late <= 1
    /\ history[u].late = 1 => plan[u].next_due_ts > plan[u].end_ts

\* NeverOutrun (M2 INV-5): after e slots of a plan of r periods at least
\* (r - e - 1)/r of the pot it was opened with is still the user's, whatever keepers
\* pulled, when they cranked and how often, unless the user spent from it.
NeverOutrun ==
  \A u \in Users : plan[u] # None =>
    Holdings(bal, u, Target) * history[u].periods
      >= history[u].pot * (history[u].periods - Elapsed(u) - 1)

\* SellsBounded (SPEC_M2 6.8, "every due period <= end_ts gets exactly one crank"): of
\* that bargain the half that the program can keep: a plan never sells more often than
\* it has due instants up to its end, late, early and missed cranks included.
SellsBounded ==
  \A u \in Users : plan[u] # None =>
    history[u].sells <= Slot(u, plan[u].end_ts) + 1

\* RunsOutOnlyLate (SPEC_M2 1, "it cannot run out early"; see NeverRunsOutEarly): a sell
\* takes the last of a pot only with less than two periods to go, whatever was pulled
\* for it, before or in between, and wherever the fee and the proceeds went.
RunsOutOnlyLate ==
  event # None /\ event.kind = "sell" =>
    \/ Holdings(bal, event.user, Target) > 0
    \/ plan[event.user].end_ts - now < 2 * plan[event.user].period_secs

\* WhitelistHonoured (INV-4): a venue that was called is on the list the admin set
\* last, whatever longer or shorter lists were there before, and whoever the admin is.
WhitelistHonoured == event # None => event.venue \in approved

\* KeepsSchedule (SPEC_M2 6.6 and 6.8): each user's plan implements the abstract
\* schedule: one serving per slot, in its slot, none after the last.
KeepsSchedule ==
  /\ \A u \in Users : Plans(u)!Init
  /\ [][\A u \in Users : [Plans(u)!Next]_(Plans(u)!vars)]_vars

-----------------------------------------------------------------------------
(* What the documents and comments say and the program does not do.           *)

\* BothDrained (SPEC.md 6.3): after an execution the user's transient accounts hold
\* zero of both tokens.  The program looks at the input's only.
BothDrained ==
  event # None => \A m \in Mints : Drained(bal, event.user, m)

\* NeverRunsOutEarly (SPEC_M2 1, "it cannot run out early"): a sell that empties the
\* pot is the plan's last one, no later slot of it being due before its end.
NeverRunsOutEarly ==
  event # None /\ event.kind = "sell" =>
    \/ Holdings(bal, event.user, Target) > 0
    \/ plan[event.user].next_due_ts > plan[event.user].end_ts

Worth(mint, net) ==
  IF mint = Usdc
  THEN BuyWorth(net, config.price_ref_micros, TargetDecimals, config.max_slippage_bps)
  ELSE SellWorth(net, config.price_ref_micros, TargetDecimals, config.max_slippage_bps)

\* An execution adds to the user's own account what its net input is worth.
PaidInFull ==
  event' # None =>
    LET in  == IF event'.kind = "buy" THEN Usdc ELSE Target
        out == Ata(event'.user, Other(in))
    IN  bal'[out] - bal[out] >= Worth(in, event'.amount_in - event'.fee)

\* NeverUnderpaid (state.rs, on price_ref_micros): an execution delivers to the user
\* no less than the reference price of the net input less max_slippage_bps.
NeverUnderpaid == [][PaidInFull]_vars
=============================================================================
