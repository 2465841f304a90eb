------------------------------- MODULE Daemon -------------------------------
(* The keeper daemon (keeper/native/daemon.mjs) at work on the router.  A tick *)
(* reads the chain's clock, the fee, and the delegations that name the keeper, *)
(* and then handles one delegation after the other; every await is a step, so  *)
(* all it read may be stale when it is used.  A transaction, [pull, execute],   *)
(* commits as a whole or not at all, once, at any time after it was submitted: *)
(* before the daemon hears of it, or after it gave up and sent another.  The   *)
(* daemon keeps nothing from tick to tick.                                     *)
EXTENDS Router

CONSTANTS
  Daemons,       \* the keepers that run the daemon
  MS,            \* the venue it swaps through
  SLIPPAGE_BPS,
  InFlight,      \* how many transactions of a daemon may be under way
  Faults         \* may a read fail, and the process die?

ASSUME DaemonAssumption ==
  /\ Daemons \subseteq Keepers
  /\ MS \in Programs
  /\ SLIPPAGE_BPS \in 0..BPS
  /\ InFlight \in Nat \ {0}
  /\ Faults \in BOOLEAN

\* A delegation as fetchDelegationsByDelegatee returned it.
Item == [id : DelegationIds, data : Delegation]
Tx == [id : DelegationIds, pull : Nat, net : Nat, min_out : Nat, fee_to : Owners]
ASSUME NoneAssumption == None \notin Item /\ None \notin Tx

VARIABLES
  pc,       \* where each daemon's tick is
  seen,     \* what it has read: the clock, the fee, and of a plan the gate and the pot
  todo,     \* the delegations left to handle
  item,     \* the one being handled
  flight    \* its transactions under way

daemonVars == <<pc, seen, todo, item, flight>>
allVars == <<vars, daemonVars>>

Stages == {"asleep", "fee", "list", "work", "pot", "residue", "confirm"}
Seen == [now : Nat, bps : Nat, destination : Owners, plan : SellPlan \cup {None}, pot : Nat]

DaemonTypeOK ==
  /\ RouterTypeOK
  /\ pc \in [Daemons -> Stages]
  /\ seen \in [Daemons -> Seen]
  /\ todo \in [Daemons -> SUBSET Item]
  /\ item \in [Daemons -> Item \cup {None}]
  /\ flight \in [Daemons -> [1..InFlight -> Tx \cup {None}]]

Nothing(k) == [now |-> 0, bps |-> 0, destination |-> k, plan |-> None, pot |-> 0]

DaemonInit ==
  /\ Init
  /\ pc = [k \in Daemons |-> "asleep"]
  /\ seen = [k \in Daemons |-> Nothing(k)]
  /\ todo = [k \in Daemons |-> {}]
  /\ item = [k \in Daemons |-> None]
  /\ flight = [k \in Daemons |-> [s \in 1..InFlight |-> None]]

-----------------------------------------------------------------------------
(* The arithmetic of the daemon.                                              *)

\* What the daemon takes to be pullable, from a delegation and an instant read earlier.
Available(d, t) ==
  IF t >= d.currentPeriodStartTs + d.periodLengthS THEN d.amountPerPeriod
  ELSE IF d.amountPerPeriod > d.amountPulledInPeriod
       THEN d.amountPerPeriod - d.amountPulledInPeriod ELSE 0

\* One dollar a token, six decimals on both sides.
floorOut(amount_in) == (amount_in * (BPS - SLIPPAGE_BPS)) \div BPS

\* A mutant of Draw: a residue does not count against the cap (AUDIT.md, M2-5).
BuggyDrawIgnoresResidue(p, t, pot, residue, avail) ==
  LET draw == AmortizedDraw(pot, 0, remaining_periods(p.end_ts, p.period_secs, t))
  IN  IF draw < avail THEN draw ELSE avail

\* The pull for a plan: the amortized draw, if the delegation has as much.
Draw(p, t, pot, residue, avail) ==
  LET draw == AmortizedDraw(pot, residue, remaining_periods(p.end_ts, p.period_secs, t))
  IN  IF draw < avail THEN draw ELSE avail

\* The transaction for a pull on top of a residue, with the fee as read.
Composed(id, pull, residue, bps, destination) ==
  LET amountIn == pull + residue
      net      == amountIn - Fee(amountIn, bps)
  IN  [id |-> id, pull |-> pull, net |-> net, min_out |-> floorOut(net),
       fee_to |-> destination]

-----------------------------------------------------------------------------
(* The transaction on the chain.                                              *)

Offer(t) ==
  [amount_in |-> {t.net}, sink |-> {Pool}, out |-> {t.net}, payee |-> {t.id[1]},
   min_out |-> {t.min_out}]

\* The pull, an instruction that a sell of nothing but a residue lacks.
PullsFor(k, t) ==
  IF t.pull = 0
  THEN UNCHANGED delegation
  ELSE /\ CanPull(t.id, t.pull)
       /\ delegation[t.id].delegatee = k
       /\ Charge(t.id, t.pull)

\* A mutant of Execute: the pull is a transaction of its own.
BuggyExecutePullAlone(k, t) ==
  /\ t.pull > 0
  /\ PullsFor(k, t)
  /\ bal' = AfterPull(t.id, t.pull)
  /\ event' = None
  /\ UNCHANGED <<now, config, feeConfig, plan, approved, history>>

\* All of [pull, execute]; the fee account passed must be the configured one's.
Execute(k, t) ==
  LET b == IF t.pull = 0 THEN bal ELSE AfterPull(t.id, t.pull)
  IN  /\ feeConfig # None
      /\ t.fee_to = feeConfig.destination
      /\ PullsFor(k, t)
      /\ IF t.id[2] = Usdc
         THEN ExecuteBuy(b, t.id[1], MS, Offer(t))
         ELSE ExecuteSell(b, t.id[1], MS, Offer(t))

Forget(k, s) == flight' = [flight EXCEPT ![k][s] = None]

Land(k, s) ==
  /\ flight[k][s] # None
  /\ Execute(k, flight[k][s])
  /\ Forget(k, s)
  /\ UNCHANGED <<pc, seen, todo, item>>

\* It failed, or was lost, or its blockhash expired: no trace of it is left.
Drop(k, s) ==
  /\ flight[k][s] # None
  /\ Forget(k, s)
  /\ UNCHANGED <<vars, pc, seen, todo, item>>

-----------------------------------------------------------------------------
(* A tick.                                                                     *)

\* Daemon k is at one stage and moves on to the next; the chain does not move.
Goes(k, from, to) ==
  /\ pc[k] = from
  /\ pc' = [pc EXCEPT ![k] = to]
  /\ UNCHANGED vars

\* chainNow: the time of a confirmed block.
ReadClock(k) ==
  /\ Goes(k, "asleep", "fee")
  /\ seen' = [seen EXCEPT ![k].now = now]
  /\ UNCHANGED <<todo, item, flight>>

\* loadFeeConfig; without one, the fee is zero and its account the keeper's.
ReadFee(k) ==
  /\ Goes(k, "fee", "list")
  /\ seen' = [seen EXCEPT
       ![k].bps = IF feeConfig = None THEN 0 ELSE feeConfig.fee_bps,
       ![k].destination = IF feeConfig = None THEN k ELSE feeConfig.destination]
  /\ UNCHANGED <<todo, item, flight>>

Mine(k) == {id \in DelegationIds : delegation[id] # None /\ delegation[id].delegatee = k}
Rivals(k, id) == {other \in Mine(k) : other[1] = id[1] /\ other[2] = id[2]}

\* Of each user's delegations of a mint, one that expires last.
Best(k, ids) ==
  /\ \A id \in ids : \A other \in Rivals(k, id) :
       /\ delegation[other].expiryTs <= delegation[id].expiryTs
       /\ other \in ids => other = id
  /\ \A id \in Mine(k) : Rivals(k, id) \cap ids # {}

ListDelegations(k) ==
  /\ Goes(k, "list", "work")
  /\ \E ids \in SUBSET Mine(k) :
       /\ Best(k, ids)
       /\ todo' = [todo EXCEPT ![k] = {[id |-> id, data |-> delegation[id]] : id \in ids}]
  /\ UNCHANGED <<seen, item, flight>>

TakesUp(k, i) == i \in todo[k] /\ todo' = [todo EXCEPT ![k] = @ \ {i}]

\* sendTx, up to waiting for the confirmation.
Submit(k, t) ==
  \E s \in 1..InFlight :
    /\ flight[k][s] = None
    /\ \A r \in 1..(s - 1) : flight[k][r] # None
    /\ flight' = [flight EXCEPT ![k][s] = t]

\* crankBuy, with the residue it reads.
CrankBuy(k, i, residue) ==
  LET avail == Available(i.data, seen[k].now)
  IN  /\ i.id[2] = Usdc
      /\ TakesUp(k, i)
      /\ \/ /\ avail = 0
            /\ Goes(k, "work", "work")
            /\ UNCHANGED flight
         \/ /\ avail > 0
            /\ Goes(k, "work", "confirm")
            /\ Submit(k, Composed(i.id, avail, residue, seen[k].bps, seen[k].destination))
      /\ UNCHANGED <<seen, item>>

\* A plan, as read, that is neither complete nor early.
Crankable(p, t) == p # None /\ p.next_due_ts <= p.end_ts /\ p.next_due_ts <= t

SkipSell(k, i) ==
  /\ TakesUp(k, i)
  /\ Goes(k, "work", "work")
  /\ UNCHANGED <<seen, item, flight>>

\* crankSell up to fetchSellPlan: a plan that is not to be cranked is skipped.
CrankSell(k, i) ==
  LET p == plan[i.id[1]]
  IN  /\ i.id[2] = Target
      /\ \/ ~Crankable(p, seen[k].now) /\ SkipSell(k, i)
         \/ /\ Crankable(p, seen[k].now)
            /\ TakesUp(k, i)
            /\ Goes(k, "work", "pot")
            /\ seen' = [seen EXCEPT ![k].plan = p]
            /\ item' = [item EXCEPT ![k] = i]
            /\ UNCHANGED flight

ReadPot(k, pot) ==
  /\ Goes(k, "pot", "residue")
  /\ seen' = [seen EXCEPT ![k].pot = pot]
  /\ UNCHANGED <<todo, item, flight>>

\* Nothing of the plan is remembered after its item.
ItemDone(k) ==
  /\ seen' = [seen EXCEPT ![k].plan = None, ![k].pot = 0]
  /\ item' = [item EXCEPT ![k] = None]

\* The rest of crankSell, with the residue it reads: the draw, and the transaction
\* unless it would be empty.
ReadResidue(k, residue) ==
  LET i     == item[k]
      avail == Available(i.data, seen[k].now)
      pull  == Draw(seen[k].plan, seen[k].now, seen[k].pot, residue, avail)
  IN  /\ pc[k] = "residue"
      /\ \/ /\ pull = 0 /\ residue = 0
            /\ Goes(k, "residue", "work")
            /\ UNCHANGED flight
         \/ /\ pull > 0 \/ residue > 0
            /\ Goes(k, "residue", "confirm")
            /\ Submit(k, Composed(i.id, pull, residue, seen[k].bps, seen[k].destination))
      /\ ItemDone(k)
      /\ UNCHANGED todo

\* A mutant of Confirmed: a failed item ends the tick.
BuggyConfirmedEndsTick(k) ==
  /\ Goes(k, "confirm", "asleep")
  /\ todo' = [todo EXCEPT ![k] = {}]
  /\ UNCHANGED <<seen, item, flight>>

\* sendAndConfirm returns or throws; either way the next item is next, and the
\* transaction may or may not have landed.
Confirmed(k) ==
  /\ Goes(k, "confirm", "work")
  /\ UNCHANGED <<seen, todo, item, flight>>

\* A call fails while handling an item: the item is given up.
ItemFails(k) ==
  /\ Goes(k, "pot", "work") \/ Goes(k, "residue", "work")
  /\ ItemDone(k)
  /\ UNCHANGED <<todo, flight>>

\* The process dies, to be started again, or a call fails before the items: the rest
\* of the tick is lost with all that was read, but not what was sent.
TickLost(k) ==
  /\ \E stage \in Stages \ {"asleep"} : Goes(k, stage, "asleep")
  /\ seen' = [seen EXCEPT ![k] = Nothing(k)]
  /\ todo' = [todo EXCEPT ![k] = {}]
  /\ item' = [item EXCEPT ![k] = None]
  /\ UNCHANGED flight

TickDone(k) ==
  /\ todo[k] = {}
  /\ Goes(k, "work", "asleep")
  /\ seen' = [seen EXCEPT ![k] = Nothing(k)]
  /\ UNCHANGED <<todo, item, flight>>

\* The residue where a delegation's pulls arrive.
Residue(id) == bal[Transient(id[1], id[2])]

Works(k) ==
  \/ ReadClock(k) \/ ReadFee(k) \/ ListDelegations(k)
  \/ \E i \in todo[k] : CrankBuy(k, i, Residue(i.id)) \/ CrankSell(k, i)
  \/ pc[k] = "pot" /\ ReadPot(k, bal[Ata(item[k].id[1], Target)])
  \/ pc[k] = "residue" /\ ReadResidue(k, Residue(item[k].id))
  \/ Confirmed(k)
  \/ TickDone(k)

\* bal: a balance that cannot be read counts as zero.  Other calls throw.
Fails(k) ==
  /\ Faults
  /\ \/ \E i \in todo[k] : CrankBuy(k, i, 0) \/ (i.id[2] = Target /\ SkipSell(k, i))
     \/ ReadPot(k, 0)
     \/ pc[k] = "residue" /\ ReadResidue(k, 0)
     \/ ItemFails(k)
     \/ TickLost(k)

-----------------------------------------------------------------------------
(* The daemons, their transactions, and the rest of the chain: the admin, the  *)
(* subscribers and the clock.  Nobody else cranks, or pulls without cranking.  *)

World ==
  /\ \/ Admin
     \/ Plan
     \/ \E u \in Users, m \in Mints, n \in Nonces :
          (\E k \in Keepers : Grant(u, m, n, k)) \/ Revoke(u, m, n)
     \/ \E t \in DirectTransfers : TokenTransfer(t)
     \/ TimePasses
  /\ UNCHANGED daemonVars

DaemonNext ==
  \/ World
  \/ \E k \in Daemons :
       \/ Works(k)
       \/ Fails(k)
       \/ \E s \in 1..InFlight : Land(k, s) \/ Drop(k, s)

DaemonSpec == DaemonInit /\ [][DaemonNext]_allVars

\* The loop of main goes on, a transaction settles before its blockhash is too old,
\* and the network does not lose every transaction about a user and a mint.
LandsFor(k, u, m) ==
  \E s \in 1..InFlight :
    /\ flight[k][s] # None
    /\ flight[k][s].id[1] = u /\ flight[k][s].id[2] = m
    /\ Land(k, s)

Fairness ==
  \A k \in Daemons :
    /\ WF_allVars(Works(k))
    /\ \A s \in 1..InFlight : WF_allVars(Land(k, s) \/ Drop(k, s))
    /\ \A u \in Users, m \in Mints : SF_allVars(LandsFor(k, u, m))

FairDaemonSpec == DaemonSpec /\ Fairness

-----------------------------------------------------------------------------
(* Properties.                                                                *)

\* The types of the daemons' state, with those of the chain below them.
DTypeOK == DaemonTypeOK

\* NothingHeld (SPEC.md 4 and 6.3, SPEC_M2 5): as long as only daemons pull and crank
\* and nobody pays into them, the transient accounts are empty between transactions,
\* in both mints, whatever fee, clock and balances the daemons' transactions were
\* composed from and however late or often they land.
NothingHeld == \A u \in Users, m \in Mints : bal[Transient(u, m)] = 0

\* The program is set up for the daemon's venue and its idea of the price, and the fee on
\* what is sold goes to a wallet's account, which the daemon does not create.
Operates(in) ==
  /\ config # None /\ feeConfig # None
  /\ ~config.paused
  /\ is_whitelisted(MS)
  /\ config.price_ref_micros = Scale(config.target_decimals)
  /\ config.max_slippage_bps >= SLIPPAGE_BPS
  /\ feeConfig.destination \in Wallets
  /\ Ata(feeConfig.destination, in) \in Created

\* What a daemon that knew the present, but for the clock that it read at t, would pull.
PullAt(id, t) ==
  LET d     == delegation[id]
      p     == plan[id[1]]
      avail == Available(d, t)
  IN  IF id[2] = Usdc THEN avail
      ELSE Draw(p, t, bal[Ata(id[1], Target)], Residue(id), avail)

\* There is something to do for k with the delegation, and all it takes to do it: an
\* allowance for a purchase; for a sell a plan that is due, something to draw or a
\* residue, and no residue beyond the cap; enough in the wallet and the pool.
Workable(k, id, t) ==
  LET user    == id[1]
      pull    == PullAt(id, t)
      residue == Residue(id)
  IN  /\ Operates(id[2])
      /\ id \in Mine(k)
      /\ now < delegation[id].expiryTs
      /\ IF id[2] = Usdc
         THEN pull > 0
         ELSE /\ Crankable(plan[user], t)
              /\ pull + residue > 0
              /\ residue * remaining_periods(plan[user].end_ts, plan[user].period_secs, t)
                   <= bal[Ata(user, Target)] + residue
      /\ pull <= bal[Ata(user, id[2])]
      /\ pull + residue <= bal[Ata(Pool, Other(id[2]))]

\* t is what k would compose now, but for the clock, which may have moved on since.
StillHolds(k, t) ==
  \E since \in Times :
    /\ since <= now
    /\ Workable(k, t.id, since)
    /\ t = Composed(t.id, PullAt(t.id, since), Residue(t.id),
                    feeConfig.fee_bps, feeConfig.destination)

\* MirrorAgrees (daemon.mjs on itself, AUDIT.md M2-5): the daemon's mirror of the
\* lazy period roll, the amortization cap, the fee and the floor agrees with the
\* chain's: a transaction composed from what still is the case is accepted.
MirrorAgrees ==
  \A k \in Daemons, s \in 1..InFlight :
    LET t == flight[k][s]
    IN  t # None /\ StillHolds(k, t) => ENABLED Land(k, s)

\* The delegation the daemon settles on: no other of the kind expires as late.
Settled(k, id) ==
  \A other \in Rivals(k, id) \ {id} : delegation[other].expiryTs < delegation[id].expiryTs

\* DueIsCranked (daemon.mjs:4-6, :284 "a failed tick never kills the daemon"): once
\* calls have stopped failing and the process dying, a delegation and a plan that stay
\* workable are executed: no stale read, lost transaction, failing item of the tick,
\* residue or other daemon, and nothing left from before, keeps them from it for ever.
DueIsCranked ==
  <>[][\A k \in Daemons : Fails(k) => Works(k)]_allVars =>
    \A k \in Daemons, id \in DelegationIds :
      []<>~(id \in Mine(k) /\ Settled(k, id) /\ Workable(k, id, now))

\* EveryDelegationIsCranked (README.md, "discovers every recurring delegation naming
\* the keeper as delegatee ... and cranks whatever is due"): once the rest of the
\* world has come to rest, the same of any delegation that names the keeper.
EveryDelegationIsCranked ==
  <>[][~World]_allVars =>
    \A k \in Daemons, id \in DelegationIds : []<>~Workable(k, id, now)
=============================================================================
