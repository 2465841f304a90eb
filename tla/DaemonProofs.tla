---------------------------- MODULE DaemonProofs ----------------------------
(* Proofs about Daemon: its types, that the schedule, the custody and the runway *)
(* survive the daemons' transactions, and that these leave nothing with the      *)
(* program.                                                                      *)
EXTENDS Daemon, RunwayProofs

\* What the daemons read stays usable: the fee within its cap, so that no net amount is
\* negative; and a sell that was begun has its plan and its delegation.
Sane(k) ==
  /\ seen[k].bps <= MAX_FEE_BPS
  /\ pc[k] \in {"pot", "residue"} => seen[k].plan # None /\ item[k] # None

DInv == IInv /\ DTypeOK /\ \A k \in Daemons : Sane(k)

\* The variables of the daemons.
OwnTypeOK ==
  /\ pc \in [Daemons -> Stages]
  /\ seen \in [Daemons -> Seen]
  /\ todo \in [Daemons -> SUBSET Item]
  /\ item \in [Daemons -> Item \cup {None}]
  /\ flight \in [Daemons -> [1..InFlight -> Tx \cup {None}]]

LEMMA DInvParts ==
  /\ DInv <=> IInv /\ OwnTypeOK /\ \A k \in Daemons : Sane(k)
  /\ DInv' <=> IInv' /\ OwnTypeOK' /\ \A k \in Daemons : Sane(k)'
  BY IInvByUser DEF DInv, DTypeOK, DaemonTypeOK, OwnTypeOK

-----------------------------------------------------------------------------
(* What the daemon computes is a number, and what it composes a transaction.   *)

LEMMA AvailableType ==
  ASSUME NEW d \in Delegation, NEW t \in Nat
  PROVE  Available(d, t) \in Nat
  BY SMT DEF Available, Delegation

LEMMA FloorOutType ==
  ASSUME NEW x \in Nat
  PROVE  floorOut(x) \in Nat
<1>1. BPS - SLIPPAGE_BPS \in Nat /\ BPS \in Nat \ {0}
  BY DaemonAssumption, SMT DEF BPS
<1>2. x * (BPS - SLIPPAGE_BPS) \in Nat
  BY <1>1, SMT
<1> QED BY <1>1, <1>2, DivLaw DEF floorOut

LEMMA DrawType ==
  ASSUME NEW p \in SellPlan, NEW t \in Nat, NEW pot \in Nat, NEW residue \in Nat,
         NEW avail \in Nat
  PROVE  Draw(p, t, pot, residue, avail) \in Nat
<1> DEFINE periods == remaining_periods(p.end_ts, p.period_secs, t)
           draw    == AmortizedDraw(pot, residue, periods)
<1>1. p.end_ts \in Nat /\ p.period_secs \in Nat \ {0}
  BY PeriodPositive DEF SellPlan
<1>2. periods \in Nat \ {0}
  BY <1>1, RemainingLaw
<1> HIDE DEF periods
<1>3. (pot + residue) \div periods \in Nat
  BY <1>2, DivLaw
<1>4. draw \in Nat
  BY <1>3, SMT DEF AmortizedDraw
<1> QED BY <1>4 DEF Draw, periods

LEMMA ComposedType ==
  ASSUME NEW id \in DelegationIds, NEW pull \in Nat, NEW residue \in Nat,
         NEW bps \in 0..MAX_FEE_BPS, NEW destination \in Owners
  PROVE  Composed(id, pull, residue, bps, destination) \in Tx
<1> DEFINE net == (pull + residue) - Fee(pull + residue, bps)
           t   == Composed(id, pull, residue, bps, destination)
<1>1. pull + residue \in Nat
  OBVIOUS
<1>2. net \in Nat
  BY <1>1, FeeWithinInput, SMT
<1>3. t = [id |-> id, pull |-> pull, net |-> net, min_out |-> floorOut(net),
           fee_to |-> destination]
  BY Zenon DEF Composed
<1> HIDE DEF net
<1>4. floorOut(net) \in Nat
  BY <1>2, FloorOutType
<1> QED BY <1>2, <1>3, <1>4 DEF Tx

\* Submitting fills a free place.
LEMMA SubmitType ==
  ASSUME OwnTypeOK, NEW k \in Daemons, NEW t \in Tx, Submit(k, t)
  PROVE  flight' \in [Daemons -> [1..InFlight -> Tx \cup {None}]]
  BY DEF OwnTypeOK, Submit

\* What a daemon reads is what Seen says it is.
LEMMA ReadType ==
  ASSUME DInv, NEW k \in Daemons
  PROVE  /\ seen[k] \in Seen /\ seen[k].now \in Nat /\ seen[k].pot \in Nat
         /\ seen[k].bps \in 0..MAX_FEE_BPS /\ seen[k].destination \in Owners
         /\ seen[k].plan \in SellPlan \cup {None}
         /\ todo[k] \subseteq Item
         /\ item[k] \in Item \cup {None}
<1>1. seen[k] \in Seen /\ seen[k].bps <= MAX_FEE_BPS /\ todo[k] \subseteq Item
      /\ item[k] \in Item \cup {None}
  BY DInvParts DEF OwnTypeOK, Sane
<1>2. seen[k].bps \in Nat
  BY <1>1 DEF Seen
<1>3. seen[k].bps \in 0..MAX_FEE_BPS
  BY <1>1, <1>2, SMT DEF MAX_FEE_BPS
<1> QED BY <1>1, <1>3 DEF Seen

LEMMA ItemType ==
  ASSUME NEW i \in Item
  PROVE  i.id \in DelegationIds /\ i.data \in Delegation
         /\ i.id[1] \in Users /\ i.id[2] \in Mints
  BY DEF Item, DelegationIds

\* The balances of the chain are numbers.
LEMMA BalancesRead ==
  ASSUME RouterTypeOK
  PROVE  /\ \A u \in Users, m \in Mints : bal[Ata(u, m)] \in Nat /\ bal[Transient(u, m)] \in Nat
         /\ \A id \in DelegationIds : Residue(id) \in Nat
<1>1. \A u \in Users, m \in Mints : bal[Ata(u, m)] \in Nat /\ bal[Transient(u, m)] \in Nat
  BY AccountsExist DEF RouterTypeOK, LedgerTypeOK
<1>2. \A id \in DelegationIds : id[1] \in Users /\ id[2] \in Mints
  BY DEF DelegationIds
<1> QED BY <1>1, <1>2 DEF Residue

-----------------------------------------------------------------------------
(* The stages of a tick.                                                       *)

LEMMA ReadingTypes ==
  ASSUME DInv, NEW k \in Daemons, ReadClock(k) \/ ReadFee(k) \/ ListDelegations(k)
  PROVE  OwnTypeOK' /\ \A j \in Daemons : Sane(j)'
<1> USE DInvParts
<1>1. RouterTypeOK
  BY IInvByUser
<1>2. now \in Nat
  BY <1>1, InputTypes DEF RouterTypeOK, LedgerTypeOK
<1>3. k \in Wallets
  BY DaemonAssumption, RailAssumption
<1>4. CASE ReadClock(k)
  BY <1>2, <1>4 DEF ReadClock, Goes, OwnTypeOK, Stages, Seen, Sane
<1>5. CASE ReadFee(k)
  <2> DEFINE bps == IF feeConfig = None THEN 0 ELSE feeConfig.fee_bps
             destination == IF feeConfig = None THEN k ELSE feeConfig.destination
  <2>1. bps \in 0..MAX_FEE_BPS /\ destination \in Owners
    BY <1>1, <1>3, AccountsExist, SMT DEF RouterTypeOK, FeeConfig, MAX_FEE_BPS
  <2>2. bps \in Nat /\ bps <= MAX_FEE_BPS
    BY <2>1, SMT DEF MAX_FEE_BPS
  <2>3. /\ pc[k] = "fee" /\ pc' = [pc EXCEPT ![k] = "list"]
        /\ seen' = [seen EXCEPT ![k].bps = bps, ![k].destination = destination]
        /\ UNCHANGED <<todo, item, flight>>
    BY <1>5 DEF ReadFee, Goes
  <2> HIDE DEF bps, destination
  <2> QED BY <2>1, <2>2, <2>3 DEF OwnTypeOK, Stages, Seen, Sane
<1>6. CASE ListDelegations(k)
  <2>1. PICK ids \in SUBSET Mine(k) :
          todo' = [todo EXCEPT ![k] = {[id |-> id, data |-> delegation[id]] : id \in ids}]
    BY <1>6 DEF ListDelegations
  <2>2. \A id \in ids : [id |-> id, data |-> delegation[id]] \in Item
    BY <1>1 DEF Mine, Item, RouterTypeOK, RailTypeOK
  <2>3. {[id |-> id, data |-> delegation[id]] : id \in ids} \subseteq Item
    BY <2>2
  <2> QED BY <1>6, <2>1, <2>3 DEF ListDelegations, Goes, OwnTypeOK, Stages, Sane
<1> QED BY <1>4, <1>5, <1>6

LEMMA ItemTypes ==
  ASSUME DInv, NEW k \in Daemons, NEW i \in todo[k], NEW residue \in Nat,
         CrankBuy(k, i, residue) \/ CrankSell(k, i) \/ SkipSell(k, i)
  PROVE  OwnTypeOK' /\ \A j \in Daemons : Sane(j)'
<1> USE DInvParts
<1>1. i \in Item
  BY ReadType
<1>2. todo' = [todo EXCEPT ![k] = todo[k] \ {i}]
  BY DEF CrankBuy, CrankSell, SkipSell, TakesUp, OwnTypeOK
<1>3. todo' \in [Daemons -> SUBSET Item]
  BY <1>2 DEF OwnTypeOK
<1>4. CASE SkipSell(k, i)
  BY <1>3, <1>4 DEF SkipSell, Goes, OwnTypeOK, Stages, Sane
<1>5. CASE CrankBuy(k, i, residue)
  <2> DEFINE avail == Available(i.data, seen[k].now)
             t     == Composed(i.id, avail, residue, seen[k].bps, seen[k].destination)
  <2>1. avail \in Nat
    BY <1>1, ItemType, ReadType, AvailableType
  <2>2. t \in Tx
    BY <1>1, <2>1, ItemType, ReadType, ComposedType
  <2>3. /\ \/ Goes(k, "work", "work") /\ UNCHANGED flight
           \/ Goes(k, "work", "confirm") /\ Submit(k, t)
        /\ UNCHANGED <<seen, item>>
    BY <1>5 DEF CrankBuy
  <2> HIDE DEF t
  <2>4. flight' \in [Daemons -> [1..InFlight -> Tx \cup {None}]]
    BY <2>2, <2>3, SubmitType DEF OwnTypeOK
  <2>5. /\ pc' \in [Daemons -> Stages]
        /\ \A j \in Daemons : pc'[j] \in {"pot", "residue"} => pc[j] \in {"pot", "residue"}
    BY <2>3 DEF Goes, OwnTypeOK, Stages
  <2> QED BY <1>3, <2>3, <2>4, <2>5 DEF OwnTypeOK, Sane
<1>6. CASE CrankSell(k, i) /\ ~SkipSell(k, i)
  <2> DEFINE p == plan[i.id[1]]
  <2>1. /\ Crankable(p, seen[k].now)
        /\ Goes(k, "work", "pot")
        /\ seen' = [seen EXCEPT ![k].plan = p]
        /\ item' = [item EXCEPT ![k] = i]
        /\ UNCHANGED flight
    BY <1>6 DEF CrankSell
  <2>2. p \in SellPlan /\ p # None
    BY <1>1, <2>1, ItemType, IInvByUser DEF Crankable, RouterTypeOK
  <2>3. i # None
    BY <1>1, NoneAssumption
  <2> HIDE DEF p
  <2>4. seen' \in [Daemons -> Seen] /\ seen'[k].plan = p
        /\ \A j \in Daemons : seen'[j].bps = seen[j].bps /\ (j # k => seen'[j] = seen[j])
    BY <2>1, <2>2 DEF OwnTypeOK, Seen
  <2>5. pc' \in [Daemons -> Stages] /\ item' \in [Daemons -> Item \cup {None}]
        /\ item'[k] = i
        /\ \A j \in Daemons : j # k => pc'[j] = pc[j] /\ item'[j] = item[j]
    BY <1>1, <2>1 DEF Goes, OwnTypeOK, Stages
  <2> QED BY <1>3, <2>1, <2>2, <2>3, <2>4, <2>5 DEF OwnTypeOK, Sane
<1> QED BY <1>4, <1>5, <1>6

\* After an item its daemon has forgotten the plan, and nothing else.
LEMMA ItemDoneTypes ==
  ASSUME OwnTypeOK, NEW k \in Daemons, ItemDone(k)
  PROVE  /\ seen' \in [Daemons -> Seen] /\ item' \in [Daemons -> Item \cup {None}]
         /\ \A j \in Daemons : seen'[j].bps = seen[j].bps
         /\ \A j \in Daemons : j # k => seen'[j] = seen[j] /\ item'[j] = item[j]
<1> DEFINE r == [seen[k] EXCEPT !.plan = None, !.pot = 0]
<1>1. seen[k] \in Seen
  BY DEF OwnTypeOK
<1>2. r \in Seen /\ r.bps = seen[k].bps
  BY <1>1 DEF Seen
<1>3. seen' = [seen EXCEPT ![k] = r] /\ item' = [item EXCEPT ![k] = None]
  BY DEF ItemDone, OwnTypeOK
<1> HIDE DEF r
<1> QED BY <1>2, <1>3 DEF OwnTypeOK

LEMMA SellTypes ==
  ASSUME DInv, NEW k \in Daemons, NEW x \in Nat,
         ReadPot(k, x) \/ ReadResidue(k, x)
  PROVE  OwnTypeOK' /\ \A j \in Daemons : Sane(j)'
<1> USE DInvParts
<1>1. CASE ReadPot(k, x)
  <2>1. pc[k] = "pot" /\ pc' = [pc EXCEPT ![k] = "residue"]
        /\ seen' = [seen EXCEPT ![k].pot = x] /\ UNCHANGED <<todo, item, flight>>
    BY <1>1 DEF ReadPot, Goes
  <2> QED BY <2>1 DEF OwnTypeOK, Stages, Seen, Sane
<1>2. CASE ReadResidue(k, x)
  <2> DEFINE i     == item[k]
             avail == Available(i.data, seen[k].now)
             pull  == Draw(seen[k].plan, seen[k].now, seen[k].pot, x, avail)
             t     == Composed(i.id, pull, x, seen[k].bps, seen[k].destination)
  <2>1. i \in Item /\ seen[k].plan \in SellPlan
    BY <1>2, ReadType DEF ReadResidue, Sane
  <2>2. avail \in Nat
    BY <2>1, ItemType, ReadType, AvailableType
  <2>3. pull \in Nat
    BY <2>1, <2>2, ReadType, DrawType
  <2>4. t \in Tx
    BY <2>1, <2>3, ItemType, ReadType, ComposedType
  <2>5. /\ \/ Goes(k, "residue", "work") /\ UNCHANGED flight
           \/ Goes(k, "residue", "confirm") /\ Submit(k, t)
        /\ ItemDone(k)
        /\ UNCHANGED todo
    BY <1>2 DEF ReadResidue
  <2> HIDE DEF t
  <2>6. flight' \in [Daemons -> [1..InFlight -> Tx \cup {None}]]
    BY <2>4, <2>5, SubmitType DEF OwnTypeOK
  <2>7. /\ pc' \in [Daemons -> Stages] /\ pc'[k] \notin {"pot", "residue"}
        /\ \A j \in Daemons : j # k => pc'[j] = pc[j]
    BY <2>5 DEF Goes, OwnTypeOK, Stages
  <2> QED BY <2>5, <2>6, <2>7, ItemDoneTypes DEF OwnTypeOK, Sane
<1> QED BY <1>1, <1>2

LEMMA EndingTypes ==
  ASSUME DInv, NEW k \in Daemons,
         Confirmed(k) \/ ItemFails(k) \/ TickLost(k) \/ TickDone(k)
  PROVE  OwnTypeOK' /\ \A j \in Daemons : Sane(j)'
<1> USE DInvParts
<1>1. Nothing(k) \in Seen /\ Nothing(k).bps = 0
  BY DaemonAssumption, RailAssumption, AccountsExist DEF Nothing, Seen
<1>2. 0 <= MAX_FEE_BPS
  BY SMT DEF MAX_FEE_BPS
<1>3. /\ pc' \in [Daemons -> Stages] /\ pc'[k] \notin {"pot", "residue"}
      /\ \A j \in Daemons : j # k => pc'[j] = pc[j]
  BY DEF Confirmed, ItemFails, TickLost, TickDone, Goes, OwnTypeOK, Stages
<1>4. CASE Confirmed(k)
  BY <1>3, <1>4 DEF Confirmed, OwnTypeOK, Sane
<1>5. CASE ItemFails(k)
  <2>1. ItemDone(k) /\ UNCHANGED <<todo, flight>>
    BY <1>5 DEF ItemFails
  <2> QED BY <1>3, <2>1, ItemDoneTypes DEF OwnTypeOK, Sane
<1>6. CASE TickLost(k) \/ TickDone(k)
  <2>1. /\ seen' = [seen EXCEPT ![k] = Nothing(k)]
        /\ todo' = todo \/ todo' = [todo EXCEPT ![k] = {}]
        /\ item' = item \/ item' = [item EXCEPT ![k] = None]
        /\ UNCHANGED flight
    BY <1>6 DEF TickLost, TickDone
  <2>2. /\ seen' \in [Daemons -> Seen] /\ seen'[k].bps = 0
        /\ \A j \in Daemons : j # k => seen'[j] = seen[j]
    BY <1>1, <2>1 DEF OwnTypeOK
  <2>3. /\ item' \in [Daemons -> Item \cup {None}]
        /\ \A j \in Daemons : j # k => item'[j] = item[j]
        /\ todo' \in [Daemons -> SUBSET Item]
    BY <2>1 DEF OwnTypeOK
  <2> QED BY <1>2, <1>3, <2>1, <2>2, <2>3 DEF OwnTypeOK, Sane
<1> QED BY <1>4, <1>5, <1>6

\* A stage of a tick, whether its call succeeds or fails, leaves the daemons' state in
\* its domain and the chain alone.
LEMMA StageTypes ==
  ASSUME DInv, NEW k \in Daemons, Works(k) \/ Fails(k)
  PROVE  OwnTypeOK' /\ (\A j \in Daemons : Sane(j)') /\ UNCHANGED vars
<1>1. RouterTypeOK /\ 0 \in Nat
  BY IInvByUser DEF DInv
<1>2. \A i \in todo[k] : Residue(i.id) \in Nat
  BY <1>1, ReadType, ItemType, BalancesRead
<1>3. pc[k] \in {"pot", "residue"} =>
        bal[Ata(item[k].id[1], Target)] \in Nat /\ Residue(item[k].id) \in Nat
  BY <1>1, ReadType, ItemType, BalancesRead, AccountsExist DEF DInv, Sane
<1>4. CASE Works(k)
  <2>1. \/ ReadClock(k) \/ ReadFee(k) \/ ListDelegations(k)
        \/ \E i \in todo[k] : CrankBuy(k, i, Residue(i.id)) \/ CrankSell(k, i)
        \/ \E x \in Nat : ReadPot(k, x) \/ ReadResidue(k, x)
        \/ Confirmed(k) \/ TickDone(k)
    BY <1>3, <1>4 DEF Works
  <2>2. UNCHANGED vars
    BY <2>1 DEF ReadClock, ReadFee, ListDelegations, CrankBuy, CrankSell, SkipSell, ReadPot,
                ReadResidue, Confirmed, TickDone, Goes
  <2> QED BY <1>1, <1>2, <2>1, <2>2, ReadingTypes, ItemTypes, SellTypes, EndingTypes
<1>5. CASE Fails(k)
  <2>1. \/ \E i \in todo[k] : CrankBuy(k, i, 0) \/ SkipSell(k, i)
        \/ ReadPot(k, 0) \/ ReadResidue(k, 0)
        \/ ItemFails(k) \/ TickLost(k)
    BY <1>5 DEF Fails
  <2>2. UNCHANGED vars
    BY <2>1 DEF CrankBuy, SkipSell, ReadPot, ReadResidue, ItemFails, TickLost, Goes
  <2> QED BY <1>1, <2>1, <2>2, ItemTypes, SellTypes, EndingTypes
<1> QED BY <1>4, <1>5

-----------------------------------------------------------------------------
(* What the chain sees of the daemons: transactions.                           *)

\* A transaction that commits has pulled what its delegation allowed, and executes on
\* the ledger the pull left, through the daemon's venue.
LEMMA ExecuteRuns ==
  ASSUME RouterTypeOK, NEW k \in Daemons, NEW t \in Tx, Execute(k, t)
  PROVE  \E b \in [Accounts -> Nat] :
           /\ t.id[1] \in Users /\ t.id[2] \in Mints
           /\ Sound(Offer(t)) /\ MS \in Venues /\ RailTypeOK'
           /\ b = bal \/ b = AfterPull(t.id, t.pull)
           /\ \/ t.id[2] = Usdc /\ ExecuteBuy(b, t.id[1], MS, Offer(t))
              \/ t.id[2] = Target /\ ExecuteSell(b, t.id[1], MS, Offer(t))
<1> DEFINE b == IF t.pull = 0 THEN bal ELSE AfterPull(t.id, t.pull)
<1>1. t.id \in DelegationIds /\ t.pull \in Nat /\ t.net \in Nat /\ t.min_out \in Nat
  BY DEF Tx
<1>2. t.id[1] \in Users /\ t.id[2] \in Mints
  BY <1>1 DEF DelegationIds
<1>3. Sound(Offer(t)) /\ MS \in Venues
  BY <1>1, <1>2, AccountsExist, DaemonAssumption DEF Sound, Offer, Venues
<1>4. b \in [Accounts -> Nat] /\ RailTypeOK'
  <2>1. CASE t.pull = 0
    BY <2>1 DEF Execute, PullsFor, RouterTypeOK, LedgerTypeOK, RailTypeOK
  <2>2. CASE t.pull # 0
    BY <1>1, <2>2, PullType DEF Execute, PullsFor, RailTypeOK
  <2> QED BY <2>1, <2>2
<1>5. IF t.id[2] = Usdc THEN ExecuteBuy(b, t.id[1], MS, Offer(t))
                        ELSE ExecuteSell(b, t.id[1], MS, Offer(t))
  BY DEF Execute
<1>6. b = bal \/ b = AfterPull(t.id, t.pull)
  OBVIOUS
<1> HIDE DEF b
<1> QED BY <1>2, <1>3, <1>4, <1>5, <1>6 DEF Mints

\* A step of the daemons' world is one of the program's, or of a daemon alone, or a
\* transaction.
LEMMA ChainSteps ==
  ASSUME DInv, [DaemonNext]_allVars
  PROVE  \/ [Next]_vars /\ UNCHANGED daemonVars
         \/ \E k \in Daemons : (Works(k) \/ Fails(k))
         \/ \E k \in Daemons, s \in 1..InFlight :
              /\ flight' = [flight EXCEPT ![k][s] = None]
              /\ UNCHANGED <<pc, seen, todo, item>>
              /\ \/ UNCHANGED vars
                 \/ \E t \in Tx : Execute(k, t)
<1>1. CASE World
  BY <1>1 DEF World, Next, Delegations
<1>2. CASE UNCHANGED allVars
  BY <1>2 DEF allVars
<1>3. ASSUME NEW k \in Daemons, NEW s \in 1..InFlight, Land(k, s)
      PROVE  /\ flight' = [flight EXCEPT ![k][s] = None]
             /\ UNCHANGED <<pc, seen, todo, item>>
             /\ \E t \in Tx : Execute(k, t)
  <2>1. flight[k][s] \in Tx
    BY <1>3, DInvParts DEF Land, OwnTypeOK
  <2> QED BY <1>3, <2>1 DEF Land, Forget
<1>4. ASSUME NEW k \in Daemons, NEW s \in 1..InFlight, Drop(k, s)
      PROVE  /\ flight' = [flight EXCEPT ![k][s] = None]
             /\ UNCHANGED <<pc, seen, todo, item>> /\ UNCHANGED vars
  BY <1>4 DEF Drop, Forget
<1> QED BY <1>1, <1>2, <1>3, <1>4 DEF DaemonNext

LEMMA ExecuteIInv ==
  ASSUME IInv, NEW k \in Daemons, NEW t \in Tx, Execute(k, t)
  PROVE  IInv'
  BY ExecuteRuns, BuyStep, SellStep, IInvByUser

LEMMA InitDInv == DaemonInit => DInv
<1> SUFFICES ASSUME DaemonInit PROVE DInv
  OBVIOUS
<1>1. IInv
  BY InitIInv DEF DaemonInit
<1>2. \A k \in Daemons : Nothing(k) \in Seen /\ Nothing(k).bps = 0
  BY DaemonAssumption, RailAssumption, AccountsExist DEF Nothing, Seen
<1>3. 0 <= MAX_FEE_BPS
  BY SMT DEF MAX_FEE_BPS
<1>4. OwnTypeOK
  BY <1>2 DEF DaemonInit, OwnTypeOK, Stages
<1>5. \A k \in Daemons : Sane(k)
  BY <1>2, <1>3 DEF DaemonInit, Sane
<1> QED BY <1>1, <1>4, <1>5, DInvParts

LEMMA NextDInv == DInv /\ [DaemonNext]_allVars => DInv'
<1> SUFFICES ASSUME DInv, [DaemonNext]_allVars PROVE DInv'
  OBVIOUS
<1> USE DInvParts
<1>1. CASE [Next]_vars /\ UNCHANGED daemonVars
  <2>1. IInv'
    BY <1>1, NextIInv
  <2>2. OwnTypeOK' /\ \A k \in Daemons : Sane(k)'
    BY <1>1 DEF daemonVars, OwnTypeOK, Sane
  <2> QED BY <2>1, <2>2
<1>2. CASE \E k \in Daemons : (Works(k) \/ Fails(k))
  <2>1. OwnTypeOK' /\ (\A j \in Daemons : Sane(j)') /\ UNCHANGED vars
    BY <1>2, StageTypes
  <2>2. IInv'
    BY <2>1, NextIInv
  <2> QED BY <2>1, <2>2
<1>3. ASSUME NEW k \in Daemons, NEW s \in 1..InFlight,
             flight' = [flight EXCEPT ![k][s] = None],
             UNCHANGED <<pc, seen, todo, item>>,
             UNCHANGED vars \/ \E t \in Tx : Execute(k, t)
      PROVE  DInv'
  <2>1. IInv'
    BY <1>3, NextIInv, ExecuteIInv
  <2>2. OwnTypeOK' /\ \A j \in Daemons : Sane(j)'
    BY <1>3 DEF OwnTypeOK, Sane
  <2> QED BY <2>1, <2>2
<1> QED BY <1>1, <1>2, <1>3, ChainSteps

THEOREM DaemonInvariance == DaemonSpec => []DInv
  BY InitDInv, NextDInv, PTL DEF DaemonSpec

\* Whatever the daemons read, however stale, what they hold and send stays in its
\* domain, and so does the chain.
THEOREM DaemonTypeCorrect == DaemonSpec => []DTypeOK
<1>1. DInv => DTypeOK
  BY DEF DInv
<1> QED BY <1>1, DaemonInvariance, PTL

-----------------------------------------------------------------------------
(* The schedule, with daemons that race and retry.                             *)

LEMMA DaemonMoves ==
  ASSUME DInv, [DaemonNext]_allVars, NEW u \in Users
  PROVE  Moves(u)
<1>1. RouterTypeOK
  BY IInvByUser DEF DInv
<1>2. ASSUME UNCHANGED vars PROVE Moves(u)
  BY <1>1, <1>2, NextMoves
<1>3. ASSUME NEW k \in Daemons, NEW t \in Tx, Execute(k, t) PROVE Moves(u)
  <2>1. PICK b \in [Accounts -> Nat] :
          /\ t.id[1] \in Users /\ MS \in Venues
          /\ \/ ExecuteBuy(b, t.id[1], MS, Offer(t))
             \/ ExecuteSell(b, t.id[1], MS, Offer(t))
    BY <1>1, <1>3, ExecuteRuns
  <2>2. CASE ExecuteBuy(b, t.id[1], MS, Offer(t))
    <3>1. now \in Nat /\ now' = now /\ UNCHANGED <<plan, history>>
      BY <1>1, <2>2, InputTypes DEF ExecuteBuy, RouterTypeOK, LedgerTypeOK
    <3>2. now' >= now
      BY <3>1, SMT
    <3> QED BY <3>1, <3>2 DEF Moves, Kept
  <2>3. CASE ExecuteSell(b, t.id[1], MS, Offer(t))
    BY <1>1, <2>1, <2>3, SellMoves DEF Moves
  <2> QED BY <2>1, <2>2, <2>3
<1> QED BY <1>1, <1>2, <1>3, ChainSteps, StageTypes, NextMoves

DSInv == DInv /\ SInv

LEMMA NextDSInv == DSInv /\ [DaemonNext]_allVars => DSInv'
<1> SUFFICES ASSUME DSInv, [DaemonNext]_allVars PROVE DSInv'
  OBVIOUS
<1>1. DInv' /\ IInv'
  BY NextDInv DEF DSInv, DInv
<1>2. \A u \in Users : Begun(u)'
  BY <1>1, DaemonMoves, BegunStep DEF DSInv
<1> QED BY <1>1, <1>2 DEF DSInv, SInv

\* However many daemons crank a plan, from whatever they read and whenever their
\* transactions land, a slot is served once, in time, and none after the last.
THEOREM DaemonKeepsSchedule == DaemonSpec => KeepsSchedule
<1>1. DaemonInit => DSInv /\ \A u \in Users : Plans(u)!Init
  BY InitDInv, InitSchedule DEF DaemonInit, DSInv, DInv, SInv
<1>2. DSInv /\ DSInv' /\ [DaemonNext]_allVars
        => [\A u \in Users : [Plans(u)!Next]_(Plans(u)!vars)]_vars
  <2> SUFFICES ASSUME DSInv, DSInv', [DaemonNext]_allVars, NEW u \in Users
               PROVE  [Plans(u)!Next]_(Plans(u)!vars)
    OBVIOUS
  <2> QED BY DaemonMoves, ScheduleStep DEF DSInv, SInv
<1> QED BY <1>1, <1>2, NextDSInv, PTL DEF DaemonSpec, KeepsSchedule

-----------------------------------------------------------------------------
(* Nothing is left with the program.                                           *)

\* Nobody starts with, or pays, tokens into a transient account, nor does a fee go there.
NothingPaidIn ==
  /\ \A t \in DirectTransfers : t.to \in Wallets \cup {Pool}
  /\ \A w \in FeeWallets : w \in Wallets \cup {Pool}
  /\ \A u \in Users, m \in Mints : InitBal[Transient(u, m)] = 0

\* A wallet's account and the pool's are nobody's transient account.
LEMMA NotTransient ==
  ASSUME NEW o \in Wallets \cup {Pool}, NEW m \in Mints, NEW u \in Users, NEW n \in Mints
  PROVE  Ata(o, m) # Transient(u, n)
  BY LedgerAssumption DEF Ata, Transient

\* A transfer leaves every account alone but the two that it names.
LEMMA TransferElsewhere ==
  ASSUME NEW b, DOMAIN b = Accounts, NEW from, NEW to, NEW x
  PROVE  /\ DOMAIN Transfer(b, from, to, x) = Accounts
         /\ \A a \in Accounts : a # from /\ a # to => Transfer(b, from, to, x)[a] = b[a]
  BY DEF Transfer

\* An execution that swaps with the pool, for the user, clears the transient account
\* of its input and touches no other.
LEMMA SettleDrains ==
  ASSUME RouterTypeOK, NEW b \in [Accounts -> Nat], NEW user \in Users, NEW in \in Mints,
         NEW kind, NEW venue, NEW fee, NEW floor, NEW offer,
         offer.sink = {Pool}, offer.payee = {user},
         feeConfig.destination \in Wallets \cup {Pool},
         SkimSwapAndVerify(b, kind, user, in, venue, fee, floor, offer)
  PROVE  /\ bal'[Transient(user, in)] = 0
         /\ \A u \in Users, m \in Mints :
              <<u, m>> # <<user, in>> => bal'[Transient(u, m)] = b[Transient(u, m)]
<1> DEFINE out     == Other(in)
           source  == Transient(user, in)
           skimmed == Transfer(b, source, Ata(feeConfig.destination, in), fee)
           taken(x) == Takes(skimmed, source, Ata(Pool, in), x)
<1>1. PICK amount_in, out_amount :
        /\ Drained(taken(amount_in), user, in)
        /\ bal' = Pays(taken(amount_in), Ata(Pool, out), Ata(user, out), out_amount)
  BY DEF SkimSwapAndVerify
<1>2. out \in Mints /\ out # in /\ user \in Wallets
  BY LedgerAssumption DEF Other, Mints
<1>3. \A u \in Users, m \in Mints :
        /\ Transient(u, m) # Ata(feeConfig.destination, in)
        /\ Transient(u, m) # Ata(Pool, in)
        /\ Transient(u, m) # Ata(Pool, out)
        /\ Transient(u, m) # Ata(user, out)
  BY <1>2, NotTransient
<1>4. \A u \in Users, m \in Mints : Transient(u, m) \in Accounts
  BY AccountsExist
<1>5. DOMAIN skimmed = Accounts /\ DOMAIN taken(amount_in) = Accounts
  BY TransferElsewhere DEF Takes
<1>6. \A u \in Users, m \in Mints :
        <<u, m>> # <<user, in>> => Transient(u, m) # source
  BY DEF Transient, Pda
<1>7. \A u \in Users, m \in Mints : bal'[Transient(u, m)] = taken(amount_in)[Transient(u, m)]
  BY <1>1, <1>3, <1>4, <1>5, TransferElsewhere DEF Pays
<1>8. \A u \in Users, m \in Mints :
        <<u, m>> # <<user, in>> => taken(amount_in)[Transient(u, m)] = b[Transient(u, m)]
  BY <1>3, <1>4, <1>5, <1>6, TransferElsewhere DEF Takes
<1> QED BY <1>1, <1>7, <1>8 DEF Drained

\* The fee goes to an owner that was considered.
FeeKnown == feeConfig # None => feeConfig.destination \in FeeWallets

HInv == DInv /\ NothingHeld /\ FeeKnown

\* A transaction puts the pull into the transient account that it drains.
LEMMA ExecuteHolds ==
  ASSUME NothingPaidIn, HInv, NEW k \in Daemons, NEW t \in Tx, Execute(k, t)
  PROVE  NothingHeld'
<1>1. RouterTypeOK
  BY IInvByUser DEF HInv, DInv
<1>2. PICK b \in [Accounts -> Nat] :
        /\ t.id[1] \in Users /\ t.id[2] \in Mints
        /\ b = bal \/ b = AfterPull(t.id, t.pull)
        /\ \/ t.id[2] = Usdc /\ ExecuteBuy(b, t.id[1], MS, Offer(t))
           \/ t.id[2] = Target /\ ExecuteSell(b, t.id[1], MS, Offer(t))
  BY <1>1, ExecuteRuns
<1> DEFINE user == t.id[1]
           in   == t.id[2]
<1>3. Offer(t).sink = {Pool} /\ Offer(t).payee = {user}
  BY DEF Offer
<1>4. /\ feeConfig # None
      /\ \E kind, venue, fee, floor :
           SkimSwapAndVerify(b, kind, user, in, venue, fee, floor, Offer(t))
  BY <1>2 DEF ExecuteBuy, ExecuteSell, CanExecute
<1>5. \A u \in Users, m \in Mints : <<u, m>> # <<user, in>> => b[Transient(u, m)] = 0
  <2>1. bal \in [Accounts -> Nat]
    BY <1>1 DEF RouterTypeOK, LedgerTypeOK
  <2>2. \A u \in Users, m \in Mints : bal[Transient(u, m)] = 0
    BY DEF HInv, NothingHeld
  <2>3. \A u \in Users, m \in Mints :
          <<u, m>> # <<user, in>> => /\ Transient(u, m) # Transient(user, in)
                                     /\ Transient(u, m) # Ata(user, in)
                                     /\ Transient(u, m) \in Accounts
    BY <1>2, NotTransient, AccountsExist, LedgerAssumption DEF Transient, Pda
  <2>4. CASE b = bal
    BY <2>2, <2>4
  <2>5. CASE b = AfterPull(t.id, t.pull)
    BY <2>1, <2>2, <2>3, <2>5, TransferElsewhere DEF AfterPull
  <2> QED BY <1>2, <2>4, <2>5
<1> HIDE DEF user, in
<1>6. feeConfig.destination \in Wallets \cup {Pool}
  BY <1>4 DEF HInv, FeeKnown, NothingPaidIn
<1>7. /\ bal'[Transient(user, in)] = 0
      /\ \A u \in Users, m \in Mints :
           <<u, m>> # <<user, in>> => bal'[Transient(u, m)] = b[Transient(u, m)]
  BY <1>1, <1>2, <1>3, <1>4, <1>6, SettleDrains DEF user, in
<1> QED BY <1>5, <1>7 DEF NothingHeld

LEMMA WorldHolds ==
  ASSUME NothingPaidIn, HInv, [DaemonNext]_allVars,
         ~\E k \in Daemons, t \in Tx : Execute(k, t)
  PROVE  NothingHeld'
<1>1. bal \in [Accounts -> Nat]
  BY IInvByUser DEF HInv, DInv, RouterTypeOK, LedgerTypeOK
<1>2. ASSUME NEW t \in DirectTransfers, TokenTransfer(t) PROVE NothingHeld'
  <2>1. t.from \in Wallets /\ t.mint \in Mints /\ t.to \in Wallets \cup {Pool}
    BY RouterAssumption DEF NothingPaidIn
  <2>2. \A u \in Users, m \in Mints : /\ Transient(u, m) # Ata(t.from, t.mint)
                                      /\ Transient(u, m) # Ata(t.to, t.mint)
                                      /\ Transient(u, m) \in Accounts
    BY <2>1, NotTransient, AccountsExist
  <2>3. bal' = Transfer(bal, Ata(t.from, t.mint), Ata(t.to, t.mint), t.amount)
    BY <1>2 DEF TokenTransfer
  <2> QED BY <1>1, <2>2, <2>3, TransferElsewhere DEF HInv, NothingHeld
<1>3. CASE bal' = bal
  BY <1>3 DEF HInv, NothingHeld
<1>4. CASE World
  <2>1. CASE Admin \/ Plan
    BY <1>3, <2>1 DEF Admin, Plan, InitConfig, SetPause, SetParams, SetWhitelist,
                      InitFeeConfig, SetFee, OpenSellPlan, CloseSellPlan, railVars
  <2>2. CASE \E u \in Users, m \in Mints, n \in Nonces :
               (\E k \in Keepers : Grant(u, m, n, k)) \/ Revoke(u, m, n)
    BY <1>3, <2>2 DEF Grant, Revoke, CreateDelegation, RevokeDelegation
  <2>3. CASE TimePasses
    BY <1>3, <2>3 DEF TimePasses, Tick
  <2> QED BY <1>2, <1>4, <2>1, <2>2, <2>3 DEF World
<1>5. DInv
  BY DEF HInv
<1>6. CASE UNCHANGED vars
  BY <1>3, <1>6 DEF vars
<1>7. ASSUME NEW k \in Daemons, Works(k) \/ Fails(k) PROVE UNCHANGED vars
  BY <1>5, <1>7, StageTypes
<1>8. ASSUME NEW k \in Daemons, NEW s \in 1..InFlight, Land(k, s) PROVE FALSE
  <2>1. flight[k][s] \in Tx
    BY <1>5, <1>8, DInvParts DEF Land, OwnTypeOK
  <2> QED BY <1>8, <2>1 DEF Land
<1>9. ASSUME NEW k \in Daemons, NEW s \in 1..InFlight, Drop(k, s) PROVE UNCHANGED vars
  BY <1>9 DEF Drop
<1> QED BY <1>4, <1>6, <1>7, <1>8, <1>9 DEF DaemonNext, allVars

\* Init_fee_config and set_fee choose among the owners considered, and nothing else
\* moves the fee.
LEMMA FeeStaysKnown ==
  ASSUME DInv, FeeKnown, [DaemonNext]_allVars
  PROVE  FeeKnown'
<1>1. CASE feeConfig' = feeConfig
  BY <1>1 DEF FeeKnown
<1>2. ASSUME [Next]_vars PROVE FeeKnown'
  <2>1. ASSUME NEW a \in Wallets, InitFeeConfig(a) PROVE FeeKnown'
    BY <2>1 DEF InitFeeConfig, FeeKnown
  <2>2. ASSUME NEW a \in Wallets, SetFee(a) PROVE FeeKnown'
    <3>1. feeConfig \in FeeConfig
      BY <2>2, IInvByUser DEF SetFee, DInv, RouterTypeOK
    <3> QED BY <2>2, <3>1 DEF SetFee, FeeKnown, FeeConfig
  <2>3. CASE UNCHANGED vars
    BY <1>1, <2>3 DEF vars
  <2> QED BY <1>1, <1>2, <2>1, <2>2, <2>3
      DEF Next, Admin, Plan, Crank, Delegations, InitConfig, SetPause, SetParams,
          SetWhitelist, OpenSellPlan, CloseSellPlan, ExecuteBuy, ExecuteSell, Grant,
          Revoke, Pull, TokenTransfer, TimePasses, OutsideProgram
<1>3. ASSUME NEW k \in Daemons, NEW t \in Tx, Execute(k, t) PROVE FeeKnown'
  <2>1. RouterTypeOK
    BY IInvByUser DEF DInv
  <2> QED BY <1>1, <1>3, <2>1, ExecuteRuns DEF ExecuteBuy, ExecuteSell
<1>4. CASE UNCHANGED vars
  BY <1>1, <1>4 DEF vars
<1> QED BY <1>2, <1>3, <1>4, ChainSteps, StageTypes

\* As long as nobody pays into them, the transient accounts are empty between
\* transactions in both mints, whatever the daemons' transactions were composed from
\* and whichever of them land, in whatever order.
THEOREM DaemonHoldsNothing == ASSUME NothingPaidIn PROVE DaemonSpec => []NothingHeld
<1>1. DaemonInit => HInv
  <2> SUFFICES ASSUME DaemonInit PROVE NothingHeld /\ FeeKnown
    BY InitDInv DEF HInv
  <2> QED BY DEF DaemonInit, Init, LedgerInit, NothingHeld, NothingPaidIn, FeeKnown
<1>2. HInv /\ [DaemonNext]_allVars => HInv'
  <2> SUFFICES ASSUME HInv, [DaemonNext]_allVars PROVE HInv'
    OBVIOUS
  <2>1. DInv'
    BY NextDInv DEF HInv
  <2>2. NothingHeld'
    BY ExecuteHolds, WorldHolds
  <2>3. FeeKnown'
    BY FeeStaysKnown DEF HInv
  <2> QED BY <2>1, <2>2, <2>3 DEF HInv
<1>3. HInv => NothingHeld
  BY DEF HInv
<1> QED BY <1>1, <1>2, <1>3, PTL DEF DaemonSpec

-----------------------------------------------------------------------------
(* Custody, with a pull and its execution in one transaction.                  *)

LEMMA ExecuteCustody ==
  ASSUME IInv, FloorsFit, NEW k \in Daemons, NEW t \in Tx, Execute(k, t), NEW u \in Users
  PROVE  Vault(u)!Next
<1> DEFINE w  == t.id[1]
           in == t.id[2]
           n  == t.id[3]
           x  == t.pull
           b  == IF x = 0 THEN bal ELSE AfterPull(t.id, x)
<1>1. RouterTypeOK /\ bal \in [Accounts -> Nat]
  BY IInvByUser DEF RouterTypeOK, LedgerTypeOK
<1>2. /\ t.id \in DelegationIds /\ x \in Nat /\ t.net \in Nat /\ t.min_out \in Nat
      /\ w \in Users /\ in \in Mints /\ n \in Nonces /\ t.id = <<w, in, n>>
  BY DEF Tx, DelegationIds
<1>3. Sound(Offer(t))
  BY <1>2, AccountsExist DEF Sound, Offer
<1>4. Executes(b, w, in, MS, Offer(t)) /\ now' = now
  BY <1>2 DEF Execute, Executes, ExecuteBuy, ExecuteSell, Mints
<1>5. Ata(w, in) \in Accounts /\ Transient(w, in) \in Accounts
  BY <1>2, AccountsExist
<1>6. /\ b \in [Accounts -> Nat] /\ b = Transfer(bal, Ata(w, in), Transient(w, in), x)
      /\ x <= bal[Ata(w, in)]
      /\ Pullable(delegation[t.id]) - Pullable(delegation[t.id])' = x
      /\ \A id \in DelegationIds : id # t.id => delegation'[id] = delegation[id]
  <2>1. CASE x = 0
    <3>1. UNCHANGED delegation /\ b = bal
      BY <2>1 DEF Execute, PullsFor
    <3>2. Pullable(delegation[t.id]) - Pullable(delegation[t.id])' = x
      BY <1>1, <1>2, <1>4, <2>1, <3>1, PullableType, LineKept, SMT
    <3>3. bal = Transfer(bal, Ata(w, in), Transient(w, in), x)
      BY <1>1, <1>5, <2>1 DEF Transfer
    <3>4. x <= bal[Ata(w, in)]
      BY <1>1, <1>5, <2>1
    <3> QED BY <1>1, <3>1, <3>2, <3>3, <3>4
  <2>2. CASE x # 0
    <3>1. CanPull(t.id, x) /\ Charge(t.id, x)
      BY <2>2 DEF Execute, PullsFor
    <3>2. b = AfterPull(t.id, x)
      BY <2>2
    <3>3. Pullable(delegation[t.id]) - Pullable(delegation[t.id])' = x
      BY <1>1, <1>2, <1>4, <3>1, PullSpends
    <3>4. \A id \in DelegationIds : id # t.id => delegation'[id] = delegation[id]
      BY <1>1, <3>1 DEF Charge, RouterTypeOK, RailTypeOK
    <3>5. b \in [Accounts -> Nat]
      BY <1>1, <1>2, <3>1, <3>2, PullType
    <3> QED BY <3>1, <3>2, <3>3, <3>4, <3>5 DEF AfterPull, CanPull
  <2> QED BY <2>1, <2>2
<1> HIDE DEF w, in, n, x, b
<1>7. CASE w = u
  <2>1. Vault(u)!Trade(<<in, n>>)
    BY <1>2, <1>3, <1>4, <1>6, <1>7, TradesWhole
  <2> QED BY <1>2, <2>1 DEF Vault!Next, Vault!Assets, Mints
<1>8. CASE w # u
  <2>1. \A m \in Mints, o \in Nonces : delegation'[<<u, m, o>>] = delegation[<<u, m, o>>]
    BY <1>2, <1>6, <1>8 DEF DelegationIds
  <2>2. \A m \in Mints :
          /\ Ata(u, m) \in Accounts /\ Transient(u, m) \in Accounts
          /\ Ata(u, m) # Ata(w, in) /\ Ata(u, m) # Transient(w, in)
          /\ Transient(u, m) # Ata(w, in) /\ Transient(u, m) # Transient(w, in)
    BY <1>2, <1>8, AccountsDiffer, AccountsExist
  <2>3. \A m \in Mints : /\ b[Ata(u, m)] = bal[Ata(u, m)]
                         /\ b[Transient(u, m)] = bal[Transient(u, m)]
    BY <1>1, <1>6, <2>2 DEF Transfer
  <2> QED BY <1>2, <1>3, <1>4, <1>6, <1>8, <2>1, <2>3, OthersTrade
<1> QED BY <1>7, <1>8

\* Between a daemon's stale reads and the landing of what it composed, the admin may
\* change the terms and the user revoke or close: what lands is still a trade that
\* custody allows at the instant it lands.
THEOREM DaemonKeepsCustody == DaemonSpec /\ []FloorsFit => KeepsCustody
<1>1. DaemonInit => \A u \in Users : Vault(u)!Init
  BY InitCustody DEF DaemonInit
<1>2. DInv /\ FloorsFit /\ [DaemonNext]_allVars
        => [\A u \in Users : ~PaysItself(u) => [Vault(u)!Next]_(Vault(u)!vars)]_vars
  <2> SUFFICES ASSUME DInv, FloorsFit, [DaemonNext]_allVars, NEW u \in Users,
                      ~PaysItself(u)
               PROVE  [Vault(u)!Next]_(Vault(u)!vars)
    OBVIOUS
  <2>1. IInv
    BY DEF DInv
  <2>2. CASE [Next]_vars
    BY <2>1, <2>2, CustodyStep
  <2>3. CASE \E k \in Daemons : (Works(k) \/ Fails(k))
    BY <2>1, <2>3, StageTypes, CustodyStep
  <2>4. CASE \E k \in Daemons, t \in Tx : Execute(k, t)
    BY <2>1, <2>4, ExecuteCustody
  <2> QED BY <2>2, <2>3, <2>4, ChainSteps
<1> QED BY <1>1, <1>2, DaemonInvariance, PTL DEF DaemonSpec, KeepsCustody

-----------------------------------------------------------------------------
(* The runway, with draws computed from balances and instants read earlier.    *)

LEMMA ExecutePot ==
  ASSUME IInv, NEW k \in Daemons, NEW t \in Tx, Execute(k, t), NEW u \in Users
  PROVE  PotMoves(u)
<1>1. RouterTypeOK
  BY IInvByUser
<1>2. PICK b \in [Accounts -> Nat] :
        /\ t.id[1] \in Users /\ t.id[2] \in Mints /\ Sound(Offer(t)) /\ MS \in Venues
        /\ b = bal \/ b = AfterPull(t.id, t.pull)
        /\ Executes(b, t.id[1], t.id[2], MS, Offer(t))
  BY <1>1, ExecuteRuns DEF Executes
<1>3. t.id \in DelegationIds /\ t.pull \in Nat
  BY DEF Tx
<1>4. Holdings(b, u, Target) = Held(u)
  BY <1>1, <1>2, <1>3, PullKeepsPot DEF Held
<1> QED BY <1>2, <1>4, ExecutionPot

LEMMA DaemonPot ==
  ASSUME DInv, [DaemonNext]_allVars, NEW u \in Users
  PROVE  PotMoves(u)
<1>1. IInv
  BY DEF DInv
<1> QED BY <1>1, ChainSteps, StageTypes, NextPot, ExecutePot

\* However stale the pot, the residue and the clock that a draw was computed from, and
\* however many daemons draw, a plan's pot is never ahead of its slots: the program's
\* cap, not the daemon's mirror of it, is what decides.
THEOREM DaemonNeverOutruns == DaemonSpec => []NeverOutrun
<1>1. DaemonInit => DInv /\ RInv
  BY InitDInv, InitRunway DEF DaemonInit
<1>2. DInv /\ RInv /\ [DaemonNext]_allVars => (DInv /\ RInv)'
  <2> SUFFICES ASSUME DInv, RInv, [DaemonNext]_allVars PROVE (DInv /\ RInv)'
    OBVIOUS
  <2>1. DInv' /\ IInv'
    BY NextDInv DEF DInv
  <2>2. \A u \in Users : Begun(u)'
    BY <2>1, DaemonMoves, BegunStep DEF RInv
  <2>3. \A u \in Users : Runway(u)'
    BY <2>1, DaemonPot, RunwayStep
  <2> QED BY <2>1, <2>2, <2>3 DEF RInv, SInv
<1> QED BY <1>1, <1>2, RunwayIsNeverOutrun, PTL DEF DaemonSpec

-----------------------------------------------------------------------------
(* The price and the venue of what lands.                                      *)

LEMMA ExecutePays ==
  ASSUME IInv, FloorsFit, NEW k \in Daemons, NEW t \in Tx, Execute(k, t)
  PROVE  PaidInFull
<1> DEFINE user    == t.id[1]
           in      == t.id[2]
           wallet  == Ata(user, in)
           transit == Transient(user, in)
           dest    == Ata(user, Other(in))
<1>1. RouterTypeOK /\ bal \in [Accounts -> Nat]
  BY IInvByUser DEF RouterTypeOK, LedgerTypeOK
<1>2. PICK b \in [Accounts -> Nat] :
        /\ user \in Users /\ in \in Mints /\ Sound(Offer(t))
        /\ b = bal \/ b = Transfer(bal, wallet, transit, t.pull)
        /\ Executes(b, user, in, MS, Offer(t))
  BY <1>1, ExecuteRuns DEF Executes, AfterPull
<1>3. t.pull \in Nat
  BY DEF Tx
<1>4. /\ wallet \in Accounts /\ transit \in Accounts /\ dest \in Accounts
      /\ wallet # transit /\ dest # wallet /\ dest # transit
  <2>1. Other(in) # in /\ Other(in) \in Mints
    BY <1>2, AccountsDiffer
  <2>2. Ata(user, in) # Transient(user, in) /\ Ata(user, Other(in)) # Transient(user, in)
    BY <1>2, <2>1, AccountsDiffer
  <2> QED BY <1>2, <2>1, <2>2, AccountsExist DEF Ata
<1>5. bal[wallet] \in Nat /\ bal[transit] \in Nat
  BY <1>1, <1>4
<1>6. b[dest] = bal[dest]
  BY <1>1, <1>2, <1>4 DEF Transfer
<1>7. b[transit] <= Holdings(bal, user, in)
  <2> HIDE DEF wallet, transit
  <2>1. CASE b = bal
    <3>1. b[transit] <= bal[wallet] + bal[transit]
      BY <1>5, <2>1, SMT
    <3> QED BY <3>1 DEF Holdings, wallet, transit
  <2>2. CASE b = Transfer(bal, wallet, transit, t.pull)
    <3>1. b[transit] = bal[transit] + t.pull /\ b[wallet] = bal[wallet] - t.pull
      BY <1>1, <1>4, <2>2 DEF Transfer
    <3>2. b[wallet] \in Nat
      BY <1>4
    <3>3. b[transit] <= bal[wallet] + bal[transit]
      BY <1>3, <1>5, <3>1, <3>2, SMT
    <3> QED BY <3>3 DEF Holdings, wallet, transit
  <2> QED BY <1>2, <2>1, <2>2
<1> QED BY <1>2, <1>6, <1>7, ExecutionPays

\* The floor of a landing transaction is that of the instant it lands in, not the one
\* its daemon composed it for: it pays the reference price of the day, or is refused.
THEOREM DaemonPaysReferencePrice == DaemonSpec /\ []FloorsFit => NeverUnderpaid
<1>1. DInv /\ FloorsFit /\ [DaemonNext]_allVars => [PaidInFull]_vars
  <2> SUFFICES ASSUME DInv, FloorsFit, [DaemonNext]_allVars PROVE [PaidInFull]_vars
    OBVIOUS
  <2>1. IInv
    BY DEF DInv
  <2> QED BY <2>1, ChainSteps, StageTypes, NextPays, ExecutePays
<1> QED BY <1>1, DaemonInvariance, PTL DEF DaemonSpec, NeverUnderpaid

\* A venue taken off the list while a transaction that names it is under way is not
\* called by it.
THEOREM DaemonCallsListed == DaemonSpec => []WhitelistHonoured
<1>1. DaemonInit => VInv
  BY InitVInv DEF DaemonInit
<1>2. DInv /\ DInv' /\ VInv /\ [DaemonNext]_allVars => VInv'
  <2> SUFFICES ASSUME DInv, DInv', VInv, [DaemonNext]_allVars PROVE VInv'
    OBVIOUS
  <2>1. TypeOK'
    BY DEF DInv, IInv
  <2>2. ASSUME [Next]_vars PROVE VInv'
    BY <2>1, <2>2, AdminVenues, CrankVenues, OtherVenues DEF Next, VInv
  <2>3. ASSUME NEW k \in Daemons, NEW t \in Tx, Execute(k, t) PROVE VInv'
    <3>1. /\ config # None /\ is_whitelisted(MS)
          /\ config' = config /\ approved' = approved /\ event'.venue = MS
      <4>1. RouterTypeOK
        BY IInvByUser DEF DInv
      <4>2. PICK b \in [Accounts -> Nat] :
              \/ ExecuteBuy(b, t.id[1], MS, Offer(t))
              \/ ExecuteSell(b, t.id[1], MS, Offer(t))
        BY <2>3, <4>1, ExecuteRuns
      <4> DEFINE user  == t.id[1]
                 offer == Offer(t)
      <4> HIDE DEF user, offer
      <4>3. CASE ExecuteBuy(b, user, MS, offer)
        BY <4>3 DEF ExecuteBuy, CanExecute, SkimSwapAndVerify
      <4>4. CASE ExecuteSell(b, user, MS, offer)
        BY <4>4 DEF ExecuteSell, CanExecute, SkimSwapAndVerify
      <4> QED BY <4>2, <4>3, <4>4 DEF user, offer
    <3>2. MS \in approved
      BY <3>1 DEF VInv, Current, is_whitelisted
    <3> QED BY <2>1, <3>1, <3>2 DEF VInv, Current, WhitelistHonoured
  <2> QED BY <2>2, <2>3, ChainSteps, StageTypes
<1>3. VInv => WhitelistHonoured
  BY DEF VInv
<1> QED BY <1>1, <1>2, <1>3, DaemonInvariance, PTL DEF DaemonSpec

-----------------------------------------------------------------------------
(* How often, and when at the latest, the daemons sell.                        *)

\* Daemons that race, retry and come back add no sell to those that a plan has slots for.
THEOREM DaemonSellBounded == DaemonSpec => []SellsBounded
<1>1. DaemonInit => DSInv /\ CInv
  BY InitDInv, InitCInv DEF DaemonInit, DSInv, CInv
<1>2. DSInv /\ CInv /\ [DaemonNext]_allVars => DSInv' /\ CInv'
  <2> SUFFICES ASSUME DSInv, CInv, [DaemonNext]_allVars PROVE DSInv' /\ CInv'
    OBVIOUS
  <2>1. DSInv' /\ IInv'
    BY NextDSInv DEF DSInv, DInv
  <2>2. \A u \in Users : Counted(u)'
    BY <2>1, DaemonMoves, CountedStep DEF DSInv, CInv
  <2> QED BY <2>1, <2>2 DEF CInv, DSInv
<1>3. CInv => SellsBounded
  BY DEF CInv, Counted, SellsBounded
<1> QED BY <1>1, <1>2, <1>3, PTL DEF DaemonSpec

\* Nor does a pull in the same transaction, or a draw from a stale clock, make a pot run
\* out sooner.
THEOREM DaemonRunsOutOnlyLate == DaemonSpec => []RunsOutOnlyLate
<1>1. DaemonInit => RunsOutOnlyLate
  BY DEF DaemonInit, Init, RunsOutOnlyLate
<1>2. DInv /\ RunsOutOnlyLate /\ [DaemonNext]_allVars => RunsOutOnlyLate'
  <2> SUFFICES ASSUME DInv, RunsOutOnlyLate, [DaemonNext]_allVars
               PROVE  RunsOutOnlyLate'
    OBVIOUS
  <2>1. IInv /\ RouterTypeOK
    BY IInvByUser DEF DInv
  <2>2. ASSUME [Next]_vars PROVE RunsOutOnlyLate'
    BY <2>1, <2>2, NextRunsOut
  <2>3. ASSUME NEW k \in Daemons, NEW t \in Tx, Execute(k, t) PROVE RunsOutOnlyLate'
    BY <2>1, <2>3, ExecuteRuns, ExecutionRunsOut DEF Executes
  <2> QED BY <2>2, <2>3, ChainSteps, StageTypes
<1> QED BY <1>1, <1>2, DaemonInvariance, PTL DEF DaemonSpec

-----------------------------------------------------------------------------
(* Revocation, with transactions under way.                                    *)

LEMMA ExecuteFlow ==
  ASSUME IInv, NEW k \in Daemons, NEW t \in Tx, Execute(k, t), NEW u \in Users
  PROVE  FlowStops(u)
<1> DEFINE w       == t.id[1]
           in      == t.id[2]
           wallet  == Ata(w, in)
           transit == Transient(w, in)
<1>1. RouterTypeOK /\ bal \in [Accounts -> Nat]
  BY IInvByUser DEF RouterTypeOK, LedgerTypeOK
<1>2. PICK b \in [Accounts -> Nat] :
        /\ w \in Users /\ in \in Mints /\ Sound(Offer(t))
        /\ b = bal \/ b = Transfer(bal, wallet, transit, t.pull)
        /\ Executes(b, w, in, MS, Offer(t))
  BY <1>1, ExecuteRuns DEF Executes, AfterPull
<1>3. /\ wallet \in Accounts /\ transit \in Accounts /\ bal[wallet] \in Nat
      /\ t.id \in DelegationIds /\ t.id[3] \in Nonces /\ t.id = <<w, in, t.id[3]>>
      /\ t.pull \in Nat
  BY <1>1, <1>2, AccountsExist DEF Tx, DelegationIds
<1>4. bal = Transfer(bal, wallet, transit, 0)
  BY <1>1, <1>3 DEF Transfer
<1>5. CASE b = bal
  <2>1. 0 \in Nat /\ 0 <= bal[wallet] /\ ~(0 > 0)
    BY <1>3, SMT
  <2> QED BY <1>2, <1>4, <1>5, <2>1, ExecutionFlow
<1>6. CASE t.pull # 0 /\ b = Transfer(bal, wallet, transit, t.pull)
  <2>1. CanPull(t.id, t.pull)
    BY <1>6 DEF Execute, PullsFor
  <2>2. Pullable(delegation[t.id]) > 0 /\ Pullable(delegation[t.id]) \in Int
    BY <1>1, <1>3, <2>1, CanPullPullable, PullableType
  <2>3. ~(Pullable(delegation[t.id]) <= 0)
    BY <2>2, SMT
  <2>4. ~Unpullable(w, in)
    BY <1>3, <2>3 DEF Unpullable
  <2>5. t.pull <= bal[wallet]
    BY <2>1 DEF CanPull
  <2> QED BY <1>2, <1>3, <1>6, <2>4, <2>5, ExecutionFlow
<1> QED BY <1>2, <1>4, <1>5, <1>6

\* A revocation, a closed plan or a pause stops the transactions that are under way: what
\* was composed before and lands after takes nothing.
THEOREM DaemonFlowStops == DaemonSpec => EitherStopsTheFlow
<1>1. DInv /\ [DaemonNext]_allVars => [\A u \in Users : ~PaysItself(u) => FlowStops(u)]_vars
  <2> SUFFICES ASSUME DInv, [DaemonNext]_allVars, NEW u \in Users, ~PaysItself(u)
               PROVE  FlowStops(u) \/ UNCHANGED vars
    OBVIOUS
  <2>1. IInv
    BY DEF DInv
  <2> QED BY <2>1, ChainSteps, StageTypes, NextFlow, ExecuteFlow
<1> QED BY <1>1, DaemonInvariance, PTL DEF DaemonSpec, EitherStopsTheFlow
=============================================================================
