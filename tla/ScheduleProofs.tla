--------------------------- MODULE ScheduleProofs ---------------------------
(* Proof that the plan of every user implements the abstract schedule.  What a *)
(* step may do to one user's plan is said once (Moves), and each of the cases  *)
(* is then matched with a step of the schedule.                                *)
EXTENDS RouterProofs

\* The four things that may happen to a user's plan.
Kept(u) ==
  /\ now' >= now
  /\ plan'[u] = plan[u]
  /\ \/ history'[u] = history[u]
     \/ /\ history[u] # None
        /\ history'[u] = [history[u] EXCEPT !.pot = 0]

Sold(u) ==
  /\ plan[u] # None
  /\ Due(plan[u])
  /\ now' = now
  /\ plan'[u] = [plan[u] EXCEPT !.next_due_ts =
                   NextDue(plan[u].next_due_ts, plan[u].period_secs, now)]
  /\ \E late \in Nat :
       history'[u] = WithSell(history[u], history[u].slots \cup {Slot(u, now)},
                              history[u].sells + 1, late)

Moves(u) == Kept(u) \/ Sold(u) \/ OpenSellPlan(u) \/ CloseSellPlan(u)

\* A sell is one of its own plan, and leaves the others alone.
LEMMA SellMoves ==
  ASSUME RouterTypeOK, NEW b, NEW offer, NEW user \in Users, NEW venue \in Venues,
         ExecuteSell(b, user, venue, offer), NEW u \in Users
  PROVE  IF u = user THEN Sold(u) ELSE Kept(u)
<1> DEFINE late == IF now > plan[user].end_ts THEN history[user].late + 1
                                              ELSE history[user].late
<1>1. /\ plan[user] # None
      /\ Due(plan[user])
      /\ plan' = [plan EXCEPT ![user].next_due_ts =
                    NextDue(plan[user].next_due_ts, plan[user].period_secs, now)]
      /\ history' = [history EXCEPT
           ![user].slots = @ \cup {Slot(user, now)},
           ![user].sells = @ + 1,
           ![user].late = IF now > plan[user].end_ts THEN @ + 1 ELSE @]
      /\ now' = now
  BY DEF ExecuteSell
<1>2. now' >= now
  BY <1>1, InputTypes, SMT DEF RouterTypeOK, LedgerTypeOK
<1>3. CASE u # user
  BY <1>1, <1>2, <1>3 DEF Kept, RouterTypeOK
<1>4. CASE u = user
  <2>1. history[u] \in History
    BY <1>1, <1>4 DEF RouterTypeOK
  <2>2. late \in Nat
    BY <1>4, <2>1, SMT DEF History
  <2>3. history'[u] = [history[u] EXCEPT !.slots = history[u].slots \cup {Slot(u, now)},
                                         !.sells = history[u].sells + 1, !.late = late]
    BY <1>1, <1>4 DEF RouterTypeOK
  <2>4. history'[u] = WithSell(history[u], history[u].slots \cup {Slot(u, now)},
                               history[u].sells + 1, late)
    BY <2>3 DEF WithSell
  <2>5. plan'[u] = [plan[u] EXCEPT !.next_due_ts =
                      NextDue(plan[u].next_due_ts, plan[u].period_secs, now)]
    BY <1>1, <1>4 DEF RouterTypeOK
  <2> QED BY <1>1, <1>4, <2>2, <2>4, <2>5 DEF Sold
<1> QED BY <1>3, <1>4

LEMMA NextMoves ==
  ASSUME RouterTypeOK, [Next]_vars, NEW u \in Users
  PROVE  Moves(u)
<1>1. now \in Nat
  BY InputTypes DEF RouterTypeOK, LedgerTypeOK
<1>2. now >= now
  BY <1>1, SMT
<1>3. CASE Admin
  BY <1>2, <1>3 DEF Admin, InitConfig, SetPause, SetParams, SetWhitelist, InitFeeConfig,
                    SetFee, railVars, Moves, Kept
<1>4. CASE Plan
  BY <1>2, <1>4 DEF Plan, OpenSellPlan, CloseSellPlan, railVars, RouterTypeOK, Moves, Kept
<1>5. CASE Crank
  <2>1. PICK w \in Users, v \in Venues :
          ExecuteBuy(bal, w, v, AnyOffer) \/ ExecuteSell(bal, w, v, AnyOffer)
    BY <1>5 DEF Crank
  <2>2. CASE ExecuteBuy(bal, w, v, AnyOffer)
    BY <1>2, <2>2 DEF ExecuteBuy, Moves, Kept
  <2>3. CASE ExecuteSell(bal, w, v, AnyOffer)
    BY <2>3, SellMoves DEF Moves
  <2> QED BY <2>1, <2>2, <2>3
<1>6. CASE Delegations
  BY <1>2, <1>6 DEF Delegations, Grant, Revoke, Pull, OutsideProgram, CreateDelegation,
                    RevokeDelegation, TransferRecurring, Moves, Kept
<1>7. CASE \E t \in DirectTransfers : TokenTransfer(t)
  BY <1>2, <1>7 DEF TokenTransfer, OutsideProgram, Moves, Kept
<1>8. CASE TimePasses
  <2>1. now' \in Times /\ now' > now /\ UNCHANGED <<plan, history>>
    BY <1>8 DEF TimePasses, Tick, OutsideProgram
  <2>2. now' >= now
    BY <1>1, <2>1, InputTypes, SMT
  <2> QED BY <2>1, <2>2 DEF Moves, Kept
<1>9. CASE UNCHANGED vars
  BY <1>2, <1>9 DEF vars, Moves, Kept
<1> QED BY <1>3, <1>4, <1>5, <1>6, <1>7, <1>8, <1>9 DEF Next

-----------------------------------------------------------------------------
(* A plan starts no later than now; IInv does not say so, and the clock of the *)
(* schedule would not be a number otherwise.                                   *)

Begun(u) == plan[u] # None => history[u].opened <= now

SInv == IInv /\ \A u \in Users : Begun(u)

\* The numbers of an open plan.
LEMMA PlanNumbers ==
  ASSUME IInv, NEW u \in Users, plan[u] # None
  PROVE  /\ plan[u] \in SellPlan /\ history[u] \in History
         /\ plan[u].period_secs \in Nat \ {0}
         /\ plan[u].next_due_ts \in Nat /\ plan[u].end_ts \in Nat /\ now \in Nat
         /\ history[u].opened \in Nat /\ history[u].sells \in Nat
         /\ plan[u].next_due_ts >= history[u].opened
<1>1. RouterTypeOK /\ PlanOK(u)
  BY IInvByUser
<1>2. plan[u] \in SellPlan /\ history[u] \in History
  BY <1>1 DEF RouterTypeOK
<1>3. plan[u].period_secs \in Nat \ {0}
  BY <1>2, PeriodPositive DEF SellPlan
<1>4. now \in Nat
  BY <1>1, InputTypes DEF RouterTypeOK, LedgerTypeOK
<1> QED BY <1>1, <1>2, <1>3, <1>4 DEF SellPlan, History, PlanOK

\* An instant from the opening on falls into a slot, and a later one into no earlier.
LEMMA SlotLaw ==
  ASSUME IInv, NEW u \in Users, plan[u] # None,
         NEW s \in Nat, NEW t \in Nat, history[u].opened <= s, s <= t
  PROVE  Slot(u, s) \in Nat /\ Slot(u, t) \in Nat /\ Slot(u, s) <= Slot(u, t)
<1>1. plan[u].period_secs \in Nat \ {0} /\ history[u].opened \in Nat
  BY PlanNumbers
<1>2. /\ s - history[u].opened \in Nat /\ t - history[u].opened \in Nat
      /\ s - history[u].opened <= t - history[u].opened
  BY <1>1, SMT
<1> QED BY <1>1, <1>2, DivLaw, DivMonotone DEF Slot

\* What a step keeps of a plan that it does not open, close or sell for.
LEMMA KeptFields ==
  ASSUME IInv, NEW u \in Users, plan[u] # None, Kept(u)
  PROVE  /\ plan'[u] = plan[u]
         /\ history'[u].opened = history[u].opened
         /\ history'[u].slots = history[u].slots
         /\ history'[u].sells = history[u].sells
<1>1. history[u] \in History
  BY PlanNumbers
<1> QED BY <1>1 DEF Kept, History

\* What a sell does to a plan: it falls into a slot that was not sold in, due and no
\* later than the last, and makes the slot after it the next one.
LEMMA SoldFields ==
  ASSUME IInv, NEW u \in Users, Sold(u)
  PROVE  /\ plan[u] # None /\ plan'[u] # None
         /\ plan'[u].end_ts = plan[u].end_ts
         /\ plan'[u].period_secs = plan[u].period_secs
         /\ history'[u].opened = history[u].opened
         /\ history'[u].slots = history[u].slots \cup {Slot(u, now)}
         /\ history'[u].sells = history[u].sells + 1
         /\ history[u].opened <= now
         /\ Elapsed(u) <= Slot(u, now)
         /\ Elapsed(u) <= Slot(u, plan[u].end_ts)
         /\ Slot(u, now) \notin history[u].slots
         /\ Elapsed(u)' = Slot(u, now) + 1
<1> DEFINE p    == plan[u]
           h    == history[u]
           slot == Slot(u, now)
           gate == NextDue(p.next_due_ts, p.period_secs, now)
<1>1. /\ p # None /\ p \in SellPlan /\ h \in History /\ PlanOK(u)
      /\ p.period_secs \in Nat \ {0} /\ p.next_due_ts \in Nat /\ p.end_ts \in Nat
      /\ h.opened \in Nat /\ h.sells \in Nat /\ h.slots \subseteq Nat
      /\ now \in Nat /\ p.next_due_ts >= h.opened
      /\ now >= p.next_due_ts /\ p.next_due_ts <= p.end_ts
  BY PlanNumbers, IInvByUser DEF Sold, Due, History
<1>2. /\ Elapsed(u) = SlotAt(h.opened, p.period_secs, p.next_due_ts)
      /\ slot = SlotAt(h.opened, p.period_secs, now)
      /\ p.next_due_ts - h.opened \in Nat
      /\ p.next_due_ts = h.opened + Elapsed(u) * p.period_secs
      /\ \A s \in h.slots : s < Elapsed(u)
  BY <1>1, SMT DEF PlanOK, Elapsed, Slot, SlotAt
<1>3. Elapsed(u) \in Nat
  BY <1>1, <1>2, DivLaw DEF SlotAt
<1>4. /\ slot \in Nat /\ slot >= Elapsed(u)
      /\ SlotAt(h.opened, p.period_secs, gate) = slot + 1
  BY <1>1, <1>2, NextDueOnGrid
<1>5. Elapsed(u) <= Slot(u, p.end_ts)
  BY <1>1, SlotLaw DEF Elapsed
<1>6. slot \notin h.slots
  <2>1. ~(slot < Elapsed(u))
    BY <1>3, <1>4, SMT
  <2> QED BY <1>2, <2>1
<1>7. gate \in Nat
  BY <1>1, NextDueLaw
<1>8. /\ plan'[u] = [p EXCEPT !.next_due_ts = gate]
      /\ \E late \in Nat : history'[u] = WithSell(h, h.slots \cup {slot}, h.sells + 1, late)
  BY DEF Sold
<1> HIDE DEF p, h, slot, gate
<1>9. /\ plan'[u] \in SellPlan /\ plan'[u].next_due_ts = gate
      /\ plan'[u].end_ts = p.end_ts /\ plan'[u].period_secs = p.period_secs
  BY <1>1, <1>7, <1>8 DEF SellPlan
<1>10. /\ history'[u].opened = h.opened
       /\ history'[u].slots = h.slots \cup {slot}
       /\ history'[u].sells = h.sells + 1
  <2>1. h.slots \cup {slot} \subseteq Nat /\ h.sells + 1 \in Nat
    BY <1>1, <1>4
  <2> QED BY <1>1, <1>8, <2>1, WithSellType
<1>11. Elapsed(u)' = slot + 1
  BY <1>4, <1>9, <1>10 DEF Elapsed, Slot, SlotAt
<1>12. h.opened <= now
  BY <1>1, SMT
<1>13. plan'[u] # None
  BY <1>9, RouterAssumption
<1> QED BY <1>1, <1>4, <1>5, <1>6, <1>9, <1>10, <1>11, <1>12, <1>13 DEF p, h, slot

LEMMA BegunStep ==
  ASSUME SInv, IInv', NEW u \in Users, Moves(u)
  PROVE  Begun(u)'
<1> SUFFICES ASSUME plan'[u] # None PROVE history'[u].opened <= now'
  BY DEF Begun
<1>1. CASE Kept(u)
  <2>1. plan[u] # None /\ history'[u].opened = history[u].opened /\ now' >= now
    BY <1>1, KeptFields DEF SInv, Kept
  <2>2. history[u].opened \in Nat /\ now \in Nat /\ history[u].opened <= now
    BY <2>1, PlanNumbers DEF SInv, Begun
  <2>3. now' \in Nat
    BY InputTypes, IInvByUser DEF RouterTypeOK, LedgerTypeOK
  <2> QED BY <2>1, <2>2, <2>3, SMT
<1>2. CASE Sold(u)
  BY <1>2, SoldFields DEF SInv, Sold
<1>3. CASE OpenSellPlan(u)
  <2>1. RouterTypeOK
    BY IInvByUser DEF SInv
  <2>2. now \in Nat
    BY <2>1, InputTypes DEF RouterTypeOK, LedgerTypeOK
  <2>3. history'[u].opened = now /\ now' = now
    BY <1>3, <2>1 DEF OpenSellPlan, railVars, RouterTypeOK
  <2> QED BY <2>2, <2>3, SMT
<1>4. CASE CloseSellPlan(u)
  BY <1>4, IInvByUser DEF CloseSellPlan, SInv, RouterTypeOK
<1> QED BY <1>1, <1>2, <1>3, <1>4 DEF Moves

-----------------------------------------------------------------------------
(* The refinement, one case of Moves after the other.                          *)

LEMMA PassesOrStays ==
  ASSUME SInv, IInv', NEW u \in Users, Kept(u)
  PROVE  [Plans(u)!Next]_(Plans(u)!vars)
<1>1. CASE plan[u] = None
  <2>1. plan'[u] = None
    BY <1>1 DEF Kept
  <2> QED BY <1>1, <2>1 DEF Opened, Plans!vars
<1>2. CASE plan[u] # None
  <2>1. /\ plan'[u] = plan[u]
        /\ history'[u].opened = history[u].opened
        /\ history'[u].slots = history[u].slots
        /\ history'[u].sells = history[u].sells
    BY <1>2, KeptFields DEF SInv
  <2>2. Opened(u) /\ Opened(u)'
    BY <1>2, <2>1 DEF Opened
  <2>3. /\ Slot(u, plan[u].end_ts)' = Slot(u, plan[u].end_ts)
        /\ Slot(u, plan[u].next_due_ts)' = Slot(u, plan[u].next_due_ts)
        /\ Slot(u, now)' = Slot(u, now')
    BY <2>1 DEF Slot
  <2>4. Slot(u, now) \in Nat /\ Slot(u, now') \in Nat /\ Slot(u, now) <= Slot(u, now')
    <3>1. now \in Nat /\ now' \in Nat
      BY InputTypes, IInvByUser DEF SInv, RouterTypeOK, LedgerTypeOK
    <3>2. now <= now' /\ history[u].opened <= now
      BY <1>2, <3>1, SMT DEF SInv, Begun, Kept
    <3> QED BY <1>2, <3>1, <3>2, SlotLaw DEF SInv
  <2>5. CASE Slot(u, now') = Slot(u, now)
    BY <2>1, <2>2, <2>3, <2>5 DEF Plans!vars
  <2>6. CASE Slot(u, now') # Slot(u, now)
    <3>1. Slot(u, now') > Slot(u, now)
      BY <2>4, <2>6, SMT
    <3>2. Plans(u)!Pass
      BY <2>1, <2>2, <2>3, <2>4, <3>1 DEF Plans!Pass
    <3> QED BY <3>2 DEF Plans!Next
  <2> QED BY <2>5, <2>6
<1> QED BY <1>1, <1>2

LEMMA ServesSlot ==
  ASSUME SInv, NEW u \in Users, Sold(u)
  PROVE  Plans(u)!Serve
<1>1. /\ plan[u] # None /\ plan'[u] # None
      /\ plan'[u].end_ts = plan[u].end_ts
      /\ plan'[u].period_secs = plan[u].period_secs
      /\ history'[u].opened = history[u].opened
      /\ history'[u].slots = history[u].slots \cup {Slot(u, now)}
      /\ history'[u].sells = history[u].sells + 1
      /\ Elapsed(u) <= Slot(u, now)
      /\ Elapsed(u) <= Slot(u, plan[u].end_ts)
      /\ Slot(u, now) \notin history[u].slots
      /\ Elapsed(u)' = Slot(u, now) + 1
      /\ now' = now
  BY SoldFields DEF SInv, Sold
<1>2. Opened(u) /\ Opened(u)'
  BY <1>1 DEF Opened
<1>3. /\ Slot(u, now)' = Slot(u, now)
      /\ Slot(u, plan[u].end_ts)' = Slot(u, plan[u].end_ts)
      /\ Slot(u, plan[u].next_due_ts)' = Slot(u, now) + 1
  BY <1>1 DEF Slot, Elapsed
<1> QED BY <1>1, <1>2, <1>3 DEF Plans!Serve, Elapsed

LEMMA OpensSchedule ==
  ASSUME SInv, NEW u \in Users, OpenSellPlan(u)
  PROVE  Plans(u)!Open
<1>1. PICK end_ts \in EndTs, period_secs \in PeriodSecs :
        /\ PeriodAllowed(period_secs)
        /\ end_ts > now + period_secs
        /\ plan' = [plan EXCEPT ![u] =
             [end_ts |-> end_ts, period_secs |-> period_secs, next_due_ts |-> now]]
        /\ history' = [history EXCEPT ![u] =
             [opened |-> now, slots |-> {}, sells |-> 0, late |-> 0,
              pot |-> Holdings(bal, u, Target),
              periods |-> remaining_periods(end_ts, period_secs, now)]]
  BY DEF OpenSellPlan
<1>2. RouterTypeOK /\ plan[u] = None /\ now' = now
  BY IInvByUser DEF SInv, OpenSellPlan, railVars
<1>3. /\ plan'[u] = [end_ts |-> end_ts, period_secs |-> period_secs, next_due_ts |-> now]
      /\ history'[u].opened = now /\ history'[u].slots = {} /\ history'[u].sells = 0
  BY <1>1, <1>2 DEF RouterTypeOK
<1>4. now \in Nat /\ end_ts \in Nat /\ period_secs \in Nat \ {0}
  BY <1>1, <1>2, InputTypes, PeriodPositive DEF RouterTypeOK, LedgerTypeOK, PeriodAllowed
<1>5. (now - now) \div period_secs = 0
  BY <1>4, SMT
<1>6. (end_ts - now) \div period_secs \in Nat \ {0}
  <2>1. end_ts - now \in Nat /\ end_ts - now > period_secs
    BY <1>1, <1>4, SMT
  <2>2. /\ (end_ts - now) \div period_secs \in Nat
        /\ end_ts - now < period_secs * ((end_ts - now) \div period_secs) + period_secs
    BY <1>4, <2>1, DivLaw
  <2>3. (end_ts - now) \div period_secs # 0
    BY <1>4, <2>1, <2>2, SMT
  <2> QED BY <2>2, <2>3
<1>7. plan'[u] # None
  <2>1. plan'[u] \in SellPlan
    BY <1>1, <1>3, <1>4 DEF SellPlan, PeriodAllowed
  <2> QED BY <2>1, RouterAssumption
<1>8. ~Opened(u) /\ Opened(u)'
  BY <1>2, <1>7 DEF Opened
<1>9. /\ Slot(u, now)' = 0
      /\ Slot(u, plan[u].next_due_ts)' = 0
      /\ Slot(u, plan[u].end_ts)' \in Nat \ {0}
  BY <1>2, <1>3, <1>5, <1>6 DEF Slot
<1> QED BY <1>3, <1>8, <1>9 DEF Plans!Open

LEMMA ClosesSchedule ==
  ASSUME SInv, NEW u \in Users, CloseSellPlan(u)
  PROVE  Plans(u)!Close
<1>1. RouterTypeOK
  BY IInvByUser DEF SInv
<1>2. plan[u] # None /\ plan'[u] = None
  BY <1>1 DEF CloseSellPlan, RouterTypeOK
<1> QED BY <1>2 DEF Opened, Plans!Close, Plans!Closed

LEMMA ScheduleStep ==
  ASSUME SInv, IInv', NEW u \in Users, Moves(u)
  PROVE  [Plans(u)!Next]_(Plans(u)!vars)
  BY PassesOrStays, ServesSlot, OpensSchedule, ClosesSchedule DEF Moves, Plans!Next

LEMMA InitSchedule ==
  ASSUME Init, NEW u \in Users
  PROVE  Plans(u)!Init /\ Begun(u)
<1>1. plan[u] = None
  BY DEF Init
<1> QED BY <1>1 DEF Begun, Opened, Plans!Init, Plans!Closed

LEMMA NextSInv == SInv /\ [Next]_vars => SInv'
<1> SUFFICES ASSUME SInv, [Next]_vars PROVE SInv'
  OBVIOUS
<1>1. IInv'
  BY NextIInv DEF SInv
<1>2. \A u \in Users : Moves(u)
  BY IInvByUser, NextMoves DEF SInv
<1> QED BY <1>1, <1>2, BegunStep DEF SInv

\* PlansKeepSchedule (SPEC_M2 6.6 and 6.8): whatever amounts and instants keepers choose,
\* every user's sell plan implements the abstract schedule: one serving per slot, in
\* its slot, slots that were missed never caught up, none after the last.
THEOREM PlansKeepSchedule == Spec => KeepsSchedule
<1>1. Init => SInv /\ \A u \in Users : Plans(u)!Init
  BY InitIInv, InitSchedule DEF SInv
<1>2. SInv /\ [Next]_vars => SInv'
  BY NextSInv
<1>3. SInv /\ SInv' /\ [Next]_vars
        => [\A u \in Users : [Plans(u)!Next]_(Plans(u)!vars)]_vars
  <2> SUFFICES ASSUME SInv, SInv', [Next]_vars, NEW u \in Users
               PROVE  [Plans(u)!Next]_(Plans(u)!vars)
    OBVIOUS
  <2>1. Moves(u)
    BY IInvByUser, NextMoves DEF SInv
  <2> QED BY <2>1, ScheduleStep DEF SInv
<1> QED BY <1>1, <1>2, <1>3, PTL DEF Spec, KeepsSchedule

-----------------------------------------------------------------------------
(* How often a plan sells.  That the sells are no more than the slots of the    *)
(* plan is not inductive: that they are no more than the slots gone by is.      *)

Counted(u) ==
  plan[u] # None =>
    /\ history[u].sells <= Elapsed(u)
    /\ history[u].sells <= Slot(u, plan[u].end_ts) + 1

CInv == SInv /\ \A u \in Users : Counted(u)

\* The slots of an open plan are numbers.
LEMMA SlotNumbers ==
  ASSUME IInv, NEW u \in Users, plan[u] # None
  PROVE  /\ Elapsed(u) \in Int /\ Slot(u, now) \in Int /\ Slot(u, plan[u].end_ts) \in Int
         /\ history[u].sells \in Int
<1> DEFINE o == history[u].opened
           p == plan[u].period_secs
           d == plan[u].next_due_ts
           e == plan[u].end_ts
<1>1. o \in Nat /\ p \in Nat \ {0} /\ d \in Nat /\ e \in Nat /\ now \in Nat
  BY PlanNumbers
<1> HIDE DEF o, p, d, e
<1>2. (d - o) \div p \in Int /\ (now - o) \div p \in Int /\ (e - o) \div p \in Int
  BY <1>1, SMT
<1> QED BY <1>2, PlanNumbers DEF Elapsed, Slot, o, p, d, e

LEMMA CountedStep ==
  ASSUME SInv, IInv', NEW u \in Users, Counted(u), Moves(u)
  PROVE  Counted(u)'
<1> SUFFICES ASSUME plan'[u] # None
             PROVE  /\ history'[u].sells <= Elapsed(u)'
                    /\ history'[u].sells <= Slot(u, plan[u].end_ts)' + 1
  BY DEF Counted
<1>1. IInv
  BY DEF SInv
<1>2. CASE Kept(u)
  <2>1. plan[u] # None
    BY <1>2 DEF Kept
  <2>2. /\ plan'[u] = plan[u] /\ history'[u].opened = history[u].opened
        /\ history'[u].sells = history[u].sells
    BY <1>1, <1>2, <2>1, KeptFields
  <2>3. Elapsed(u)' = Elapsed(u) /\ Slot(u, plan[u].end_ts)' = Slot(u, plan[u].end_ts)
    BY <2>2 DEF Elapsed, Slot
  <2> QED BY <2>1, <2>2, <2>3 DEF Counted
<1>3. CASE Sold(u)
  <2>1. /\ plan[u] # None
        /\ plan'[u].end_ts = plan[u].end_ts
        /\ plan'[u].period_secs = plan[u].period_secs
        /\ history'[u].opened = history[u].opened
        /\ history'[u].sells = history[u].sells + 1
        /\ Elapsed(u) <= Slot(u, now)
        /\ Elapsed(u) <= Slot(u, plan[u].end_ts)
        /\ Elapsed(u)' = Slot(u, now) + 1
    BY <1>1, <1>3, SoldFields
  <2>2. Slot(u, plan[u].end_ts)' = Slot(u, plan[u].end_ts)
    BY <2>1 DEF Slot
  <2>3. /\ Elapsed(u) \in Int /\ Slot(u, now) \in Int /\ Slot(u, plan[u].end_ts) \in Int
        /\ history[u].sells \in Int
    BY <1>1, <2>1, SlotNumbers
  <2>4. history[u].sells <= Elapsed(u)
    BY <2>1 DEF Counted
  <2>5. /\ history[u].sells + 1 <= Slot(u, now) + 1
        /\ history[u].sells + 1 <= Slot(u, plan[u].end_ts) + 1
    BY <2>1, <2>3, <2>4, SMT
  <2> QED BY <2>1, <2>2, <2>5
<1>4. CASE OpenSellPlan(u)
  <2>1. Plans(u)!Open
    BY <1>4, OpensSchedule
  <2>2. Opened(u)'
    BY DEF Opened
  <2>3. /\ Elapsed(u)' = 0 /\ history'[u].sells = 0
        /\ Slot(u, plan[u].end_ts)' \in Nat
    BY <2>1, <2>2 DEF Plans!Open, Elapsed
  <2> QED BY <2>3, SMT
<1>5. CASE CloseSellPlan(u)
  BY <1>1, <1>5, IInvByUser DEF CloseSellPlan, RouterTypeOK
<1> QED BY <1>2, <1>3, <1>4, <1>5 DEF Moves

LEMMA InitCInv == Init => CInv
<1> SUFFICES ASSUME Init PROVE CInv
  OBVIOUS
<1>1. \A u \in Users : plan[u] = None
  BY DEF Init
<1> QED BY <1>1, InitIInv DEF CInv, SInv, Begun, Counted

\* PlansSellBounded (SPEC_M2 6.8): for every cadence and horizon a plan sells at most once
\* for each of its due instants up to the end, whoever cranks it and when.
THEOREM PlansSellBounded == Spec => []SellsBounded
<1>1. CInv /\ [Next]_vars => CInv'
  <2> SUFFICES ASSUME CInv, [Next]_vars PROVE CInv'
    OBVIOUS
  <2>1. SInv' /\ IInv'
    BY NextSInv DEF CInv, SInv
  <2>2. \A u \in Users : Moves(u)
    BY IInvByUser, NextMoves DEF CInv, SInv
  <2> QED BY <2>1, <2>2, CountedStep DEF CInv
<1>2. CInv => SellsBounded
  BY DEF CInv, Counted, SellsBounded
<1> QED BY <1>1, <1>2, InitCInv, PTL DEF Spec
=============================================================================
