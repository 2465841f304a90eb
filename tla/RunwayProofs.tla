---------------------------- MODULE RunwayProofs ----------------------------
(* Proof that the amortization cap keeps a plan's pot from being sold faster   *)
(* than its slots go by.                                                       *)
EXTENDS ScheduleProofs, CustodyProofs

-----------------------------------------------------------------------------
(* The arithmetic of the runway.                                               *)

LEMMA ProductCancels ==
  ASSUME NEW x \in Nat, NEW y \in Nat, NEW f \in Nat \ {0}
  PROVE  /\ x * f < y * f => x < y
         /\ x * f <= y * f => x <= y
<1>1. ASSUME y <= x PROVE x * f \in Nat /\ y * f \in Nat /\ y * f <= x * f
  BY <1>1, ProductMonotone
<1>2. ASSUME y < x PROVE x * f \in Nat /\ y * f \in Nat /\ y * f < x * f
  <2>1. y + 1 \in Nat /\ y + 1 <= x
    BY <1>2, SMT
  <2>2. (y + 1) * f \in Nat /\ x * f \in Nat /\ (y + 1) * f <= x * f
    BY <2>1, ProductMonotone
  <2>3. y * f \in Nat /\ (y + 1) * f = y * f + f
    BY SMT
  <2> QED BY <2>2, <2>3, SMT
<1>3. ASSUME x * f < y * f PROVE x < y
  <2> SUFFICES ASSUME y <= x PROVE FALSE
    BY SMT
  <2> QED BY <1>1, <1>3, SMT
<1>4. ASSUME x * f <= y * f PROVE x <= y
  <2> SUFFICES ASSUME y < x PROVE FALSE
    BY SMT
  <2> QED BY <1>2, <1>4, SMT
<1> QED BY <1>3, <1>4

\* Where slot s of a plan of periods periods is under way, no fewer than periods - s - 1
\* are left by the program's count.
LEMMA RemainingAtSlot ==
  ASSUME NEW end \in Nat, NEW p \in Nat \ {0}, NEW opened \in Nat, NEW t \in Nat, opened <= t
  PROVE  remaining_periods(end, p, opened)
           <= remaining_periods(end, p, t) + SlotAt(opened, p, t) + 1
<1> DEFINE r == remaining_periods(end, p, opened)
           k == remaining_periods(end, p, t)
           s == SlotAt(opened, p, t)
<1>1. r \in Nat \ {0} /\ k \in Nat \ {0} /\ (r > 1 => r * p <= end - opened)
  BY RemainingLaw
<1>2. t - opened \in Nat
  BY SMT
<1>3. s \in Nat /\ t - opened < p * s + p
  BY <1>2, DivLaw DEF SlotAt
<1>4. end - t < p * k + p
  <2>1. CASE end - t < p
    <3>1. p * k \in Nat
      BY <1>1, SMT
    <3> HIDE DEF k
    <3> QED BY <2>1, <3>1, SMT
  <2>2. CASE ~(end - t < p)
    <3>1. k = (end - t) \div p
      BY <2>2 DEF remaining_periods
    <3>2. end - t \in Nat
      BY <2>2, SMT
    <3> HIDE DEF k
    <3> QED BY <3>1, <3>2, DivLaw
  <2> QED BY <2>1, <2>2
<1> HIDE DEF r, k, s
<1>5. CASE r > 1
  <2>1. /\ p * k \in Nat /\ p * s \in Nat /\ r * p \in Nat
        /\ (k + s + 2) * p = p * k + p * s + 2 * p
    BY <1>1, <1>3, SMT
  <2>2. r * p < (k + s + 2) * p
    BY <1>1, <1>3, <1>4, <1>5, <2>1, SMT
  <2>3. r < k + s + 2
    BY <1>1, <1>3, <2>2, ProductCancels
  <2> QED BY <1>1, <1>3, <2>3, SMT DEF r, k, s
<1>6. CASE ~(r > 1)
  BY <1>1, <1>3, <1>6, SMT DEF r, k, s
<1> QED BY <1>5, <1>6

\* A pot that was ahead of its slots still is, after a sale of no more than its share of
\* j slots.
LEMMA ShareKeepsAhead ==
  ASSUME NEW held \in Nat, NEW left \in Nat, NEW sold \in Nat, NEW periods \in Nat,
         NEW pot \in Nat, NEW j \in Nat \ {0},
         sold * j <= held, left + sold >= held, pot * j <= held * periods
  PROVE  pot * (j - 1) <= left * periods
<1> DEFINE i == j - 1
<1>1. i \in Nat /\ j = i + 1
  BY SMT
<1> HIDE DEF i
<1>2. held * i <= left * j
  <2>1. (left + sold) * j \in Nat /\ held * j \in Nat /\ held * j <= (left + sold) * j
    BY ProductMonotone
  <2>2. left * j \in Nat /\ sold * j \in Nat /\ held * i \in Nat
    BY <1>1, SMT
  <2>3. (left + sold) * j = left * j + sold * j
    BY SMT
  <2>4. held * j = held * i + held
    BY <1>1, SMT
  <2> QED BY <2>1, <2>2, <2>3, <2>4, SMT
<1>3. (pot * j) * i <= (held * periods) * i
  BY <1>1, ProductMonotone
<1>4. (held * i) * periods <= (left * j) * periods
  BY <1>1, <1>2, ProductMonotone
<1>5. /\ (held * periods) * i = (held * i) * periods
      /\ (left * j) * periods = (left * periods) * j
      /\ (pot * j) * i = (pot * i) * j
  BY <1>1, SMT
<1>6. /\ (pot * j) * i \in Nat /\ (held * periods) * i \in Nat
      /\ pot * i \in Nat /\ left * periods \in Nat
  BY <1>1, SMT
<1>7. (pot * i) * j <= (left * periods) * j
  <2>1. (pot * i) * j <= (held * periods) * i
    BY <1>3, <1>5
  <2>2. (held * periods) * i <= (left * periods) * j
    BY <1>4, <1>5
  <2>3. (left * periods) * j \in Nat /\ (pot * i) * j \in Nat
    BY <1>6, SMT
  <2> QED BY <1>6, <2>1, <2>2, <2>3, SMT
<1>8. pot * i <= left * periods
  BY <1>6, <1>7, ProductCancels
<1> QED BY <1>8 DEF i

\* The same in slots: a sale in slot s, at or after the next due slot e, of no more than
\* a k-th, k being the periods left by the program's count.
LEMMA SaleKeepsAhead ==
  ASSUME NEW held \in Nat, NEW left \in Nat, NEW sold \in Nat, NEW periods \in Nat,
         NEW pot \in Nat, NEW e \in Nat, NEW s \in Nat, NEW k \in Nat \ {0},
         e <= s, periods <= k + s + 1,
         sold <= held \div k, left + sold >= held,
         held * periods >= pot * (periods - e - 1)
  PROVE  left * periods >= pot * (periods - (s + 1) - 1)
<1> DEFINE j == periods - s - 1
<1>1. CASE j >= 1
  <2>1. j \in Nat \ {0} /\ j <= k /\ periods - e - 1 \in Nat /\ j <= periods - e - 1
    BY <1>1, SMT
  <2>2. periods - (s + 1) - 1 = j - 1
    BY SMT
  <2> HIDE DEF j
  <2>3. sold * j <= held
    <3>1. held \div k \in Nat /\ k * (held \div k) <= held
      BY DivLaw
    <3>2. sold * k \in Nat /\ (held \div k) * k \in Nat /\ sold * k <= (held \div k) * k
      BY <3>1, ProductMonotone
    <3>3. j * sold \in Nat /\ k * sold \in Nat /\ j * sold <= k * sold
      BY <2>1, ProductMonotone
    <3>4. (held \div k) * k = k * (held \div k) /\ j * sold = sold * j /\ k * sold = sold * k
      BY <2>1, <3>1, SMT
    <3> QED BY <3>1, <3>2, <3>3, <3>4, SMT
  <2>4. pot * j <= held * periods
    <3>1. /\ j * pot \in Nat /\ (periods - e - 1) * pot \in Nat
          /\ j * pot <= (periods - e - 1) * pot
      BY <2>1, ProductMonotone
    <3>2. /\ j * pot = pot * j /\ (periods - e - 1) * pot = pot * (periods - e - 1)
          /\ held * periods \in Nat
      BY <2>1, SMT
    <3> QED BY <3>1, <3>2, SMT
  <2>5. pot * (j - 1) <= left * periods
    BY <2>1, <2>3, <2>4, ShareKeepsAhead
  <2>6. left * periods \in Nat /\ pot * (j - 1) \in Int
    BY <2>1, SMT
  <2> QED BY <2>2, <2>5, <2>6, SMT
<1>2. CASE ~(j >= 1)
  <2> DEFINE g == 1 - j
  <2>1. g \in Nat /\ periods - (s + 1) - 1 = -g
    BY <1>2, SMT
  <2> HIDE DEF g
  <2>2. pot * g \in Nat /\ pot * (-g) = -(pot * g) /\ left * periods \in Nat
    BY <2>1, SMT
  <2> QED BY <2>1, <2>2, SMT
<1> QED BY <1>1, <1>2

-----------------------------------------------------------------------------
(* What a step may do to a user's pot.                                         *)

Held(u) == Holdings(bal, u, Target)

\* Not more is taken than the user has left for the present slot.
Spends(u) ==
  \E sold \in Nat :
    /\ sold <= Held(u) \div remaining_periods(plan[u].end_ts, plan[u].period_secs, now)
    /\ Held(u)' + sold >= Held(u)

\* The user's pot stays whole, or is no longer promised.
Spares(u) ==
  Held(u)' >= Held(u) \/ (history[u] # None => history'[u] = [history[u] EXCEPT !.pot = 0])

PotMoves(u) ==
  \/ Kept(u) /\ Spares(u)
  \/ Sold(u) /\ Spends(u)
  \/ OpenSellPlan(u) /\ Held(u)' = Held(u)
  \/ CloseSellPlan(u)

LEMMA HeldType ==
  ASSUME NEW u \in Users
  PROVE  (RouterTypeOK => Held(u) \in Nat) /\ (RouterTypeOK' => Held(u)' \in Nat)
  BY AccountsExist DEF Held, Holdings, RouterTypeOK, LedgerTypeOK

\* An execution on balances that leave u's pot as it is: pulled or not.
LEMMA ExecutionPot ==
  ASSUME IInv, NEW b \in [Accounts -> Nat], NEW user \in Users, NEW in \in Mints,
         NEW venue \in Venues, NEW offer, Sound(offer), Executes(b, user, in, venue, offer),
         NEW u \in Users, Holdings(b, u, Target) = Held(u)
  PROVE  PotMoves(u)
<1>1. RouterTypeOK
  BY IInvByUser
<1>2. /\ now' = now /\ bal' \in [Accounts -> Nat]
      /\ \A a \in Accounts :
           a # Transient(user, in) /\ a # Ata(Pool, Other(in)) => bal'[a] >= b[a]
      /\ bal'[Transient(user, in)] = 0
  BY ExecutionRuns
<1>3. /\ Ata(u, Target) \in Accounts /\ Transient(u, Target) \in Accounts
      /\ Ata(u, Target) # Transient(user, in) /\ Ata(u, Target) # Ata(Pool, Other(in))
      /\ Transient(u, Target) # Ata(Pool, Other(in))
  BY AccountsExist, AccountsDiffer
<1>4. /\ bal'[Ata(u, Target)] >= b[Ata(u, Target)] /\ bal'[Transient(u, Target)] \in Nat
      /\ bal'[Ata(u, Target)] \in Nat /\ b[Ata(u, Target)] \in Nat
      /\ b[Transient(u, Target)] \in Nat
  BY <1>2, <1>3
<1>5. Held(u) = b[Ata(u, Target)] + b[Transient(u, Target)]
  BY DEF Holdings
<1>6. Held(u)' = bal'[Ata(u, Target)] + bal'[Transient(u, Target)]
  BY DEF Held, Holdings
<1>7. CASE ~(u = user /\ in = Target)
  <2>1. Transient(u, Target) # Transient(user, in)
    BY <1>7, AccountsDiffer DEF Transient, Pda
  <2>2. bal'[Transient(u, Target)] >= b[Transient(u, Target)]
    BY <1>2, <1>3, <2>1
  <2>3. Held(u)' >= Held(u)
    BY <1>4, <1>5, <1>6, <2>2, SMT
  <2>4. Kept(u)
    <3>1. CASE ExecuteBuy(b, user, venue, offer)
      <4>1. now' >= now
        BY <1>1, <1>2, InputTypes, SMT DEF RouterTypeOK, LedgerTypeOK
      <4> QED BY <3>1, <4>1 DEF ExecuteBuy, Kept
    <3>2. CASE in = Target /\ ExecuteSell(b, user, venue, offer)
      BY <1>1, <1>7, <3>2, SellMoves
    <3> QED BY <3>1, <3>2 DEF Executes
  <2> QED BY <2>3, <2>4 DEF PotMoves, Spares
<1>8. CASE u = user /\ in = Target
  <2> DEFINE sold == b[Transient(u, Target)]
             k    == remaining_periods(plan[u].end_ts, plan[u].period_secs, now)
  <2>1. ExecuteSell(b, u, venue, offer)
    BY <1>8, LedgerAssumption DEF Executes
  <2>2. Sold(u)
    BY <1>1, <1>8, <2>1, SellMoves
  <2>3. sold <= Held(u) \div k
    BY <1>5, <2>1 DEF ExecuteSell, WithinSchedule, AmortizationCap
  <2>4. Held(u)' + sold >= Held(u)
    BY <1>4, <1>5, <1>6, SMT
  <2> QED BY <1>4, <2>2, <2>3, <2>4 DEF PotMoves, Spends
<1> QED BY <1>7, <1>8

\* A pull moves a user's tokens from one account of theirs to the other.
LEMMA PullKeepsPot ==
  ASSUME RouterTypeOK, NEW id \in DelegationIds, NEW x \in Nat, NEW u \in Users
  PROVE  Holdings(AfterPull(id, x), u, Target) = Held(u)
<1> DEFINE from == Ata(id[1], id[2])
           to   == Transient(id[1], id[2])
           wallet  == Ata(u, Target)
           transit == Transient(u, Target)
           b    == AfterPull(id, x)
<1>1. id[1] \in Users /\ id[2] \in Mints /\ bal \in [Accounts -> Nat]
  BY DEF DelegationIds, RouterTypeOK, LedgerTypeOK
<1>2. /\ from \in Accounts /\ to \in Accounts /\ wallet \in Accounts /\ transit \in Accounts
      /\ from # to /\ wallet # to /\ from # transit /\ wallet # transit
      /\ bal[wallet] \in Nat /\ bal[transit] \in Nat
  BY <1>1, AccountsExist, AccountsDiffer
<1>3. from = wallet <=> to = transit
  BY DEF Ata, Transient, Pda
<1>4. b = Transfer(bal, from, to, x)
  BY DEF AfterPull
<1>5. Holdings(b, u, Target) = b[wallet] + b[transit] /\ Held(u) = bal[wallet] + bal[transit]
  BY DEF Holdings, Held
<1> HIDE DEF from, to, wallet, transit, b
<1>6. CASE from = wallet
  <2>1. b[wallet] = bal[wallet] - x /\ b[transit] = bal[transit] + x
    BY <1>1, <1>2, <1>3, <1>4, <1>6 DEF Transfer
  <2> QED BY <1>2, <1>5, <2>1, SMT DEF b
<1>7. CASE from # wallet
  <2>1. b[wallet] = bal[wallet] /\ b[transit] = bal[transit]
    BY <1>1, <1>2, <1>3, <1>4, <1>7 DEF Transfer
  <2> QED BY <1>5, <2>1 DEF b
<1> QED BY <1>6, <1>7

LEMMA WholePot ==
  ASSUME IInv, NEW u \in Users, Moves(u), Held(u)' = Held(u)
  PROVE  PotMoves(u)
<1>1. Held(u) \in Nat
  BY IInvByUser, HeldType
<1>2. CASE Kept(u)
  BY <1>1, <1>2, SMT DEF PotMoves, Spares
<1>3. CASE Sold(u)
  <2> DEFINE k == remaining_periods(plan[u].end_ts, plan[u].period_secs, now)
  <2>1. k \in Nat \ {0}
    BY <1>3, PlanNumbers, RemainingLaw DEF Sold
  <2> HIDE DEF k
  <2>2. Held(u) \div k \in Nat
    BY <1>1, <2>1, DivLaw
  <2>3. 0 \in Nat /\ 0 <= Held(u) \div k /\ Held(u)' + 0 >= Held(u)
    BY <1>1, <2>2, SMT
  <2> QED BY <1>3, <2>3 DEF PotMoves, Spends, k
<1> QED BY <1>2, <1>3 DEF PotMoves, Moves

LEMMA TransferPot ==
  ASSUME IInv, NEW t \in DirectTransfers, TokenTransfer(t), NEW u \in Users
  PROVE  PotMoves(u)
<1>1. RouterTypeOK /\ bal \in [Accounts -> Nat] /\ now \in Nat
  BY IInvByUser, InputTypes DEF RouterTypeOK, LedgerTypeOK
<1>2. /\ t.from \in Wallets /\ t.mint \in Mints /\ t.to \in Owners /\ t.amount \in Nat
      /\ t.amount <= bal[Ata(t.from, t.mint)]
      /\ bal' = Transfer(bal, Ata(t.from, t.mint), Ata(t.to, t.mint), t.amount)
      /\ UNCHANGED <<now, plan>>
      /\ history'[u] = IF u = t.from /\ t.mint = Target /\ history[u] # None
                       THEN [history[u] EXCEPT !.pot = 0] ELSE history[u]
  BY RouterAssumption DEF TokenTransfer, OutsideProgram
<1>3. now' >= now
  BY <1>1, <1>2, SMT
<1>4. Kept(u)
  BY <1>2, <1>3 DEF Kept
<1>5. CASE u = t.from /\ t.mint = Target
  BY <1>2, <1>4, <1>5 DEF PotMoves, Spares
<1>6. CASE ~(u = t.from /\ t.mint = Target)
  <2>1. /\ Ata(t.from, t.mint) \in Accounts /\ Ata(t.to, t.mint) \in Accounts
        /\ Ata(u, Target) \in Accounts /\ Transient(u, Target) \in Accounts
    BY <1>2, AccountsExist
  <2>2. Ata(u, Target) # Ata(t.from, t.mint) /\ Transient(u, Target) # Ata(t.from, t.mint)
    BY <1>2, <1>6, LedgerAssumption DEF Ata, Transient
  <2>3. /\ bal' \in [Accounts -> Nat]
        /\ bal'[Ata(u, Target)] >= bal[Ata(u, Target)]
        /\ bal'[Transient(u, Target)] >= bal[Transient(u, Target)]
    BY <1>1, <1>2, <2>1, <2>2, TransferGains
  <2>4. Held(u)' >= Held(u)
    BY <1>1, <2>1, <2>3 DEF Held, Holdings
  <2> QED BY <1>4, <2>4 DEF PotMoves, Spares
<1> QED BY <1>5, <1>6

LEMMA NextPot ==
  ASSUME IInv, [Next]_vars, NEW u \in Users
  PROVE  PotMoves(u)
<1>1. RouterTypeOK
  BY IInvByUser
<1>2. Moves(u)
  BY <1>1, NextMoves
<1>3. ASSUME bal' = bal PROVE PotMoves(u)
  BY <1>2, <1>3, WholePot DEF Held
<1>4. CASE Admin \/ Plan \/ TimePasses \/ UNCHANGED vars
  BY <1>3, <1>4 DEF Admin, Plan, InitConfig, SetPause, SetParams, SetWhitelist,
                    InitFeeConfig, SetFee, OpenSellPlan, CloseSellPlan, railVars,
                    TimePasses, Tick, vars
<1>5. CASE Crank
  <2>1. PICK w \in Users, v \in Venues, in \in Mints : Executes(bal, w, in, v, AnyOffer)
    BY <1>5 DEF Crank, Executes, Mints
  <2>2. bal \in [Accounts -> Nat] /\ Holdings(bal, u, Target) = Held(u)
    BY <1>1 DEF RouterTypeOK, LedgerTypeOK, Held
  <2> QED BY <2>1, <2>2, AnyOfferSound, ExecutionPot
<1>6. CASE Delegations
  <2>1. PICK w \in Users, m \in Mints, n \in Nonces :
          (\E k \in Keepers : Grant(w, m, n, k)) \/ Revoke(w, m, n) \/ Pull(w, m, n)
    BY <1>6 DEF Delegations
  <2>2. CASE (\E k \in Keepers : Grant(w, m, n, k)) \/ Revoke(w, m, n)
    BY <1>3, <2>2 DEF Grant, Revoke, CreateDelegation, RevokeDelegation
  <2>3. CASE Pull(w, m, n)
    <3>1. PICK x \in PullAmount : bal' = AfterPull(<<w, m, n>>, x)
      BY <2>3 DEF Pull, TransferRecurring
    <3>2. <<w, m, n>> \in DelegationIds /\ x \in Nat
      BY RailAssumption DEF DelegationIds
    <3>3. Holdings(bal', u, Target) = Held(u)
      BY <1>1, <3>1, <3>2, PullKeepsPot
    <3>4. Held(u)' = Held(u)
      BY <3>3 DEF Held
    <3> QED BY <1>2, <3>4, WholePot
  <2> QED BY <2>1, <2>2, <2>3
<1>7. CASE \E t \in DirectTransfers : TokenTransfer(t)
  BY <1>7, TransferPot
<1> QED BY <1>4, <1>5, <1>6, <1>7 DEF Next

-----------------------------------------------------------------------------
(* The runway.  NeverOutrun alone is not inductive: that the slots ahead are   *)
(* those the program divides the pot by needs the plan's slots counted from    *)
(* its opening, and the gate not ahead of the slot that is sold in.            *)

Runway(u) ==
  plan[u] # None =>
    /\ history[u].periods = remaining_periods(plan[u].end_ts, plan[u].period_secs,
                                              history[u].opened)
    /\ Held(u) * history[u].periods >=
         history[u].pot * (history[u].periods - Elapsed(u) - 1)

RInv == SInv /\ \A u \in Users : Runway(u)

LEMMA RunwayNumbers ==
  ASSUME IInv, NEW u \in Users, plan[u] # None
  PROVE  /\ Held(u) \in Nat /\ history[u].pot \in Nat /\ history[u].periods \in Nat
         /\ Elapsed(u) \in Nat
<1>1. /\ history[u] \in History /\ plan[u].next_due_ts \in Nat
      /\ history[u].opened \in Nat /\ plan[u].next_due_ts >= history[u].opened
  BY PlanNumbers
<1>2. plan[u].next_due_ts <= plan[u].next_due_ts
  BY <1>1, SMT
<1>3. Elapsed(u) \in Nat
  BY <1>1, <1>2, SlotLaw DEF Elapsed
<1> QED BY <1>1, <1>3, IInvByUser, HeldType DEF History

\* Nothing but a sell moves the slots; a pot that grew is ahead all the more, and one
\* that the user spent from is owed nothing.
LEMMA RunwayKept ==
  ASSUME RInv, IInv', NEW u \in Users, Kept(u), Spares(u)
  PROVE  Runway(u)'
<1> SUFFICES ASSUME plan'[u] # None PROVE Runway(u)'
  BY DEF Runway
<1> DEFINE r == history[u].periods
           e == Elapsed(u)
<1>1. IInv /\ plan[u] # None /\ plan'[u] = plan[u]
  BY DEF RInv, SInv, Kept
<1>2. /\ Held(u) \in Nat /\ history[u].pot \in Nat /\ r \in Nat /\ e \in Nat
      /\ history[u] \in History
  BY <1>1, RunwayNumbers, PlanNumbers
<1>3. Held(u)' \in Nat
  BY IInvByUser, HeldType
<1>4. /\ r = remaining_periods(plan[u].end_ts, plan[u].period_secs, history[u].opened)
      /\ Held(u) * r >= history[u].pot * (r - e - 1)
  BY <1>1 DEF RInv, Runway
<1>5. /\ history'[u].opened = history[u].opened /\ history'[u].periods = r
      /\ \/ Held(u)' >= Held(u) /\ history'[u].pot = history[u].pot
         \/ history'[u].pot = 0
  <2>1. CASE history'[u] = [history[u] EXCEPT !.pot = 0]
    BY <1>2, <2>1 DEF History
  <2>2. CASE history'[u] = history[u] /\ Held(u)' >= Held(u)
    BY <2>2
  <2>3. history[u] # None
    BY <1>2, RouterAssumption
  <2> QED BY <2>1, <2>2, <2>3 DEF Kept, Spares
<1>6. Elapsed(u)' = e
  BY <1>1, <1>5 DEF Elapsed, Slot
<1> HIDE DEF r, e
<1>7. CASE Held(u)' >= Held(u) /\ history'[u].pot = history[u].pot
  <2>1. Held(u) * r \in Nat /\ Held(u)' * r \in Nat /\ Held(u) * r <= Held(u)' * r
    BY <1>2, <1>3, <1>7, ProductMonotone, SMT
  <2>2. history[u].pot * (r - e - 1) \in Int
    BY <1>2, SMT
  <2>3. Held(u)' * r >= history'[u].pot * (r - e - 1)
    BY <1>4, <1>7, <2>1, <2>2, SMT
  <2> QED BY <1>1, <1>4, <1>5, <1>6, <2>3 DEF Runway
<1>8. CASE history'[u].pot = 0
  <2>1. Held(u)' * r \in Nat /\ 0 * (r - e - 1) = 0
    BY <1>2, <1>3, SMT
  <2>2. Held(u)' * r >= history'[u].pot * (r - e - 1)
    BY <1>8, <2>1, SMT
  <2> QED BY <1>1, <1>4, <1>5, <1>6, <2>2 DEF Runway
<1> QED BY <1>5, <1>7, <1>8

LEMMA RunwaySold ==
  ASSUME RInv, IInv', NEW u \in Users, Sold(u), Spends(u)
  PROVE  Runway(u)'
<1> DEFINE r == history[u].periods
           s == Slot(u, now)
           k == remaining_periods(plan[u].end_ts, plan[u].period_secs, now)
<1>1. IInv /\ plan[u] # None
  BY DEF RInv, SInv, Sold
<1>2. /\ plan'[u].end_ts = plan[u].end_ts /\ plan'[u].period_secs = plan[u].period_secs
      /\ history'[u].opened = history[u].opened
      /\ history[u].opened <= now
      /\ Elapsed(u) <= s /\ Elapsed(u)' = s + 1
  BY <1>1, SoldFields
<1>3. history'[u].periods = r /\ history'[u].pot = history[u].pot
  <2>1. PICK late \in Nat :
          history'[u] = WithSell(history[u], history[u].slots \cup {s},
                                 history[u].sells + 1, late)
    BY DEF Sold
  <2>2. history[u] \in History
    BY <1>1, PlanNumbers
  <2> HIDE DEF s
  <2> QED BY <2>1, <2>2 DEF History, WithSell
<1>4. /\ Held(u) \in Nat /\ history[u].pot \in Nat /\ r \in Nat /\ Elapsed(u) \in Nat
      /\ Held(u)' \in Nat
  BY <1>1, RunwayNumbers, IInvByUser, HeldType
<1>5. /\ plan[u].end_ts \in Nat /\ plan[u].period_secs \in Nat \ {0}
      /\ history[u].opened \in Nat /\ now \in Nat
  BY <1>1, PlanNumbers
<1>6. /\ r = remaining_periods(plan[u].end_ts, plan[u].period_secs, history[u].opened)
      /\ Held(u) * r >= history[u].pot * (r - Elapsed(u) - 1)
  BY <1>1 DEF RInv, Runway
<1>7. k \in Nat \ {0} /\ r <= k + s + 1
  <2>1. k \in Nat \ {0}
    BY <1>5, RemainingLaw
  <2>2. s = SlotAt(history[u].opened, plan[u].period_secs, now)
    BY DEF Slot, SlotAt
  <2>3. r <= k + s + 1
    BY <1>2, <1>5, <1>6, <2>2, RemainingAtSlot
  <2> QED BY <2>1, <2>3
<1>8. s \in Nat
  <2>1. now <= now
    BY <1>5, SMT
  <2> QED BY <1>1, <1>2, <1>5, <2>1, SlotLaw
<1>9. PICK sold \in Nat : sold <= Held(u) \div k /\ Held(u)' + sold >= Held(u)
  BY DEF Spends
<1> HIDE DEF r, s, k
<1>10. Held(u)' * r >= history[u].pot * (r - (s + 1) - 1)
  BY <1>2, <1>4, <1>6, <1>7, <1>8, <1>9, SaleKeepsAhead
<1> QED BY <1>2, <1>3, <1>6, <1>10 DEF Runway

LEMMA RunwayOpened ==
  ASSUME RInv, NEW u \in Users, OpenSellPlan(u), Held(u)' = Held(u)
  PROVE  Runway(u)'
<1>1. PICK end_ts \in EndTs, period_secs \in PeriodSecs :
        /\ PeriodAllowed(period_secs)
        /\ plan' = [plan EXCEPT ![u] =
             [end_ts |-> end_ts, period_secs |-> period_secs, next_due_ts |-> now]]
        /\ history' = [history EXCEPT ![u] =
             [opened |-> now, slots |-> {}, sells |-> 0, late |-> 0,
              pot |-> Holdings(bal, u, Target),
              periods |-> remaining_periods(end_ts, period_secs, now)]]
  BY DEF OpenSellPlan
<1> DEFINE r == remaining_periods(end_ts, period_secs, now)
<1>2. RouterTypeOK
  BY IInvByUser DEF RInv, SInv
<1>3. /\ now \in Nat /\ end_ts \in Nat /\ period_secs \in Nat \ {0} /\ Held(u) \in Nat
  BY <1>1, <1>2, InputTypes, PeriodPositive, HeldType
     DEF RouterTypeOK, LedgerTypeOK, PeriodAllowed
<1>4. r \in Nat
  BY <1>3, RemainingLaw
<1>5. (now - now) \div period_secs = 0
  BY <1>3, SMT
<1> HIDE DEF r
<1>6. /\ plan'[u] = [end_ts |-> end_ts, period_secs |-> period_secs, next_due_ts |-> now]
      /\ history'[u].opened = now /\ history'[u].pot = Held(u) /\ history'[u].periods = r
  BY <1>1, <1>2 DEF RouterTypeOK, Held, r
<1>7. Elapsed(u)' = 0
  BY <1>5, <1>6 DEF Elapsed, Slot
<1>8. Held(u) * r >= Held(u) * (r - 0 - 1)
  <2>1. Held(u) * r \in Nat /\ Held(u) * (r - 0 - 1) = Held(u) * r - Held(u)
    BY <1>3, <1>4, SMT
  <2> QED BY <1>3, <2>1, SMT
<1> QED BY <1>6, <1>7, <1>8 DEF Runway, r

LEMMA RunwayStep ==
  ASSUME RInv, IInv', NEW u \in Users, PotMoves(u)
  PROVE  Runway(u)'
<1>1. CASE CloseSellPlan(u)
  BY <1>1, IInvByUser DEF RInv, SInv, CloseSellPlan, RouterTypeOK, Runway
<1> QED BY <1>1, RunwayKept, RunwaySold, RunwayOpened DEF PotMoves

LEMMA InitRunway == Init => RInv
<1> SUFFICES ASSUME Init PROVE RInv
  OBVIOUS
<1>1. \A u \in Users : plan[u] = None
  BY DEF Init
<1> QED BY <1>1, InitIInv DEF RInv, SInv, Begun, Runway

LEMMA RunwayIsNeverOutrun == RInv => NeverOutrun
  BY DEF RInv, Runway, NeverOutrun, Held

\* Whatever keepers pull and however they time their cranks, after e slots of a plan of r
\* periods at least (r - e - 1)/r of the pot is still the user's.
THEOREM PotsNeverOutrun == Spec => []NeverOutrun
<1>1. RInv /\ [Next]_vars => RInv'
  <2> SUFFICES ASSUME RInv, [Next]_vars PROVE RInv'
    OBVIOUS
  <2>1. IInv /\ IInv'
    BY NextIInv DEF RInv, SInv
  <2>2. \A u \in Users : Begun(u)'
    BY <2>1, IInvByUser, NextMoves, BegunStep DEF RInv
  <2>3. \A u \in Users : Runway(u)'
    BY <2>1, NextPot, RunwayStep
  <2> QED BY <2>1, <2>2, <2>3 DEF RInv, SInv
<1> QED BY <1>1, InitRunway, RunwayIsNeverOutrun, PTL DEF Spec

-----------------------------------------------------------------------------
(* When a pot may run out.                                                     *)

\* The cap is the whole only in the last period, which the periods left, rounded down
\* as they are, begins two periods before the end.
LEMMA WholeOnlyLast ==
  ASSUME NEW end \in Nat, NEW p \in Nat \ {0}, NEW t \in Nat, NEW amount \in Nat \ {0},
         amount <= AmortizationCap(0, amount, remaining_periods(end, p, t))
  PROVE  end - t < 2 * p
<1> DEFINE k == remaining_periods(end, p, t)
<1>1. k \in Nat \ {0}
  BY RemainingLaw
<1>2. amount \div k \in Nat /\ k * (amount \div k) <= amount
  BY <1>1, DivLaw
<1>3. 0 + amount = amount
  BY SMT
<1>4. amount <= amount \div k
  BY <1>3 DEF AmortizationCap
<1>5. k = 1
  <2> DEFINE q == amount \div k
  <2>1. q \in Nat /\ k * q <= amount /\ amount <= q
    BY <1>2, <1>4
  <2> HIDE DEF q, k
  <2>2. ASSUME k >= 2 PROVE FALSE
    <3>1. PICK z \in Nat : k = 2 + z
      <4>1. k - 2 \in Nat /\ k = 2 + (k - 2)
        BY <1>1, <2>2, SMT
      <4> QED BY <4>1
    <3>2. k * q = q + q + z * q /\ z * q \in Nat
      BY <2>1, <3>1, SMT
    <3> QED BY <2>1, <3>2, SMT
  <2> QED BY <1>1, <2>2, SMT
<1>6. CASE end - t < p
  BY <1>6, SMT
<1>7. CASE ~(end - t < p)
  <2>1. end - t \in Nat /\ (end - t) \div p = 1
    BY <1>5, <1>7, SMT DEF remaining_periods
  <2>2. end - t < p * ((end - t) \div p) + p
    BY <2>1, DivLaw
  <2>3. p * 1 = p
    BY SMT
  <2> QED BY <2>1, <2>2, <2>3, SMT
<1> QED BY <1>6, <1>7

LEMMA ExecutionRunsOut ==
  ASSUME IInv, NEW b \in [Accounts -> Nat], NEW user \in Users, NEW in \in Mints,
         NEW venue \in Venues, NEW offer, Sound(offer), Executes(b, user, in, venue, offer)
  PROVE  RunsOutOnlyLate'
<1>1. event'.user = user /\ (event'.kind = "buy" <=> in = Usdc)
  BY ExecutionReports
<1>2. CASE in = Usdc
  BY <1>1, <1>2 DEF RunsOutOnlyLate
<1>3. CASE in = Target
  <2> DEFINE p == plan[user]
             wallet == Ata(user, Target)
             amount == b[Transient(user, Target)]
  <2>1. /\ p # None /\ WithinSchedule(b, user, amount)
        /\ plan' = [plan EXCEPT ![user].next_due_ts =
                      NextDue(p.next_due_ts, p.period_secs, now)]
    BY <1>3, LedgerAssumption DEF Executes, ExecuteSell
  <2>2. /\ amount > 0 /\ now' = now /\ bal' \in [Accounts -> Nat]
        /\ \A a \in Accounts :
             a # Transient(user, in) /\ a # Ata(Pool, Other(in)) => bal'[a] >= b[a]
    BY <1>3, ExecutionRuns
  <2>3. Sold(user)
    BY <1>3, LedgerAssumption, IInvByUser, SellMoves DEF Executes
  <2>4. plan'[user].end_ts = p.end_ts /\ plan'[user].period_secs = p.period_secs
    BY <2>3, SoldFields
  <2>5. p.end_ts \in Nat /\ p.period_secs \in Nat \ {0} /\ now \in Nat
    BY <2>1, PlanNumbers
  <2>6. /\ wallet \in Accounts /\ Transient(user, Target) \in Accounts
        /\ wallet # Transient(user, in) /\ wallet # Ata(Pool, Other(in))
    BY AccountsExist, AccountsDiffer
  <2>7. /\ bal'[wallet] \in Nat /\ bal'[Transient(user, Target)] \in Nat
        /\ b[wallet] \in Nat /\ amount \in Nat /\ bal'[wallet] >= b[wallet]
    BY <2>2, <2>6
  <2>8. CASE b[wallet] = 0
    <3>1. amount <= AmortizationCap(0, amount, remaining_periods(p.end_ts, p.period_secs, now))
      BY <2>1, <2>8 DEF WithinSchedule
    <3>2. amount \in Nat \ {0}
      BY <2>2, <2>7, SMT
    <3> HIDE DEF p, amount
    <3>3. p.end_ts - now < 2 * p.period_secs
      BY <2>5, <3>1, <3>2, WholeOnlyLast
    <3> QED BY <1>1, <2>2, <2>4, <3>3 DEF RunsOutOnlyLate
  <2>9. CASE b[wallet] # 0
    <3>1. bal'[wallet] + bal'[Transient(user, Target)] > 0
      BY <2>7, <2>9, SMT
    <3>2. Holdings(bal, user, Target)' > 0
      BY <3>1 DEF Holdings
    <3> QED BY <1>1, <3>2 DEF RunsOutOnlyLate
  <2> QED BY <2>8, <2>9
<1> QED BY <1>2, <1>3 DEF Mints

LEMMA NextRunsOut ==
  ASSUME IInv, RunsOutOnlyLate, [Next]_vars
  PROVE  RunsOutOnlyLate'
<1>1. CASE Crank
  <2>1. PICK u \in Users, v \in Venues, in \in Mints : Executes(bal, u, in, v, AnyOffer)
    BY <1>1 DEF Crank, Executes, Mints
  <2>2. bal \in [Accounts -> Nat]
    BY IInvByUser DEF RouterTypeOK, LedgerTypeOK
  <2> QED BY <2>1, <2>2, AnyOfferSound, ExecutionRunsOut
<1>2. CASE Admin \/ Plan \/ Delegations \/ TimePasses
           \/ \E t \in DirectTransfers : TokenTransfer(t)
  BY <1>2, QuietEvents DEF RunsOutOnlyLate
<1>3. CASE UNCHANGED vars
  BY <1>3 DEF vars, RunsOutOnlyLate, Holdings
<1> QED BY <1>1, <1>2, <1>3 DEF Next

\* PotsRunOutOnlyLate (SPEC_M2 1): what is true of "it cannot run out early".  The cap can
\* be the whole pot only with less than two periods to go, however small the pot, and
\* however it was split between the wallet and the transient.
THEOREM PotsRunOutOnlyLate == Spec => []RunsOutOnlyLate
<1>1. Init => RunsOutOnlyLate
  BY DEF Init, RunsOutOnlyLate
<1>2. IInv /\ RunsOutOnlyLate /\ [Next]_vars => RunsOutOnlyLate'
  BY NextRunsOut
<1> QED BY <1>1, <1>2, Invariance, PTL DEF Spec
=============================================================================
