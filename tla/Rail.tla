-------------------------------- MODULE Rail --------------------------------
(* The native Subscriptions program, external to the repository, as            *)
(* keeper/native/*.mjs uses it: a delegator grants a delegatee (the keeper) a  *)
(* capped, expiring, revocable right to pull a mint each period, and the       *)
(* keeper pulls into the delegator's transient account.                        *)
EXTENDS Ledger

CONSTANTS
  None,       \* an account that does not exist
  Nonces,     \* a delegator may hold several delegations of one mint
  Keepers,    \* the wallets delegations are granted to
  Grants,     \* the terms delegators ask for: [mint, amountPerPeriod, periodLengthS, expiryTs]
  PullAmount  \* the amounts keepers ask the rail for

Delegation == [delegatee : Wallets, amountPerPeriod : Nat, periodLengthS : Nat \ {0},
               currentPeriodStartTs : Nat, amountPulledInPeriod : Nat, expiryTs : Nat]
DelegationIds == Users \X Mints \X Nonces

ASSUME RailAssumption ==
  /\ None \notin Delegation
  /\ Nonces # {}
  /\ Keepers \subseteq Wallets
  /\ Grants \subseteq [mint : Mints, amountPerPeriod : Nat,
                      periodLengthS : Nat \ {0}, expiryTs : Nat]
  /\ PullAmount \subseteq Nat

VARIABLE delegation   \* the delegation accounts

RailTypeOK == delegation \in [DelegationIds -> Delegation \cup {None}]

RailInit == delegation = [id \in DelegationIds |-> None]

\* The period rolls lazily, when the delegation is next used.
Rolled(d) == now - d.currentPeriodStartTs >= d.periodLengthS
PeriodStart(d) ==
  IF Rolled(d)
  THEN d.currentPeriodStartTs
         + ((now - d.currentPeriodStartTs) \div d.periodLengthS) * d.periodLengthS
  ELSE d.currentPeriodStartTs
Pulled(d) == IF Rolled(d) THEN 0 ELSE d.amountPulledInPeriod

CreateDelegation(user, mint, nonce, keeper) ==
  /\ delegation[<<user, mint, nonce>>] = None
  /\ now \in SignTimes
  /\ \E g \in Grants :
       /\ g.mint = mint
       /\ g.expiryTs > now
       /\ delegation' = [delegation EXCEPT ![<<user, mint, nonce>>] =
            [delegatee |-> keeper, amountPerPeriod |-> g.amountPerPeriod,
             periodLengthS |-> g.periodLengthS, currentPeriodStartTs |-> now,
             amountPulledInPeriod |-> 0, expiryTs |-> g.expiryTs]]
  /\ UNCHANGED <<now, bal>>

RevokeDelegation(user, mint, nonce) ==
  /\ delegation[<<user, mint, nonce>>] # None
  /\ delegation' = [delegation EXCEPT ![<<user, mint, nonce>>] = None]
  /\ UNCHANGED <<now, bal>>

\* transfer_recurring, signed by the delegatee, for the delegation id.
CanPull(id, x) ==
  LET d == delegation[id]
  IN  /\ d # None
      /\ now < d.expiryTs
      /\ x > 0
      /\ Pulled(d) + x <= d.amountPerPeriod
      /\ x <= bal[Ata(id[1], id[2])]
AfterPull(id, x) == Transfer(bal, Ata(id[1], id[2]), Transient(id[1], id[2]), x)
Charge(id, x) ==
  LET d == delegation[id]
  IN  delegation' = [delegation EXCEPT
        ![id].currentPeriodStartTs = PeriodStart(d),
        ![id].amountPulledInPeriod = Pulled(d) + x]

\* Nothing ties the pull to an execute_* in the same transaction, so it may be a
\* step of its own.
TransferRecurring(user, mint, nonce) ==
  LET id == <<user, mint, nonce>>
  IN  \E x \in PullAmount :
        /\ CanPull(id, x)
        /\ bal' = AfterPull(id, x)
        /\ Charge(id, x)
        /\ UNCHANGED now
=============================================================================
