------------------------------- MODULE Ledger -------------------------------
(* What the program runs on and does not contain: the chain's clock and the   *)
(* SPL token accounts.  An account is a pair <<owner, mint>>, the owner's      *)
(* associated token account for that mint; the router insists on these         *)
(* canonical accounts wherever it looks at one.                                *)
EXTENDS Integers

CONSTANTS
  Wallets,   \* keys of people: subscribers, keepers, the admin, a fee wallet
  Users,     \* the wallets that subscribe
  Usdc, Target,
  Pool,      \* the venue's pool authority
  Times,     \* the instants (unix_timestamp) considered
  SignTimes, \* those at which subscribers grant delegations and open plans
  InitBal,   \* the balances the accounts start with
  Created    \* the token accounts that exist for a fee to go to

\* The per-user transient signing PDA, seeds [BUY_AUTH_SEED, user].
Pda(user) == <<"buy", user>>

Mints == {Usdc, Target}
Owners == Wallets \cup {Pda(u) : u \in Users} \cup {Pool}
Accounts == Owners \X Mints

Ata(owner, mint) == <<owner, mint>>
Transient(user, mint) == <<Pda(user), mint>>
Other(mint) == IF mint = Usdc THEN Target ELSE Usdc

ASSUME LedgerAssumption ==
  /\ Usdc # Target
  /\ Users \subseteq Wallets
  /\ Pool \notin Wallets
  /\ \A u \in Users : Pda(u) # Pool /\ Pda(u) \notin Wallets
  /\ Times \subseteq Nat
  /\ SignTimes \subseteq Times
  /\ InitBal \in [Accounts -> Nat]
  /\ Created \subseteq Accounts

VARIABLES
  now,   \* Clock::get()?.unix_timestamp
  bal    \* the amount of each token account

LedgerTypeOK ==
  /\ now \in Times
  /\ bal \in [Accounts -> Nat]

LedgerInit ==
  /\ now \in SignTimes
  /\ bal = InitBal

\* token::transfer; `from` and `to` may be the same account.
Transfer(b, from, to, x) == [b EXCEPT ![from] = @ - x, ![to] = @ + x]

\* Everything u owns of a mint: the wallet's account and the transient's.
Holdings(b, u, mint) == b[Ata(u, mint)] + b[Transient(u, mint)]

\* Time passes between transactions.
Tick ==
  /\ \E t \in Times : t > now /\ now' = t
  /\ UNCHANGED bal
=============================================================================
