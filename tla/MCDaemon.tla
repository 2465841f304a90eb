------------------------------ MODULE MCDaemon ------------------------------
(* Instances of Daemon for TLC: one subscriber u, and the wallet k that runs the *)
(* daemon, administers the router and receives the fee.  In Race the daemons are  *)
(* j and k, alike in everything, and u does the rest.                             *)
EXTENDS Daemon, TLC

CONSTANTS u, j, k, V1

\* What u holds of each mint, what k holds of both, and what the pool does.
Balances(uUsdc, uTarget, kBoth, pool) ==
  [a \in Accounts |->
     CASE a = Ata(u, Usdc) -> uUsdc
       [] a = Ata(u, Target) -> uTarget
       [] a[1] = k -> kBoth
       [] a[1] = Pool -> pool
       [] OTHER -> 0]

Terms(mint, amount, length, expiry) ==
  [mint |-> mint, amountPerPeriod |-> amount, periodLengthS |-> length, expiryTs |-> expiry]

VenueList == {<<V1>>}
NoTransfers == {}
AllCreated == Accounts

\* Two sells of amounts that a fee at the cap makes a difference to, and a wallet j that
\* may be given the fee and has no account to receive it in.
RetryBal == Balances(200, 200, 0, 400)
RetryGrants == {Terms(Target, 100, 60, 1000)}
TargetOfJMissing == Accounts \ {Ata(j, Target)}

\* Two daemons, each with a delegation of its own for the same plan.
RaceBal == Balances(0, 3, 0, 3)
RaceGrants == {Terms(Target, 2, 60, 1000)}
Either == Permutations({j, k})

\* A donation that leaves a residue, and a payment out of the pot that puts the
\* residue beyond the cap.
MirrorBal == Balances(0, 6, 1, 6)
MirrorGrants == {Terms(Target, 6, 60, 1000)}
MirrorTransfers ==
  {[from |-> k, mint |-> Target, to |-> Pda(u), amount |-> 1],
   [from |-> u, mint |-> Target, to |-> Pool, amount |-> 2]}

\* Both directions at once, the wallet good for one purchase, and a donation that
\* the next purchase has to take along.
LiveBal == Balances(1, 1, 1, 3)
LiveGrants == {Terms(Usdc, 1, 60, 1000), Terms(Target, 1, 60, 1000)}
LiveTransfers == {[from |-> k, mint |-> Usdc, to |-> Pda(u), amount |-> 1]}

\* Two delegations of a mint: the one that expires later is for less, less often.
HiddenBal == Balances(3, 0, 0, 3)
HiddenGrants == {Terms(Usdc, 2, 60, 500), Terms(Usdc, 1, 600, 1000)}
=============================================================================
