# A TLA+ development of the recurring-buy router

`solana-recurring-buy` turns a recurring *pull* (the native Subscriptions
program, "the rail") into a recurring *buy* or an amortized *sell*: a keeper
pulls a capped amount of the subscriber's tokens into a transient account, the
program swaps it through a whitelisted venue and checks that the proceeds reached
the subscriber's own wallet. These modules model the program, its arithmetic and
what it runs on, state what a subscriber may rely on, check it with TLC on small
instances and prove the central parts with TLAPS for every instance.

Paths below are relative to `src/`. `lib.rs` and `state.rs` are those of
`programs/recurring-buy/src`.

## 1. Inventory

| Component | State | Operations | Hard behaviour |
|---|---|---|---|
| `recurring-buy` program (`lib.rs`, `state.rs`, `errors.rs`) | `Config`, `FeeConfig`, one `SellPlan` per user | `init_config`, `set_pause`, `set_params`, `set_whitelist`, `init_fee_config`, `set_fee`, `open_sell_plan`, `close_sell_plan`, `execute_buy`, `execute_sell` | permissionless cranks at any instant, interleaved with the admin, the rail and other people's payments; a venue call on the signature of the PDA |
| router arithmetic (`price_floor`, `sell_floor`, `remaining_periods`, the cap, the gate; `amortizedDraw` of `keeper/keeper.ts`) | none | pure | rounding, u128 checks, u64 truncation, division that floors the periods left |
| `mock-swap` venue (`programs/mock-swap`) | none (a pool authority's token accounts) | `swap` | called by the program, with accounts and amounts the keeper chose |
| token accounts and the clock (SPL token, `Clock`; external) | balances, `unix_timestamp` | `transfer`, time | shared by everyone; anyone may pay into a transient account |
| the rail (`@solana/subscriptions`; external) | delegations: cap, period, pulled so far, expiry | create, revoke, `transfer_recurring` | the period rolls lazily; the pull and the execution are tied only by being in one transaction |
| keeper daemon (`keeper/native/daemon.mjs`) | none that lasts: a clock, a fee and a list of delegations read once per tick, balances read per item | `tick`, `crankBuy`, `crankSell` | everything read is stale when the transaction lands; competing keepers; failing items; lost confirmations |
| `RecurringBuyKeeper` (`keeper/keeper.ts`) | none | instruction builders, `amortizedDraw`, `buildJupiterSwap` | the Jupiter leg is an unverified scaffold over HTTP |
| devnet setup scripts (`scripts/devnet_fixtures.ts`, `devnet_fee_init.ts`, `devnet_sell_setup.ts`) | a JSON file, and what they leave on the chain | top-ups, a minted lot and a buy; the fee; a plan | each transaction of a script is one of its own: when one is refused the script throws and the earlier ones stay, for the next run to find |
| end-to-end demonstrations (`keeper/native/e2e.mjs`, `e2e_sell.mjs`, `golden.mjs`) | none | straight-line demonstrations | none: one path each |
| tests, CI, manifests (`tests/`, `.github`, `*.toml`, `*.json`) | none | | none; read for what they say of the program |

How they interact: one *transaction* of the chain is a list of instructions that
commits or fails as a whole; two transactions never interleave inside. The
keeper's transaction is normally [pull, execute_*]; the execution calls the token
program (fee) and the venue (swap) and then looks at the balances again. The
program, the rail and the venue share only token accounts and the clock. Anyone
may sign a crank, so the program may rely on nothing a keeper does, not even that
the pull happened in the same transaction.

What makes each component correct:

- the cranks: whatever left what the user holds was paid for, at the floor or above it,
  into the user's own wallet, while the router runs and, for a sell, the plan is due
  (`KeepsCustody`, with `mock_swap` for a venue); only a listed venue was called
  (`WhitelistHonoured`); revoking the delegation, closing the plan or a pause stops the
  flow, each alone (`EitherStopsTheFlow`);
- the sell plan: one sell per slot and none after the plan is complete
  (`KeepsSchedule`, `GateOnGrid`, `AtMostOneLate`), no more sells than due instants
  (`SellsBounded`), and no choice of amounts and instants outruns the runway
  (`NeverOutrun`) or empties the pot before the last two periods
  (`RunsOutOnlyLate`);
- the arithmetic: the fee stays within its cap, the gate lands after the present
  on its grid, the keeper's draw respects the cap (the lemmas of `AmountsProofs`);
- the daemon: what it composes from what still holds is accepted
  (`MirrorAgrees`), what it submitted and lost sight of leaves nothing behind
  (`NothingHeld`) and sells no slot twice (`KeepsSchedule`), and what stays due is
  executed in the end, whatever fails beside it and whatever failed before
  (`DueIsCranked`);
- the scripts: a run starts from what the one before it was meant to leave
  (`RerunsClean`, which does not hold).

`PROJECT.json` lists the hazards of the code line by line, each with the
properties that would catch it.

## 2. Modules

| Module | Models | Correspondence |
|---|---|---|
| `Amounts` | the arithmetic of `lib.rs`, `state.rs` and `amortizedDraw` | operators on integers. The widths are the constants `U64` and `U128`: a product beyond `U128` makes the guard `…FloorComputes` false (`BuyError::Overflow`), and the floor returned is taken `% U64`, as `floor as u64` does |
| `Ledger` | clock and token accounts (external) | `bal` maps an account, the pair of owner and mint, to its amount: the program insists on canonical associated accounts wherever it looks at one. `now` only grows |
| `Rail` | the Subscriptions program (external) | one record per delegation; `PeriodStart` and `Pulled` are the lazy roll, as `daemon.mjs` mirrors it in `available` |
| `Router` | the program, together with the venue it calls | one action per instruction; a `require!` is a guard, an error is a disabled action (a failed transaction leaves no trace). `None` is an account that does not exist |
| `Schedule` | what a sell plan promises, in slots | abstract specification: open, pass, serve, close |
| `Custody` | what a subscriber is promised about their tokens | abstract specification: pull along a granted line, trade, receive, settle; `Router!Vault(u)` is the refinement mapping |
| `Daemon` | `daemon.mjs` and its transactions, on top of the program | `pc`, `seen`, `todo`, `item` are the local variables of `tick` and `crankSell` at an `await`; `flight` the transactions sent and not settled |
| `Setup` | `devnet_fixtures.ts` and `devnet_fee_init.ts`, on top of the program | `line` is the transaction the fixtures script is at; a step is one transaction |
| `AmountsProofs`, `RouterProofs` | theorems about the arithmetic and the program's own invariants | section 5 |
| `ScheduleProofs`, `CustodyProofs`, `RunwayProofs` | theorems: `Router` implements `Schedule` and `Custody`; how often a plan sells, at what price, and what stops it; no pot is outrun | section 5; the first two extend `RouterProofs`, the third both |
| `DaemonProofs` | theorems about `Daemon`, those of the program carried over to it among them | section 5; extends `Daemon` and `RunwayProofs` |
| `MirrorProofs` | what the chain makes of a transaction composed from what still holds | section 5; extends `DaemonProofs` |
| `MCRouter`, `MCDaemon`, `MCSetup` | instances for TLC | section 3 |

`Router` extends `Rail`, which extends `Ledger`, and `Amounts`; the system is the
program interleaved with the rail, the payments of wallets and the clock.
`Daemon` extends `Router` and composes it with the daemons: there cranks and pulls
come from daemons only, while the admin, the subscribers, other payments and the
clock go on as before (`World`).

Two abstract specifications say what a subscriber may rely on, and `Router` is
checked and proved to implement both, one instance per user:

- `Plans(u)` maps the seconds of a plan to the slots of `Schedule`
  (`KeepsSchedule`);
- `Vault(u)` maps the token accounts of a user to `wallet` and `transit`, what the
  rail would let be pulled along each delegation to `allowance`, and the pause, the
  two configs and the clock gate to `trading` (`KeepsCustody`). Nothing in
  `Custody` knows of keepers, venues, fees or transactions: a `Trade` may draw and
  sell in one step, as the daemon's transactions do, or sell what earlier pulls and
  donations left. The steps in which the user itself pays are exempt: that is
  spending, not custody.

Points of the model worth knowing:

- **The venue.** `execute_*` forwards accounts and data the keeper built and signs
  for the transient PDA. The model lets the venue take any amount of the input to
  any owner in `Sinks`, and pay any amount in `Payout` to anyone, as `mock_swap`
  does with the accounts it is handed. The program's own checks (`Drained`,
  `MinOutHolds`) decide which outcomes commit. **This is what `mock_swap` can do, and
  no more.** The program signs for the PDA as a whole (`lib.rs:189-203, 226-228`), so
  another program on the list would have its signature for the PDA's account of the
  *other* mint as well, and could do things on the way that `mock_swap` does not. The
  repository has no other venue; the properties and theorems about custody and price
  are about this one.
- **The fee** goes to any owner (`FeeConfig`): `init_fee_config` and `set_fee` take any
  key, the PDA of a subscriber included. Its token account for the input must exist
  before a crank, even for a fee of zero (`lib.rs:699-700, 727-728`): `Created` are the
  accounts that do, and `CanExecute` asks for it. They are a constant: nobody opens or
  closes an account in a run.
- **`min_out`** is chosen by the keeper and matters only by existing between the
  floor and what came out.
- **The pull is a step of its own**, because nothing in the program ties it to
  the execution; a pull that is never executed, several pulls, and donations are
  all covered, and the atomic [pull, execute] is the case where nothing comes
  between.
- **History.** `approved` (the admin's latest list) and `history` (the opening
  instant of a plan, the slots sold in, how many sells there were and how many of
  them after its end, the pot and the
  periods it started with) are read by properties only.

Points of `Daemon`:

- **Every `await` is a step.** A tick goes through the stages *asleep, fee, list,
  work, pot, residue, confirm*; what it reads at one stage it uses at later ones,
  when the chain may have moved on. `ReadResidue` is the rest of `crankSell` after
  its last read, up to sending; `CrankBuy` reads the residue and sends in one step,
  as the one read is the first thing it does with the chain.
- **A transaction is [pull, execute]**, all or nothing (`Execute`): `Rail`'s pull
  gives the balances that `Router`'s execution starts from. The venue is the
  mock's, with the amount, the payee and the floor the daemon composed.
- **It may land at any later time** (`Land`), while the daemon waits or after it
  gave up (`Confirmed` says nothing of the outcome), or never (`Drop`: it failed,
  was lost, or its blockhash is too old). A blockhash bounds that time in the
  code; the model allows more. `InFlight` bounds how many may be under way.
- **Calls fail and the process dies** when `Faults` (`Fails`). A balance that
  cannot be read is zero (`bal` catches the error); another call that throws gives
  up the item (`SkipSell`, `ItemFails`) or, before the items, the tick. The process
  may die at any stage and be started again (`TickLost`): it keeps nothing on disk,
  so all that it had read is gone, while what it had sent is still under way.
- **Residues.** Tokens that somebody paid into a transient account are taken along
  by the next purchase, and count against the cap of the next sell; a sell of
  nothing but a residue has no pull (`PullsFor`).
- **`fetchDelegationsByDelegatee` and the map of `tick`**: `Best` keeps, for a user
  and a mint, a delegation that expires last; among equals any, as the order of the
  list is the RPC server's.

The world of `Setup` is one wallet that is deployer, admin, mint authority, keeper
and subscriber. `devnet_sell_setup.ts` is not in it: its top-up is `TopUp`, and
closing and opening a plan are actions of `Router`.

The daemon's transactions create the transient account of the input and the
subscriber's account of the output when they are missing (`daemon.mjs:176-177,
226-227`), so those two are taken to exist; the creation itself has no effect on an
amount and is left out. They do not create the fee's account: that is what `Created` is
about. Not modelled of the daemon are also the transaction's size and compute limits,
and its log lines.

Not modelled of the program: account sizes, rent, bumps and addresses (an account is
named by its seeds); `usdc_mint.decimals == 6` and the mint bindings (one pair of mints);
events other than the last one; the `ExecuteBuy`/`ExecuteSell` account
constraints beyond what the canonical names of accounts express.

## 3. Runs

| Run | Instance | Shows |
|---|---|---|
| `Buys` | one user, keeper k who may also be admin, or the user the deployer; the fee to the user or to the user's own PDA; prices 0, 5, 10, fees 0, 100 and 200 bps (over the cap), a pause, a donor of either token, lists of no, two and one too many of four venues | `KeepsCustody` for purchases; `WhitelistHonoured` |
| `Sells` | the same in the other direction, prices 5 and 10, fees of 100 and 200 bps to k or to the user's PDA, a plan of one or two periods, instants before and after its second slot | `TypeOK` (no account is ever overdrawn), `KeepsCustody` for sells, `EitherStopsTheFlow`, a pause at any time included |
| `PlanSchedule` | a plan of two to four periods of 60 s, the clock in steps of 30 s up to a minute past the end, pulls of 2, 3 and 6 out of a pot of 12 | the plan and its pot: `GateOnGrid`, `AtMostOneLate`, `SellsBounded`, `NeverOutrun`, `RunsOutOnlyLate`, `KeepsSchedule`; and that closing, completing or revoking stops them (`EitherStopsTheFlow`) |
| `Late` | one daemon with two transactions under way, two sells of 100, instants 0 and 60, a fee of 0 or 100 bps (200 is refused) whose destination changes, also to a wallet j that has no account for it, calls that fail, a process that dies and restarts | `DTypeOK`, and `NothingHeld`: no stale fee, lost confirmation, restart or retry leaves tokens with the program |
| `Race` | two daemons with a delegation each, at the first slot of the same plan | the slot is sold once and the loser's pull leaves no trace (`KeepsSchedule`, `NothingHeld`) |
| `Mirror` | one daemon, a donation that leaves a residue, a payment out of the pot that puts it beyond the cap, failures and restarts, instants before, in and long after the second slot, fair scheduling | `MirrorAgrees`; `DueIsCranked` for sells, residue or not |
| `Live` | one daemon, both mints, a wallet good for one purchase and a donation on top, delegations revoked and plans closed at will, instants 0 and 70, fair scheduling | `DueIsCranked` next to an item that fails in every tick; `KeepsCustody` for the daemon's atomic [pull, execute] |
| `Hidden` | two delegations of one mint, the later-expiring one smaller and slower | a counterexample to the README's "cranks whatever is due": the usable delegation is never looked at |
| `Fixtures` | `Setup` from an empty chain, a lot of 200 | a counterexample to `devnet_fixtures.ts`'s "Idempotent": the first run throws at its buy, as no `FeeConfig` exists yet, and its lot stays in the transient account, where the next run starts from it |
| `Residue` | as `Buys` | a counterexample to SPEC.md 6.3: the transient account of the *other* mint need not be empty |
| `RunsOut` | as `PlanSchedule` | a counterexample to SPEC_M2 section 1, "it cannot run out early": with less than two periods left the whole pot may be sold, and a later slot is still due (`RunsOutOnlyLate` is what remains true) |
| `Narrow` | a `u64` of seven bits | a counterexample to the comment on `price_ref_micros`: a floor that does not fit a `u64` is truncated, not refused |

The bounds, and why they are enough: amounts are chosen so that a trade at the
fee cap and one at no fee have different floors, that one payout is just under
and one just at the floor, and that a donation changes the amount executed.
`U64` and `U128` are small in the runs but larger than every amount there, so
that only `Narrow` reaches the truncation. A plan of four slots has a first, a
middle, a last and a late slot; half-period instants separate "due" from "on the
grid". Everything a user does is independent of other users except through the
pool and the configuration, so one user suffices for these properties; the proofs
have any number. (`Buys` with two users does not finish in minutes.)

The amounts of `Live` are one or two, so that its `KeepsCustody` is about the
allowance, the clock gate and who is paid; a floor there is 0 or 1. The price is what
`Buys` and `Sells` are about, and the theorems.

`KeepsCustody` is stated with the floor as documented, before truncation, of the
amount less the largest fee that the program allows. In `Buys`
and `Sells` every floor fits a `u64`; `Narrow` is the case where it does not. The
real program reaches it: with twelve decimals and a reference price of one micro,
20 USDC have a floor beyond 2^64.

The daemon's runs use a cap of `SLIPPAGE_BPS` equal to the program's, the
reference price the daemon assumes, and one subscriber; `Race` is symmetric in its
two daemons. `Late` has amounts of 100 so that a fee of 100 bps is one token and a
stale fee makes a transaction fail; `Race` has a pot of three, so that a second
sell in the first slot would still be within the cap and only the clock gate
stands in its way. Two transactions of one daemon, or one of each of two, are the
smallest overlaps; a third would be a second retry over the same state.

## 4. Fairness

The program promises no progress by itself: a crank happens when somebody sends
it, and `Spec` and `DaemonSpec` assume no fairness. `FairDaemonSpec` adds, for the
runs `Live`, `Mirror` and `Hidden`:

- weak fairness of `Works(k)`: `main` loops over `tick` for ever and each `await`
  returns (a call that hangs for ever is outside the model);
- weak fairness of `Land \/ Drop` for each transaction: its blockhash expires, so
  it settles one way or the other;
- strong fairness of `LandsFor(k, u, m)`: the network does not lose every one of the
  infinitely many transactions that a daemon sends for a user and a mint while it
  would be accepted. Without it nothing can be promised: a cluster that drops
  every transaction is one the code cannot help.

Failures are not fair: nothing says that a call ever fails, and without a premise
nothing could be promised if every call did. `DueIsCranked` is therefore conditional:
*if* from some point on calls no longer fail and the process no longer dies
(`daemon.mjs` line 284 relies on ticks that come to succeed), whatever the failures
before have left behind. It does not assume that the world rests: it says that a
delegation is not workable *for ever* after some point. `Workable` asks for nothing the
daemon could help, but for one thing: the program runs at the terms the daemon assumes,
the fee goes to a wallet whose account for the input exists (the daemon could create it
and does not), there is an allowance or a residue, the wallet and the pool hold enough,
and, for a sell, the residue is within the cap. `EveryDelegationIsCranked` is checked
under the same fairness and with the world at rest, so that its counterexample is the
daemon's choice and nothing else.

## 5. Proofs

For every set of wallets, users, amounts, instants, prices and inputs that the named
assumptions (`WidthAssumption`, `LedgerAssumption`, `RailAssumption`,
`RouterAssumption`, `ScaleAssumption`, `DaemonAssumption`, `NoneAssumption`) allow. They
say what kind of value a constant is, that the parties and the values that stand for "no
account" are distinct, that a `U128` holds the product of two `U64`, and that a power of
ten is a positive natural number. One more is needed by `Custody` alone: `Nonces` is not
empty, that is, a wallet can be granted a delegation, as a trade of a residue is along
one, whose allowance may be nothing. Some theorems have a hypothesis besides, explained
where it is used: `FloorsFit` (the documented floor is a `u64`; custody and prices),
`NothingPaidIn` (nobody pays into a transient account, nor does the fee go there;
`DaemonHoldsNothing`), and, of `MirrorLands` alone, `WidthsMatch` and `AmountsFit` (the
program's integers are as wide as they are, and a token account holds a `u64`).

**The arithmetic** (`AmountsProofs`): the division law, from which the fee is within
the input and the cap (`FeeWithinInput`, `FeeWithinCap`), the net amount grows with
the input (`NetMonotone`), the gate lands in the period after the present
(`NextDueLaw`) and on the grid (`NextDueOnGrid`), and the keeper's `amortizedDraw`
never exceeds `execute_sell`'s cap (`DrawWithinCap`), nor the cap of a later instant,
when fewer periods are left (`RemainingShrinks`, `DrawStaysWithinCap`). At a price of
one for one, and with the program's widths, both floors can be computed and neither is
above the amount less a narrower slippage (`FloorAtPar`).

**The program's invariants** (`RouterProofs`): `TypeCorrect`, `GateStaysOnGrid` and
`NoSecondLateSell`, from one inductive invariant. `AtMostOneLate` is not inductive:
that a late sell completes the plan needs the gate to land after the present, which
needs the gate not to be ahead of the clock when it moves, and that the gate stays
on the grid. `IInv` is therefore `TypeOK /\ GateOnGrid /\ AtMostOneLate`. The type
invariant needs an argument too: no account is overdrawn because every transfer is
bounded by what its source holds *after* the transfers before it.

**The venues** (also `RouterProofs`): `VenuesHonoured`, that no execution ever
called a venue that is off the admin's latest list. The event alone does not tell:
the inductive invariant is `TypeOK`, `WhitelistHonoured` and `Current`, that the
entries of the array which count are those of the latest list. It rests on the
copying of a list (`ListedEntries`), whatever was in the array before.

**The schedule** (`ScheduleProofs`): `PlansKeepSchedule`, that `Router` implements
`Schedule` for every user. The invariant is `SInv`: `IInv`, and that a plan was
opened no later than now (`Begun`), without which the abstract clock, the slots
since the opening, would not be a number. A step either leaves a user's plan alone
and maps to a stutter or a `Pass` of the clock (`Kept`), or is a sell that was due
(`Sold`), which maps to a `Serve` of the present slot because the gate lands one
slot further (`NextDueOnGrid`, `SlotAt`), or opens or closes the plan.

`PlansSellBounded` is the half that the program can keep of "every due period <=
end_ts gets exactly one crank": never more sells than due instants. That the sells
are no more than the slots of the plan is not inductive; `Counted` adds that they
are no more than the slots the gate has gone past, which a sell moves on by at least
one. It does not follow from `AtMostOneLate` and one sell a slot alone: a late sell
takes the place of one that was missed, and is not an additional one.

**Custody** (`CustodyProofs`): `CustodyKept`, that `Router` implements `Custody` for
every user in every step the user does not pay in, under the hypothesis
`[]FloorsFit`: what a user holds of one mint is never worth more of the other, at
the terms in force, than a `u64` can say. The hypothesis is needed, and `Narrow`
shows it: beyond it the program's floor loses its high bits and the trade is at no
price. It is about the user's holdings and the admin's terms and nothing a keeper
chooses. In the other runs no worth comes near their `U64`. The
steps of the argument: an execution takes out of the transient account what it held
and no more (`TradesWhole`), what came back is at least the floor of the amount
less the fee (`FloorCovers`, from `FeeWithinCap`, `NetMonotone` and `DivMonotone`),
and a pull is spent from what the rail would let be pulled, whether or not the
period rolls in the same step (`PullSpends`).

Two results about the same steps stand beside it. `PaysReferencePrice` is sharper on
the price: `Custody` allows the largest fee there may be, while `NeverUnderpaid`
takes the fee that was taken, as state.rs:33-35 does. It is the property that
`Narrow` refutes; the theorem says that nothing else than a floor beyond a `u64`
refutes it. `RevocationStopsTheFlow` is about what a user can do: without a
delegation to pull along the wallet loses nothing; without a plan that is due no
target token is sold, not even one that was pulled before; and while the router does
not run nothing is. It needs no `FloorsFit`: a user whose trades are at no price
because a floor was truncated can still stop them.

**The runway** (`RunwayProofs`): `PotsNeverOutrun`, for plans of any length, any pot
and any order of pulls, donations and sells. `NeverOutrun` is not inductive by
itself: that the periods the program divides the balance by are those still ahead
(`RemainingAtSlot`) needs the slots counted from the opening, and that history and
plan agree on how many there were to begin with. `RInv` adds both to `SInv`. The
sell is the step that matters: after selling at most a share `1/p` of what was left
at `p` periods, what stays is ahead of the slots by the same line
(`SaleKeepsAhead`); a slot that passes without a sell only helps
(`ShareKeepsAhead`). These are statements about products, proved from the division
law alone.

`PotsRunOutOnlyLate` is the exact complement of the finding of `RunsOut`. A sell that
leaves nothing had an empty wallet beside it, so its cap was the amount itself, which
is so only when `remaining_periods` is 1 (`WholeOnlyLast`), and that is less than two
periods before the end. `RunsOut` shows that such a sell happens, and that a due slot
may still be to come.

**The daemon** (`DaemonProofs`), for any number of daemons, of delegations and of
transactions under way, with and without `Faults`:

- `DaemonTypeCorrect`, from `DInv`: `DTypeOK`, the program's `IInv`, and that what a
  daemon read stays usable (`Sane`): the fee within its cap, or the amount it
  composes would be negative, and in the midst of a sell a plan and a delegation.
- What the program promises, under the daemons' transactions: `DaemonKeepsSchedule`,
  `DaemonSellBounded`, `DaemonNeverOutruns`, `DaemonRunsOutOnlyLate`,
  `DaemonCallsListed`, `DaemonFlowStops`, and, with `[]FloorsFit` as above,
  `DaemonKeepsCustody` and `DaemonPaysReferencePrice`. `DaemonSpec` does not imply
  `Spec`: a transaction pulls and executes in one step. The lemmas of the program
  about executions are therefore stated for an execution that starts from *any*
  balances, and used twice, with `bal` and with the balances after the pull. A
  transaction lands in a state that its daemon never saw: what these theorems say,
  they say of the terms, the list, the plan and the delegation of that instant, not
  of the ones it was composed for.
- `DaemonHoldsNothing`: the transient accounts are empty between transactions.
  Inductive together with `DInv` and `FeeKnown`, that the fee goes to one of the owners
  considered (`HInv`): a transaction that commits has drained what its pull put in, and
  touches nobody else's account. It is assumed that nobody pays into a transient
  account and that no fee is sent to one (`NothingPaidIn`, a condition on
  `DirectTransfers`, `FeeWallets` and `InitBal` that `Late` and `Race` meet): a fee sent
  to another subscriber's PDA is left there like a donation; with donations, as in
  `Mirror` and `Live`, the property would be false as it stands.

**The daemon's mirror** (`MirrorProofs`): `MirrorLands`, that a transaction composed
from what still holds is accepted, for any delegations, plans, residues, amounts and
any time between composing and landing. `MirrorAgrees` says it with `ENABLED`, for
which the prover has no rule. `Outcome` stands in for it: it gives the next value of
each variable of the chain by an equation, so there is such a step in every state,
and the theorem is that this step is a `Land`. That is what `ENABLED Land` says, but
for the passage from the equations to the existence of the step. The guards it meets
one by one are those of the pull, of the plan, of the cap and of the floor:

- the rail may have rolled the period since the daemon looked, which only makes room
  (`AvailableStaysPullable`);
- fewer periods may be left, which only widens the cap (`DrawStaysWithinCap`);
- the floor the daemon composed with its own slippage is above the program's and
  below what the venue pays (`FloorAtPar`).

Its hypotheses hold in the program: `DInv` in every reachable state
(`DaemonInvariance`); `WidthsMatch` because 2^64 * 10^12, with the largest decimals
that `init_config` takes, and 2^64 * 10^4 are below 2^128; `AmountsFit` because a
token account is a `u64`, which the model does not impose on `bal`. `StillHolds` is
what the run `Mirror` finds met, residues included.

Only model-checked: `DueIsCranked`, a liveness property, and the last step to
`MirrorAgrees`, which is about `ENABLED`; both are out of the prover's reach. The
runs that expect a violation are refutations, by a behaviour that TLC shows.

## 6. Not modelled

- `devnet_sell_setup.ts` and the end-to-end demonstrations: straight lines through
  actions that `Router` and `Daemon` have.
- `RecurringBuyKeeper` but for `amortizedDraw`: it assembles accounts and
  instructions, without state; the Jupiter route is an unverified scaffold over
  HTTP.
- Of the rail, what the keeper does not use: fixed delegations, plans of merchants,
  and the rail's own accounts and authority.
- Venues other than `mock_swap` (section 2, "The venue"): a program on the list is
  called with the PDA's signature and whatever accounts the keeper adds.
- The order in which token accounts come to exist: `Created` is a constant.
- Three hazards have no property, and half of a fourth. The daemon's floor is fixed at
  one dollar a token and six decimals, so after a `set_params` to another price all
  that it sends may be refused: `Workable` presupposes the price it assumes, as no
  document promises otherwise. Target tokens in the transient account of a user whose
  plan is closed or complete stay there until a new plan lets a crank sell them: no
  instruction gives them back, and the documents promise nothing. `init_config` belongs
  to whoever calls it first: every property holds under any admin, and none says who it
  is. And where the fee's account does not exist nothing is executed until somebody
  opens it: that no refused transaction leaves anything behind is `NothingHeld` in
  `Late`, while `Workable` presupposes the account.

## 7. Plan

1. (done) `Amounts`, `Ledger`, `Rail`, `Router`, `Schedule`, their runs, the
   inductive invariant.
2. (done) `Daemon`, composed with `Router`: safety and liveness runs, restarts and
   failing calls.
3. (done) `Custody`, implemented by `Router` and by `Daemon`'s transactions;
   `Setup`; the proof of `WhitelistHonoured`.
4. (done) Proofs of the refinements, of `NeverOutrun`, and of the daemon's safety:
   `DTypeOK`, `NothingHeld`, and what the program promises under its transactions.
5. (done) Consequences for a plan and its pot: `SellsBounded`, `RunsOutOnlyLate`, and
   `EitherStopsTheFlow`, for the program and under the daemons' transactions.
6. (done) What the daemon composes, without `ENABLED`: `MirrorLands`.
7. (partly) What holds without `FloorsFit`: `EitherStopsTheFlow` does, and all of the
   schedule and the runway. Left: custody with the floor as truncated, in place of the
   documented one.
8. Left: `devnet_sell_setup.ts` as a script of its own, and, should the daemon come to
   read the reference price, what it composes at other prices than one for one.
