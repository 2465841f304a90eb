-------------------------------- MODULE Setup --------------------------------
(* The scripts that prepare a deployment (scripts/devnet_fixtures.ts and         *)
(* devnet_fee_init.ts), run one at a time and again at will by one wallet that is *)
(* deployer, admin, mint authority, keeper and subscriber: the fixtures top up    *)
(* the pool and the wallet, mint a lot into the wallet's transient account in the  *)
(* place of a pull, and crank a buy of just that lot.  A step is a transaction;    *)
(* when one is refused the script throws and the earlier ones stay.                *)
EXTENDS Router

CONSTANTS
  Payer,      \* the wallet
  Venue,      \* mock_swap
  Lot,        \* the amount of the buy, ten tokens
  PoolLots,   \* lots the pool is topped up by
  Demo        \* the operated instance's fee, in basis points

VARIABLE line   \* where the fixtures script is
setupVars == <<vars, line>>

SetupInit == Init /\ line = "idle"

Step(from, to) == line = from /\ line' = to

\* spl-token mintTo.
Mint(owner, mint, amount) ==
  /\ bal' = [bal EXCEPT ![Ata(owner, mint)] = @ + amount]
  /\ OutsideProgram
  /\ UNCHANGED <<now, delegation, history>>

\* mintTo, unless the account holds enough.
TopUp(owner, mint, enough, amount) ==
  IF bal[Ata(owner, mint)] < enough THEN Mint(owner, mint, amount) ELSE UNCHANGED vars

Start == Step("idle", "config") /\ UNCHANGED vars

\* The config that exists is used, whatever it says.
EnsureConfig ==
  /\ Step("config", "pool")
  /\ IF config = None THEN InitConfig(Payer) ELSE UNCHANGED vars

FundPool == Step("pool", "wallet") /\ TopUp(Pool, Target, 10 * Lot, PoolLots * Lot)

FundWallet == Step("wallet", "mint") /\ TopUp(Payer, Usdc, 5 * Lot, 10 * Lot)

MintLot == Step("mint", "buy") /\ Mint(Pda(Payer), Usdc, Lot)

\* The venue takes and pays one lot; min_out is a lot less the slippage.
LotOffer ==
  [amount_in |-> {Lot}, sink |-> {Pool}, out |-> {Lot}, payee |-> {Payer},
   min_out |-> {Discount(Lot, 100)}]
ExecuteLot == ExecuteBuy(bal, Payer, Venue, LotOffer) /\ UNCHANGED delegation

BuyLands == Step("buy", "idle") /\ ExecuteLot
BuyThrows == Step("buy", "idle") /\ ~ENABLED ExecuteLot /\ UNCHANGED vars

\* devnet_fee_init: between two runs of the fixtures, once there is a config.
FeeInit ==
  /\ line = "idle"
  /\ InitFeeConfig(Payer) \/ SetFee(Payer)
  /\ feeConfig' = [fee_bps |-> Demo, destination |-> Payer]
  /\ UNCHANGED line

SetupNext ==
  \/ Start \/ EnsureConfig \/ FundPool \/ FundWallet \/ MintLot
  \/ BuyLands \/ BuyThrows
  \/ FeeInit

SetupSpec == SetupInit /\ [][SetupNext]_setupVars

-----------------------------------------------------------------------------
\* RerunsClean (devnet_fixtures.ts:3 "Idempotent", :48 "sets up (idempotent) and
\* lands a live devnet buy"): a run starts from what the run before it was meant to
\* leave, a drained transient account (:94).
RerunsClean == line = "config" => bal[Transient(Payer, Usdc)] = 0
=============================================================================
