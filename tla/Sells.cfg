SPECIFICATION Spec
CONSTANTS
  U64 = 32768
  U128 = 1073741824
  u = u
  k = k
  V1 = V1
  V2 = V2
  V3 = V3
  V4 = V4
  Usdc = Usdc
  Target = Target
  Pool = Pool
  None = None
  DefaultKey = DefaultKey
  Wallets = {u, k}
  Users = {u}
  Programs = {V1}
  Deployers = {k}
  Keepers = {k}
  Nonces = {1}
  TargetDecimals = 1
  Times = {0, 70}
  SignTimes = {0}
  Pauses = {TRUE, FALSE}
  FeeWallets <- OtherRecipient
  InitBal <- TradeBal
  Created <- AllCreated
  Grants <- SellGrants
  PullAmount = {100}
  Price = {5, 10}
  Slippage = {100}
  FeeBps = {100, 200}
  Lists <- TradeLists
  EndTs = {59, 130}
  PeriodSecs = {59, 60}
  Payout = {0, 48, 49, 50, 97, 98}
  Sinks = {Pool}
  DirectTransfers <- SellTransfers
INVARIANTS
  TypeOK
PROPERTIES
  KeepsCustody
  EitherStopsTheFlow
