SPECIFICATION Spec
CONSTANTS
  U64 = 128
  U128 = 1073741824
  u = u
  k = k
  V1 = V1
  V2 = V2
  V3 = V3
  V4 = V4
  Usdc = Usdc
  Target = Target
  Pool = Pool
  None = None
  DefaultKey = DefaultKey
  Wallets = {u, k}
  Users = {u}
  Programs = {V1}
  Deployers = {k}
  Keepers = {k}
  Nonces = {1}
  TargetDecimals = 1
  Times = {0}
  SignTimes = {0}
  Pauses = {}
  FeeWallets = {u, k}
  InitBal <- NarrowBal
  Created <- AllCreated
  Grants <- BuyGrants
  PullAmount = {50}
  Price = {1}
  Slippage = {100}
  FeeBps = {0}
  Lists <- TradeLists
  EndTs = {}
  PeriodSecs = {59, 60}
  Payout = {0, 111}
  Sinks = {Pool, u}
  DirectTransfers <- NoTransfers
PROPERTIES
  NeverUnderpaid
