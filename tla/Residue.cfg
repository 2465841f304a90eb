SPECIFICATION Spec
CONSTANTS
  U64 = 32768
  U128 = 1073741824
  u = u
  k = k
  V1 = V1
  V2 = V2
  V3 = V3
  V4 = V4
  Usdc = Usdc
  Target = Target
  Pool = Pool
  None = None
  DefaultKey = DefaultKey
  Wallets = {u, k}
  Users = {u}
  Programs = {V1}
  Deployers = {k}
  Keepers = {k}
  Nonces = {1}
  TargetDecimals = 1
  Times = {0}
  SignTimes = {0}
  Pauses = {}
  FeeWallets = {u, k}
  InitBal <- TradeBal
  Created <- AllCreated
  Grants <- BuyGrants
  PullAmount = {50, 100}
  Price = {0, 5, 10}
  Slippage = {100, 10001}
  FeeBps = {0}
  Lists <- TradeLists
  EndTs = {}
  PeriodSecs = {59, 60}
  Payout = {0, 49, 97, 98, 99, 196}
  Sinks = {Pool, u}
  DirectTransfers <- BuyTransfers
INVARIANTS
  BothDrained
