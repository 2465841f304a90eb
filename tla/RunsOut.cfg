SPECIFICATION Spec
CONSTANTS
  U64 = 32768
  U128 = 1073741824
  u = u
  k = k
  V1 = V1
  V2 = V2
  V3 = V3
  V4 = V4
  Usdc = Usdc
  Target = Target
  Pool = Pool
  None = None
  DefaultKey = DefaultKey
  Wallets = {u, k}
  Users = {u}
  Programs = {V1}
  Deployers = {k}
  Keepers = {k}
  Nonces = {1}
  TargetDecimals = 2
  Times <- ScheduleTimes
  SignTimes = {0, 30}
  Pauses = {}
  FeeWallets = {k}
  InitBal <- ScheduleBal
  Created <- AllCreated
  Grants <- ScheduleGrants
  PullAmount = {2, 3, 6}
  Price = {1}
  Slippage = {0}
  FeeBps = {0}
  Lists <- TradeLists
  EndTs = {180, 240}
  PeriodSecs = {60}
  Payout = {0}
  Sinks = {Pool}
  DirectTransfers <- NoTransfers
INVARIANTS
  NeverRunsOutEarly
