SPECIFICATION SetupSpec
CONSTANTS
  U64 = 32768
  U128 = 1073741824
  k = k
  V1 = V1
  Usdc = Usdc
  Target = Target
  Pool = Pool
  None = None
  DefaultKey = DefaultKey
  Payer = k
  Venue = V1
  Lot = 200
  PoolLots = 100
  Demo = 50
  Wallets = {k}
  Users = {k}
  Programs = {V1}
  Deployers = {k}
  Keepers = {k}
  Nonces = {1}
  TargetDecimals = 0
  Times = {0}
  SignTimes = {0}
  Pauses = {}
  FeeWallets = {k}
  InitBal <- Empty
  Created <- AllCreated
  Grants = {}
  PullAmount = {}
  Price = {1}
  Slippage = {100}
  FeeBps = {50}
  Lists <- TradeLists
  EndTs = {}
  PeriodSecs = {59, 60}
  Payout = {}
  Sinks = {Pool}
  DirectTransfers <- NoTransfers
INVARIANTS
  RerunsClean
