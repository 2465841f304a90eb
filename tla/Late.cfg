SPECIFICATION DaemonSpec
CONSTANTS
  U64 = 32768
  U128 = 1073741824
  u = u
  j = j
  k = k
  V1 = V1
  Usdc = Usdc
  Target = Target
  Pool = Pool
  None = None
  DefaultKey = DefaultKey
  Wallets = {u, j, k}
  Users = {u}
  Programs = {V1}
  Deployers = {k}
  Keepers = {k}
  Daemons = {k}
  MS = V1
  SLIPPAGE_BPS = 100
  InFlight = 2
  Faults = TRUE
  Nonces = {1}
  TargetDecimals = 0
  Times = {0, 60}
  SignTimes = {0}
  Pauses = {}
  FeeWallets = {j, k}
  InitBal <- RetryBal
  Created <- TargetOfJMissing
  Grants <- RetryGrants
  PullAmount = {}
  Price = {1}
  Slippage = {100}
  FeeBps = {0, 100, 200}
  Lists <- VenueList
  EndTs = {61}
  PeriodSecs = {60}
  Payout = {}
  Sinks = {Pool}
  DirectTransfers <- NoTransfers
INVARIANTS
  DTypeOK
  NothingHeld
