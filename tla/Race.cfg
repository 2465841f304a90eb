SPECIFICATION DaemonSpec
SYMMETRY Either
CONSTANTS
  U64 = 32768
  U128 = 1073741824
  u = u
  j = j
  k = k
  V1 = V1
  Usdc = Usdc
  Target = Target
  Pool = Pool
  None = None
  DefaultKey = DefaultKey
  Wallets = {u, j, k}
  Users = {u}
  Programs = {V1}
  Deployers = {u}
  Keepers = {j, k}
  Daemons = {j, k}
  MS = V1
  SLIPPAGE_BPS = 100
  InFlight = 1
  Faults = FALSE
  Nonces = {1, 2}
  TargetDecimals = 0
  Times = {0}
  SignTimes = {0}
  Pauses = {}
  FeeWallets = {u}
  InitBal <- RaceBal
  Created <- AllCreated
  Grants <- RaceGrants
  PullAmount = {}
  Price = {1}
  Slippage = {100}
  FeeBps = {0}
  Lists <- VenueList
  EndTs = {121}
  PeriodSecs = {60}
  Payout = {}
  Sinks = {Pool}
  DirectTransfers <- NoTransfers
INVARIANTS
  NothingHeld
PROPERTIES
  KeepsSchedule
