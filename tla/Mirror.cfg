SPECIFICATION FairDaemonSpec
CONSTANTS
  U64 = 32768
  U128 = 1073741824
  u = u
  j = j
  k = k
  V1 = V1
  Usdc = Usdc
  Target = Target
  Pool = Pool
  None = None
  DefaultKey = DefaultKey
  Wallets = {u, k}
  Users = {u}
  Programs = {V1}
  Deployers = {k}
  Keepers = {k}
  Daemons = {k}
  MS = V1
  SLIPPAGE_BPS = 100
  InFlight = 1
  Faults = TRUE
  Nonces = {1}
  TargetDecimals = 0
  Times = {0, 30, 120}
  SignTimes = {0}
  Pauses = {}
  FeeWallets = {k}
  InitBal <- MirrorBal
  Created <- AllCreated
  Grants <- MirrorGrants
  PullAmount = {}
  Price = {1}
  Slippage = {100}
  FeeBps = {0}
  Lists <- VenueList
  EndTs = {200}
  PeriodSecs = {60}
  Payout = {}
  Sinks = {Pool}
  DirectTransfers <- MirrorTransfers
INVARIANTS
  MirrorAgrees
PROPERTIES
  DueIsCranked
