SPECIFICATION FairDaemonSpec
CONSTANTS
  U64 = 32768
  U128 = 1073741824
  u = u
  j = j
  k = k
  V1 = V1
  Usdc = Usdc
  Target = Target
  Pool = Pool
  None = None
  DefaultKey = DefaultKey
  Wallets = {u, k}
  Users = {u}
  Programs = {V1}
  Deployers = {k}
  Keepers = {k}
  Daemons = {k}
  MS = V1
  SLIPPAGE_BPS = 100
  InFlight = 1
  Faults = FALSE
  Nonces = {1, 2}
  TargetDecimals = 0
  Times = {0}
  SignTimes = {0}
  Pauses = {}
  FeeWallets = {k}
  InitBal <- HiddenBal
  Created <- AllCreated
  Grants <- HiddenGrants
  PullAmount = {}
  Price = {1}
  Slippage = {100}
  FeeBps = {0}
  Lists <- VenueList
  EndTs = {}
  PeriodSecs = {60}
  Payout = {}
  Sinks = {Pool}
  DirectTransfers <- NoTransfers
PROPERTIES
  EveryDelegationIsCranked
