CONSTANTS
  Nodes = {n1, n2}
  Threads = {"inserter", "other"}
  Peers = {"p", "q"}
  Kinds = {"header"}
  Plan <- SyncPlan
  Jobs <- SyncJobs
  MaxSyncs = 2
  None = "none"
  MaxPeers = 3
  MaxPeerCon = 2
  Base = 2
  RangeLimit = 2
  MaxCurrent = 4
  Addr = {"a1", "a2"}
  WithdrawalAddress = "a1"
  Funds = 2
  Amounts = {1, 2}
  EffectiveBalance = 2
  ValidatorOpExpireSlots = 2
  SlotsPerEra = 1
  ForkSlotValOpTracking = 1
  ForkSlotValSyncProc = 3
  Delegating = FALSE
  TrialPeriod = 1
  ProfitShare <- StakingShare
  StakeShare <- StakingShare
  ExitBy <- StakingBy
  WithdrawalBy <- StakingBy
  Timely = FALSE
  LastSlot = 4
  MaxRewards = 1
  MaxRequests = 2
CHECK_DEADLOCK FALSE
SYMMETRY Symmetric
SPECIFICATION AllSpec
INVARIANTS Conserved HeightsAgree HeightIsPast  NothingLeftBehind
  ChunksComplete SemaphoreOpen SlotsCovered
PROPERTIES Lifecycle
