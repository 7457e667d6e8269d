CONSTANTS
  a1 = a1
  a2 = a2
  Addr = {a1, a2}
  WithdrawalAddress = a1
  Funds = 200
  Amounts = {100, 200}
  EffectiveBalance = 200
  ValidatorOpExpireSlots = 2
  SlotsPerEra = 1
  ForkSlotValOpTracking = 0
  ForkSlotValSyncProc = 0
  Delegating = TRUE
  TrialPeriod = 1
  ProfitShare <- MCProfitShare
  StakeShare <- MCStakeShare
  ExitBy <- MCExitBy
  WithdrawalBy <- MCWithdrawalBy
  Timely = TRUE
  LastSlot = 6
  MaxRewards = 200
  MaxRequests = 3
CHECK_DEADLOCK FALSE
SPECIFICATION StakingSpec
INVARIANT Conserved
