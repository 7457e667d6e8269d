SPECIFICATION Spec
CONSTANTS
  Validators = {"stays", "joins", "leaves"}
  Record <- MCRecord
  TransitionPeriod = 1
  EpochsPerEra = 2
  PerEra = 2
  CacheCapacity = 3
  MaxEpoch = 5
  Configs <- MCRestartConfigs
CHECK_DEADLOCK FALSE
INVARIANT EraRoots
