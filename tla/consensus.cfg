CONSTANTS
  SlotsPerEpoch = 2
  EpochsPerEra = 2
  TransitionPeriod = 1
  MaxSlot = 6
  MaxWorks = 2
  Configs <- SlotConfigs
  Block = {0, 1, 2, 3, 4}
  Genesis = 0
  Dags <- FinalizerDags
SPECIFICATION AllSpec
CHECK_DEADLOCK FALSE
INVARIANTS EraRootsSteady  EraVerified CandidatesAgree 
   ReceiptsAgree
PROPERTIES CreatedOnce StopReturns OpsCarriedOut 
