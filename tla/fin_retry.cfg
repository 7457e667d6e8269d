SPECIFICATION FaultySpec
CONSTANTS
  NBlocks = 3
  NSlots = 3
  Block <- MCBlock
  Genesis = 0
  Dags <- MCDags
INVARIANTS ChainComplete
CHECK_DEADLOCK FALSE
