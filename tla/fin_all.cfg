SPECIFICATION AllSpec
CONSTANTS
  NBlocks = 3
  NSlots = 3
  Block <- MCBlock
  Genesis = 0
  Dags <- MCDags
CHECK_DEADLOCK FALSE
INVARIANTS SteadyAgreement ParentsFirst TablesInverse 
PROPERTIES SteadyFinalized LedgerSpec FaultyRecovers
