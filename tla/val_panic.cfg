CONSTANTS
  Nodes = {n1, n2}
  Ops = {o1}
  Txs = {t1, t2}
  NoTx = NoTx
  InitTx = InitTx
  ConfirmedEpoch = 0
  Confirmed <- MCConfirmed
  SlotsPerEpoch = 2
  ForkSlotDelegate = 0
  MaxSlot = 0
  DataFirst = TRUE
  Faults = {"error"}
CHECK_DEADLOCK FALSE
SPECIFICATION FairSpec
PROPERTIES ChainExecuted
