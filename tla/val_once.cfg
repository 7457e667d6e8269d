CONSTANTS
  Nodes = {n1, n2}
  Ops = {o1}
  Txs = {t1, t2}
  NoTx = NoTx
  InitTx = InitTx
  ConfirmedEpoch = 0
  Confirmed <- MCConfirmed
  SlotsPerEpoch = 2
  ForkSlotDelegate = 1
  MaxSlot = 2
  DataFirst = FALSE
  Faults = {"restart", "tornConfirm", "tornInsert", "evict", "error", "revert", "rollback"}
CHECK_DEADLOCK FALSE
SYMMETRY Symmetric
SPECIFICATION Spec
INVARIANTS AtMostOnce
