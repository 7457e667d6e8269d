CONSTANTS
  Account = {"a", "b", "c"}
  Coinbase = "c"
  Tx = {"pay", "call", "create", "buy", "short", "bad"}
  Data <- TxData
  BaseFee = 3
  GasLimit = 12
  MaxApplied = 6
  Money <- Purse
  User = {"a", "b"}
  Zero = "zero"
  Id = {1}
  W = 4
  Supplies = {2}
  Fees = {0, 50, 200}
  Quantities = {1, 2}
  Prices = {0, 2}
  Values = {3}
  Purses <- UserPurses
SPECIFICATION AllSpec
CHECK_DEADLOCK FALSE
INVARIANTS TokensConserved ExecutedOnce  SnapshotAgrees 
  PromotedBeforeReset 
PROPERTIES  AccountsSpec 
