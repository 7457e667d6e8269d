SPECIFICATION TokenSpec
CONSTANTS
  User = {"a", "b"}
  Zero = "zero"
  Id = {1}
  W = 4
  Supplies = {2}
  Fees = {0, 50, 200}
  Quantities = {1, 2}
  Prices = {0, 2}
  Values = {3}
  Purses <- MCPurses
INVARIANT BurntUnowned
CHECK_DEADLOCK FALSE
