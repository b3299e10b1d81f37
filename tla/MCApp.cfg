\* Four orders in one slot, one more than the exposure bound; two prices, a
\* limit of one lot, started flat or long.
SPECIFICATION Spec
CONSTANTS
  MaxPending = 1
  MaxOrders = 4
  MaxConns = 1
  MaxTurned = 1
  GiveUpPolls = 1
  Outcomes = {"filled"}
  Mishaps = {}
  MaxLoss = 2
  StartPositions = {0, 1}
  Prices = {1, 4}
  Limit = 1
INVARIANT PnlIsEquity
INVARIANT ExposureIsBounded
PROPERTY HaltWindsDown
PROPERTY HaltIsJustified
CHECK_DEADLOCK FALSE
