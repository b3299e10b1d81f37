\* Two table loads, any order of the host's writes, one reset.
SPECIFICATION Spec
CONSTANTS
  LEVELS = 4
  LUT_N = 2
  BucketSize = 1
  Loads <- LoadNumbers
  Skews <- LoadTables
  Spreads = {0, 1}
  Limits = {0, 2}
  Tops <- BankTops
  Positions <- Inventories
  MaxWrites = 7
  MaxTriggers = 2
  MaxResets = 1
INVARIANT QuotesNeverCross
INVARIANT KillSwitchHolds
INVARIANT LiveTableIsWhole
