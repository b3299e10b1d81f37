\* Every quote breaches the threshold and the host polls.
SPECIFICATION Spec
CONSTANTS
  SignedMod = 64
  WordMod = 4
  CountMod = 2
  Fabrics = {"current"}
  ImageVersions = {2}
  Quotes <- QuotesMoving
  Thresh = 1
  MaxPos = 1
  MaxWaits = 2
  WaitGrace = 0
  FillQtys = {1}
  Ops = {"publish", "poll"}
  MaxSessions = 1
  MaxResets = 0
  MaxInventory = 0
  SleepLaps = 2
INVARIANT SignalMatchesItsNumber
CHECK_DEADLOCK FALSE
