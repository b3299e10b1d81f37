\* One fill and one press of KEY[0].
SPECIFICATION Spec
CONSTANTS
  SignedMod = 64
  WordMod = 4
  CountMod = 2
  Fabrics = {"current"}
  ImageVersions = {2}
  Quotes <- QuotesCalm
  Thresh = 9
  MaxPos = 1
  MaxWaits = 2
  WaitGrace = 0
  FillQtys = {1}
  Ops = {"fill", "reset"}
  MaxSessions = 1
  MaxResets = 1
  MaxInventory = 1
  SleepLaps = 2
INVARIANT PositionIsTruth
CHECK_DEADLOCK FALSE
