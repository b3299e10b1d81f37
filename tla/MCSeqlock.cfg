\* Two quotes, two host processes, any crash, one KEY[0]; TICK_SEQ wraps at 6.
SPECIFICATION FairSpec
CONSTANTS
  SignedMod = 64
  WordMod = 6
  CountMod = 2
  Fabrics = {"current"}
  ImageVersions = {2}
  Quotes <- QuotesCalm
  Thresh = 9
  MaxPos = 1
  MaxWaits = 2
  WaitGrace = 0
  FillQtys = {1}
  Ops = {"publish", "crash", "reset"}
  MaxSessions = 2
  MaxResets = 1
  MaxInventory = 0
  SleepLaps = 2
INVARIANT FabricTypeOK
INVARIANT SeqlockInv
PROPERTY SnapshotsAreWhole
PROPERTY QuoteIsRead
CHECK_DEADLOCK FALSE
