\* Every board and build a loader may meet, three loads with any crash between
\* them, buys and sells of one lot; FILL_SEQ wraps at 4.
SPECIFICATION FairSpec
CONSTANTS
  SignedMod = 64
  WordMod = 4
  CountMod = 3
  Fabrics = {"current", "old", "held", "absent"}
  ImageVersions = {1, 2}
  Quotes <- QuotesCalm
  Thresh = 9
  MaxPos = 1
  MaxWaits = 3
  WaitGrace = 1
  FillQtys = {1}
  Ops = {"fill", "crash"}
  MaxSessions = 3
  MaxResets = 0
  MaxInventory = 2
  SleepLaps = 2
INVARIANT TradesOnlyAfterHandshake
INVARIANT FillsConserved
PROPERTY LoadIsBounded
PROPERTY LoadTerminates
CHECK_DEADLOCK FALSE
