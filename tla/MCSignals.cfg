\* Every quote breaches the threshold, the host polls, halts, shuts down or
\* dies at any time; SIGNAL_SEQ wraps at 4.
SPECIFICATION Spec
CONSTANTS
  SignedMod = 64
  WordMod = 4
  CountMod = 2
  Fabrics = {"current"}
  ImageVersions = {2}
  Quotes <- QuotesMoving
  Thresh = 1
  MaxPos = 1
  MaxWaits = 2
  WaitGrace = 0
  FillQtys = {1}
  Ops = {"publish", "poll", "crash"}
  MaxSessions = 1
  MaxResets = 0
  MaxInventory = 0
  SleepLaps = 2
INVARIANT MissedIsExact
INVARIANT AtMostOneLateDecision
INVARIANT AtMostTwoOrphanDecisions
CHECK_DEADLOCK FALSE
