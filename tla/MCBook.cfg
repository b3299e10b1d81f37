\* Two words of two levels per side; 3 + 3 + 3 saturates, 3 - 4 clamps.
SPECIFICATION Spec
CONSTANTS
  LEVELS = 4
  WordBits = 2
  QtyMax = 7
  Deltas <- FeedDeltas
  HostReads = {1}
  PowerOn = {7}
  MaxUpdates = 3
  MaxResets = 1
INVARIANT HostReadsTheBook
PROPERTY ImplementsBook
