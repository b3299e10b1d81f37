\* A delay of 2, 4, 8, 10, 10, ... and texts on every edge of parser and clamp.
SPECIFICATION PathFairSpec
CONSTANTS
  SignedMod = 64
  BackoffMin = 2
  BackoffMax = 10
  Scale = 10
  Places = 1
  WHOLE_SATURATE = 2
  WideMod = 512
  Texts <- EdgeTexts
  RawPrices <- ParsedPrices
  MaxFails = 5
  Threshold = 2
  MaxPosition = 1
  MaxInventory = 2
INVARIANT NeverStranded
INVARIANT BackoffFollowsFailures
INVARIANT QuotesAreComparable
INVARIANT PricesAreExact
PROPERTY TwinsAgree
PROPERTY KeepsTrying
