\* Texts above the largest price.
SPECIFICATION PathSpec
CONSTANTS
  SignedMod = 64
  BackoffMin = 2
  BackoffMax = 10
  Scale = 10
  Places = 1
  WHOLE_SATURATE = 2
  WideMod = 512
  Texts <- EdgeTexts
  RawPrices <- ParsedPrices
  MaxFails = 1
  Threshold = 2
  MaxPosition = 1
  MaxInventory = 2
INVARIANT OutOfRangeIsDropped
