\* Quotes at the clamp, where the band around the anchor leaves the registers.
SPECIFICATION PathSpec
CONSTANTS
  SignedMod = 64
  BackoffMin = 2
  BackoffMax = 10
  Scale = 10
  Places = 1
  WHOLE_SATURATE = 2
  WideMod = 512
  Texts <- WithMalformedTexts
  RawPrices <- ParsedPrices
  MaxFails = 1
  Threshold = 2
  MaxPosition = 1
  MaxInventory = 2
PROPERTY NeverInverts
