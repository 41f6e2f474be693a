SPECIFICATION FairSpec
CONSTANTS
  Sidecars <- MCSidecars
  Media <- OneMedium
  Bytes <- TwoTexts
  SizeOf <- TwoSizes
  MaxWrites = 2
  MaxStrays = 0
  NoETags = FALSE
  None = None
PROPERTIES SettlesWhenCalm LocalWins
