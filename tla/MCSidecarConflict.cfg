SPECIFICATION FairSpec
CONSTANTS
  Sidecars <- MCSidecars
  Media <- OneMedium
  Bytes <- TwoTexts
  SizeOf <- TwoSizes
  MaxWrites = 1
  MaxStrays = 0
  NoETags = FALSE
  None = None
PROPERTY LocallyAuthoritative
