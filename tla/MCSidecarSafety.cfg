SPECIFICATION Spec
CONSTANTS
  Sidecars <- MCSidecars
  Media <- TwoMedia
  Bytes <- OneText
  SizeOf <- OneSize
  MaxWrites = 1
  MaxStrays = 1
  NoETags = TRUE
  None = None
INVARIANTS TypeOK RecordsOfTracked
PROPERTIES OnlyOwned DoubtResolvedFirst ScannedKept
