SPECIFICATION FairSpec
CONSTANTS
  Paths = {p1}
  None = None
  MaxFiles = 1
  MaxWrites = 2
  MaxStrays = 1
  NoETags = TRUE
  Calming = TRUE
PROPERTY SettlesWhenCalm
