SPECIFICATION Spec
CONSTANTS
  Paths = {p1}
  None = None
  MaxFiles = 1
  MaxWrites = 1
  MaxStrays = 0
  NoETags = FALSE
  Calming = FALSE
PROPERTY NeverRemovesRealFile
