SPECIFICATION Spec
CONSTANTS
  Paths = {p1}
  None = None
  MaxFiles = 2
  MaxWrites = 2
  MaxStrays = 1
  NoETags = FALSE
  Calming = FALSE
INVARIANTS TypeOK UploadIsDurable
PROPERTIES NoKnownFileLost AbsenceIsConfirmed
