SPECIFICATION Spec
CONSTANTS
  Objects <- MCObjects
  WindowSize = 6
  MaxBytes = 24
  MaxRequests = 5
  MaxMetadata = 5
  MaxHeader = 4
  MaxInt = 63
  Unknown <- MCUnknown
  Mp4Tail = 1
  MatroskaRoom = 6
INVARIANTS TypeOK WindowIsFile WithinBudget SoundMediaIsStubbed StubRescans StubFillsFile
PROPERTY ReadsAdvance
CHECK_DEADLOCK FALSE
