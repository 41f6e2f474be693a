SPECIFICATION Spec
CONSTANTS
  None = None
  Openers = {r1, r2}
  Paths = {p1}
  MaxVersions = 3
  OnError = "passthrough"
  Pinned = TRUE
  Small = {1}
  TTL = 2
  MaxDelay = 1
  Absent = {2}
  Empty = {3}
  Media = {p1}
SYMMETRY SlotsAlike
INVARIANTS TypeOK KernelFresh StubsStayOutOfPages
PROPERTY OpensFresh
