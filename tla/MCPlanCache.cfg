SPECIFICATION FairSpec
CONSTANTS
  None = None
  Openers = {o1, o2}
  Paths = {p1}
  MaxVersions = 3
  CacheEntries = 1
  Calls = {1, 2, 3, 4}
  OnError = "fail"
  Pinned = TRUE
  Small = {2}
INVARIANTS TypeOK OneProbePerVersion CacheBounded StubOfItsVersion FailIsClosed
PROPERTIES OpensAsPromised OpensEnd
