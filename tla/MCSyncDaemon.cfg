SPECIFICATION FairSpec
CONSTANTS
  None = None
  Root = Root
  Procs = {p1}
  Ids = {a}
  Dirs = {d}
  MaxWork = 1
  MaxChanges = 2
INVARIANTS TypeOK SidecarsAfterSave CleanEndIsSaved
PROPERTIES WatchedChangeSeen PollSeesAll StopEnds
