SPECIFICATION StoreSpec
CONSTANTS
  None = None
  Procs = {p1, p2, p3}
  Ids = {a, b}
  MaxWork = 3
SYMMETRY ProcsAlike
INVARIANT StoreTypeOK
PROPERTY AtomicState
