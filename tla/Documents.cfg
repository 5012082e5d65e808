SPECIFICATION Spec
CONSTANTS
  p1 = p1
  p2 = p2
  v1 = v1
  Procs = {p1, p2}
  Values = {v1}
  Deleted = Deleted
  MaxReads = 2
  MaxRevs = 3
SYMMETRY Symmetric
INVARIANTS NewestIsWhole ReadIsFresh
PROPERTY ImplementsContract
