SPECIFICATION MCSpec
CONSTANTS
  s1 = s1
  Stores = {"own", "shared"}
  None = None
  Requests = {r1, r2}
  Sessions = {s1, s2}
  MaxIndex = 2
  MaxRuns = 2
  MaxSeals = 2
  Strangers = TRUE
INVARIANTS SealsAreTrue OnlyAdmittedRuns
PROPERTY ClosureDrains
