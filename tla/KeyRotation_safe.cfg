SPECIFICATION FairSpec
CONSTANTS
  p1 = p1
  p2 = p2
  None = None
  Torn = Torn
  Procs = {p1, p2}
  MaxKeys = 3
  MaxSeals = 1
  MaxStops = 2
  Overlap = FALSE
  TornRecord = TRUE
INVARIANT RotationHolds
PROPERTY WholeRecordFinishes
