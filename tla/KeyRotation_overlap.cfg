SPECIFICATION Spec
CONSTANTS
  p1 = p1
  p2 = p2
  None = None
  Torn = Torn
  Procs = {p1, p2}
  MaxKeys = 2
  MaxSeals = 0
  MaxStops = 0
  Overlap = TRUE
  TornRecord = FALSE
INVARIANT CurrentSeedHeld
