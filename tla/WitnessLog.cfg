SPECIFICATION Spec
CONSTANTS
  t1 = t1  t2 = t2  a = a  b = b  v = v  w = w
  None = None
  Trails = {t1, t2}
  Submitters = {a, b}
  Values = {v, w}
  Submissions <- Offered
  FirstSubmission = TRUE
  TrailsPerSubmitter = 1
  MaxSigns = 3
  MaxRegistrations = 2
  MaxFaults = 2
  Operators = TRUE
SYMMETRY Symmetric
CHECK_DEADLOCK FALSE
INVARIANTS NoFork ServedIsKept RepairsAreSound
