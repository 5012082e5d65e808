SPECIFICATION Spec
CONSTANTS
  None = None
  Free = Free
  Parts = {"verify", "export", "read", "document"}
  MaxSigned = 4
  MaxEdits = 2
  Sessions = {s1, s2}
  MaxCalls = 2
  MaxSeals = 1
  MaxUnsynced = 1
  MaxTampers = 1
  MaxSeq = 1
  MaxChain = 3
  MaxSigns = 3
  MaxReads = 2
  Page = 1
  MaxWitnessStatements = 3
  MaxRefDepth = 3
  MaxObjects = 12
  MaxSections = 2
  MaxPages = 2
  MaxNodes = 4
INVARIANTS LaddersAgree OkMeansFaithful ExportIsClosed ReadingIsTrue TextIsOneReading
SYMMETRY Symmetric
CHECK_DEADLOCK FALSE
