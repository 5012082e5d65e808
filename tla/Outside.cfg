SPECIFICATION MCSpec
CONSTANTS
  None = None
  Parts = {"leases", "storage", "search", "witness", "adapter", "workspace"}
  Procs = {v1, v2}
  TTLs = {1, 2}
  MaxTime = 3
  MaxWrites = 3
  Brokers = {v1, v2}
  MaxEpoch = 2
  MaxPlans = 2
  MaxEdits = 1
  Ids = {"a"}
  MaxConnections = 1
  MaxLimit = 2
  MaxRevisions = 2
  MaxDays = 2
  Requests = {v1, v2, v3}
  Subjects = {"a", "b", "o"}
  Trails = {"t1"}
  Tokens <- SomeTokens
  Specs <- SomeSpecs
  Bodies <- SomeBodies
  PerMinute = 1
  SubmitterInFlight = 1
  SubmissionsInFlight = 1
  ReadsInFlight = 1
  MaxRateSubmitters = 2
  MaxClock = 1
  MaxStatements = 2
  MaxToolPages = 3
  MaxEvents = 1
  MaxChanges = 1
  Readers = {r1}
  MaxCredentials = 3
INVARIANTS OneLiveLease StaleFenceRefused PlansAreTrue SearchesAreAccounted WitnessIsOrderly AdapterIsTrue ConnectionsHold
SYMMETRY Symmetric
CHECK_DEADLOCK FALSE
