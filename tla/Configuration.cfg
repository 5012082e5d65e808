SPECIFICATION Spec
CONSTANTS
  None = None
  Parts = {"connect", "pins", "start", "delegation", "grants"}
  c1 = c1  c2 = c2  k1 = k1  pa = pa  pb = pb  r1 = r1  r2 = r2  r3 = r3
  Connects = {c1, c2}
  MaxServer = 2
  MaxEdits = 1
  MaxReadings = 2
  MaxCrashes = 1
  Base = 1
  ListingBound = 4
  MaxRots = 1
  MaxPuts = 2
  Chains <- SomeChains
  Calls <- SomeCalls
  Callers = {r1}
  Lifetime = 3
  Window = 1
  MaxLive = 1
  MaxProofs = 1
  MaxTime = 1
  MaxSends = 2
  MaxRestarts = 1
  RetiredKept = 1
  MaxTokens = 6
  MaxConns = 2
  MaxEpoch = 2
  MaxBegun = 2
  MaxDecisions = 2
INVARIANTS CommitIsWhole PinnedIsListed SourcesAreApart SendIsDelegated GrantsHold
PROPERTY ConclusiveStays
SYMMETRY Symmetric
CHECK_DEADLOCK FALSE
