SPECIFICATION Spec
CONSTANTS
  None = None
  Parts = {"server", "source", "path", "decision"}
  Handlers = {c1, c2}
  SessionIds = {"s1"}
  Concurrency = 1
  SessionCap = 1
  CallsPerMinute = 1
  Minute = 1
  IdleTime = 0
  Backlog = 1
  MaxClosures = 1
  MaxTime = 1
  MaxSourceOutput = 1
  MaxWrites = 2
  MaxHops = 2
  MaxMoves = 1
INVARIANTS ServerAnswersAreTrue SourceIsToldTrue HeldIsOurs AdmittedIsDecided
PROPERTY WhatIsBegunEnds
CHECK_DEADLOCK FALSE
