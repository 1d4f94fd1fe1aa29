SPECIFICATION FairSpec
CONSTANTS
  MaxEvents = 3
  Capacity = 2
  BatchSize = 2
  MaxRows = 2
  LogCapacity = 1
  Unwritten = {2}
  Attempts = 2
  Faults = {"db_error", "down", "slow", "stop", "kill"}
CHECK_DEADLOCK FALSE
INVARIANT TypeOK
INVARIANT InOrder
INVARIANT Conserved
INVARIANT LogAccounted
INVARIANT BufferedKept
PROPERTY EventuallyWritten
PROPERTY StartEnds
PROPERTY SignalEnds
