SPECIFICATION SimFairSpec
CONSTANTS
  Batch = {b1, b2, b3}
  Nothing = Nothing
  MaxQueue = 2
  Keep = 1
  MaxGames = 2
  MaxDeletes = 1
INVARIANTS
  OneKnownRuns
  QueueIsServed
  IndexKnowsEnds
PROPERTIES
  QueueMoves
CHECK_DEADLOCK FALSE
