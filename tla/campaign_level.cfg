CONSTANTS
  Player = {1, 2}
  Foe = {"boss", "minion"}
  Boss = {"boss"}
  Levels <- AllLevels
  RespawnTicks = 2
  GraceTicks = 2
  Cap = 4
  MaxErrors = 2
  Never = Never
SPECIFICATION LevelFairSpec
INVARIANTS FallsAreHandled HeldAreThere VerdictStands
PROPERTY LevelEnds
CHECK_DEADLOCK FALSE
