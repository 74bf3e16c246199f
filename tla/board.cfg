CONSTANTS
  Player = {p1, p2}
  Cell <- Corridor
  Dir <- BothWays
  Step <- StepInCorridor
  Outside = Outside
  None = None
  Start <- Map
  Spawn <- Ends
  Area <- Blocks
  Line <- Rows
  Reinforced = TRUE
  Enabled = {"bomb_up", "kick", "remote", "line", "throw", "pierce"}
  DefaultMaxBombs = 2
  MaxBombs = 3
  Reach = 2
  MeteorReach = 1
  ThrowRange = 2
  Far = 4
  Fuse = 3
  RemoteFuse = 4
  Duration = 3
  Fade = 1
  Cooldown = 1
  SpawnSafe = 1
  Brief = 1
  RespawnTicks = 1
  Warning = 1
  FreezeTicks = 2
  WallTicks = 2
  SurgeTicks = 1
  MaxPlaced = 2
  MaxEvents = 1
SPECIFICATION Spec
SYMMETRY Symmetry
INVARIANTS BombsAreCounted Footing TemporaryGoes
PROPERTIES BatchIsOneBlast
