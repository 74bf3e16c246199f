CONSTANTS
  None = None
  Player <- Players
  Human <- Humans
  Team <- Teams
  Bomber = {1}
  Modes = {"ffa", "teams", "deathmatch", "koth"}
  KillTarget = 2
  HillTarget = 1
  HoldTicks = 2
  RoundTime = 2
  FinishDelay = 2
  RespawnTicks = 1
  GraceTicks = 2
  Countdown = 1
  MaxErrors = 2
SPECIFICATION FairSpec
INVARIANTS FastIsForBots
PROPERTIES FallenAreRanked KeepsPromise MatchEnds
CHECK_DEADLOCK FALSE
