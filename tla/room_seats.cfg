SPECIFICATION FairSpec
CONSTANTS
  u1 = u1
  u2 = u2
  t1 = t1
  t2 = t2
  t3 = t3
  User = {u1, u2}
  Tab = {t1, t2, t3}
  Owner <- TwoTabsForOne
  Code = {c1}
  Game = {g1}
  NoGame = NoGame
  NoRoom = NoRoom
  NoCode = NoCode
  MaxPlayers = 2
  HasBots = TRUE
  Kinds = {"create", "join", "leave", "ready", "start", "map", "kick", "drop", "expire", "die"}
  MaxRequests = 4
INVARIANTS
  NoGhost
PROPERTIES
  CountdownEnds
CHECK_DEADLOCK FALSE
