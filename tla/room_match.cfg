SPECIFICATION Spec
CONSTANTS
  u1 = u1
  u2 = u2
  t1 = t1
  t2 = t2
  t3 = t3
  User = {u1, u2}
  Tab = {t1, t2}
  Owner <- OneTabEach
  Code = {c1, c2}
  Game = {g1, g2}
  NoGame = NoGame
  NoRoom = NoRoom
  NoCode = NoCode
  MaxPlayers = 2
  HasBots = TRUE
  Kinds = {"create", "join", "start", "restart", "vote", "close", "reap", "leave"}
  MaxRequests = 5
SYMMETRY Symmetry
INVARIANTS
  OneLoopPerRoom
  StatusHonest
  OneRoomPerUser
CHECK_DEADLOCK FALSE
