\* Two handlers inside the service at once, one server restart.
SPECIFICATION Spec
CONSTANTS
  User = {u1, u2}
  Code = {c1}
  Proc = {p1, p2}
  MaxPlayers = 2
  MaxCrashes = 1
  NoRoom = NoRoom
  NoCode = NoCode
SYMMETRY Symmetry
INVARIANTS
  RoomsWellFormed
  MappedIsMember
  LiveRoomIndexed
CHECK_DEADLOCK FALSE
