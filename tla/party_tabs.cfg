\* Two users, one with two tabs; two parties; everything lapses.
CONSTANTS
  a = a
  b = b
  ta = ta
  tb1 = tb1
  tb2 = tb2
  User = {a, b}
  Tab = {ta, tb1, tb2}
  Owner <- Owners
  Party = {p1, p2}
  NoParty = NoParty
  MaxSize = 2
  Kinds = {"drop", "create", "invite", "accept", "leave", "kick", "sync", "decline", "lapseInvite", "lapseKey", "lapseParty"}
  MaxRequests = 5
SPECIFICATION Spec
SYMMETRY Alike
INVARIANTS KeyMeansMember PartyIsHeard
CHECK_DEADLOCK FALSE
