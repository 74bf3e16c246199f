CONSTANTS
  User = {u1, u2, u3}
  Call = {c1, c2}
  MaxFriends = 1
SPECIFICATION Spec
SYMMETRY Symmetry
INVARIANTS FriendshipIsMutual OneRequestPerPair CapHolds BlockedAreApart
CHECK_DEADLOCK FALSE
