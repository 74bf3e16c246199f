\* An account with two tabs; two administrators; one stop or crash.
CONSTANTS
  alice = alice
  a1 = a1
  a2 = a2
  User = {alice}
  Socket = {a1, a2}
  Owner <- Owners
  Admin = {m1, m2}
  Round = {1, 2, 3}
  None = None
  MaxPlayers = 2
  MaxKills = 1
  MaxChanges = 2
  MaxRestarts = 1
SPECIFICATION FairSpec
INVARIANTS NobodyStrands OneWorld KillsAddUp StopsClean
PROPERTY KillsAreWritten
CHECK_DEADLOCK FALSE
