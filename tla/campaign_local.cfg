CONSTANTS
  u1 = u1
  u2 = u2
  t1 = t1
  t2 = t2
  s1 = s1
  s2 = s2
  s3 = s3
  User = {u1, u2}
  Tab = {t1, t2}
  Owner <- OneTabEach
  Session = {s1, s2, s3}
  None = None
  Kinds = {"local"}
  Leader = {u1}
SPECIFICATION Spec
INVARIANTS OneLevelPerClient
CHECK_DEADLOCK FALSE
