\* A forget() or evict() that overlaps a consolidation run.
SPECIFICATION Spec
CONSTANTS
  u1 = u1
  u2 = u2
  s1 = s1
  s2 = s2
  a = a
  b = b
  d = d
  Users = {u1, u2}
  Sessions = {s1}
  Turns = {a, b}
  Records = {r1, r2, r3}
  Runs = {c1}
  Calls = {k1}
  None = None
  Input <- InputTwo
  BufferSize = 1
  CanFail = FALSE
  Scopes = {None}
  Extractions <- ItemsGuarded
  MaxItems = 1
  MaxActive = 2
  CanCrash = FALSE
PROPERTIES
  ProtectedStaysLive
