\* consolidate(user_id=...) with turns of two users staged.
SPECIFICATION Spec
CONSTANTS
  u1 = u1
  u2 = u2
  s1 = s1
  s2 = s2
  a = a
  b = b
  d = d
  Users = {u1, u2}
  Sessions = {s1}
  Turns = {b, d}
  Records = {r1, r2, r3, r4}
  Runs = {c1}
  Calls = {k1}
  None = None
  Input <- InputTenants
  BufferSize = 1
  CanFail = FALSE
  Scopes = {u1, None}
  Extractions <- ItemsPlain
  MaxItems = 1
  MaxActive = 1
  CanCrash = FALSE
INVARIANTS
  StagedNotLost
