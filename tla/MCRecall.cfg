\* recall() by its owner or another user during remember() and a scoped or global
\* consolidation run with its evictions, and across a restart.
SPECIFICATION RecallSpec
CONSTANTS
  u1 = u1
  u2 = u2
  s1 = s1
  s2 = s2
  a = a
  b = b
  d = d
  Users = {u1, u2}
  Sessions = {s1}
  Turns = {b, d}
  Records = {r1, r2, r3}
  Runs = {c1}
  Calls = {}
  None = None
  Input <- InputSameUser
  BufferSize = 1
  CanFail = FALSE
  Scopes = {u1, None}
  Extractions <- ItemsPlain
  MaxItems = 1
  MaxActive = 1
  CanCrash = TRUE
  Readers = {q1}
  Nearest = 2
SYMMETRY Symmetry
INVARIANTS
  RecallTypeOK
  RecallScoped
  RetiredStaysOut
  RememberedIsRecalled
