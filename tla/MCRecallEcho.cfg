\* recall() after a claim of the same user was superseded.
SPECIFICATION RecallSpec
CONSTANTS
  u1 = u1
  u2 = u2
  s1 = s1
  s2 = s2
  a = a
  b = b
  d = d
  Users = {u1, u2}
  Sessions = {s1}
  Turns = {b, d}
  Records = {r1, r2, r3}
  Runs = {c1}
  Calls = {k1}
  None = None
  Input <- InputSameUser
  BufferSize = 2
  CanFail = FALSE
  Scopes = {None}
  Extractions <- ItemsPlain
  MaxItems = 1
  MaxActive = 1
  CanCrash = FALSE
  Readers = {q1}
  Nearest = 2
SYMMETRY Symmetry
INVARIANTS
  SupersededStaysOut
