\* Two consolidation runs that overlap each other and remember(), with their evictions
\* and with failing calls.
SPECIFICATION ContentionSpec
CONSTANTS
  u1 = u1
  u2 = u2
  s1 = s1
  s2 = s2
  a = a
  b = b
  d = d
  Users = {u1}
  Sessions = {s1, s2}
  Turns = {a, b}
  Records = {r1, r2, r3}
  Runs = {c1, c2}
  Calls = {}
  None = None
  Input <- InputFact
  BufferSize = 1
  CanFail = TRUE
  Scopes = {None}
  Extractions <- ItemsMixed
  MaxItems = 2
  MaxActive = 2
  CanCrash = FALSE
SYMMETRY Symmetry
INVARIANTS
  PromotedUnlessBehind
PROPERTIES
  ProtectedUnlessBehind
  FlagUnlessBehind
  SafetyUnlessBehind
  SuccessorUnlessBehind
  TrailUnlessBehind
