\* Two consolidation runs, or a run and a forget() or evict(), overlapping with
\* remember(); runs for everybody and for another user, unknown types, failures and
\* crashes.
SPECIFICATION Spec
CONSTANTS
  u1 = u1
  u2 = u2
  s1 = s1
  s2 = s2
  a = a
  b = b
  d = d
  Users = {u1, u2}
  Sessions = {s1, s2}
  Turns = {a, b}
  Records = {r1, r2, r3}
  Runs = {c1, c2}
  Calls = {k1}
  None = None
  Input <- InputChat
  BufferSize = 1
  CanFail = TRUE
  Scopes = {None, u2}
  Extractions <- ItemsUnknown
  MaxItems = 2
  MaxActive = 2
  CanCrash = TRUE
SYMMETRY Symmetry
INVARIANTS
  TypeOK
  SafetyClaimsKept
  SuccessorExists
  AuditTrailOrdered
  DraftIsAlone
  LiveSearchable
  SingleDelivery
PROPERTIES
  LedgerSpec
  EvictionsTracked
  TurnsTracked
