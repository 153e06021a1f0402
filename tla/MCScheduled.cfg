\* The scheduler's job and one explicit consolidate(), forget() or evict() that overlap,
\* over the records of two users, with fairness; calls raise and the process dies.
SPECIFICATION FairScheduledSpec
CONSTANTS
  u1 = u1
  u2 = u2
  s1 = s1
  s2 = s2
  a = a
  b = b
  d = d
  Users = {u1, u2}
  Sessions = {s1}
  Turns = {a, b}
  Records = {1, 2, 3}
  Runs = {c1, c2}
  JobRun = c2
  Calls = {k1}
  None = None
  Input <- InputPair
  BufferSize = 1
  CanFail = TRUE
  Scopes = {None}
  Extractions <- ItemsPlain
  MaxItems = 1
  MaxActive = 2
  CanCrash = TRUE
CONSTRAINT IdsInOrder
INVARIANTS
  TenantProvenance
PROPERTIES
  ArmedIsProcessed
  QueueDrains
  EvictionCompletes
