\* Turns are staged and nobody calls consolidate(), forget() or evict(): all stops.
SPECIFICATION FairScheduledSpec
CONSTANTS
  u1 = u1
  u2 = u2
  s1 = s1
  s2 = s2
  a = a
  b = b
  d = d
  Users = {u1, u2}
  Sessions = {s1}
  Turns = {a, b}
  Records = {1, 2, 3, 4}
  Runs = {c2}
  JobRun = c2
  Calls = {}
  None = None
  Input <- InputPair
  BufferSize = 1
  CanFail = FALSE
  Scopes = {None}
  Extractions <- ItemsPlain
  MaxItems = 1
  MaxActive = 2
  CanCrash = FALSE
CONSTRAINT IdsInOrder
PROPERTIES
  StagedIsProcessed
CHECK_DEADLOCK FALSE
