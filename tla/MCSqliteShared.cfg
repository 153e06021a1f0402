\* Two coroutines on the same connection.
SPECIFICATION SqliteSpec
CONSTANTS
  Ids = {r1, r2, r3}
  Clients = {c1, c2}
  Dims = {d1}
  None = None
  Ops = {"put", "supersede", "retire", "unindex"}
  Serialized = FALSE
  Failing = {}
  CanCrash = FALSE
SYMMETRY Symmetry
INVARIANTS
  SupersedeAtomic
