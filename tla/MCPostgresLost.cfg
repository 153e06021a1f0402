\* A process that dies after upsert_with_vector or supersede has returned.
SPECIFICATION PostgresSpec
CONSTANTS
  Ids = {r1, r2}
  Clients = {c1}
  Dims = {d1}
  None = None
  Ops = {"put", "supersede", "retire", "unindex", "read", "search"}
  Serialized = TRUE
  Failing = {}
  CanCrash = TRUE
INVARIANTS
  AckedOnDisk
