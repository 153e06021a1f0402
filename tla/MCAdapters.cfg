\* T1: processes that open the database one after another with one of two widths, for
\* an engine or a migration; statements fail and the process ends anywhere.
\* T0: appends of two callers that overlap, give up and fail, beside the archive.
\* The two halves share their model values, so that one symmetry serves both.
SPECIFICATION AdaptersSpec
CONSTANTS
  Ids = {r1, r2, r3}
  Clients = {c1}
  Dims = {d1, d2}
  None = None
  Ops = {"put", "supersede", "retire", "unindex", "read", "search"}
  Serialized = TRUE
  Failing = {"begin", "retire", "insert", "vector", "update", "unindex", "delete", "reinsert", "drop", "create", "select", "knn"}
  CanCrash = TRUE
  Sessions <- JustArchived
  Turns = {d1, d2}
  Evicted = {e1}
  Callers = {d1, d2}
  PageSize = 2
  MaxCopies = 2
  NoTurn = NoTurn
SYMMETRY Symmetry
INVARIANTS
  TypeOK
  NothingPending
  AckedIsDurable
  LiveIndexed
  MigratedWidth
  T0TypeOK
  RefKeepsTurn
  RefResolves
PROPERTIES
  TableSpec
  BufferedSpec
