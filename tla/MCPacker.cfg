\* Every ranking of up to three records under budgets that hold none to all of them.
SPECIFICATION Spec
CONSTANTS
  Rankings <- SmallRankings
  Budgets = {0, 2, 3, 4}
INVARIANTS
  TypeOK
  ProtectedPacked
  OthersFit
  NothingFitsLeft
  NoDisplacement
CHECK_DEADLOCK FALSE
