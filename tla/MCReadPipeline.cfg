CONSTANTS
  None = None
  MaxInt32 <- MCMaxInt32
  MaxInt64 <- MCMaxInt64
  Word64 <- MCWord64
  BatchSize = 2
  Worlds <- MCWorlds
SPECIFICATION Spec
INVARIANTS RowsExact ColumnsExact FailuresExplained PlanDataKept
