CONSTANTS
  f1 = f1
  f2 = f2
  None = None
  File <- MCFile
  Contents <- MCContents
  Batch <- MCBatch
SPECIFICATION FairSpec
INVARIANTS RowsRemovedExactly QueriesAscend RowsAscend
PROPERTY BatchesLeave
CHECK_DEADLOCK FALSE
