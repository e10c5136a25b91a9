CONSTANTS
  U = U
  P = P
  None = None
  MaxSeq = 3
  Unpartitioned = U
  Partition <- MCPartition
  Input <- MCInput
SPECIFICATION Spec
INVARIANTS LayersEncodeRules EveryDataFileOnce EqualityDeletesExact PositionDeletesExact DeletionVectorExact NoWastedDeletes BucketsKeepRanges
CHECK_DEADLOCK FALSE
