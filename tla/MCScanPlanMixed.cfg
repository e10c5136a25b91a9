CONSTANTS
  U = U
  P = P
  None = None
  MaxSeq = 3
  Unpartitioned = U
  Partition <- MCPartition
  Input <- MCInput
SPECIFICATION Spec
INVARIANT MixedDeletesRejected
CHECK_DEADLOCK FALSE
