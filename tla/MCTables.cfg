CONSTANTS
  None = None
  Failed = Failed
  MaxInt32 <- MCMaxInt32
  MaxInt64 <- MCMaxInt64
  Makers = {1, 2}
  Garbage = {1, 2}
  Clients = {c1, c2}
  MaxTime = 1
  Samples <- MCSamples
  Stores <- MCStores
  Appends <- MCAppends
SPECIFICATION Spec
INVARIANTS MetadataKept ManifestsKept MadeTableLoads SnapshotReadable AppendsExact
CHECK_DEADLOCK FALSE
