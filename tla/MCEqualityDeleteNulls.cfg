CONSTANTS
  f1 = f1
  f2 = f2
  f3 = f3
  None = None
  File <- MCFile
  Contents <- MCContents
  Configs <- MCConfigs
  Batch <- MCBatch
SPECIFICATION Spec
INVARIANT NullsRespectLayers
CHECK_DEADLOCK FALSE
