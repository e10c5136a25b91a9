CONSTANTS
  Main = Main
  NoTask = NoTask
  Nobody = Nobody
  N = 2
  Count <- MCCount
  Deletes <- MCDeletes
SPECIFICATION Spec
INVARIANT StopSucceeds
CHECK_DEADLOCK FALSE
