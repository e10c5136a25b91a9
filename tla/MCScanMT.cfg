CONSTANTS
  Main = Main
  NoTask = NoTask
  Nobody = Nobody
  N = 2
  Count <- MCCount
  Deletes <- MCDeletes
SPECIFICATION FairSpec
INVARIANTS ResultIsComplete OutcomeIsRight NeverRefused
PROPERTIES MainReturns PoolIsDestroyed
CHECK_DEADLOCK FALSE
