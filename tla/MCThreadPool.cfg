CONSTANTS
  c1 = c1
  c2 = c2
  t1 = t1
  t2 = t2
  t3 = t3
  NoTask = NoTask
  Nobody = Nobody
  N = 3
  Client <- MCClient
  Task <- MCTask
SPECIFICATION FairSpec
INVARIANTS TypeOK EachTaskInOnePlace WorkConserving StopQuiesces
PROPERTIES NoStartAfterCancel ServiceSpec EveryTaskRuns StopReturns InvokeReturns
CHECK_DEADLOCK FALSE
