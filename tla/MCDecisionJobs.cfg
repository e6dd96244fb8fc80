SPECIFICATION Spec
CONSTANTS
  Jobs = {j1, j2, j3}
  Workers = {w1, w2}
  NoJob = NoJob
  MaxFaults = 0
  MaxRestarts = 1
CHECK_DEADLOCK FALSE
INVARIANT RunningIsExecuting
PROPERTIES FollowsLifecycle JobsSettle
