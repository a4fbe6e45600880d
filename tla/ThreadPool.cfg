\* Two workers at most, two tasks, every call of Resize and Stop.
CONSTANTS
  t1 = t1
  t2 = t2
  Tasks <- TwoTasks
  Priority <- PriorityOfTask
  NoTask = NoTask
  MaxThreads = 2
  InitThreads = 1
SPECIFICATION FairSpec
CHECK_DEADLOCK FALSE
INVARIANTS
  PoolInv
PROPERTIES
  PoolSpec
  EndsUnlessMissed
  StopEndsUnlessAsleep
