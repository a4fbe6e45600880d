\* Three modules, three runs, a user who stops them, modules that do not open.
CONSTANTS
  N = 3
  RunIdBits = 5
  MaxStarts = 3
SPECIFICATION LifeFairSpec
CHECK_DEADLOCK FALSE
INVARIANTS
  LifecycleInv
PROPERTIES
  ToldWhenDrained
  RunsEnd
  ReturnsWhenTold
