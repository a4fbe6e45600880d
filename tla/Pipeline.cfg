\* Three modules, one frame and the end of the stream; another thread may stop
\* the pipeline at any time.
CONSTANTS
  N = 3
  F = 1
  Capacity = 1
  SizeMax = 3
SPECIFICATION FairSpec
INVARIANTS
  IInv
PROPERTIES
  StreamSpec
  NothingDropped
  StopEnds
  EndsUnlessRaced
