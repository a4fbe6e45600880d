\* Three requests of up to two pieces of data, one tag, fair threads.
CONSTANTS
  MaxRequests = 3
  MaxPieces = 2
  Tags = {a}
SPECIFICATION FairSpec
CHECK_DEADLOCK FALSE
INVARIANTS
  SessionInv
PROPERTIES
  ResponsesSpec
  AnsweredUnlessMissed
