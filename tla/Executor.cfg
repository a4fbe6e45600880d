\* Four requests of one or two pieces, two engines with one task at a time, room
\* for two pieces in process.
CONSTANTS
  Pieces <- PiecesOfFour
  Previous <- PreviousOfFour
  EngineCount = 2
  MaxLoad = 1
  MaxProcessing = 2
SPECIFICATION ExecutorFairSpec
CHECK_DEADLOCK FALSE
INVARIANTS
  ExecutorInv
PROPERTIES
  LimitUnlessRaced
  AnsweredUnlessMissed
