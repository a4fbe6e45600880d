\* Requests of three and two pieces, batches of two.
CONSTANTS
  Pieces <- PiecesOfTwo
  BatchSize = 2
SPECIFICATION BatchFairSpec
CHECK_DEADLOCK FALSE
INVARIANTS
  BatchCacheInv
PROPERTIES
  EveryPieceLeaves
