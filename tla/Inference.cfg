\* Two runs of three frames in batches of two: the first leaves a frame over.
CONSTANTS
  Runs = 2
  F = 3
  Batch = 2
  Capacity = 1
SPECIFICATION FairSpec
INVARIANTS
  InferenceInv
  OutInOrder
  OnlyRemainderHeld
PROPERTIES
  Closes
