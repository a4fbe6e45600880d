\* Ten files of up to five packets, two buffers, batches of two, fair threads.
CONSTANTS
  Files <- MCFiles
  N = 5
  InputBuffers = 1
  OutputBuffers = 2
  Batch = 2
SPECIFICATION FairSpec
CHECK_DEADLOCK FALSE
INVARIANTS
  DecoderInv
  CompleteUnlessLate
PROPERTY EosSentUnlessLate
