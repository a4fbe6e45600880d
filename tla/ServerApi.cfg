\* Two users, one of whom creates a second session (that the other one does is the
\* same with the users swapped), two names of executors, threads for two executors.
CONSTANTS
  Users = {1, 2}
  Names = {a, b}
  EngineNum <- OneEngine
  MaxThreads = 6
  MaxSessions <- Sessions
SPECIFICATION FairSpec
CHECK_DEADLOCK FALSE
INVARIANTS
  ServerInv
PROPERTIES
  SoundUnlessRaced
  CallsReturn
