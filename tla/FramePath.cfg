\* The program from its configuration to its end; see MCFramePath.
CONSTANTS
  Configurations <- MCConfigurations
  Registered <- MCRegistered
  Processors <- MCProcessors
  ModuleNames <- MCModuleNames
  Batch = 2
  InputW = 64
  InputH = 64
  LimitW = 128
  LimitH = 72
SPECIFICATION PathFairSpec
INVARIANTS
  GraphInv
  ToldWhenThrough
  
  FacesSound
PROPERTIES
  EndsOnChain
CHECK_DEADLOCK FALSE
