\* The window of the responder leaves a finished request unanswered.
CONSTANTS
  MaxRequests = 2
  MaxPieces = 1
  Tags = {a}
SPECIFICATION FairSpec
CHECK_DEADLOCK FALSE
PROPERTY EveryRequestAnswered
