\* Two frames of one producer, one of another, one stop and restart, fair threads.
CONSTANTS
  p1 = p1
  p2 = p2
  Producers <- TwoProducers
  Capacity = 1
  SizeMax = 3
  FrameCount <- DataAndEos
  MaxRestarts = 1
SPECIFICATION FairSpec
INVARIANTS
  ConnectorInv
  InOrderPerProducer
  CountExact
PROPERTIES
  DeliveredUnlessRaced
