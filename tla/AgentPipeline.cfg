SPECIFICATION PipelineFairSpec
CONSTANTS
  BatchSize = 2
  InCap = 2
  BatchesCap = 2
  MaxEvents = 4
INVARIANTS
  PipelineTypeOK
  BatchBounds
  FifoOrder
  AtMostOnce
  OrderedUntilWarned
  EventsAccounted
PROPERTIES
  ImplementsLossyFifo
  EveryEventLeaves
  CancelStopsBoth
CHECK_DEADLOCK FALSE
