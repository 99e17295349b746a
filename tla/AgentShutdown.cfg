SPECIFICATION PipelineSpec
CONSTANTS
  BatchSize = 2
  InCap = 2
  BatchesCap = 2
  MaxEvents = 4
INVARIANT CleanTermination
CHECK_DEADLOCK FALSE
