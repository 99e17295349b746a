SPECIFICATION FairSpec
CONSTANTS
  Nodes = {a}
  MaxTicks = 2
  MaxSnapshots = 2
  MaxWire = 2
  MaxPolls = 1
  MaxClicks = 1
INVARIANTS
  TypeOK
  PollingWhileDown
PROPERTIES
  ReplayUndisturbed
  FreshMetrics
  FallbackShowsServer
