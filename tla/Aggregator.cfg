SPECIFICATION AggregatorFairSpec
CONSTANTS
  NodeIds = {n1, n2}
  EdgeIds = {e1, e2}
  Statuses = {"HEALTHY"}
  Loads = {1}
  MaxRows = 2
  PageRows = 1
  Limits <- MCLimits
  MaxCaptures = 3
  MaxOutages = 2
  MaxEnds = 1
  Conns = {c1}
  Simulated = {n1, n2}
  DefaultTarget = n1
  NoNode = NoNode
INVARIANTS
  AggregatorTypeOK
  HistoryAgrees
  MetricsHaveSnapshot
  TornOnlyByCrash
  OutageOnRecord
PROPERTY ShutdownEnds
