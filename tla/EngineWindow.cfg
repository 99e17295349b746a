SPECIFICATION FairSpec
CONSTANTS
  gw = gw
  web = web
  db = db
  none = none
  svcDb = svcDb
  svcGw = svcGw
  svcPay = svcPay
  NodeIds <- MCNodeIds
  NoNode <- MCNoNode
  EdgeIds <- MCOneEdge
  Seeds <- MCSeeds
  Services <- MCServices
  Matches <- MCMatches
  Latencies = {20, 600}
  Window = 2
  MaxBatch = 1
  MaxSamples = 3
  MaxOutages = 1
INVARIANTS
  QuantilesOrdered
PROPERTIES
  SamplesExpire
