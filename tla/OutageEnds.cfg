SPECIFICATION FairSpec
CONSTANTS
  gw = gw
  web = web
  db = db
  none = none
  svcDb = svcDb
  svcGw = svcGw
  svcPay = svcPay
  NodeIds <- MCNodeIds
  NoNode <- MCNoNode
  EdgeIds <- MCEdgeIds
  Seeds <- MCSeeds
  Services <- MCServices
  Matches <- MCMatches
  Latencies = {20}
  Window = 1
  MaxBatch = 1
  MaxSamples = 1
  MaxOutages = 2
PROPERTY ClearedOutageEnds
