SPECIFICATION FairSpec
CONSTANTS
  web = web
  api = api
  db = db
  NoNode = NoNode
  Nodes <- MCNodes
  Edges <- MCEdges
  Graphs <- MCGraphs
  MayFail <- MCMayFail
  Filters <- MCFilters
  History <- MCHistory
  MaxAsks = 2
INVARIANTS
  TypeOK
  DrawingAgrees
  HighlightOfOneAnswer
PROPERTY DisplayCatchesUp
