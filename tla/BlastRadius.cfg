SPECIFICATION FairSpec
CONSTANTS
  db = db
  pay = pay
  ord = ord
  cart = cart
  gw = gw
  idle = idle
  ghost = ghost
  Nodes <- MCNodes
  EdgeIds <- MCEdgeIds
  Roots <- MCRoots
  Ingress <- MCIngress
INVARIANTS
  TypeOK
  UpstreamExact
  NoneTwice
  AnswerExact
PROPERTY
  Terminates
CHECK_DEADLOCK FALSE
