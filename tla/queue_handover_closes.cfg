SPECIFICATION Spec
CONSTANTS
  Handler = {}
  Operator = {}
  MaxIds = 0
  MaxRestarts = 0
  MaxFailures = 0
  MaxByHand = 0
  NoRequest = NoRequest
  node1 = node1
  node2 = node2
  Request = {r1, r2}
  Nodes <- TwoNodes
  MaxPending = 2
INVARIANT RunningIsShown
CHECK_DEADLOCK FALSE
