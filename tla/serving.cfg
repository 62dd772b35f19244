SPECIFICATION FairSpec
CONSTANTS
  Handler = {h1, h2}
  Operator = {o1, o2}
  MaxIds = 3
  MaxRestarts = 2
  MaxFailures = 1
  MaxByHand = 1
  NoRequest = NoRequest
  node1 = node1
  node2 = node2
  Request = {r1, r2, r3}
  Nodes <- OneNode
  MaxPending = 2
INVARIANTS ReadyMeansDrained AnsweredPausePersists OneAtATimeInOrder RunningIsTrue
PROPERTIES OpensOnlyToItsReader Drains AcceptedIsServed
CHECK_DEADLOCK FALSE
