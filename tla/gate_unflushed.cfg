SPECIFICATION GateSpec
CONSTANTS
  Handler = {h1, h2}
  Operator = {o1, o2}
  MaxIds = 3
  MaxRestarts = 2
  MaxFailures = 1
  MaxByHand = 0
INVARIANTS PersistentIsDurable
CHECK_DEADLOCK FALSE
