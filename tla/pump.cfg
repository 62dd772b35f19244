SPECIFICATION FairPump
CONSTANTS
  MaxNonce = 3
  MaxInFlight = 2
  TargetTps = 1
  MaxRpcFailures = 2
  MaxAbsent = 1
INVARIANTS
  ThroughputFromBlocks
PROPERTIES
  HoleIsCured
CHECK_DEADLOCK FALSE
