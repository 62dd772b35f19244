SPECIFICATION Spec
CONSTANTS
  Ledgers = 3
  Hosts = 2
  PerNode = 2
  ChainIdBase = 1
  ForbidLo = 9
  ForbidHi = 9
  Workers = 2
  MaxTries = 2
  Nodes = {n1, n2}
  Amount = 1
  MaxRuns = 3
  Tracked = {"a"}
  MaxHeight = 2
  MaxCreates = 2
  ChainOf <- BridgeChains
  SourceOf <- BridgeSources
  Foreign <- Forged
  Amounts = {1, 2}
  Recipients = {"w"}
  MaxLocks = 2
  MaxDeposits = 1
  MaxCalls = 2
  UnionOffset = 2
  ProbeBelow = 20
  WalkSteps = 10000
  MaxBlocks = 7
  Addresses = {x, y}
  IPs = {p, q, s}
  Cooldown = 1
  Hour = 2
  MaxPerIp = 1
  MaxPerHour = 2
  QueuePlaces = 1
  MaxDrips = 3
  FaucetTime = 2
  MaxReboots = 1
INVARIANT PlansApartFromParent
CHECK_DEADLOCK FALSE
