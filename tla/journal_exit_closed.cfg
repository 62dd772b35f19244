SPECIFICATION TwoSpec
CONSTANTS
  p1 = p1
  p2 = p2
  j1 = j1
  j2 = j2
  j3 = j3
  NoJob = NoJob
  NoFile = NoFile
  Torn = Torn
  Process <- Consoles
  Operator <- TheOperator
  Job <- Jobs
  MaxCrashes = 1
  MaxFailures = 0
CHECK_DEADLOCK FALSE
INVARIANTS ExitStaysOpen
