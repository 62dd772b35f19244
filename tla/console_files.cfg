SPECIFICATION FilesSpec
CONSTANTS
  p1 = p1
  p2 = p2
  j1 = j1
  j2 = j2
  j3 = j3
  NoJob = NoJob
  NoFile = NoFile
  Torn = Torn
  Process <- Consoles
  Operator <- TheOperator
  Job <- Jobs
  MaxCrashes = 3
  MaxFailures = 2
  NoLedger = NoLedger
  TornLedger = TornLedger
  MaxSaves = 4
  MaxLosses = 3
  MaxThrows = 2
CHECK_DEADLOCK FALSE
SYMMETRY JobSymmetry
INVARIANTS NoReservationLost OneCarrier AckedSurvives NeverTorn BackupNeverBehind
PROPERTIES ImplementsBook ImplementsRegister
