SPECIFICATION RolloutSpec
CONSTANTS
  Order <- Order3
  Validators = {"n1", "n2", "pub"}
  BValidators = {"n1"}
  Wall = 2
  RestartsAlone = FALSE
  MaxRollouts = 3
INVARIANTS UndoneMeansOld
CHECK_DEADLOCK FALSE
