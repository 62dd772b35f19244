SPECIFICATION GovernSpec
CONSTANTS
  Keys = {"nativeMinter"}
  OnAtBirth = {}
  Owners = {"w1", "w2"}
  FirstOwner = "w1"
  MinLead = 2
  MaxLead = 2
  Carriers = 2
  NodeWait = 1
  MaxNow = 4
  MaxUpgrades = 1
  MaxTransfers = 1
INVARIANTS OwnerAdminsAll
CHECK_DEADLOCK FALSE
