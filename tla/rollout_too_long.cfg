SPECIFICATION GovernSpec
\* One unit of time is 180 s: the waits of server.mjs for one node, twice 90 s, against
\* MIN_LEAD_SECONDS of 900 s, with the network's nine nodes.
CONSTANTS
  Keys = {"nativeMinter"}
  OnAtBirth = {}
  Owners = {"w1"}
  FirstOwner = "w1"
  MinLead = 5
  MaxLead = 5
  Carriers = 9
  NodeWait = 1
  MaxNow = 7
  MaxUpgrades = 1
  MaxTransfers = 1
INVARIANTS CarriedInTime
CHECK_DEADLOCK FALSE
