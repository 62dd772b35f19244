SPECIFICATION FaucetSpec
CONSTANTS
  Addresses = {"x", "y"}
  IPs = {"p", "q"}
  Cooldown = 2
  Hour = 2
  MaxPerIp = 1
  MaxPerHour = 2
  QueuePlaces = 1
  MaxDrips = 3
  FaucetTime = 2
  MaxReboots = 1
PROPERTY RefusedSpendsNothing
CHECK_DEADLOCK FALSE
