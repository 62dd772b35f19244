SPECIFICATION ConsoleSpec
CONSTANTS
  Job = {j1}
  NoJob = NoJob
  Name = {n1, n2}
  ChainId = {c1, c2}
  Wallet = {w1}
  NoWallet = NoWallet
  NoPlan = NoPlan
  Node = {a, b}
  PublicNode = a
  Slot = {}
  Operation = {"create", "adopt"}
  MaxL1 = 2
  MaxRecords = 2
  MaxUpgrades = 1
  MaxFaults = 0
  MaxCrashes = 1
INVARIANT OneRecordPerChain
CHECK_DEADLOCK FALSE
