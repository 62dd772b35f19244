SPECIFICATION ConsoleSpec
CONSTANTS
  Job = {j1, j2}
  NoJob = NoJob
  Name = {n1, n2}
  ChainId = {c1, c2}
  Wallet = {w1, w2}
  NoWallet = NoWallet
  NoPlan = NoPlan
  Node = {a, b}
  PublicNode = a
  Slot = {t1}
  Operation = {"create", "transfer"}
  MaxL1 = 2
  MaxRecords = 2
  MaxUpgrades = 1
  MaxFaults = 0
  MaxCrashes = 0
INVARIANT AckedOwnerKept
CHECK_DEADLOCK FALSE
