SPECIFICATION ConsoleSpec
CONSTANTS
  Job = {j1, j2, j3}
  NoJob = NoJob
  Name = {n1, n2}
  ChainId = {c1, c2}
  Wallet = {w1}
  NoWallet = NoWallet
  NoPlan = NoPlan
  Node = {a}
  PublicNode = a
  Slot = {}
  Operation = {"create", "discard", "retire", "adopt", "revoke"}
  MaxL1 = 1
  MaxRecords = 2
  MaxUpgrades = 0
  MaxFaults = 1
  MaxCrashes = 2
INVARIANTS IdentityNeverReissued NoChainForgotten RolloutWithinCeiling
PROPERTIES LedgerNeverForgets ImplementsRegistry
SYMMETRY ConsoleSymmetry
CHECK_DEADLOCK FALSE
