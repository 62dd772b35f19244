SPECIFICATION Spec
CONSTANTS
  Order <- Order3
  Validators = {"n1", "n2", "pub"}
  BValidators = {"n1"}
  RestartsAlone = TRUE
  Wall = 2
  MaxRollouts = 3
  Keys = {"nativeMinter"}
  OnAtBirth = {}
  Owners = {"w1", "w2"}
  FirstOwner = "w1"
  MinLead = 2
  MaxLead = 3
  Carriers = 2
  NodeWait = 1
  MaxNow = 5
  MaxUpgrades = 2
  MaxTransfers = 1
  Wallets = {"w1", "w2"}
  Invited = {"w1"}
  TtlNonce = 2
  TtlSession = 2
  MaxPending = 2
  MaxSessions = 2
  Window = 2
  MaxSignIn = 3
  MaxWork = 1
  MaxTime = 3
  MaxInvites = 3
  Invocations = {"d1", "d2"}
  MaxPauses = 2
  MaxBoots = 1
  Names = {"a", "b"}
  MaxGen = 2
  MaxCreates = 2
  BlockSize = 1
  Files = {"monday"}
INVARIANTS
  RecordedIsRun
  TouchedOrNamed
  EveryNodeTracks
  RestartAccepts
  OneSessionPerInvite
  OpenRunsWhole
  NeverReissued
CHECK_DEADLOCK FALSE
