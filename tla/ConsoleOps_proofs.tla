------------------------- MODULE ConsoleOps_proofs -------------------------
(***************************************************************************)
(* Proofs about ConsoleOps, for every value of its constants.  ConsoleInv  *)
(* is inductive, and with it the console's type correctness,               *)
(* IdentityNeverReissued, NoChainForgotten and LedgerNeverForgets hold of  *)
(* every behaviour.  Three invariants that build on it, of the upgrades on *)
(* record, of the transfers in flight and of the lists that are rolled     *)
(* out, give AckedUpgradesKept, TransferHitsItsChain, RevokedStaysOff and  *)
(* RolloutWithinCeiling; and the console implements ChainRegistry, the     *)
(* identities it issues, and ReservationBook, the creations it keeps open. *)
(* The last section names the step without which each of three properties  *)
(* that the console does not have would hold.                              *)
(***************************************************************************)
EXTENDS ConsoleOps, FiniteSetTheorems, TLAPS

-----------------------------------------------------------------------------
(* The ledger's operators. *)

LEMMA EmptyLedgerType == EmptyLedger \in LedgerType
  BY DEF EmptyLedger, LedgerType

LEMMA IdleType == Idle \in OpType
  BY EmptyLedgerType DEF Idle, OpType, Kinds, Points

\* Pushing a record of job j lists j and moves nothing else.
LEMMA PushLiveFacts ==
  ASSUME NEW l \in LedgerType, NEW j \in Job, plan[j] \in Plan
  PROVE  /\ PushLive(l, j) \in LedgerType
         /\ Recorded(PushLive(l, j)) = Recorded(l) \cup {j}
         /\ Live(PushLive(l, j)) = Live(l) \cup {j}
         /\ Gone(PushLive(l, j)) = Gone(l)
         /\ PushLive(l, j).upgrades = l.upgrades
  <1> DEFINE o == IF j \in Recorded(l) THEN l.owner[j] ELSE plan[j].admin
  <1>1. o \in Wallet \cup {NoWallet}
    BY DEF LedgerType, Plan
  <1>2. PushLive(l, j) = [l EXCEPT !.live[j] = @ + 1, !.owner[j] = o]
    BY DEF PushLive
  <1> HIDE DEF o
  <1>3. /\ [l.live EXCEPT ![j] = @ + 1] \in [Job -> Nat]
        /\ [l.owner EXCEPT ![j] = o] \in [Job -> Wallet \cup {NoWallet}]
    BY <1>1 DEF LedgerType
  <1>4. PushLive(l, j) \in LedgerType
    BY <1>2, <1>3 DEF LedgerType
  <1>5. /\ PushLive(l, j).live = [l.live EXCEPT ![j] = @ + 1]
        /\ PushLive(l, j).retired = l.retired
        /\ PushLive(l, j).upgrades = l.upgrades
    BY <1>2 DEF LedgerType
  <1> QED BY <1>4, <1>5 DEF Recorded, Live, Gone, LedgerType

LEMMA PushRetiredFacts ==
  ASSUME NEW l \in LedgerType, NEW j \in Job, plan[j] \in Plan
  PROVE  /\ PushRetired(l, j) \in LedgerType
         /\ Recorded(PushRetired(l, j)) = Recorded(l) \cup {j}
         /\ Live(PushRetired(l, j)) = Live(l)
         /\ Gone(PushRetired(l, j)) = Gone(l) \cup {j}
         /\ PushRetired(l, j).upgrades = l.upgrades
  <1> DEFINE o == IF j \in Recorded(l) THEN l.owner[j] ELSE plan[j].admin
  <1>1. o \in Wallet \cup {NoWallet}
    BY DEF LedgerType, Plan
  <1>2. PushRetired(l, j) = [l EXCEPT !.retired[j] = @ + 1, !.owner[j] = o]
    BY DEF PushRetired
  <1> HIDE DEF o
  <1>3. /\ [l.retired EXCEPT ![j] = @ + 1] \in [Job -> Nat]
        /\ [l.owner EXCEPT ![j] = o] \in [Job -> Wallet \cup {NoWallet}]
    BY <1>1 DEF LedgerType
  <1>4. PushRetired(l, j) \in LedgerType
    BY <1>2, <1>3 DEF LedgerType
  <1>5. /\ PushRetired(l, j).retired = [l.retired EXCEPT ![j] = @ + 1]
        /\ PushRetired(l, j).live = l.live
        /\ PushRetired(l, j).upgrades = l.upgrades
    BY <1>2 DEF LedgerType
  <1> QED BY <1>4, <1>5 DEF Recorded, Live, Gone, LedgerType

\* Splicing a live record keeps its chain recorded, and retires it.
LEMMA SpliceFacts ==
  ASSUME NEW l \in LedgerType, NEW j \in Job, l.live[j] > 0
  PROVE  /\ Splice(l, j) \in LedgerType
         /\ Recorded(Splice(l, j)) = Recorded(l)
         /\ Live(Splice(l, j)) = IF l.live[j] = 1 THEN Live(l) \ {j} ELSE Live(l)
         /\ Gone(Splice(l, j)) = Gone(l) \cup {j}
         /\ Splice(l, j).upgrades = l.upgrades
  <1>1. /\ [l.live EXCEPT ![j] = @ - 1] \in [Job -> Nat]
        /\ [l.retired EXCEPT ![j] = @ + 1] \in [Job -> Nat]
    BY DEF LedgerType
  <1>2. Splice(l, j) \in LedgerType
    BY <1>1 DEF LedgerType, Splice
  <1>3. /\ Splice(l, j).live = [l.live EXCEPT ![j] = @ - 1]
        /\ Splice(l, j).retired = [l.retired EXCEPT ![j] = @ + 1]
        /\ Splice(l, j).upgrades = l.upgrades
    BY DEF Splice, LedgerType
  <1>4. Live(Splice(l, j)) = IF l.live[j] = 1 THEN Live(l) \ {j} ELSE Live(l)
    BY <1>3 DEF Live, LedgerType
  <1> QED BY <1>2, <1>3, <1>4 DEF Recorded, Live, Gone, LedgerType

\* A ledger with the same live and retired counts lists the same chains.
LEMMA SameLists ==
  ASSUME NEW l, NEW m, l.live = m.live, l.retired = m.retired
  PROVE  Live(l) = Live(m) /\ Recorded(l) = Recorded(m) /\ Gone(l) = Gone(m)
  BY DEF Recorded, Live, Gone

\* Whether a save succeeds or throws, the ledger is the old one or the new one.
LEMMA SaveFacts ==
  ASSUME ConsoleTypeOK, NEW new, Save(new) \/ SaveThrows(new)
  PROVE  /\ ledger' \in {ledger, new}
         /\ stranded' \in BOOLEAN
         /\ faults' \in 0..MaxFaults
  <1>1. MaxFaults \in Nat
    BY ConsoleConstants
  <1>2. ledger' \in {ledger, new} /\ stranded' \in BOOLEAN
    BY DEF Save, SaveThrows, ConsoleTypeOK
  <1>3. faults' \in 0..MaxFaults
    BY <1>1 DEF Save, SaveThrows, ConsoleTypeOK
  <1> QED BY <1>2, <1>3

\* A step that leaves the lists of the ledger, the journal and the P-chain alone
\* keeps what ConsoleInv says of them.
LEMMA ListsUntouched ==
  ASSUME ConsoleInv, Recorded(ledger)' = Recorded(ledger),
         UNCHANGED <<pending, phase, plan, pchain, cli>>
  PROVE  JournalSound' /\ HeldDistinct' /\ NoChainForgotten'
  BY DEF ConsoleInv, JournalSound, HeldDistinct, Held, NoChainForgotten

\* So does a step that ends the running operation.
LEMMA OpEnds ==
  ASSUME op' = Idle
  PROVE  OpShape' /\ OpHoldsJob' /\ OpPhase' /\ CopyFresh'
  BY DEF Idle, OpShape, OpHoldsJob, OpPhase, CopyFresh

-----------------------------------------------------------------------------
(* One lemma per action: it preserves ConsoleInv. *)

LEMMA CreateBeginInv ==
  ASSUME ConsoleInv, NEW j \in Job, NEW n \in Name, NEW c \in ChainId, NEW w \in Wallet,
         CreateBegin(j, n, c, w)
  PROVE  ConsoleInv'
  <1> USE DEF ConsoleInv
  <1> DEFINE p == [name |-> n, cid |-> c, admin |-> w]
  <1>1. p \in Plan
    BY DEF Plan
  <1>2. /\ plan' = [plan EXCEPT ![j] = p] /\ pending' = j
        /\ phase' = [phase EXCEPT ![j] = "prepared"]
        /\ UNCHANGED <<ledger, pchain, cli>>
        /\ phase[j] = "free" /\ pending = NoJob
    BY DEF CreateBegin, world
  <1>3. op'.kind = "create" /\ op'.at = "prepared" /\ op'.job = j /\ op'.copy = ledger
    BY IdleType DEF CreateBegin, OpType
  <1>4. op' \in OpType
    BY IdleType DEF CreateBegin, OpType, ConsoleTypeOK, Kinds, Points
  <1>5. ConsoleTypeOK'
    BY <1>1, <1>2, <1>4 DEF CreateBegin, ConsoleTypeOK, acks, world, Phases
  <1>6. j \notin pchain \cup cli \cup Recorded(ledger)
    BY <1>2 DEF JournalSound
  <1>7. OpShape' /\ OpHoldsJob' /\ OpPhase' /\ CopyFresh'
    BY <1>2, <1>3 DEF OpShape, OpHoldsJob, OpPhase, CopyFresh, ConsoleTypeOK
  <1>8. /\ plan'[j] = p /\ phase'[j] = "prepared"
        /\ \A k \in Job : k # j => plan'[k] = plan[k] /\ phase'[k] = phase[k]
    BY <1>2 DEF ConsoleTypeOK
  <1>9. JournalSound'
    <2>1. \A k \in pchain \cup cli : k # j /\ phase'[k] = phase[k]
      BY <1>6, <1>8 DEF ConsoleTypeOK
    <2>2. pending' # NoJob => phase'[pending'] # "free"
      BY <1>2, <1>8
    <2>3. \A k \in Job : phase'[k] # "free" => plan'[k] \in Plan
      BY <1>1, <1>8 DEF JournalSound
    <2>4. \A k \in Job : phase'[k] \in {"created", "complete"} => k \in pchain
      BY <1>8 DEF JournalSound
    <2>5. \A k \in Job : phase'[k] = "complete" => k \in Recorded(ledger)
      BY <1>8 DEF JournalSound
    <2>6. \A k \in pchain \cup cli : phase'[k] \notin {"free", "prepared"}
      BY <2>1 DEF JournalSound
    <2>7. cli \subseteq pchain
      BY <1>2, ConsoleConstants DEF JournalSound, ConsoleTypeOK
    <2> QED BY <1>2, <2>2, <2>3, <2>4, <2>5, <2>6, <2>7 DEF JournalSound
  <1>11. HeldDistinct'
    <2>1. /\ Held' = Recorded(ledger) \cup {j}
          /\ Held = Recorded(ledger)
      BY <1>2, ConsoleConstants DEF Held
    <2>2. \A k \in Recorded(ledger) : /\ k \in Job /\ k # j
                                      /\ plan[k].name # n /\ plan[k].cid # c
      BY <1>6 DEF CreateBegin, Free, NameUnused, NumberUnused, Recorded, Live, Gone
    <2>3. \A k, m \in Recorded(ledger) :
            k # m => plan'[k].name # plan'[m].name /\ plan'[k].cid # plan'[m].cid
      BY <1>8, <2>1, <2>2 DEF HeldDistinct
    <2>4. \A k \in Recorded(ledger) : plan'[k].name # plan'[j].name /\ plan'[k].cid # plan'[j].cid
      BY <1>8, <2>2
    <2> QED BY <2>1, <2>3, <2>4 DEF HeldDistinct
  <1>10. NoChainForgotten'
    BY <1>2, <1>6, ConsoleConstants DEF NoChainForgotten, ConsoleTypeOK
  <1> QED BY <1>5, <1>7, <1>9, <1>10, <1>11

LEMMA CreateAbortInv == ASSUME ConsoleInv, CreateAbort PROVE ConsoleInv'
  <1> USE DEF ConsoleInv
  <1>1. ConsoleTypeOK'
    BY IdleType DEF CreateAbort, Fail, ConsoleTypeOK, acks, world, Outcomes, OpShape
  <1>2. OpShape' /\ OpHoldsJob' /\ OpPhase' /\ CopyFresh'
    BY OpEnds DEF CreateAbort, Fail
  <1>3. pending \in Job /\ phase[pending] = "prepared"
    BY DEF CreateAbort, OpShape, OpHoldsJob, OpPhase
  <1>4. pending \notin pchain \cup cli
    BY <1>3 DEF JournalSound
  <1>5. JournalSound' /\ HeldDistinct' /\ NoChainForgotten'
    BY <1>4, ConsoleConstants
    DEF CreateAbort, world, JournalSound, HeldDistinct, Held, NoChainForgotten, ConsoleTypeOK
  <1> QED BY <1>1, <1>2, <1>5

LEMMA CreateSubmitInv == ASSUME ConsoleInv, CreateSubmit PROVE ConsoleInv'
  <1> USE DEF ConsoleInv
  <1>1. /\ op.job \in Job /\ op.kind = "create" /\ op.job = pending
        /\ phase' = [phase EXCEPT ![op.job] = "submitting"]
        /\ phase[op.job] = "prepared"
        /\ cli' = cli \cup {op.job}
        /\ UNCHANGED <<ledger, pending, plan, pchain>>
    BY DEF CreateSubmit, OpShape, OpHoldsJob, OpPhase
  <1>2. op' = [op EXCEPT !.at = "cli"]
    BY DEF CreateSubmit, GoTo
  <1>3. /\ op' \in OpType
        /\ op'.at = "cli" /\ op'.kind = op.kind /\ op'.job = op.job /\ op'.copy = op.copy
    BY <1>2 DEF ConsoleTypeOK, OpType, Points
  <1>4. ConsoleTypeOK'
    BY <1>1, <1>3 DEF CreateSubmit, ConsoleTypeOK, acks, Phases
  <1>5. OpShape' /\ OpHoldsJob' /\ OpPhase' /\ CopyFresh'
    BY <1>1, <1>3 DEF CreateSubmit, OpShape, OpHoldsJob, OpPhase, CopyFresh, ConsoleTypeOK
  <1>6. JournalSound' /\ HeldDistinct' /\ NoChainForgotten'
    BY <1>1 DEF JournalSound, HeldDistinct, Held, NoChainForgotten, ConsoleTypeOK
  <1> QED BY <1>4, <1>5, <1>6

LEMMA CliAcceptInv == ASSUME ConsoleInv, NEW j \in Job, CliAccept(j) PROVE ConsoleInv'
  <1> USE DEF ConsoleInv
  <1>1. ConsoleTypeOK'
    BY DEF CliAccept, ConsoleTypeOK, journal, acks
  <1>2. OpShape' /\ OpHoldsJob' /\ OpPhase' /\ CopyFresh'
    BY DEF CliAccept, journal, OpShape, OpHoldsJob, OpPhase, CopyFresh
  <1>3. j = pending
    BY DEF CliAccept, JournalSound
  <1>4. JournalSound' /\ HeldDistinct' /\ NoChainForgotten'
    BY <1>3 DEF CliAccept, journal, JournalSound, HeldDistinct, Held, NoChainForgotten
  <1> QED BY <1>1, <1>2, <1>4

LEMMA CliExitInv == ASSUME ConsoleInv, NEW j \in Job, CliExit(j) PROVE ConsoleInv'
  <1> USE DEF ConsoleInv
  <1>1. ConsoleTypeOK'
    BY DEF CliExit, ConsoleTypeOK, journal, acks
  <1>2. OpShape' /\ OpHoldsJob' /\ OpPhase' /\ CopyFresh'
    BY DEF CliExit, journal, OpShape, OpHoldsJob, OpPhase, CopyFresh
  <1>3. JournalSound' /\ HeldDistinct' /\ NoChainForgotten'
    BY DEF CliExit, journal, JournalSound, HeldDistinct, Held, NoChainForgotten
  <1> QED BY <1>1, <1>2, <1>3

LEMMA CliAnswerInv == ASSUME ConsoleInv, CliAnswer PROVE ConsoleInv'
  <1> USE DEF ConsoleInv
  <1>1. /\ op.job \in Job /\ op.kind = "create" /\ op.job = pending
        /\ op.job \in pchain /\ phase[op.job] = "submitting"
        /\ phase' = [phase EXCEPT ![op.job] = "created"]
        /\ UNCHANGED <<ledger, pending, plan, pchain, cli>>
    BY DEF CliAnswer, OpShape, OpHoldsJob, OpPhase, world
  <1>2. op' = [op EXCEPT !.kind = "create", !.at = "rollout", !.job = op.job, !.copy = op.copy,
                         !.target = Live(op.copy) \cup {op.job}, !.todo = Node]
    BY DEF CliAnswer, StartFinish
  <1>3. Live(op.copy) \cup {op.job} \subseteq Job
    BY <1>1 DEF Live
  <1>4. /\ op' \in OpType
        /\ op'.at = "rollout" /\ op'.kind = "create" /\ op'.job = op.job /\ op'.copy = op.copy
    BY <1>2, <1>3 DEF ConsoleTypeOK, OpType, Points, Kinds
  <1>5. ConsoleTypeOK'
    BY <1>1, <1>4 DEF CliAnswer, ConsoleTypeOK, acks, Phases
  <1>6. OpShape' /\ OpHoldsJob' /\ OpPhase' /\ CopyFresh'
    BY <1>1, <1>4 DEF CliAnswer, OpShape, OpHoldsJob, OpPhase, CopyFresh, ConsoleTypeOK
  <1>7. JournalSound' /\ HeldDistinct' /\ NoChainForgotten'
    BY <1>1 DEF JournalSound, HeldDistinct, Held, NoChainForgotten, ConsoleTypeOK
  <1> QED BY <1>5, <1>6, <1>7

\* The operations that end without a result: nothing but op changes.
LEMMA GiveUpInv ==
  ASSUME ConsoleInv,
         CliLost \/ CreateNotReady \/ CreateCompleteRefused \/ RevokeStillServed
  PROVE  ConsoleInv'
  <1> USE DEF ConsoleInv
  <1>1. op' = Idle /\ UNCHANGED <<ledger, stranded, journal, world, track, transfer, acks, faults, crashes>>
    BY DEF CliLost, CreateNotReady, CreateCompleteRefused, RevokeStillServed, Fail
  <1>2. ConsoleTypeOK'
    BY <1>1, IdleType DEF ConsoleTypeOK, journal, world, acks
  <1>3. OpShape' /\ OpHoldsJob' /\ OpPhase' /\ CopyFresh'
    BY <1>1, OpEnds
  <1>4. JournalSound' /\ HeldDistinct' /\ NoChainForgotten'
    BY <1>1, ListsUntouched DEF journal, world
  <1> QED BY <1>2, <1>3, <1>4

LEMMA CreateReadyInv == ASSUME ConsoleInv, CreateReady PROVE ConsoleInv'
  <1> USE DEF ConsoleInv
  <1>1. op.at = "ready" /\ op' = [op EXCEPT !.at = "save"]
    BY DEF CreateReady, GoTo
  <1>2. /\ op' \in OpType
        /\ op'.at = "save" /\ op'.kind = op.kind /\ op'.job = op.job /\ op'.copy = op.copy
    BY <1>1 DEF ConsoleTypeOK, OpType, Points
  <1>3. ConsoleTypeOK'
    BY <1>2 DEF CreateReady, ConsoleTypeOK, journal, world, acks
  <1>4. OpShape' /\ OpHoldsJob' /\ OpPhase' /\ CopyFresh'
    BY <1>1, <1>2 DEF CreateReady, journal, OpShape, OpHoldsJob, OpPhase, CopyFresh
  <1>5. JournalSound' /\ HeldDistinct' /\ NoChainForgotten'
    BY ListsUntouched DEF CreateReady, journal, world
  <1> QED BY <1>3, <1>4, <1>5

LEMMA CreateRecordInv == ASSUME ConsoleInv, CreateRecord PROVE ConsoleInv'
  <1> USE DEF ConsoleInv
  <1> DEFINE new == PushLive(op.copy, op.job)
  <1>1. /\ op.at = "save" /\ op.kind = "create" /\ op.job \in Job /\ op.job = pending
        /\ phase[op.job] \in {"created", "complete"}
        /\ op.copy \in LedgerType
    BY DEF CreateRecord, OpShape, OpHoldsJob, OpPhase, ConsoleTypeOK, OpType
  <1>2. plan[op.job] \in Plan /\ op.job \in pchain
    BY <1>1 DEF JournalSound
  <1>3. op.copy.live = ledger.live /\ op.copy.retired = ledger.retired
    BY <1>1 DEF CopyFresh
  <1>4. /\ new \in LedgerType
        /\ Recorded(new) = Recorded(ledger) \cup {op.job}
    BY <1>1, <1>2, <1>3, PushLiveFacts, SameLists
  <1>5. /\ ledger' \in {ledger, new} /\ stranded' \in BOOLEAN /\ faults' \in 0..MaxFaults
        /\ UNCHANGED <<journal, world>>
    BY SaveFacts DEF CreateRecord
  <1>6. CASE Save(new) /\ GoTo("complete")
    <2>1. ledger' = new /\ op' = [op EXCEPT !.at = "complete"]
      BY <1>6 DEF Save, GoTo
    <2>2. /\ op' \in OpType
          /\ op'.at = "complete" /\ op'.kind = op.kind /\ op'.job = op.job
      BY <2>1 DEF ConsoleTypeOK, OpType, Points
    <2>3. ConsoleTypeOK'
      BY <1>4, <1>5, <2>2 DEF CreateRecord, ConsoleTypeOK, journal, world, acks
    <2>4. OpShape' /\ OpHoldsJob' /\ OpPhase' /\ CopyFresh'
      BY <1>1, <1>4, <1>5, <2>1, <2>2 DEF journal, OpShape, OpHoldsJob, OpPhase, CopyFresh
    <2>5. JournalSound' /\ HeldDistinct' /\ NoChainForgotten'
      BY <1>1, <1>2, <1>4, <1>5, <2>1
      DEF journal, world, JournalSound, HeldDistinct, Held, NoChainForgotten
    <2> QED BY <2>3, <2>4, <2>5
  <1>7. CASE SaveThrows(new) /\ Fail
    <2>1. ConsoleTypeOK'
      BY <1>4, <1>5, <1>7, IdleType DEF Fail, CreateRecord, ConsoleTypeOK, journal, world, acks
    <2>2. OpShape' /\ OpHoldsJob' /\ OpPhase' /\ CopyFresh'
      BY <1>7, OpEnds DEF Fail
    <2>3. JournalSound' /\ HeldDistinct' /\ NoChainForgotten'
      BY <1>1, <1>2, <1>4, <1>5
      DEF journal, world, JournalSound, HeldDistinct, Held, NoChainForgotten
    <2> QED BY <2>1, <2>2, <2>3
  <1> QED BY <1>6, <1>7 DEF CreateRecord

LEMMA CreateCompleteInv == ASSUME ConsoleInv, CreateComplete PROVE ConsoleInv'
  <1> USE DEF ConsoleInv
  <1>1. /\ op.at = "complete" /\ op.kind = "create" /\ op.job \in Job /\ op.job = pending
        /\ phase[op.job] = "created" /\ op.job \in Recorded(ledger)
        /\ phase' = [phase EXCEPT ![op.job] = "complete"]
        /\ UNCHANGED <<ledger, pending, plan, pchain, cli>>
    BY DEF CreateComplete, OpShape, OpHoldsJob, OpPhase, world
  <1>2. op' = [op EXCEPT !.at = "archive"]
    BY DEF CreateComplete, GoTo
  <1>3. /\ op' \in OpType
        /\ op'.at = "archive" /\ op'.kind = op.kind /\ op'.job = op.job
    BY <1>2 DEF ConsoleTypeOK, OpType, Points
  <1>4. ConsoleTypeOK'
    BY <1>1, <1>3 DEF CreateComplete, ConsoleTypeOK, acks, Phases
  <1>5. OpShape' /\ OpHoldsJob' /\ OpPhase' /\ CopyFresh'
    BY <1>1, <1>3 DEF OpShape, OpHoldsJob, OpPhase, CopyFresh, ConsoleTypeOK
  <1>6. JournalSound' /\ HeldDistinct' /\ NoChainForgotten'
    BY <1>1 DEF JournalSound, HeldDistinct, Held, NoChainForgotten, ConsoleTypeOK
  <1> QED BY <1>4, <1>5, <1>6

\* Archiving the completed job, and closing the retired one: the ledger lists it.
LEMMA JobClosedInv ==
  ASSUME ConsoleInv, CreateArchive \/ ResolveRetired
  PROVE  ConsoleInv'
  <1> USE DEF ConsoleInv
  <1>1. /\ op.job \in Job /\ op.job = pending /\ op.job \in Recorded(ledger)
        /\ pending' = NoJob /\ op' = Idle
        /\ UNCHANGED <<ledger, stranded, phase, plan, world, track, transfer, faults, crashes>>
    BY DEF CreateArchive, ResolveRetired, Fail, OpShape, OpHoldsJob, OpPhase
  <1>2. ledger.owner[op.job] \in Wallet \cup {NoWallet}
    BY <1>1 DEF ConsoleTypeOK, LedgerType
  <1>3. outcome' \in [Job -> Outcomes] /\ ackOwner' \in [Job -> Wallet \cup {NoWallet}]
        /\ ackUpgrades' = ackUpgrades
    BY <1>2 DEF CreateArchive, ResolveRetired, ConsoleTypeOK, Outcomes, acks
  <1>4. ConsoleTypeOK'
    BY <1>1, <1>3, IdleType DEF ConsoleTypeOK, world
  <1>5. OpShape' /\ OpHoldsJob' /\ OpPhase' /\ CopyFresh'
    BY <1>1, OpEnds
  <1>6. JournalSound' /\ HeldDistinct' /\ NoChainForgotten'
    BY <1>1, ConsoleConstants DEF world, JournalSound, HeldDistinct, Held, NoChainForgotten
  <1> QED BY <1>4, <1>5, <1>6

LEMMA ResolveDiscardInv == ASSUME ConsoleInv, NEW j \in Job, ResolveDiscard(j) PROVE ConsoleInv'
  <1> USE DEF ConsoleInv
  <1>1. /\ pending = j /\ op.at = "idle" /\ op.kind = "none"
        /\ pending' = NoJob
        /\ UNCHANGED <<ledger, phase, plan, pchain, cli, op>>
    BY DEF ResolveDiscard, QueueFree, OpShape, world, ConsoleTypeOK, OpType
  <1>2. ConsoleTypeOK'
    BY DEF ResolveDiscard, ConsoleTypeOK, acks, world, Outcomes
  <1>3. OpShape' /\ OpHoldsJob' /\ OpPhase' /\ CopyFresh'
    BY <1>1 DEF OpShape, OpHoldsJob, OpPhase, CopyFresh
  \* What may be discarded is on record already, or never reached the P-chain.
  <1>4. j \in Recorded(ledger) \/ j \notin pchain \cup cli
    <2>1. phase[j] \in {"prepared", "submitting", "complete"}
      BY <1>1, ConsoleConstants DEF ResolveDiscard, MayDiscard, JournalSound, ConsoleTypeOK, Phases
    <2> QED BY <2>1 DEF ResolveDiscard, MayDiscard, JournalSound
  <1>5. JournalSound' /\ HeldDistinct' /\ NoChainForgotten'
    BY <1>1, <1>4, ConsoleConstants DEF JournalSound, HeldDistinct, Held, NoChainForgotten
  <1> QED BY <1>2, <1>3, <1>5

LEMMA ResolveRetireInv == ASSUME ConsoleInv, NEW j \in Job, ResolveRetire(j) PROVE ConsoleInv'
  <1> USE DEF ConsoleInv
  <1> DEFINE new == PushRetired(ledger, j)
  <1>1. /\ pending = j /\ op.at = "idle" /\ op.kind = "none" /\ ledger \in LedgerType
        /\ UNCHANGED <<journal, world>>
    BY DEF ResolveRetire, QueueFree, OpShape, ConsoleTypeOK, OpType
  <1>2. plan[j] \in Plan /\ j \in pchain
    BY <1>1, ConsoleConstants DEF ResolveRetire, OnPChain, JournalSound
  <1>3. /\ new \in LedgerType
        /\ Recorded(new) = Recorded(ledger) \cup {j}
    BY <1>1, <1>2, PushRetiredFacts
  <1>4. ledger' \in {ledger, new} /\ stranded' \in BOOLEAN /\ faults' \in 0..MaxFaults
    BY SaveFacts DEF ResolveRetire
  <1>5. JournalSound' /\ HeldDistinct' /\ NoChainForgotten'
    BY <1>1, <1>2, <1>3, <1>4
    DEF journal, world, JournalSound, HeldDistinct, Held, NoChainForgotten
  <1>6. CASE Save(new) /\ op' = [Idle EXCEPT !.kind = "retire", !.at = "resolve", !.job = j]
    <2>1. /\ op' \in OpType /\ op'.kind = "retire" /\ op'.at = "resolve" /\ op'.job = j
      BY <1>6, IdleType DEF OpType, Kinds, Points
    <2>2. ConsoleTypeOK'
      BY <1>1, <1>3, <1>4, <2>1 DEF ResolveRetire, ConsoleTypeOK, journal, world, acks
    <2>3. j \in Recorded(ledger)'
      BY <1>3, <1>6 DEF Save
    <2>4. OpShape' /\ OpHoldsJob' /\ OpPhase' /\ CopyFresh'
      BY <1>1, <2>1, <2>3 DEF journal, OpShape, OpHoldsJob, OpPhase, CopyFresh
    <2> QED BY <1>5, <2>2, <2>4
  <1>7. CASE SaveThrows(new) /\ UNCHANGED op
    <2>1. ConsoleTypeOK'
      BY <1>1, <1>3, <1>4, <1>7 DEF ResolveRetire, ConsoleTypeOK, journal, world, acks
    <2>2. OpShape' /\ OpHoldsJob' /\ OpPhase' /\ CopyFresh'
      BY <1>1, <1>7 DEF OpShape, OpHoldsJob, OpPhase, CopyFresh
    <2> QED BY <1>5, <2>1, <2>2
  <1> QED BY <1>6, <1>7 DEF ResolveRetire

LEMMA ResolveAdoptInv == ASSUME ConsoleInv, NEW j \in Job, ResolveAdopt(j) PROVE ConsoleInv'
  <1> USE DEF ConsoleInv
  <1>1. /\ pending = j /\ op.at = "idle" /\ ledger \in LedgerType
        /\ phase' = [phase EXCEPT ![j] = IF @ = "submitting" THEN "created" ELSE @]
        /\ UNCHANGED <<ledger, pending, plan, pchain, cli>>
    BY DEF ResolveAdopt, QueueFree, world, ConsoleTypeOK
  <1>2. phase[j] \in {"submitting", "created", "complete"} /\ j \in pchain
    BY <1>1, ConsoleConstants
    DEF ResolveAdopt, OnPChain, JournalSound, ConsoleTypeOK, Phases
  <1>3. phase'[j] \in {"created", "complete"} /\ phase' \in [Job -> Phases]
    BY <1>1, <1>2 DEF ConsoleTypeOK, Phases
  <1>4. op' = [op EXCEPT !.kind = "create", !.at = "rollout", !.job = j, !.copy = ledger,
                         !.target = Live(ledger) \cup {j}, !.todo = Node]
    BY DEF ResolveAdopt, StartFinish
  <1>5. Live(ledger) \cup {j} \subseteq Job
    BY DEF Live
  <1>6. /\ op' \in OpType
        /\ op'.at = "rollout" /\ op'.kind = "create" /\ op'.job = j /\ op'.copy = ledger
    BY <1>1, <1>4, <1>5 DEF ConsoleTypeOK, OpType, Points, Kinds
  <1>7. ConsoleTypeOK'
    BY <1>1, <1>3, <1>6 DEF ResolveAdopt, ConsoleTypeOK, acks
  <1>8. OpShape' /\ OpHoldsJob' /\ OpPhase' /\ CopyFresh'
    BY <1>1, <1>3, <1>6 DEF OpShape, OpHoldsJob, OpPhase, CopyFresh
  <1>9. JournalSound' /\ HeldDistinct' /\ NoChainForgotten'
    BY <1>1, <1>2 DEF JournalSound, HeldDistinct, Held, NoChainForgotten, ConsoleTypeOK
  <1> QED BY <1>7, <1>8, <1>9

LEMMA RolloutNodeInv == ASSUME ConsoleInv, NEW n \in Node, RolloutNode(n) PROVE ConsoleInv'
  <1> USE DEF ConsoleInv
  <1> DEFINE at == IF op.todo = {n} THEN AfterRollout[op.kind] ELSE "rollout"
  <1>1. /\ op.at = "rollout" /\ op.kind \in {"create", "revoke", "upgrade"}
        /\ op' = [op EXCEPT !.todo = @ \ {n}, !.at = at]
        /\ track' = [track EXCEPT ![n] = op.target]
        /\ UNCHANGED <<ledger, stranded, journal, world, transfer, acks, faults, crashes>>
    BY DEF RolloutNode, OpShape
  <1>2. /\ at \in {"rollout", "ready", "verify", "record"}
        /\ at = "ready" => op.kind = "create"
        /\ at = "verify" => op.kind = "revoke"
        /\ at = "record" => op.kind = "upgrade"
    BY <1>1 DEF AfterRollout
  <1> HIDE DEF at
  <1>3. /\ op' \in OpType /\ op'.at = at
        /\ op'.kind = op.kind /\ op'.job = op.job /\ op'.copy = op.copy
    BY <1>1, <1>2 DEF ConsoleTypeOK, OpType, Points
  <1>4. op.target \subseteq Job
    BY DEF ConsoleTypeOK, OpType
  <1>5. ConsoleTypeOK'
    BY <1>1, <1>3, <1>4 DEF ConsoleTypeOK, journal, world, acks
  <1>6. OpShape' /\ OpHoldsJob' /\ OpPhase' /\ CopyFresh'
    BY <1>1, <1>2, <1>3 DEF journal, OpShape, OpHoldsJob, OpPhase, CopyFresh
  <1>7. JournalSound' /\ HeldDistinct' /\ NoChainForgotten'
    BY <1>1, ListsUntouched DEF journal, world
  <1> QED BY <1>5, <1>6, <1>7

LEMMA RolloutFailsInv == ASSUME ConsoleInv, NEW n \in Node, RolloutFails(n) PROVE ConsoleInv'
  <1> USE DEF ConsoleInv
  <1>1. /\ op.at = "rollout"
        /\ track' = track \/ track' = [track EXCEPT ![n] = op.target]
        /\ UNCHANGED <<ledger, stranded, journal, world, transfer, acks, faults, crashes>>
    BY DEF RolloutFails
  <1>2. op.target \subseteq Job /\ Live(ledger) \subseteq Job
    BY DEF ConsoleTypeOK, OpType, Live
  <1>3. JournalSound' /\ HeldDistinct' /\ NoChainForgotten'
    BY <1>1, ListsUntouched DEF journal, world
  <1>4. CASE op.kind = "upgrade"
    <2>1. op' = [op EXCEPT !.at = "undo", !.target = Live(ledger),
                           !.todo = (Node \ op.todo) \cup {n}]
      BY <1>4 DEF RolloutFails
    <2>2. /\ op' \in OpType /\ op'.at = "undo"
          /\ op'.kind = op.kind /\ op'.job = op.job /\ op'.copy = op.copy
      BY <1>2, <2>1 DEF ConsoleTypeOK, OpType, Points
    <2>3. ConsoleTypeOK'
      BY <1>1, <1>2, <2>2 DEF ConsoleTypeOK, journal, world, acks
    <2>4. OpShape' /\ OpHoldsJob' /\ OpPhase' /\ CopyFresh'
      BY <1>1, <1>4, <2>2 DEF journal, OpShape, OpHoldsJob, OpPhase, CopyFresh
    <2> QED BY <1>3, <2>3, <2>4
  <1>5. CASE op.kind # "upgrade"
    <2>1. op' = Idle
      BY <1>5 DEF RolloutFails, Fail
    <2>2. ConsoleTypeOK'
      BY <1>1, <1>2, <2>1, IdleType DEF ConsoleTypeOK, journal, world, acks
    <2> QED BY <1>3, <2>1, <2>2, OpEnds
  <1> QED BY <1>4, <1>5

LEMMA UndoNodeInv == ASSUME ConsoleInv, NEW n \in Node, UndoNode(n) PROVE ConsoleInv'
  <1> USE DEF ConsoleInv
  <1>1. /\ op.at = "undo"
        /\ track' = track \/ track' = [track EXCEPT ![n] = op.target]
        /\ UNCHANGED <<ledger, stranded, journal, world, transfer, acks, faults, crashes>>
    BY DEF UndoNode
  <1>2. JournalSound' /\ HeldDistinct' /\ NoChainForgotten'
    BY <1>1, ListsUntouched DEF journal, world
  <1>3. op.target \subseteq Job
    BY DEF ConsoleTypeOK, OpType
  <1>4. CASE op' = Idle
    <2>1. ConsoleTypeOK'
      BY <1>1, <1>3, <1>4, IdleType DEF ConsoleTypeOK, journal, world, acks
    <2> QED BY <1>2, <1>4, <2>1, OpEnds
  <1>5. CASE op' = [op EXCEPT !.todo = @ \ {n}]
    <2>1. /\ op' \in OpType /\ op'.at = op.at
          /\ op'.kind = op.kind /\ op'.job = op.job /\ op'.copy = op.copy
      BY <1>5 DEF ConsoleTypeOK, OpType
    <2>2. ConsoleTypeOK'
      BY <1>1, <1>3, <2>1 DEF ConsoleTypeOK, journal, world, acks
    <2>3. OpShape' /\ OpHoldsJob' /\ OpPhase' /\ CopyFresh'
      BY <1>1, <2>1 DEF journal, OpShape, OpHoldsJob, OpPhase, CopyFresh
    <2> QED BY <1>2, <2>2, <2>3
  <1> QED BY <1>4, <1>5 DEF UndoNode

LEMMA RevokeBeginInv == ASSUME ConsoleInv, NEW j \in Job, RevokeBegin(j) PROVE ConsoleInv'
  <1> USE DEF ConsoleInv
  <1> DEFINE new == [ledger EXCEPT !.marked = @ \cup {j}]
  <1>1. /\ op.at = "idle" /\ op.kind = "none" /\ ledger \in LedgerType /\ ledger.live[j] > 0
        /\ UNCHANGED <<journal, world>>
    BY DEF RevokeBegin, QueueFree, OpShape, ConsoleTypeOK, OpType, Live
  <1>2. /\ new \in LedgerType
        /\ new.live = ledger.live /\ new.retired = ledger.retired
    BY <1>1 DEF LedgerType
  <1>3. ledger' \in {ledger, new} /\ stranded' \in BOOLEAN /\ faults' \in 0..MaxFaults
    BY SaveFacts DEF RevokeBegin
  <1>4. Recorded(ledger)' = Recorded(ledger)
    BY <1>2, <1>3, SameLists
  <1>5. JournalSound' /\ HeldDistinct' /\ NoChainForgotten'
    BY <1>1, <1>4, ListsUntouched DEF journal, world
  <1>6. CASE /\ Save(new)
             /\ op' = [kind |-> "revoke", at |-> "rollout", job |-> j, copy |-> new,
                       target |-> KeptByRevoke(j), todo |-> Node]
    <2>1. KeptByRevoke(j) \subseteq Job
      BY DEF KeptByRevoke, Live, PendingSubnets
    <2>2. /\ op' \in OpType /\ op'.at = "rollout" /\ op'.kind = "revoke" /\ op'.job = j
          /\ op'.copy = new
      BY <1>2, <1>6, <2>1 DEF OpType, Kinds, Points
    <2>3. ConsoleTypeOK'
      BY <1>1, <1>2, <1>3, <2>2 DEF RevokeBegin, ConsoleTypeOK, journal, world, acks
    <2>4. ledger' = new
      BY <1>6 DEF Save
    <2>5. OpShape' /\ OpHoldsJob' /\ OpPhase' /\ CopyFresh'
      BY <1>1, <1>2, <2>2, <2>4 DEF OpShape, OpHoldsJob, OpPhase, CopyFresh
    <2> QED BY <1>5, <2>3, <2>5
  <1>7. CASE SaveThrows(new) /\ UNCHANGED op
    <2>1. ConsoleTypeOK'
      BY <1>1, <1>2, <1>3, <1>7 DEF RevokeBegin, ConsoleTypeOK, journal, world, acks
    <2>2. OpShape' /\ OpHoldsJob' /\ OpPhase' /\ CopyFresh'
      BY <1>1, <1>7 DEF OpShape, OpHoldsJob, OpPhase, CopyFresh
    <2> QED BY <1>5, <2>1, <2>2
  <1> QED BY <1>6, <1>7 DEF RevokeBegin

LEMMA RevokeRecordInv == ASSUME ConsoleInv, RevokeRecord PROVE ConsoleInv'
  <1> USE DEF ConsoleInv
  <1> DEFINE new == Splice(op.copy, op.job)
  <1>1. /\ op.job \in Job /\ op.copy \in LedgerType /\ op.copy.live[op.job] > 0
        /\ op.copy.live = ledger.live /\ op.copy.retired = ledger.retired
        /\ op' = Idle /\ UNCHANGED <<journal, world, track, transfer, acks, crashes>>
    BY DEF RevokeRecord, Fail, OpShape, CopyFresh, ConsoleTypeOK, OpType
  <1>2. new \in LedgerType /\ Recorded(new) = Recorded(ledger)
    BY <1>1, SpliceFacts, SameLists
  <1>3. ledger' \in {ledger, new} /\ stranded' \in BOOLEAN /\ faults' \in 0..MaxFaults
    BY SaveFacts DEF RevokeRecord
  <1>4. ConsoleTypeOK'
    BY <1>1, <1>2, <1>3, IdleType DEF ConsoleTypeOK, journal, world, acks
  <1>5. JournalSound' /\ HeldDistinct' /\ NoChainForgotten'
    BY <1>1, <1>2, <1>3, ListsUntouched DEF journal, world
  <1> QED BY <1>1, <1>4, <1>5, OpEnds

LEMMA UpgradeBeginInv == ASSUME ConsoleInv, NEW j \in Job, UpgradeBegin(j) PROVE ConsoleInv'
  <1> USE DEF ConsoleInv
  <1>1. /\ op' = [Idle EXCEPT !.kind = "upgrade", !.at = "rollout", !.job = j,
                              !.target = Live(ledger) \cup PendingSubnets, !.todo = Node]
        /\ UNCHANGED <<ledger, stranded, journal, world, track, transfer, acks, faults, crashes>>
    BY DEF UpgradeBegin
  <1>2. Live(ledger) \cup PendingSubnets \subseteq Job
    BY DEF Live, PendingSubnets
  <1>3. op' \in OpType /\ op'.at = "rollout" /\ op'.kind = "upgrade" /\ op'.job = j
    BY <1>1, <1>2, IdleType DEF OpType, Kinds, Points
  <1>4. ConsoleTypeOK'
    BY <1>1, <1>3 DEF ConsoleTypeOK, journal, world, acks
  <1>5. OpShape' /\ OpHoldsJob' /\ OpPhase' /\ CopyFresh'
    BY <1>3 DEF OpShape, OpHoldsJob, OpPhase, CopyFresh
  <1>6. JournalSound' /\ HeldDistinct' /\ NoChainForgotten'
    BY <1>1, ListsUntouched DEF journal, world
  <1> QED BY <1>4, <1>5, <1>6

LEMMA UpgradeRecordInv == ASSUME ConsoleInv, UpgradeRecord PROVE ConsoleInv'
  <1> USE DEF ConsoleInv
  <1> DEFINE new == [ledger EXCEPT !.upgrades[op.job] = @ + 1]
  <1>1. /\ op.job \in Job /\ ledger \in LedgerType
        /\ op' = Idle /\ UNCHANGED <<journal, world, track, transfer, ackOwner, crashes>>
    BY DEF UpgradeRecord, Fail, OpShape, ConsoleTypeOK
  <1>2. /\ new \in LedgerType
        /\ new.live = ledger.live /\ new.retired = ledger.retired
    <2>1. [ledger.upgrades EXCEPT ![op.job] = @ + 1] \in [Job -> Nat]
      BY <1>1 DEF LedgerType
    <2> QED BY <1>1, <2>1 DEF LedgerType
  <1>3. ledger' \in {ledger, new} /\ stranded' \in BOOLEAN /\ faults' \in 0..MaxFaults
    <2>1. CASE Save(new) \/ SaveThrows(new)
      BY <2>1, SaveFacts
    <2>2. CASE UNCHANGED <<ledger, stranded, faults>>
      BY <2>2 DEF ConsoleTypeOK
    <2> QED BY <2>1, <2>2 DEF UpgradeRecord
  <1>4. ackUpgrades' \in [Job -> Nat]
    BY <1>1 DEF UpgradeRecord, ConsoleTypeOK
  <1>5. ConsoleTypeOK'
    BY <1>1, <1>2, <1>3, <1>4, IdleType DEF ConsoleTypeOK, journal, world
  <1>6. Recorded(ledger)' = Recorded(ledger)
    BY <1>2, <1>3, SameLists
  <1>7. JournalSound' /\ HeldDistinct' /\ NoChainForgotten'
    BY <1>1, <1>6, ListsUntouched DEF journal, world
  <1> QED BY <1>1, <1>5, <1>7, OpEnds

LEMMA TransferCommitInv ==
  ASSUME ConsoleInv, NEW s \in Slot, NEW k \in Job, TransferCommit(s, k)
  PROVE  ConsoleInv'
  <1> USE DEF ConsoleInv
  <1> DEFINE new == [ledger EXCEPT !.owner[k] = transfer[s].to]
  <1>1. /\ ledger \in LedgerType
        /\ transfer[s].to \in Wallet \cup {NoWallet}
        /\ transfer' = [transfer EXCEPT ![s] = NoTransfer]
        /\ UNCHANGED <<journal, world, track, op, ackUpgrades, crashes>>
    BY DEF TransferCommit, ConsoleTypeOK
  <1>2. /\ new \in LedgerType
        /\ new.live = ledger.live /\ new.retired = ledger.retired
    <2>1. [ledger.owner EXCEPT ![k] = transfer[s].to] \in [Job -> Wallet \cup {NoWallet}]
      BY <1>1 DEF LedgerType
    <2> QED BY <1>1, <2>1 DEF LedgerType
  <1>3. ledger' \in {ledger, new} /\ stranded' \in BOOLEAN /\ faults' \in 0..MaxFaults
    BY SaveFacts DEF TransferCommit
  <1>4. ackOwner' \in [Job -> Wallet \cup {NoWallet}]
    BY <1>1 DEF TransferCommit, ConsoleTypeOK
  <1>5. NoTransfer \in [job : Job \cup {NoJob}, to : Wallet \cup {NoWallet}]
    BY DEF NoTransfer
  <1>6. transfer' \in [Slot -> [job : Job \cup {NoJob}, to : Wallet \cup {NoWallet}]]
    BY <1>1, <1>5 DEF ConsoleTypeOK
  <1>7. ConsoleTypeOK'
    BY <1>1, <1>2, <1>3, <1>4, <1>6 DEF ConsoleTypeOK, journal, world
  <1>8. ledger'.live = ledger.live /\ ledger'.retired = ledger.retired
    BY <1>2, <1>3
  <1>9. Recorded(ledger)' = Recorded(ledger)
    BY <1>8, SameLists
  <1>10. OpShape' /\ OpHoldsJob' /\ OpPhase' /\ CopyFresh'
    BY <1>1, <1>8, <1>9 DEF journal, OpShape, OpHoldsJob, OpPhase, CopyFresh
  <1>11. JournalSound' /\ HeldDistinct' /\ NoChainForgotten'
    BY <1>1, <1>9, ListsUntouched DEF journal, world
  <1> QED BY <1>7, <1>10, <1>11

\* What touches nothing that ConsoleInv relates: the start and the failure of a
\* transfer, and the reconciliation of the ledger.
LEMMA BesideTheQueueInv ==
  ASSUME ConsoleInv,
         \/ \E s \in Slot, j \in Job, w \in Wallet : TransferBegin(s, j, w)
         \/ \E s \in Slot : TransferFails(s)
         \/ ReconcileLedger
  PROVE  ConsoleInv'
  <1> USE DEF ConsoleInv
  <1> DEFINE Row == [job : Job \cup {NoJob}, to : Wallet \cup {NoWallet}]
  <1>1. UNCHANGED <<ledger, journal, world, track, op, acks, faults, crashes>>
    BY DEF TransferBegin, TransferFails, ReconcileLedger
  <1>2. NoTransfer \in Row /\ \A j \in Job, w \in Wallet : [job |-> j, to |-> w] \in Row
    BY DEF NoTransfer
  <1>3. transfer' \in [Slot -> Row] /\ stranded' \in BOOLEAN
    <2>1. transfer \in [Slot -> Row] /\ stranded \in BOOLEAN
      BY DEF ConsoleTypeOK
    <2>2. ASSUME NEW s \in Slot, NEW r \in Row, transfer' = [transfer EXCEPT ![s] = r]
          PROVE  transfer' \in [Slot -> Row]
      BY <2>1, <2>2
    <2> HIDE DEF Row
    <2>3. CASE \E s \in Slot, j \in Job, w \in Wallet : TransferBegin(s, j, w)
      BY <1>2, <2>1, <2>2, <2>3 DEF TransferBegin
    <2>4. CASE \E s \in Slot : TransferFails(s)
      BY <1>2, <2>1, <2>2, <2>4 DEF TransferFails
    <2>5. CASE ReconcileLedger
      BY <2>1, <2>5 DEF ReconcileLedger
    <2> QED BY <2>3, <2>4, <2>5
  <1>4. ConsoleTypeOK'
    BY <1>1, <1>3 DEF ConsoleTypeOK, journal, world, acks
  <1>5. OpShape' /\ OpHoldsJob' /\ OpPhase' /\ CopyFresh'
    BY <1>1 DEF journal, OpShape, OpHoldsJob, OpPhase, CopyFresh
  <1>6. JournalSound' /\ HeldDistinct' /\ NoChainForgotten'
    BY <1>1, ListsUntouched DEF journal, world
  <1> QED BY <1>4, <1>5, <1>6

LEMMA CrashInv == ASSUME ConsoleInv, Crash PROVE ConsoleInv'
  <1> USE DEF ConsoleInv
  <1>1. MaxCrashes \in Nat
    BY ConsoleConstants
  <1>2. NoTransfer \in [job : Job \cup {NoJob}, to : Wallet \cup {NoWallet}]
    BY DEF NoTransfer
  <1>3. transfer' \in [Slot -> [job : Job \cup {NoJob}, to : Wallet \cup {NoWallet}]]
    BY <1>2 DEF Crash
  <1>4. ConsoleTypeOK'
    BY <1>1, <1>3, IdleType DEF Crash, ConsoleTypeOK, journal, world, acks
  <1>5. JournalSound' /\ HeldDistinct' /\ NoChainForgotten'
    BY ListsUntouched DEF Crash, journal, world
  <1> QED BY <1>4, <1>5, OpEnds DEF Crash

-----------------------------------------------------------------------------
(* The initial state, every step, and the theorems. *)

LEMMA InitInv == ConsoleInit => ConsoleInv
  <1> SUFFICES ASSUME ConsoleInit PROVE ConsoleInv
    OBVIOUS
  <1>1. ConsoleTypeOK
    <2>1. faults \in 0..MaxFaults /\ crashes \in 0..MaxCrashes
      BY ConsoleConstants DEF ConsoleInit
    <2>2. transfer \in [Slot -> [job : Job \cup {NoJob}, to : Wallet \cup {NoWallet}]]
      <3>1. NoTransfer \in [job : Job \cup {NoJob}, to : Wallet \cup {NoWallet}]
        BY DEF NoTransfer
      <3> QED BY <3>1 DEF ConsoleInit
    <2>3. /\ phase \in [Job -> Phases] /\ outcome \in [Job -> Outcomes]
          /\ plan \in [Job -> Plan \cup {NoPlan}] /\ track \in [Node -> SUBSET Job]
          /\ ackOwner \in [Job -> Wallet \cup {NoWallet}] /\ ackUpgrades \in [Job -> Nat]
      BY DEF ConsoleInit, Phases, Outcomes
    <2>4. ledger \in LedgerType /\ op \in OpType /\ stranded \in BOOLEAN
      BY EmptyLedgerType, IdleType DEF ConsoleInit
    <2> QED BY <2>1, <2>2, <2>3, <2>4 DEF ConsoleInit, ConsoleTypeOK
  <1>2. OpShape /\ OpHoldsJob /\ OpPhase /\ CopyFresh
    BY DEF ConsoleInit, Idle, OpShape, OpHoldsJob, OpPhase, CopyFresh
  <1>3. Recorded(ledger) = {}
    BY DEF ConsoleInit, EmptyLedger, Recorded, Live, Gone
  <1>4. JournalSound /\ HeldDistinct /\ NoChainForgotten
    BY <1>3, ConsoleConstants DEF ConsoleInit, JournalSound, HeldDistinct, Held, NoChainForgotten
  <1> QED BY <1>1, <1>2, <1>4 DEF ConsoleInv

LEMMA StutterInv == ASSUME ConsoleInv, UNCHANGED vars PROVE ConsoleInv'
  BY DEF vars, journal, world, acks, ConsoleInv, ConsoleTypeOK, OpShape, OpHoldsJob, OpPhase,
         CopyFresh, JournalSound, HeldDistinct, Held, NoChainForgotten

LEMMA NextInv == ConsoleInv /\ [ConsoleNext]_vars => ConsoleInv'
  <1> SUFFICES ASSUME ConsoleInv, [ConsoleNext]_vars PROVE ConsoleInv'
    OBVIOUS
  <1>1. ASSUME NEW j \in Job, NEW n \in Name, NEW c \in ChainId, NEW w \in Wallet,
               CreateBegin(j, n, c, w)
        PROVE ConsoleInv'
    BY <1>1, CreateBeginInv
  <1>2. CASE CreateAbort
    BY <1>2, CreateAbortInv
  <1>3. CASE CreateSubmit
    BY <1>3, CreateSubmitInv
  <1>4. CASE CliAnswer
    BY <1>4, CliAnswerInv
  <1>5. CASE CliLost \/ CreateNotReady \/ CreateCompleteRefused \/ RevokeStillServed
    BY <1>5, GiveUpInv
  <1>6. CASE CreateReady
    BY <1>6, CreateReadyInv
  <1>7. CASE CreateRecord
    BY <1>7, CreateRecordInv
  <1>8. CASE CreateComplete
    BY <1>8, CreateCompleteInv
  <1>9. CASE CreateArchive \/ ResolveRetired
    BY <1>9, JobClosedInv
  <1>10. ASSUME NEW j \in Job,
                CliAccept(j) \/ CliExit(j) \/ ResolveDiscard(j) \/ ResolveRetire(j)
                  \/ ResolveAdopt(j) \/ RevokeBegin(j) \/ UpgradeBegin(j)
         PROVE ConsoleInv'
    BY <1>10, CliAcceptInv, CliExitInv, ResolveDiscardInv, ResolveRetireInv, ResolveAdoptInv,
       RevokeBeginInv, UpgradeBeginInv
  <1>11. ASSUME NEW n \in Node, RolloutNode(n) \/ RolloutFails(n) \/ UndoNode(n)
         PROVE ConsoleInv'
    BY <1>11, RolloutNodeInv, RolloutFailsInv, UndoNodeInv
  <1>12. CASE RevokeRecord
    BY <1>12, RevokeRecordInv
  <1>13. CASE UpgradeRecord
    BY <1>13, UpgradeRecordInv
  <1>14. ASSUME NEW s \in Slot, NEW k \in Job, TransferCommit(s, k)
         PROVE ConsoleInv'
    BY <1>14, TransferCommitInv
  <1>15. CASE \/ \E s \in Slot, j \in Job, w \in Wallet : TransferBegin(s, j, w)
              \/ \E s \in Slot : TransferFails(s)
              \/ ReconcileLedger
    BY <1>15, BesideTheQueueInv
  <1>16. CASE Crash
    BY <1>16, CrashInv
  <1>17. CASE UNCHANGED vars
    BY <1>17, StutterInv
  <1> QED
    BY <1>1, <1>2, <1>3, <1>4, <1>5, <1>6, <1>7, <1>8, <1>9, <1>10, <1>11, <1>12, <1>13,
       <1>14, <1>15, <1>16, <1>17
    DEF ConsoleNext

\* Every reachable state of the console satisfies the inductive invariant.
THEOREM Invariance == ConsoleSpec => []ConsoleInv
  BY InitInv, NextInv, PTL DEF ConsoleSpec

\* Type correctness: the ledger, the journal, the nodes' track lists and the running
\* operation keep their shape, and no list of the ledger ever loses more than it has.
THEOREM TypeCorrectness == ConsoleSpec => []ConsoleTypeOK
  <1>1. ConsoleInv => ConsoleTypeOK
    BY DEF ConsoleInv
  <1> QED BY <1>1, Invariance, PTL

\* Two chains of the P-chain never share a name or an EVM chain ID (planChain).
THEOREM IdentitiesDiffer == ConsoleSpec => []IdentityNeverReissued
  <1>1. ConsoleInv => IdentityNeverReissued
    <2> SUFFICES ASSUME ConsoleInv PROVE IdentityNeverReissued
      OBVIOUS
    <2>1. pchain \subseteq Held
      BY DEF ConsoleInv, NoChainForgotten, Held, ConsoleTypeOK
    <2> QED BY <2>1 DEF ConsoleInv, HeldDistinct, IdentityNeverReissued
  <1> QED BY <1>1, Invariance, PTL

\* No chain the P-chain accepted is lost to both the ledger and the journal
\* (finishChainLaunch, resolveCreation, thuHoiChain, under crashes and failed saves).
THEOREM ChainsRemembered == ConsoleSpec => []NoChainForgotten
  <1>1. ConsoleInv => NoChainForgotten
    BY DEF ConsoleInv
  <1> QED BY <1>1, Invariance, PTL

-----------------------------------------------------------------------------
(* How a step changes the two lists of the ledger, the journal and the track *)
(* lists: what the remaining proofs need of it.                              *)

\* The steps that touch the ledger.
LEMMA LedgerSteps ==
  ASSUME [ConsoleNext]_vars
  PROVE  \/ UNCHANGED ledger
         \/ CreateRecord \/ RevokeRecord \/ UpgradeRecord
         \/ \E j \in Job : ResolveRetire(j)
         \/ \E j \in Job : RevokeBegin(j)
         \/ \E s \in Slot, k \in Job : TransferCommit(s, k)
  BY DEF ConsoleNext, vars, CreateBegin, CreateAbort, CreateSubmit, CliAnswer, CliLost,
         CreateReady, CreateNotReady, CreateComplete, CreateCompleteRefused, CreateArchive,
         CliAccept, CliExit, ResolveDiscard, ResolveAdopt, ResolveRetired, RolloutNode,
         RolloutFails, UndoNode, UpgradeBegin, RevokeStillServed, TransferBegin, TransferFails,
         Crash, ReconcileLedger

\* The record is pushed, retired or spliced by the one action that does so; every other
\* step leaves the lists alone.
LEMMA ListSteps ==
  ASSUME ConsoleInv, [ConsoleNext]_vars
  PROVE  \/ Live(ledger)' = Live(ledger) /\ Gone(ledger)' = Gone(ledger)
         \/ /\ CreateRecord /\ op.job \in Job /\ op.job = pending
            /\ Live(ledger)' = Live(ledger) \cup {op.job} /\ Gone(ledger)' = Gone(ledger)
         \/ \E j \in Job : /\ ResolveRetire(j)
                           /\ Live(ledger)' = Live(ledger)
                           /\ Gone(ledger)' = Gone(ledger) \cup {j}
         \/ /\ RevokeRecord /\ op.kind = "revoke" /\ op.job \in Live(ledger)
            /\ Gone(ledger)' = Gone(ledger) \cup {op.job}
            /\ Live(ledger)' = IF op.copy.live[op.job] = 1 THEN Live(ledger) \ {op.job}
                                                          ELSE Live(ledger)
  <1> USE DEF ConsoleInv
  <1>1. CASE UNCHANGED ledger
    BY <1>1
  <1>2. CASE CreateRecord
    <2> DEFINE new == PushLive(op.copy, op.job)
    <2>1. /\ op.job \in Job /\ op.job = pending
          /\ op.copy \in LedgerType /\ plan[op.job] \in Plan
          /\ op.copy.live = ledger.live /\ op.copy.retired = ledger.retired
      BY <1>2 DEF CreateRecord, OpShape, OpHoldsJob, OpPhase, CopyFresh, JournalSound,
                  ConsoleTypeOK, OpType
    <2>2. ledger' \in {ledger, new}
      BY <1>2, SaveFacts DEF CreateRecord
    <2>3. Live(new) = Live(ledger) \cup {op.job} /\ Gone(new) = Gone(ledger)
      BY <2>1, PushLiveFacts, SameLists
    <2> HIDE DEF new
    <2>4. CASE ledger' = ledger
      BY <2>4
    <2>5. CASE ledger' = new
      BY <1>2, <2>1, <2>3, <2>5
    <2> QED BY <2>2, <2>4, <2>5
  <1>3. ASSUME NEW j \in Job, ResolveRetire(j)
        PROVE  \/ Live(ledger)' = Live(ledger) /\ Gone(ledger)' = Gone(ledger)
               \/ Live(ledger)' = Live(ledger) /\ Gone(ledger)' = Gone(ledger) \cup {j}
    <2> DEFINE new == PushRetired(ledger, j)
    <2>1. ledger \in LedgerType /\ plan[j] \in Plan
      BY <1>3, ConsoleConstants DEF ResolveRetire, JournalSound, ConsoleTypeOK
    <2>2. ledger' \in {ledger, new}
      BY <1>3, SaveFacts DEF ResolveRetire
    <2>3. Live(new) = Live(ledger) /\ Gone(new) = Gone(ledger) \cup {j}
      BY <2>1, PushRetiredFacts
    <2> HIDE DEF new
    <2> QED BY <2>2, <2>3
  <1>4. CASE RevokeRecord
    <2> DEFINE new == Splice(op.copy, op.job)
    <2>1. /\ op.job \in Job /\ op.copy \in LedgerType /\ op.copy.live[op.job] > 0
          /\ op.copy.live = ledger.live /\ op.copy.retired = ledger.retired
          /\ op.kind = "revoke"
      BY <1>4 DEF RevokeRecord, OpShape, CopyFresh, ConsoleTypeOK, OpType
    <2>2. ledger' \in {ledger, new}
      BY <1>4, SaveFacts DEF RevokeRecord
    <2>7. Live(op.copy) = Live(ledger) /\ Gone(op.copy) = Gone(ledger)
      BY <2>1, SameLists
    <2>3. /\ Gone(new) = Gone(ledger) \cup {op.job}
          /\ Live(new) = IF op.copy.live[op.job] = 1 THEN Live(ledger) \ {op.job} ELSE Live(ledger)
      BY <2>1, <2>7, SpliceFacts
    <2>4. op.job \in Live(ledger)
      BY <2>1 DEF Live
    <2> HIDE DEF new
    <2>5. CASE ledger' = ledger
      BY <2>5
    <2>6. CASE ledger' = new
      BY <1>4, <2>1, <2>3, <2>4, <2>6
    <2> QED BY <2>2, <2>5, <2>6
  <1>5. CASE \/ \E j \in Job : RevokeBegin(j)
             \/ UpgradeRecord
             \/ \E s \in Slot, k \in Job : TransferCommit(s, k)
    <2>1. ledger \in LedgerType
      BY DEF ConsoleTypeOK
    <2>2. \/ \E j \in Job : ledger' \in {ledger, [ledger EXCEPT !.marked = @ \cup {j}]}
          \/ ledger' \in {ledger, [ledger EXCEPT !.upgrades[op.job] = @ + 1]}
          \/ \E s \in Slot, k \in Job : ledger' \in {ledger, [ledger EXCEPT !.owner[k] = transfer[s].to]}
      BY <1>5, SaveFacts DEF RevokeBegin, UpgradeRecord, TransferCommit
    <2>3. ledger'.live = ledger.live /\ ledger'.retired = ledger.retired
      BY <2>1, <2>2 DEF LedgerType
    <2> QED BY <2>3, SameLists
  <1> QED BY <1>1, <1>2, <1>3, <1>4, <1>5, LedgerSteps

\* The journal changes when a creation begins and when the pending one ends, and a job
\* that was begun never counts as new again.
LEMMA JournalSteps ==
  ASSUME ConsoleInv, [ConsoleNext]_vars
  PROVE  /\ \A j \in Job : phase[j] # "free" => phase'[j] # "free"
         /\ \/ UNCHANGED <<pending, outcome, plan>>
            \/ \E j \in Job : /\ \E n \in Name, c \in ChainId, w \in Wallet : CreateBegin(j, n, c, w)
                              /\ pending' = j /\ outcome' = outcome
            \/ /\ pending \in Job /\ pending' = NoJob
               /\ UNCHANGED <<ledger, plan>>
               /\ \/ /\ CreateAbort \/ ResolveDiscard(pending)
                     /\ outcome' = [outcome EXCEPT ![pending] = "discarded"]
                  \/ /\ CreateArchive /\ op.job = pending
                     /\ outcome' = [outcome EXCEPT ![pending] = "completed"]
                  \/ /\ ResolveRetired /\ op.job = pending
                     /\ outcome' = [outcome EXCEPT ![pending] = "retired"]
  <1> USE DEF ConsoleInv
  <1>1. CASE UNCHANGED <<pending, outcome, plan, phase>>
    BY <1>1
  <1>2. ASSUME NEW j \in Job, NEW n \in Name, NEW c \in ChainId, NEW w \in Wallet,
               CreateBegin(j, n, c, w)
        PROVE  /\ pending' = j /\ outcome' = outcome
               /\ \A k \in Job : phase[k] # "free" => phase'[k] # "free"
    BY <1>2 DEF CreateBegin, ConsoleTypeOK
  <1>3. CASE CreateAbort \/ CreateArchive \/ ResolveRetired
    BY <1>3 DEF CreateAbort, CreateArchive, ResolveRetired, OpShape, OpHoldsJob
  <1>4. ASSUME NEW j \in Job, ResolveDiscard(j)
        PROVE  /\ pending = j /\ pending' = NoJob /\ ResolveDiscard(pending)
               /\ UNCHANGED <<ledger, plan, phase>>
               /\ outcome' = [outcome EXCEPT ![pending] = "discarded"]
    BY <1>4 DEF ResolveDiscard
  <1>5. CASE CreateSubmit \/ CliAnswer \/ CreateComplete
    BY <1>5 DEF CreateSubmit, CliAnswer, CreateComplete, ConsoleTypeOK
  <1>6. ASSUME NEW j \in Job, ResolveAdopt(j)
        PROVE  /\ UNCHANGED <<pending, outcome, plan>>
               /\ \A k \in Job : phase[k] # "free" => phase'[k] # "free"
    BY <1>6 DEF ResolveAdopt, ConsoleTypeOK
  <1>7. \/ UNCHANGED <<pending, outcome, plan, phase>>
        \/ \E j \in Job : \E n \in Name, c \in ChainId, w \in Wallet : CreateBegin(j, n, c, w)
        \/ CreateAbort \/ CreateArchive \/ ResolveRetired
        \/ CreateSubmit \/ CliAnswer \/ CreateComplete
        \/ \E j \in Job : ResolveDiscard(j) \/ ResolveAdopt(j)
    BY DEF ConsoleNext, vars, journal, CliLost, CreateReady, CreateNotReady, CreateRecord,
           CreateCompleteRefused, CliAccept, CliExit, ResolveRetire, RolloutNode, RolloutFails,
           UndoNode, RevokeBegin, UpgradeBegin, RevokeStillServed, RevokeRecord, UpgradeRecord,
           TransferBegin, TransferCommit, TransferFails, Crash, ReconcileLedger
  <1> QED BY <1>1, <1>2, <1>3, <1>4, <1>5, <1>6, <1>7

-----------------------------------------------------------------------------
(* The ledger only grows. *)

Grows == Recorded(ledger) \subseteq Recorded(ledger)' /\ Gone(ledger) \subseteq Gone(ledger)'

LEMMA EveryStepGrows == ConsoleInv /\ [ConsoleNext]_vars => Grows
  BY ListSteps DEF Grows, Recorded

\* A chain in the ledger stays in it, and a retired chain stays retired, although
\* finishChainLaunch and thuHoiChain write back a copy they read before their waits.
THEOREM LedgerGrows == ConsoleSpec => LedgerNeverForgets
  <1>1. ConsoleInv /\ [ConsoleNext]_vars => [Grows]_vars
    BY EveryStepGrows
  <1>2. ConsoleSpec => [][Grows]_vars
    BY <1>1, Invariance, PTL DEF ConsoleSpec
  <1> QED BY <1>2 DEF Grows, LedgerNeverForgets

-----------------------------------------------------------------------------
(* What the console acknowledged of upgrades. *)

\* The copy that will be written back has the upgrades on record.
CopyUpgrades ==
  op.kind = "revoke" \/ (op.kind = "create" /\ op.at \notin {"complete", "archive"}) =>
    op.copy.upgrades = ledger.upgrades

UpgradesInv == CopyUpgrades /\ AckedUpgradesKept

\* The steps that move the running operation without ending it.
LEMMA OpSteps ==
  ASSUME [ConsoleNext]_vars
  PROVE  \/ UNCHANGED op \/ op' = Idle
         \/ \E j \in Job : \E n \in Name, c \in ChainId, w \in Wallet : CreateBegin(j, n, c, w)
         \/ \E j \in Job : ResolveAdopt(j) \/ RevokeBegin(j) \/ UpgradeBegin(j) \/ ResolveRetire(j)
         \/ CreateSubmit \/ CreateReady \/ CliAnswer \/ CreateComplete \/ CreateRecord
         \/ \E n \in Node : RolloutNode(n) \/ UndoNode(n) \/ RolloutFails(n)
  BY DEF ConsoleNext, vars, Fail, CreateAbort, CliLost, CreateNotReady, CreateCompleteRefused,
         CreateArchive, CliAccept, CliExit, ResolveDiscard, ResolveRetired, RevokeStillServed,
         RevokeRecord, UpgradeRecord, TransferBegin, TransferCommit, TransferFails, Crash,
         ReconcileLedger

\* The copy is what the ledger held when the operation began; no later step of it,
\* short of its end, changes the ledger before it is written back.
LEMMA CopySteps ==
  ASSUME ConsoleInv, [ConsoleNext]_vars
  PROVE  \/ op' = op
         \/ op'.kind \notin {"create", "revoke"}
         \/ op'.kind = "create" /\ op'.at \in {"complete", "archive"}
         \/ op'.copy = ledger'
         \/ /\ UNCHANGED ledger
            /\ op'.kind = op.kind /\ op'.copy = op.copy
            /\ op.at \notin {"complete", "archive"}
  <1> USE DEF ConsoleInv
  <1>1. CASE UNCHANGED op
    BY <1>1 DEF OpShape
  <1>2. CASE op' = Idle
    BY <1>2 DEF Idle
  <1>3. ASSUME NEW j \in Job, NEW n \in Name, NEW c \in ChainId, NEW w \in Wallet,
               CreateBegin(j, n, c, w)
        PROVE  op'.copy = ledger'
    BY <1>3 DEF CreateBegin, Idle
  <1>4. ASSUME NEW j \in Job, ResolveAdopt(j)
        PROVE  op'.copy = ledger'
    BY <1>4 DEF ResolveAdopt, StartFinish, ConsoleTypeOK, OpType
  <1>5. ASSUME NEW j \in Job, RevokeBegin(j), op' # op
        PROVE  op'.copy = ledger'
    BY <1>5 DEF RevokeBegin, Save
  <1>6. ASSUME NEW j \in Job, UpgradeBegin(j) \/ ResolveRetire(j), op' # op
        PROVE  op'.kind \notin {"create", "revoke"}
    BY <1>6 DEF UpgradeBegin, ResolveRetire, Idle
  <1>7. CASE CreateSubmit \/ CreateReady \/ CliAnswer
    <2>1. op.kind = "create" /\ op.at \notin {"complete", "archive"} /\ UNCHANGED ledger
      BY <1>7 DEF CreateSubmit, CreateReady, CliAnswer, OpShape
    <2>2. op'.kind = op.kind /\ op'.copy = op.copy
      BY <1>7, <2>1 DEF CreateSubmit, CreateReady, CliAnswer, GoTo, StartFinish, ConsoleTypeOK, OpType
    <2> QED BY <2>1, <2>2
  <1>8. CASE CreateComplete \/ CreateRecord
    BY <1>8 DEF CreateComplete, CreateRecord, GoTo, Fail, OpShape, ConsoleTypeOK, OpType, Idle
  <1>9. ASSUME NEW n \in Node, RolloutNode(n) \/ UndoNode(n) \/ RolloutFails(n), op' # Idle
        PROVE  /\ UNCHANGED ledger
               /\ op'.kind = op.kind /\ op'.copy = op.copy
               /\ op.at \notin {"complete", "archive"}
    BY <1>9 DEF RolloutNode, UndoNode, RolloutFails, Fail, ConsoleTypeOK, OpType
  <1> QED BY <1>1, <1>2, <1>3, <1>4, <1>5, <1>6, <1>7, <1>8, <1>9, OpSteps

\* No step changes the upgrades on record but the one that adds to them, and it runs when
\* no copy is held.
LEMMA UpgradesOnRecord ==
  ASSUME ConsoleInv, CopyUpgrades, [ConsoleNext]_vars
  PROVE  \/ UpgradeRecord
         \/ ledger'.upgrades = ledger.upgrades /\ UNCHANGED ackUpgrades
  <1> USE DEF ConsoleInv
  <1>1. ledger \in LedgerType /\ op.copy \in LedgerType
    BY DEF ConsoleTypeOK, OpType
  <1>2. CASE CreateRecord
    <2>1. op.kind = "create" /\ op.at = "save" /\ op.job \in Job /\ plan[op.job] \in Plan
      BY <1>2 DEF CreateRecord, OpShape, OpPhase, JournalSound
    <2>2. PushLive(op.copy, op.job).upgrades = ledger.upgrades
      BY <1>1, <2>1, PushLiveFacts DEF CopyUpgrades
    <2>3. ledger' \in {ledger, PushLive(op.copy, op.job)} /\ UNCHANGED ackUpgrades
      BY <1>2, SaveFacts DEF CreateRecord, acks
    <2> QED BY <2>2, <2>3
  <1>3. CASE RevokeRecord
    <2>1. op.kind = "revoke" /\ op.job \in Job /\ op.copy.live[op.job] > 0
      BY <1>3 DEF RevokeRecord, OpShape, CopyFresh
    <2>2. Splice(op.copy, op.job).upgrades = ledger.upgrades
      BY <1>1, <2>1, SpliceFacts DEF CopyUpgrades
    <2>3. ledger' \in {ledger, Splice(op.copy, op.job)} /\ UNCHANGED ackUpgrades
      BY <1>3, SaveFacts DEF RevokeRecord, acks
    <2> QED BY <2>2, <2>3
  <1>4. ASSUME NEW j \in Job, ResolveRetire(j)
        PROVE  ledger'.upgrades = ledger.upgrades /\ UNCHANGED ackUpgrades
    <2>1. plan[j] \in Plan
      BY <1>4, ConsoleConstants DEF ResolveRetire, JournalSound, ConsoleTypeOK
    <2>2. PushRetired(ledger, j).upgrades = ledger.upgrades
      BY <1>1, <2>1, PushRetiredFacts
    <2>3. ledger' \in {ledger, PushRetired(ledger, j)} /\ UNCHANGED ackUpgrades
      BY <1>4, SaveFacts DEF ResolveRetire, acks
    <2> QED BY <2>2, <2>3
  <1>5. ASSUME NEW j \in Job, RevokeBegin(j)
        PROVE  ledger'.upgrades = ledger.upgrades /\ UNCHANGED ackUpgrades
    <2>1. ledger' \in {ledger, [ledger EXCEPT !.marked = @ \cup {j}]} /\ UNCHANGED ackUpgrades
      BY <1>5, SaveFacts DEF RevokeBegin, acks
    <2> QED BY <1>1, <2>1 DEF LedgerType
  <1>6. ASSUME NEW s \in Slot, NEW k \in Job, TransferCommit(s, k)
        PROVE  ledger'.upgrades = ledger.upgrades /\ UNCHANGED ackUpgrades
    <2>1. ledger' \in {ledger, [ledger EXCEPT !.owner[k] = transfer[s].to]} /\ UNCHANGED ackUpgrades
      BY <1>6, SaveFacts DEF TransferCommit
    <2> QED BY <1>1, <2>1 DEF LedgerType
  <1>7. CASE UNCHANGED <<ledger, ackUpgrades>>
    BY <1>7
  <1>8. UNCHANGED ackUpgrades \/ UpgradeRecord
    BY DEF ConsoleNext, vars, acks, CreateBegin, CreateAbort, CreateSubmit, CliAnswer, CliLost,
           CreateReady, CreateNotReady, CreateRecord, CreateComplete, CreateCompleteRefused,
           CreateArchive, CliAccept, CliExit, ResolveDiscard, ResolveRetire, ResolveAdopt,
           ResolveRetired, RolloutNode, RolloutFails, UndoNode, RevokeBegin, UpgradeBegin,
           RevokeStillServed, RevokeRecord, TransferBegin, TransferCommit, TransferFails, Crash,
           ReconcileLedger
  <1> QED BY <1>2, <1>3, <1>4, <1>5, <1>6, <1>7, <1>8, LedgerSteps

LEMMA UpgradesStep == ConsoleInv /\ UpgradesInv /\ [ConsoleNext]_vars => UpgradesInv'
  <1> SUFFICES ASSUME ConsoleInv, UpgradesInv, [ConsoleNext]_vars PROVE UpgradesInv'
    OBVIOUS
  <1>1. CopyUpgrades /\ AckedUpgradesKept
    BY DEF UpgradesInv
  <1>2. CASE UpgradeRecord
    <2>1. op' = Idle /\ op.job \in Job
      BY <1>2 DEF UpgradeRecord, Fail, ConsoleInv, OpShape
    <2>2. CopyUpgrades'
      BY <2>1 DEF CopyUpgrades, Idle
    <2>3. /\ ackUpgrades \in [Job -> Nat] /\ ledger.upgrades \in [Job -> Nat]
          /\ ledger \in LedgerType
      BY DEF ConsoleInv, ConsoleTypeOK, LedgerType
    <2> DEFINE more == [ledger.upgrades EXCEPT ![op.job] = @ + 1]
    <2>4. \/ ledger'.upgrades = more /\ ackUpgrades' = [ackUpgrades EXCEPT ![op.job] = @ + 1]
          \/ ledger'.upgrades \in {ledger.upgrades, more} /\ UNCHANGED ackUpgrades
      BY <1>2, <2>3 DEF UpgradeRecord, Save, SaveThrows, LedgerType
    <2>5. AckedUpgradesKept'
      BY <1>1, <2>1, <2>3, <2>4 DEF AckedUpgradesKept
    <2> QED BY <2>2, <2>5 DEF UpgradesInv
  <1>3. CASE ledger'.upgrades = ledger.upgrades /\ UNCHANGED ackUpgrades
    <2>1. AckedUpgradesKept'
      BY <1>1, <1>3 DEF AckedUpgradesKept
    <2>2. CopyUpgrades'
      BY <1>1, <1>3, CopySteps DEF CopyUpgrades
    <2> QED BY <2>1, <2>2 DEF UpgradesInv
  <1> QED BY <1>1, <1>2, <1>3, UpgradesOnRecord

\* An upgrade the console has confirmed stays in the public record (napCapChain).
THEOREM UpgradesStay == ConsoleSpec => []AckedUpgradesKept
  <1>1. ConsoleInit => UpgradesInv
    BY DEF ConsoleInit, UpgradesInv, CopyUpgrades, AckedUpgradesKept, Idle, EmptyLedger
  <1>2. UpgradesInv => AckedUpgradesKept
    BY DEF UpgradesInv
  <1> QED BY <1>1, <1>2, UpgradesStep, Invariance, PTL DEF ConsoleSpec

-----------------------------------------------------------------------------
(* Owner transfers. *)

\* A transfer in flight is about a chain the ledger lists, live or retired.
TransfersListed == \A s \in Slot : transfer[s] # NoTransfer => transfer[s].job \in Recorded(ledger)

LEMMA TransfersStep == ConsoleInv /\ TransfersListed /\ [ConsoleNext]_vars => TransfersListed'
  <1> SUFFICES ASSUME ConsoleInv, TransfersListed, [ConsoleNext]_vars PROVE TransfersListed'
    OBVIOUS
  <1>1. Recorded(ledger) \subseteq Recorded(ledger)'
    BY EveryStepGrows DEF Grows
  <1>2. CASE UNCHANGED transfer
    BY <1>1, <1>2 DEF TransfersListed
  <1>3. ASSUME NEW s \in Slot, NEW j \in Job, NEW w \in Wallet, TransferBegin(s, j, w)
        PROVE  TransfersListed'
    <2>1. j \in Recorded(ledger)' /\ transfer' = [transfer EXCEPT ![s] = [job |-> j, to |-> w]]
      BY <1>1, <1>3 DEF TransferBegin, Recorded
    <2>2. \A t \in Slot : transfer'[t] = IF t = s THEN [job |-> j, to |-> w] ELSE transfer[t]
      BY <2>1 DEF ConsoleInv, ConsoleTypeOK
    <2> QED BY <1>1, <2>1, <2>2 DEF TransfersListed
  <1>4. ASSUME NEW s \in Slot, transfer' = [transfer EXCEPT ![s] = NoTransfer]
        PROVE  TransfersListed'
    <2>1. \A t \in Slot : transfer'[t] = IF t = s THEN NoTransfer ELSE transfer[t]
      BY <1>4 DEF ConsoleInv, ConsoleTypeOK
    <2> QED BY <1>1, <2>1 DEF TransfersListed
  <1>5. CASE Crash
    BY <1>5 DEF Crash, TransfersListed
  <1>6. \/ UNCHANGED transfer \/ Crash
        \/ \E s \in Slot : \/ \E j \in Job, w \in Wallet : TransferBegin(s, j, w)
                           \/ transfer' = [transfer EXCEPT ![s] = NoTransfer]
    BY DEF ConsoleNext, vars, CreateBegin, CreateAbort, CreateSubmit, CliAnswer, CliLost,
           CreateReady, CreateNotReady, CreateRecord, CreateComplete, CreateCompleteRefused,
           CreateArchive, CliAccept, CliExit, ResolveDiscard, ResolveRetire, ResolveAdopt,
           ResolveRetired, RolloutNode, RolloutFails, UndoNode, RevokeBegin, UpgradeBegin,
           RevokeStillServed, RevokeRecord, UpgradeRecord, TransferCommit, TransferFails,
           ReconcileLedger
  <1> QED BY <1>2, <1>3, <1>4, <1>5, <1>6

\* The chain that doiChu finds by name after its waits is the one it checked, whatever was
\* revoked or created meanwhile: a name stays with its chain.
THEOREM TransfersHit == ConsoleSpec => []TransferHitsItsChain
  <1>1. ConsoleInit => TransfersListed
    BY DEF ConsoleInit, TransfersListed
  <1>2. ConsoleInv /\ TransfersListed => TransferHitsItsChain
    BY DEF ConsoleInv, HeldDistinct, Held, Recorded, TransfersListed, TransferHitsItsChain
  <1> QED BY <1>1, <1>2, TransfersStep, Invariance, PTL DEF ConsoleSpec

-----------------------------------------------------------------------------
(* Track lists and places. *)

\* No operation runs when the queue is idle.
Resting == op.at = "idle" => op = Idle

\* A job has an outcome only when it is no longer pending.
OutcomeSound == \A j \in Job : outcome[j] # "open" => phase[j] # "free" /\ pending # j

\* A creation that is being answered is listed; a list that is rolled out holds live chains
\* and the pending one.
RolloutListed ==
  /\ op.at \in {"complete", "archive"} => op.job \in Live(ledger)
  /\ op.target \subseteq Live(ledger) \cup {pending}

\* The revoked chain, when no second record lists it, is off every node done so far.
RevokeDone ==
  /\ op.kind = "revoke" /\ op.copy.live[op.job] = 1 =>
       op.job \notin op.target /\ \A n \in Node \ op.todo : op.job \notin track[n]
  /\ op.at = "verify" => op.todo = {}

TrackInv == Resting /\ OutcomeSound /\ RolloutListed /\ RevokeDone

LEMMA OutcomeStep == ConsoleInv /\ OutcomeSound /\ [ConsoleNext]_vars => OutcomeSound'
  <1> SUFFICES ASSUME ConsoleInv, OutcomeSound, [ConsoleNext]_vars PROVE OutcomeSound'
    OBVIOUS
  <1>1. /\ \A j \in Job : phase[j] # "free" => phase'[j] # "free"
        /\ pending # NoJob => phase[pending] # "free"
        /\ outcome \in [Job -> Outcomes]
    BY JournalSteps DEF ConsoleInv, JournalSound, ConsoleTypeOK
  <1>2. CASE UNCHANGED <<pending, outcome, plan>>
    BY <1>1, <1>2 DEF OutcomeSound
  <1>3. ASSUME NEW j \in Job, phase[j] = "free", pending' = j, outcome' = outcome
        PROVE  OutcomeSound'
    BY <1>1, <1>3 DEF OutcomeSound
  <1>4. ASSUME NEW o, pending \in Job, pending' = NoJob, outcome' = [outcome EXCEPT ![pending] = o]
        PROVE  OutcomeSound'
    BY <1>1, <1>4, ConsoleConstants DEF OutcomeSound
  <1>5. \A j \in Job, n \in Name, c \in ChainId, w \in Wallet :
          CreateBegin(j, n, c, w) => phase[j] = "free"
    BY DEF CreateBegin
  <1> QED BY <1>2, <1>3, <1>4, <1>5, JournalSteps

LEMMA RestingStep == ConsoleInv /\ Resting /\ [ConsoleNext]_vars => Resting'
  <1> SUFFICES ASSUME ConsoleInv, Resting, [ConsoleNext]_vars PROVE Resting'
    OBVIOUS
  <1> USE DEF ConsoleInv
  <1>1. CASE op' = op \/ op' = Idle
    BY <1>1 DEF Resting
  <1>2. ASSUME NEW j \in Job, NEW n \in Name, NEW c \in ChainId, NEW w \in Wallet,
               CreateBegin(j, n, c, w)
        PROVE  op'.at # "idle"
    BY <1>2 DEF CreateBegin, Idle
  <1>3. ASSUME NEW j \in Job, op' # op,
               ResolveAdopt(j) \/ RevokeBegin(j) \/ UpgradeBegin(j) \/ ResolveRetire(j)
        PROVE  op'.at # "idle"
    <2>1. CASE ResolveAdopt(j)
      BY <2>1 DEF ResolveAdopt, StartFinish, ConsoleTypeOK, OpType
    <2>2. CASE RevokeBegin(j)
      BY <1>3, <2>2 DEF RevokeBegin
    <2>3. CASE UpgradeBegin(j)
      BY <2>3, IdleType DEF UpgradeBegin, OpType
    <2>4. CASE ResolveRetire(j)
      BY <1>3, <2>4, IdleType DEF ResolveRetire, OpType
    <2> QED BY <1>3, <2>1, <2>2, <2>3, <2>4
  <1>4. CASE CreateSubmit \/ CreateReady \/ CliAnswer \/ CreateComplete
    BY <1>4 DEF CreateSubmit, CreateReady, CliAnswer, CreateComplete, GoTo, StartFinish, Resting,
                ConsoleTypeOK, OpType
  <1>5. CASE CreateRecord
    BY <1>5 DEF CreateRecord, GoTo, Fail, Resting, ConsoleTypeOK, OpType
  <1>6. ASSUME NEW n \in Node, RolloutNode(n) \/ UndoNode(n) \/ RolloutFails(n), op' # Idle
        PROVE  op'.at # "idle"
    <2>1. CASE RolloutNode(n)
      <3>1. op.kind \in {"create", "revoke", "upgrade"}
        BY <2>1 DEF RolloutNode, OpShape
      <3>2. op'.at \in {AfterRollout[op.kind], "rollout"}
        BY <2>1 DEF RolloutNode, ConsoleTypeOK, OpType
      <3> QED BY <3>1, <3>2 DEF AfterRollout
    <2>2. CASE UndoNode(n)
      BY <1>6, <2>2 DEF UndoNode, ConsoleTypeOK, OpType
    <2>3. CASE RolloutFails(n)
      BY <1>6, <2>3 DEF RolloutFails, Fail, ConsoleTypeOK, OpType
    <2> QED BY <1>6, <2>1, <2>2, <2>3
  <1> QED BY <1>1, <1>2, <1>3, <1>4, <1>5, <1>6, OpSteps DEF Resting

\* While an operation goes on, the pending job stays and no live chain leaves the ledger.
LEMMA BusyKeeps ==
  ASSUME ConsoleInv, [ConsoleNext]_vars, op.at # "idle", op' # Idle
  PROVE  pending' = pending /\ Live(ledger) \subseteq Live(ledger)'
  <1>1. /\ \A j \in Job, n \in Name, c \in ChainId, w \in Wallet : ~CreateBegin(j, n, c, w)
        /\ \A j \in Job : ~ResolveDiscard(j)
    BY DEF CreateBegin, ResolveDiscard, QueueFree
  <1>2. ~CreateAbort /\ ~CreateArchive /\ ~ResolveRetired /\ ~RevokeRecord
    BY DEF CreateAbort, CreateArchive, ResolveRetired, RevokeRecord, Fail
  <1>3. pending' = pending
    BY <1>1, <1>2, JournalSteps
  <1>4. Live(ledger) \subseteq Live(ledger)'
    BY <1>2, ListSteps
  <1> QED BY <1>3, <1>4

LEMMA RolloutListedStep ==
  ConsoleInv /\ Resting /\ RolloutListed /\ [ConsoleNext]_vars => RolloutListed'
  <1> SUFFICES ASSUME ConsoleInv, Resting, RolloutListed, [ConsoleNext]_vars PROVE RolloutListed'
    OBVIOUS
  <1> DEFINE Answering == {"complete", "archive"}
  <1>1. /\ op.at \in Answering => op.job \in Live(ledger)
        /\ op.target \subseteq Live(ledger) \cup {pending}
        /\ op \in OpType
    BY DEF RolloutListed, ConsoleInv, ConsoleTypeOK
  \* What is left of RolloutListed' once the new operation is known.
  <1>2. ASSUME op'.at \in Answering => op'.job \in Live(ledger)',
               op'.target \subseteq Live(ledger)' \cup {pending'}
        PROVE  RolloutListed'
    BY <1>2 DEF RolloutListed
  <1>3. CASE op' = Idle
    BY <1>2, <1>3 DEF Idle
  <1>4. CASE op.at # "idle" /\ op' # Idle
    <2>1. pending' = pending /\ Live(ledger) \subseteq Live(ledger)'
      BY <1>4, BusyKeeps
    <2>2. ASSUME op'.target = op.target, op'.job = op.job, op'.at \in Answering => op.at \in Answering
          PROVE  RolloutListed'
      BY <1>1, <1>2, <2>1, <2>2
    <2>3. CASE UNCHANGED op
      BY <2>2, <2>3
    <2>4. CASE CreateSubmit \/ CreateReady \/ CreateComplete
      BY <1>1, <2>2, <2>4 DEF CreateSubmit, CreateReady, CreateComplete, GoTo, OpType
    <2>5. CASE CliAnswer
      <3>1. op.kind = "create" /\ op.copy.live = ledger.live /\ op.copy.retired = ledger.retired
            /\ op.job = pending
        BY <2>5 DEF CliAnswer, ConsoleInv, OpShape, CopyFresh, OpHoldsJob
      <3>2. Live(op.copy) = Live(ledger)
        BY <3>1, SameLists
      <3>3. op'.target = Live(ledger) \cup {pending} /\ op'.at = "rollout"
        BY <1>1, <2>5, <3>1, <3>2 DEF CliAnswer, StartFinish, OpType
      <3> QED BY <1>2, <2>1, <3>3
    <2>6. CASE CreateRecord
      <3> DEFINE new == PushLive(op.copy, op.job)
      <3>1. /\ op.kind = "create" /\ op.at = "save" /\ op.job \in Job /\ op.copy \in LedgerType
            /\ plan[op.job] \in Plan
        BY <2>6 DEF CreateRecord, ConsoleInv, OpShape, OpPhase, JournalSound, ConsoleTypeOK, OpType
      <3>2. op.job \in Live(new)
        BY <3>1, PushLiveFacts
      <3> HIDE DEF new
      <3>3. ledger' = new /\ op' = [op EXCEPT !.at = "complete"]
        BY <1>4, <2>6 DEF CreateRecord, Save, GoTo, Fail, new
      <3>4. op'.job \in Live(ledger)' /\ op'.target = op.target
        BY <1>1, <3>2, <3>3 DEF OpType
      <3> QED BY <1>1, <1>2, <2>1, <3>4
    <2>7. ASSUME NEW n \in Node, RolloutNode(n) \/ UndoNode(n) PROVE RolloutListed'
      <3>1. op'.target = op.target /\ op'.job = op.job
        BY <1>1, <1>4, <2>7 DEF RolloutNode, UndoNode, OpType
      <3>2. op'.at \notin Answering
        <4>1. CASE RolloutNode(n)
          <5>1. op.kind \in {"create", "revoke", "upgrade"}
            BY <4>1 DEF RolloutNode, ConsoleInv, OpShape
          <5>2. op'.at \in {AfterRollout[op.kind], "rollout"}
            BY <1>1, <4>1 DEF RolloutNode, OpType
          <5> QED BY <5>1, <5>2 DEF AfterRollout
        <4>2. CASE UndoNode(n)
          BY <1>1, <1>4, <4>2 DEF UndoNode, OpType
        <4> QED BY <2>7, <4>1, <4>2
      <3> QED BY <2>2, <3>1, <3>2
    <2>8. ASSUME NEW n \in Node, RolloutFails(n) PROVE RolloutListed'
      <3>1. op'.target = Live(ledger) /\ op'.at = "undo"
        BY <1>1, <1>4, <2>8 DEF RolloutFails, Fail, OpType
      <3> QED BY <1>2, <2>1, <3>1
    <2>9. /\ \A j \in Job, n \in Name, c \in ChainId, w \in Wallet : ~CreateBegin(j, n, c, w)
          /\ \A j \in Job : ~ResolveAdopt(j) /\ ~RevokeBegin(j) /\ ~UpgradeBegin(j) /\ ~ResolveRetire(j)
      BY <1>4 DEF CreateBegin, ResolveAdopt, RevokeBegin, UpgradeBegin, ResolveRetire, QueueFree
    <2> QED BY <1>4, <2>3, <2>4, <2>5, <2>6, <2>7, <2>8, <2>9, OpSteps
  <1>5. CASE op.at = "idle" /\ op' # Idle
    <2>1. op = Idle
      BY <1>5 DEF Resting
    <2>2. op.at = "idle" /\ op.target = {}
      BY <2>1 DEF Idle
    <2>3. ASSUME NEW j \in Job, NEW n \in Name, NEW c \in ChainId, NEW w \in Wallet,
                 CreateBegin(j, n, c, w)
          PROVE  RolloutListed'
      BY <1>2, <2>3 DEF CreateBegin, Idle
    <2>4. ASSUME NEW j \in Job, ResolveAdopt(j) PROVE RolloutListed'
      <3>1. op'.target = Live(ledger) \cup {pending} /\ op'.at = "rollout"
            /\ UNCHANGED <<ledger, pending>>
        BY <1>1, <2>4 DEF ResolveAdopt, StartFinish, OpType
      <3> QED BY <1>2, <3>1
    <2>5. ASSUME NEW j \in Job, RevokeBegin(j) PROVE RolloutListed'
      <3> DEFINE new == [ledger EXCEPT !.marked = @ \cup {j}]
      <3>1. /\ op'.target = KeptByRevoke(j) /\ op'.at = "rollout"
            /\ ledger' = new /\ pending' = pending
        BY <1>5, <2>1, <2>5 DEF RevokeBegin, Save, journal
      <3>2. ledger \in LedgerType
        BY DEF ConsoleInv, ConsoleTypeOK
      <3>3. Live([ledger EXCEPT !.live[j] = @ - 1]) \subseteq Live(ledger)
        BY <3>2 DEF LedgerType, Live
      <3>4. new.live = ledger.live /\ new.retired = ledger.retired
        BY <3>2 DEF LedgerType
      <3>5. Live(new) = Live(ledger)
        BY <3>4, SameLists
      <3>6. KeptByRevoke(j) \subseteq Live(ledger) \cup {pending}
        BY <3>3 DEF KeptByRevoke, PendingSubnets
      <3> QED BY <1>2, <3>1, <3>5, <3>6
    <2>6. ASSUME NEW j \in Job, UpgradeBegin(j) PROVE RolloutListed'
      <3>1. op'.target = Live(ledger) \cup PendingSubnets /\ op'.at = "rollout"
            /\ UNCHANGED <<ledger, pending>>
        BY <2>6 DEF UpgradeBegin, Idle, journal
      <3> QED BY <1>2, <3>1 DEF PendingSubnets
    <2>7. ASSUME NEW j \in Job, ResolveRetire(j) PROVE RolloutListed'
      <3>1. op'.target = {} /\ op'.at = "resolve"
        BY <1>5, <2>1, <2>7 DEF ResolveRetire, Idle
      <3> QED BY <1>2, <3>1
    <2>8. op' # op
      BY <1>5, <2>1
    <2>9. /\ ~CreateSubmit /\ ~CreateReady /\ ~CreateComplete /\ ~CliAnswer /\ ~CreateRecord
          /\ \A n \in Node : ~RolloutNode(n) /\ ~UndoNode(n) /\ ~RolloutFails(n)
      BY <2>2 DEF CreateSubmit, CreateReady, CreateComplete, CliAnswer, CreateRecord,
                  RolloutNode, UndoNode, RolloutFails
    <2> QED BY <1>5, <2>3, <2>4, <2>5, <2>6, <2>7, <2>8, <2>9, OpSteps
  <1> QED BY <1>3, <1>4, <1>5

\* Only the three rollout steps touch a node.
LEMMA TrackSteps ==
  ASSUME ConsoleInv, [ConsoleNext]_vars
  PROVE  \/ UNCHANGED track
         \/ \E n \in Node : /\ RolloutNode(n) \/ RolloutFails(n) \/ UndoNode(n)
                            /\ track' = [track EXCEPT ![n] = op.target]
  BY DEF ConsoleNext, vars, CreateBegin, CreateAbort, CreateSubmit, CliAnswer, CliLost,
         CreateReady, CreateNotReady, CreateRecord, CreateComplete, CreateCompleteRefused,
         CreateArchive, CliAccept, CliExit, ResolveDiscard, ResolveRetire, ResolveAdopt,
         ResolveRetired, RolloutNode, RolloutFails, UndoNode, RevokeBegin, UpgradeBegin,
         RevokeStillServed, RevokeRecord, UpgradeRecord, TransferBegin, TransferCommit,
         TransferFails, Crash, ReconcileLedger

LEMMA RevokeDoneStep ==
  ConsoleInv /\ RevokeDone /\ [ConsoleNext]_vars => RevokeDone'
  <1> SUFFICES ASSUME ConsoleInv, RevokeDone, [ConsoleNext]_vars PROVE RevokeDone'
    OBVIOUS
  <1>1. op \in OpType /\ track \in [Node -> SUBSET Job]
    BY DEF ConsoleInv, ConsoleTypeOK
  <1>2. CASE op'.kind # "revoke"
    <2>1. OpShape'
      BY NextInv DEF ConsoleInv
    <2> QED BY <1>2, <2>1 DEF RevokeDone, OpShape
  <1>3. ASSUME NEW j \in Job, RevokeBegin(j), op' # op PROVE RevokeDone'
    <2> DEFINE new == [ledger EXCEPT !.marked = @ \cup {j}]
    <2>1. /\ op'.kind = "revoke" /\ op'.at = "rollout" /\ op'.job = j /\ op'.copy = new
          /\ op'.target = KeptByRevoke(j) /\ op'.todo = Node
          /\ NotPendingFor(j)
      BY <1>3 DEF RevokeBegin
    <2>2. new.live = ledger.live /\ ledger \in LedgerType
      BY DEF LedgerType, ConsoleInv, ConsoleTypeOK
    <2>3. j \notin PendingSubnets
      BY <2>1, ConsoleConstants DEF NotPendingFor, PendingSubnets
    <2>4. ledger.live[j] = 1 => j \notin Live([ledger EXCEPT !.live[j] = @ - 1])
      BY <2>2 DEF Live, LedgerType
    <2>5. op'.copy.live[op'.job] = 1 => op'.job \notin op'.target
      BY <2>1, <2>2, <2>3, <2>4 DEF KeptByRevoke
    <2> QED BY <2>1, <2>5 DEF RevokeDone
  <1>4. ASSUME NEW n \in Node, RolloutNode(n), op.kind = "revoke" PROVE RevokeDone'
    <2>1. /\ op'.kind = op.kind /\ op'.copy = op.copy /\ op'.job = op.job
          /\ op'.target = op.target /\ op'.todo = op.todo \ {n}
          /\ op'.at = "verify" => op.todo = {n}
      BY <1>1, <1>4 DEF RolloutNode, OpType
    <2>2. \A m \in Node : track'[m] = IF m = n THEN op.target ELSE track[m]
      BY <1>1, <1>4 DEF RolloutNode
    <2> QED BY <1>4, <2>1, <2>2 DEF RevokeDone
  <1>5. CASE UNCHANGED <<op, track>>
    BY <1>5 DEF RevokeDone
  <1>6. CASE UNCHANGED op
    <2>1. ASSUME NEW n \in Node, RolloutNode(n) \/ RolloutFails(n) \/ UndoNode(n), op.kind = "revoke"
          PROVE  FALSE
      <3>1. ~UndoNode(n)
        BY <2>1 DEF UndoNode, ConsoleInv, OpShape
      <3>2. ~RolloutNode(n)
        BY <1>1, <1>6 DEF RolloutNode, OpType
      <3>3. ~RolloutFails(n)
        BY <1>6, <2>1 DEF RolloutFails, Fail, Idle
      <3> QED BY <2>1, <3>1, <3>2, <3>3
    <2> QED BY <1>2, <1>5, <1>6, <2>1, TrackSteps
  <1>7. CASE op' = Idle
    BY <1>2, <1>7 DEF Idle
  <1>8. ASSUME NEW j \in Job, NEW n \in Name, NEW c \in ChainId, NEW w \in Wallet,
               CreateBegin(j, n, c, w)
        PROVE  op'.kind # "revoke"
    BY <1>8 DEF CreateBegin, Idle
  <1>9. ASSUME NEW j \in Job, op' # op, ResolveAdopt(j) \/ UpgradeBegin(j) \/ ResolveRetire(j)
        PROVE  op'.kind # "revoke"
    <2>1. CASE ResolveAdopt(j)
      BY <1>1, <2>1 DEF ResolveAdopt, StartFinish, OpType
    <2>2. CASE UpgradeBegin(j) \/ ResolveRetire(j)
      BY <1>9, <2>2 DEF UpgradeBegin, ResolveRetire, Idle
    <2> QED BY <1>9, <2>1, <2>2
  <1>10. CASE CreateSubmit \/ CreateReady \/ CliAnswer \/ CreateComplete \/ CreateRecord
    <2>1. op.kind = "create"
      BY <1>10 DEF CreateSubmit, CreateReady, CliAnswer, CreateComplete, CreateRecord,
                   ConsoleInv, OpShape
    <2>2. op'.kind # "revoke"
      <3>1. CASE CreateSubmit \/ CreateReady \/ CreateComplete
        BY <1>1, <2>1, <3>1 DEF CreateSubmit, CreateReady, CreateComplete, GoTo, OpType
      <3>2. CASE CliAnswer
        BY <1>1, <3>2 DEF CliAnswer, StartFinish, OpType
      <3>3. CASE CreateRecord
        BY <1>1, <2>1, <3>3 DEF CreateRecord, GoTo, Fail, Idle, OpType
      <3> QED BY <1>10, <3>1, <3>2, <3>3
    <2> QED BY <1>2, <2>2
  <1>11. ASSUME NEW n \in Node, op' # Idle, op.kind # "revoke" \/ ~RolloutNode(n),
                RolloutNode(n) \/ UndoNode(n) \/ RolloutFails(n)
         PROVE  op'.kind # "revoke"
    <2>1. op'.kind = op.kind
      BY <1>1, <1>11 DEF RolloutNode, UndoNode, RolloutFails, Fail, OpType
    <2>2. UndoNode(n) => op.kind # "revoke"
      BY DEF UndoNode, ConsoleInv, OpShape
    <2>3. RolloutFails(n) => op.kind # "revoke"
      BY <1>11 DEF RolloutFails, Fail
    <2> QED BY <1>11, <2>1, <2>2, <2>3
  <1> QED BY <1>2, <1>3, <1>4, <1>6, <1>7, <1>8, <1>9, <1>10, <1>11, OpSteps

LEMMA TrackStep == ConsoleInv /\ TrackInv /\ [ConsoleNext]_vars => TrackInv'
  BY RestingStep, OutcomeStep, RolloutListedStep, RevokeDoneStep DEF TrackInv

\* No step brings a revoked chain back to a node, or retires a chain some node still runs.
LEMMA RevokedStep ==
  ConsoleInv /\ TrackInv /\ RevokedStaysOff /\ [ConsoleNext]_vars => RevokedStaysOff'
  <1> SUFFICES ASSUME ConsoleInv, TrackInv, RevokedStaysOff, [ConsoleNext]_vars,
                      NEW j \in Gone(ledger)' \ Live(ledger)', outcome'[j] = "completed",
                      NEW n \in Node
               PROVE  j \notin track'[n]
    BY DEF RevokedStaysOff
  <1>1. j \in Job /\ track \in [Node -> SUBSET Job] /\ outcome \in [Job -> Outcomes]
    BY DEF Gone, ConsoleInv, ConsoleTypeOK
  <1>2. CASE outcome[j] = "completed" /\ j \in Gone(ledger) \ Live(ledger)
    <2>1. j \notin track[n]
      BY <1>2 DEF RevokedStaysOff
    <2>2. j \notin op.target
      BY <1>1, <1>2 DEF TrackInv, OutcomeSound, RolloutListed
    <2>3. track'[n] \in {track[n], op.target}
      BY <1>1, TrackSteps
    <2> QED BY <2>1, <2>2, <2>3
  <1>3. CASE outcome[j] = "completed" /\ j \notin Gone(ledger) \ Live(ledger)
    <2>1. j # pending
      BY <1>1, <1>3 DEF TrackInv, OutcomeSound
    <2>2. \A k \in Job : ResolveRetire(k) => k = pending
      BY DEF ResolveRetire
    <2>3. RevokeRecord /\ op.kind = "revoke" /\ op.copy.live[op.job] = 1 /\ j = op.job
      BY <1>3, <2>1, <2>2, ListSteps
    <2>4. op.at = "verify" /\ track' = track
      BY <2>3 DEF RevokeRecord
    <2> QED BY <2>3, <2>4 DEF TrackInv, RevokeDone
  <1>4. CASE outcome[j] # "completed"
    <2>1. CreateArchive /\ op.job = pending /\ j = pending /\ UNCHANGED ledger
      BY <1>1, <1>4, JournalSteps
    <2>2. j \in Live(ledger)
      BY <2>1 DEF CreateArchive, TrackInv, RolloutListed
    <2> QED BY <2>1, <2>2
  <1> QED BY <1>2, <1>3, <1>4

LEMMA TrackInit == ConsoleInit => TrackInv /\ RevokedStaysOff
  BY DEF ConsoleInit, TrackInv, Resting, OutcomeSound, RolloutListed, RevokeDone, RevokedStaysOff,
         Idle

\* A chain whose revocation is on record (thuHoiChain) is tracked by no node again, whatever
\* creation, recovery, upgrade or undo rolls a list out after it.
THEOREM RevokedChainsStayOff == ConsoleSpec => []RevokedStaysOff
  BY TrackInit, TrackStep, RevokedStep, Invariance, PTL DEF ConsoleSpec

\* A list that is rolled out, or restored by an undo, lacks no live chain but the one a
\* revocation is about.
KeepsListed ==
  op.at \in {"rollout", "undo"} =>
    Live(ledger) \ (IF op.kind = "revoke" THEN {op.job} ELSE {}) \subseteq op.target

LEMMA KeepsListedStep == ConsoleInv /\ KeepsListed /\ [ConsoleNext]_vars => KeepsListed'
  <1> SUFFICES ASSUME ConsoleInv, KeepsListed, [ConsoleNext]_vars PROVE KeepsListed'
    OBVIOUS
  <1>1. op \in OpType /\ ledger \in LedgerType
    BY DEF ConsoleInv, ConsoleTypeOK
  <1>2. CASE op'.at \notin {"rollout", "undo"}
    BY <1>2 DEF KeepsListed
  <1>3. ASSUME op.at \in {"rollout", "undo"}, op'.target = op.target, op'.kind = op.kind, op'.job = op.job
        PROVE  KeepsListed'
    <2>1. ~CreateRecord
      BY <1>3 DEF CreateRecord
    <2>2. Live(ledger)' \subseteq Live(ledger)
      BY <2>1, ListSteps
    <2> QED BY <1>3, <2>2 DEF KeepsListed
  <1>4. CASE UNCHANGED op
    BY <1>2, <1>3, <1>4
  <1>5. CASE op' = Idle
    BY <1>2, <1>5 DEF Idle
  <1>6. ASSUME NEW j \in Job, NEW n \in Name, NEW c \in ChainId, NEW w \in Wallet,
               CreateBegin(j, n, c, w)
        PROVE  op'.at \notin {"rollout", "undo"}
    BY <1>6 DEF CreateBegin, Idle
  <1>7. ASSUME NEW j \in Job, ResolveAdopt(j) PROVE KeepsListed'
    <2>1. Live(ledger) \subseteq op'.target /\ UNCHANGED ledger
      BY <1>1, <1>7 DEF ResolveAdopt, StartFinish, OpType
    <2> QED BY <2>1 DEF KeepsListed
  <1>8. ASSUME NEW j \in Job, RevokeBegin(j), op' # op PROVE KeepsListed'
    <2> DEFINE new == [ledger EXCEPT !.marked = @ \cup {j}]
    <2>1. /\ op'.kind = "revoke" /\ op'.job = j /\ op'.target = KeptByRevoke(j)
          /\ ledger' = new
      BY <1>8 DEF RevokeBegin, Save
    <2>2. new.live = ledger.live /\ new.retired = ledger.retired
      BY <1>1 DEF LedgerType
    <2>3. Live(ledger) \ {j} \subseteq Live([ledger EXCEPT !.live[j] = @ - 1])
      BY <1>1 DEF LedgerType, Live
    <2>4. Live(new) = Live(ledger)
      BY <2>2, SameLists
    <2> QED BY <2>1, <2>3, <2>4 DEF KeepsListed, KeptByRevoke
  <1>9. ASSUME NEW j \in Job, UpgradeBegin(j) PROVE KeepsListed'
    <2>1. Live(ledger) \subseteq op'.target /\ UNCHANGED ledger
      BY <1>9 DEF UpgradeBegin, Idle
    <2> QED BY <2>1 DEF KeepsListed
  <1>10. ASSUME NEW j \in Job, ResolveRetire(j), op' # op PROVE op'.at \notin {"rollout", "undo"}
    BY <1>10 DEF ResolveRetire, Idle
  <1>11. CASE CreateSubmit \/ CreateReady \/ CreateComplete
    <2>1. op'.at \notin {"rollout", "undo"}
      BY <1>1, <1>11 DEF CreateSubmit, CreateReady, CreateComplete, GoTo, OpType
    <2> QED BY <1>2, <2>1
  <1>12. CASE CreateRecord
    <2>1. op'.at \notin {"rollout", "undo"}
      BY <1>1, <1>12 DEF CreateRecord, GoTo, Fail, Idle, OpType
    <2> QED BY <1>2, <2>1
  <1>13. CASE CliAnswer
    <2>1. op.copy.live = ledger.live /\ op.copy.retired = ledger.retired
      BY <1>13 DEF CliAnswer, ConsoleInv, OpShape, CopyFresh
    <2>2. Live(op.copy) = Live(ledger)
      BY <2>1, SameLists
    <2>3. Live(ledger) \subseteq op'.target /\ UNCHANGED ledger
      BY <1>1, <1>13, <2>2 DEF CliAnswer, StartFinish, OpType
    <2> QED BY <2>3 DEF KeepsListed
  <1>14. ASSUME NEW n \in Node, RolloutNode(n) \/ UndoNode(n), op' # Idle PROVE KeepsListed'
    <2>1. /\ op.at \in {"rollout", "undo"}
          /\ op'.target = op.target /\ op'.kind = op.kind /\ op'.job = op.job
      BY <1>1, <1>14 DEF RolloutNode, UndoNode, OpType
    <2> QED BY <1>3, <2>1
  <1>15. ASSUME NEW n \in Node, RolloutFails(n), op' # Idle PROVE KeepsListed'
    <2>1. op'.target = Live(ledger) /\ UNCHANGED ledger
      BY <1>1, <1>15 DEF RolloutFails, Fail, OpType
    <2> QED BY <2>1 DEF KeepsListed
  <1> QED BY <1>2, <1>4, <1>5, <1>6, <1>7, <1>8, <1>9, <1>10, <1>11, <1>12, <1>13, <1>14, <1>15, OpSteps

\* A listed chain that is not being revoked stays on every node that tracks it, through the
\* rollouts of every other chain and through every undo (finishChainLaunch, thuHoiChain,
\* napCapChain, hoanTacNangCap).
THEOREM UnrelatedChainsStay == ConsoleSpec => UnrelatedStaysTracked
  <1>1. ConsoleInit => KeepsListed
    BY DEF ConsoleInit, KeepsListed, Idle
  <1> DEFINE Keep == \A n \in Node : \A j \in Live(ledger) \cap track[n] :
                       (At("revoke", "rollout") /\ op.job = j) \/ j \in track'[n]
  <1>2. ConsoleInv /\ KeepsListed /\ [ConsoleNext]_vars => [Keep]_vars
    <2> SUFFICES ASSUME ConsoleInv, KeepsListed, [ConsoleNext]_vars,
                        NEW n \in Node, NEW j \in Live(ledger) \cap track[n],
                        ~(At("revoke", "rollout") /\ op.job = j)
                 PROVE  j \in track'[n]
      OBVIOUS
    <2>1. track \in [Node -> SUBSET Job]
      BY DEF ConsoleInv, ConsoleTypeOK
    <2>2. CASE UNCHANGED track
      BY <2>2
    <2>3. ASSUME NEW m \in Node, RolloutNode(m) \/ RolloutFails(m) \/ UndoNode(m),
                 track' = [track EXCEPT ![m] = op.target]
          PROVE  j \in track'[n]
      <3>1. op.at = "rollout" \/ (op.at = "undo" /\ op.kind = "upgrade")
        BY <2>3 DEF RolloutNode, RolloutFails, UndoNode, ConsoleInv, OpShape
      <3>2. j \in op.target
        BY <3>1 DEF KeepsListed, At
      <3> QED BY <2>1, <2>3, <3>2
    <2> QED BY <2>2, <2>3, TrackSteps
  <1>3. ConsoleSpec => [][Keep]_vars
    BY <1>1, <1>2, KeepsListedStep, Invariance, PTL DEF ConsoleSpec
  <1> QED BY <1>3 DEF UnrelatedStaysTracked

-----------------------------------------------------------------------------
(* The ceiling. *)

\* The live chains and the pending one fit into the places there are.
SlotKept == Cardinality(Live(ledger) \cup ({pending} \cap Job)) <= MaxL1

LEMMA PlacesFinite ==
  /\ \A S \in SUBSET Job : IsFiniteSet(S) /\ Cardinality(S) \in Nat
  /\ \A S, T \in SUBSET Job : S \subseteq T => Cardinality(S) <= Cardinality(T)
  <1>1. \A S \in SUBSET Job : IsFiniteSet(S) /\ Cardinality(S) \in Nat
    BY ConsoleConstants, FS_Subset, FS_CardinalityType
  <1>2. \A S, T \in SUBSET Job : S \subseteq T => Cardinality(S) <= Cardinality(T)
    BY <1>1, FS_Subset
  <1> QED BY <1>1, <1>2

LEMMA RecordsFinite == IsFiniteSet(LiveRecords(ledger))
  <1>1. MaxRecords \in Nat /\ IsFiniteSet(Job)
    BY ConsoleConstants
  <1>2. IsFiniteSet(1..MaxRecords)
    BY <1>1, FS_Interval
  <1>3. IsFiniteSet(Job \X (1..MaxRecords))
    BY <1>1, <1>2, FS_Product
  <1> QED BY <1>3, FS_Subset DEF LiveRecords

\* A live chain has a first record: planChain counts no fewer records than chains.
LEMMA RecordsCoverChains ==
  ASSUME ConsoleTypeOK
  PROVE  Cardinality(Live(ledger)) <= Cardinality(LiveRecords(ledger))
  <1>1. MaxRecords \in Nat /\ MaxRecords > 0 /\ ledger.live \in [Job -> Nat]
    BY ConsoleConstants DEF ConsoleTypeOK, LedgerType
  <1>3. IsFiniteSet(LiveRecords(ledger))
    BY RecordsFinite
  <1> DEFINE first == [j \in Live(ledger) |-> <<j, 1>>]
  <1>4. first \in Injection(Live(ledger), LiveRecords(ledger))
    BY <1>1 DEF Injection, IsInjective, Live, LiveRecords
  <1> HIDE DEF first
  <1> QED BY <1>3, <1>4, FS_Injection

LEMMA SlotStep == ConsoleInv /\ SlotKept /\ [ConsoleNext]_vars => SlotKept'
  <1> SUFFICES ASSUME ConsoleInv, SlotKept, [ConsoleNext]_vars PROVE SlotKept'
    OBVIOUS
  <1> DEFINE S == Live(ledger) \cup ({pending} \cap Job)
             T == Live(ledger)' \cup ({pending'} \cap Job)
  <1>1. S \in SUBSET Job /\ T \in SUBSET Job /\ MaxL1 \in Nat
    BY ConsoleConstants DEF Live
  <1>2. ASSUME NEW j \in Job, NEW n \in Name, NEW c \in ChainId, NEW w \in Wallet,
               CreateBegin(j, n, c, w)
        PROVE  Cardinality(T) <= MaxL1
    <2>1. T = Live(ledger) \cup {j}
      BY <1>2 DEF CreateBegin
    <2>2. IsFiniteSet(Live(ledger)) /\ Cardinality(Live(ledger)) \in Nat
      BY <1>1, PlacesFinite
    <2>3. Cardinality(T) <= Cardinality(Live(ledger)) + 1
      <3>1. Cardinality(T) = IF j \in Live(ledger) THEN Cardinality(Live(ledger))
                                                  ELSE Cardinality(Live(ledger)) + 1
        BY <2>1, <2>2, FS_AddElement
      <3> QED BY <2>2, <3>1
    <2>4. IsFiniteSet(LiveRecords(ledger))
      BY RecordsFinite
    <2>5. Cardinality(LiveRecords(ledger)) \in Nat /\ Cardinality(LiveRecords(ledger)) < MaxL1
      BY <1>2, <2>4, FS_CardinalityType DEF CreateBegin, SlotLeft
    <2>6. Cardinality(Live(ledger)) <= Cardinality(LiveRecords(ledger))
      BY RecordsCoverChains DEF ConsoleInv
    <2>7. Cardinality(T) \in Nat
      BY <1>1, PlacesFinite
    <2> QED BY <1>1, <2>2, <2>3, <2>5, <2>6, <2>7
  <1>3. CASE T \subseteq S
    <2>1. Cardinality(T) <= Cardinality(S) /\ Cardinality(T) \in Nat /\ Cardinality(S) \in Nat
      BY <1>1, <1>3, PlacesFinite
    <2> QED BY <1>1, <2>1 DEF SlotKept
  <1>4. T \subseteq S \/ \E j \in Job, n \in Name, c \in ChainId, w \in Wallet : CreateBegin(j, n, c, w)
    <2>1. Live(ledger)' \subseteq S
      BY ListSteps
    <2>2. \/ pending' \in {pending, NoJob}
          \/ \E j \in Job, n \in Name, c \in ChainId, w \in Wallet : CreateBegin(j, n, c, w)
      BY JournalSteps
    <2> QED BY <2>1, <2>2, ConsoleConstants
  <1> QED BY <1>2, <1>3, <1>4 DEF SlotKept

\* No list that trackSubnetsLanLuot is given holds more subnets than A1_MAX_L1: a pending
\* creation keeps its place from its reservation to its resolution.
THEOREM RolloutsWithinCeiling == ConsoleSpec => []RolloutWithinCeiling
  <1>1. ConsoleInit => SlotKept
    <2> SUFFICES ASSUME ConsoleInit PROVE SlotKept
      OBVIOUS
    <2>1. Live(ledger) \cup ({pending} \cap Job) = {}
      BY ConsoleConstants DEF ConsoleInit, EmptyLedger, Live
    <2> QED BY <2>1, ConsoleConstants, FS_EmptySet DEF SlotKept
  <1>2. ConsoleInv /\ TrackInv /\ SlotKept => RolloutWithinCeiling
    <2> SUFFICES ASSUME ConsoleInv, TrackInv, SlotKept PROVE RolloutWithinCeiling
      OBVIOUS
    <2> DEFINE S == Live(ledger) \cup ({pending} \cap Job)
    <2>1. op.target \subseteq S /\ S \in SUBSET Job /\ op.target \in SUBSET Job
      BY DEF TrackInv, RolloutListed, ConsoleInv, ConsoleTypeOK, OpType, Live
    <2>2. /\ Cardinality(op.target) <= Cardinality(S)
          /\ Cardinality(op.target) \in Nat /\ Cardinality(S) \in Nat /\ MaxL1 \in Nat
      BY <2>1, PlacesFinite, ConsoleConstants
    <2> QED BY <2>2 DEF SlotKept, RolloutWithinCeiling
  <1> QED BY <1>1, <1>2, TrackInit, TrackStep, SlotStep, Invariance, PTL DEF ConsoleSpec

-----------------------------------------------------------------------------
(* The console implements the registry of identities. *)

\* The two functions the registry's variables stand for, and the statuses as conditions.
Statuses == [j \in Job |-> Status(j)]

Identities == [j \in Job |-> IF plan[j] = NoPlan THEN [named |-> FALSE]
                             ELSE [named |-> TRUE, name |-> plan[j].name, cid |-> plan[j].cid]]

StatusIs(j) ==
  /\ Status(j) = "retired" <=> j \in Gone(ledger)
  /\ Status(j) = "live" <=> j \in Live(ledger) \ Gone(ledger)
  /\ Status(j) = "reserved" <=> j \notin Recorded(ledger) /\ pending = j
  /\ Status(j) = "void" <=> j \notin Recorded(ledger) /\ pending # j /\ outcome[j] = "discarded"
  /\ Status(j) = "free" <=> j \notin Recorded(ledger) /\ pending # j /\ outcome[j] # "discarded"
  /\ Status(j) \in {"retired", "live", "reserved", "void", "free"}

LEMMA StatusFacts == \A j \in Job : StatusIs(j) /\ StatusIs(j)'
  BY DEF StatusIs, Status, Recorded

LEMMA InitRefines == ConsoleInit => Registry!RegistryInit
  <1> SUFFICES ASSUME ConsoleInit PROVE Registry!RegistryInit
    OBVIOUS
  <1>1. Live(ledger) = {} /\ Gone(ledger) = {}
    BY DEF ConsoleInit, EmptyLedger, Live, Gone
  <1>2. \A j \in Job : Status(j) = "free" /\ plan[j] = NoPlan
    BY <1>1, StatusFacts, ConsoleConstants DEF ConsoleInit, StatusIs, Recorded
  <1> QED BY <1>2 DEF Registry!RegistryInit, Registry!Unnamed

\* A step that leaves the plans and every status but one alone changes that one only.
LEMMA OneStatus ==
  ASSUME NEW j \in Job, UNCHANGED plan, \A k \in Job : k # j => Status(k)' = Status(k)
  PROVE  /\ Statuses' = [Statuses EXCEPT ![j] = Status(j)']
         /\ Identities' = Identities
  BY DEF Statuses, Identities

\* What a change of one status is in the registry.
LEMMA OneMove ==
  ASSUME NEW j \in Job, UNCHANGED plan, \A k \in Job : k # j => Status(k)' = Status(k),
         \/ Status(j)' = Status(j)
         \/ Status(j) = "reserved" /\ Status(j)' \in {"void", "live", "retired"}
         \/ Status(j) = "live" /\ Status(j)' = "retired"
  PROVE  [Registry!RegistryNext]_(Registry!regvars)
  <1>1. /\ Statuses' = [Statuses EXCEPT ![j] = Status(j)'] /\ Identities' = Identities
        /\ Statuses[j] = Status(j)
    BY OneStatus DEF Statuses
  <1>2. CASE Status(j)' = Status(j)
    BY <1>1, <1>2 DEF Statuses, Identities, Registry!regvars
  <1>3. CASE Status(j) = "reserved" /\ Status(j)' = "void"
    BY <1>1, <1>3 DEF Statuses, Identities, Registry!RegistryNext, Registry!GiveBack
  <1>4. CASE Status(j) = "reserved" /\ Status(j)' = "live"
    BY <1>1, <1>4 DEF Statuses, Identities, Registry!RegistryNext, Registry!Admit
  <1>5. CASE Status(j) \in {"reserved", "live"} /\ Status(j)' = "retired"
    BY <1>1, <1>5 DEF Statuses, Identities, Registry!RegistryNext, Registry!Retire
  <1> QED BY <1>2, <1>3, <1>4, <1>5

\* A reservation takes a name and a number no held chain has.
LEMMA ReserveRefines ==
  ASSUME ConsoleInv, OutcomeSound, NEW j \in Job, NEW n \in Name, NEW c \in ChainId, NEW w \in Wallet,
         CreateBegin(j, n, c, w)
  PROVE  Registry!Reserve(j, n, c)
  <1> DEFINE i == [named |-> TRUE, name |-> n, cid |-> c]
  <1>1. /\ plan \in [Job -> Plan \cup {NoPlan}]
        /\ plan' = [plan EXCEPT ![j] = [name |-> n, cid |-> c, admin |-> w]]
        /\ pending = NoJob /\ pending' = j /\ UNCHANGED <<ledger, outcome>>
        /\ phase[j] = "free"
    BY DEF CreateBegin, ConsoleInv, ConsoleTypeOK
  <1>2. j \notin Recorded(ledger) /\ outcome[j] = "open"
    <2>1. j \notin pchain
      BY <1>1 DEF ConsoleInv, JournalSound
    <2> QED BY <1>1, <2>1 DEF ConsoleInv, JournalSound, OutcomeSound
  <1>3. Status(j) = "free" /\ Status(j)' = "reserved"
    BY <1>1, <1>2, StatusFacts, ConsoleConstants DEF StatusIs
  <1>4. \A k \in Job : k # j => Status(k)' = Status(k)
    BY <1>1, StatusFacts, ConsoleConstants DEF Status
  <1>5. Statuses' = [Statuses EXCEPT ![j] = "reserved"] /\ Statuses[j] = "free"
    BY <1>3, <1>4 DEF Statuses
  <1>6. Identities' = [Identities EXCEPT ![j] = i]
    <2>1. [name |-> n, cid |-> c, admin |-> w] # NoPlan
      BY ConsoleConstants DEF Plan
    <2>2. \A k \in Job : k # j => plan'[k] = plan[k]
      BY <1>1
    <2>3. plan'[j] = [name |-> n, cid |-> c, admin |-> w]
      BY <1>1
    <2>4. /\ plan'[j] # NoPlan /\ plan'[j].name = n /\ plan'[j].cid = c
      BY <2>1, <2>3
    <2>5. \A k \in Job : Identities'[k] = IF k = j THEN i ELSE Identities[k]
      BY <2>2, <2>4 DEF Identities
    <2> HIDE DEF i
    <2> QED BY <2>5 DEF Identities
  <1>7. ASSUME NEW k \in Job, Statuses[k] \in {"reserved", "live", "retired"}
        PROVE  Identities[k].name # n /\ Identities[k].cid # c
    <2>1. Status(k) \in {"reserved", "live", "retired"}
      BY <1>7 DEF Statuses
    <2>2. k \in Recorded(ledger)
      BY <1>1, <2>1, StatusFacts, ConsoleConstants DEF StatusIs, Recorded
    <2>3. plan[k].name # n /\ plan[k].cid # c
      BY <2>2 DEF CreateBegin, Free, NameUnused, NumberUnused
    <2>4. plan[k] # NoPlan
      <3>1. phase[k] # "free"
        BY <2>2 DEF ConsoleInv, JournalSound
      <3> QED BY <3>1, ConsoleConstants DEF ConsoleInv, JournalSound
    <2> QED BY <2>3, <2>4 DEF Identities
  <1> QED BY <1>5, <1>6, <1>7 DEF Registry!Reserve, Registry!Holding, Statuses, Identities

LEMMA StepRefines ==
  ASSUME ConsoleInv, OutcomeSound, [ConsoleNext]_vars
  PROVE  [Registry!RegistryNext]_(Registry!regvars)
  <1> DEFINE Moved == [Registry!RegistryNext]_(Registry!regvars)
  <1> SUFFICES Moved
    OBVIOUS
  <1> HIDE DEF Moved
  <1>1. ASSUME NEW j \in Job, NEW n \in Name, NEW c \in ChainId, NEW w \in Wallet,
               CreateBegin(j, n, c, w)
        PROVE  Moved
    BY <1>1, ReserveRefines DEF Moved, Registry!RegistryNext
  <1>2. ASSUME NEW j \in Job, j = pending, pending' = NoJob, UNCHANGED <<ledger, plan>>,
               outcome'[j] = "discarded" \/ j \in Recorded(ledger),
               \A k \in Job : k # j => outcome'[k] = outcome[k]
        PROVE  Moved
    <2>1. \A k \in Job : k # j => Status(k)' = Status(k)
      BY <1>2, ConsoleConstants DEF Status
    <2>2. CASE j \in Recorded(ledger)
      <3>1. Status(j)' = Status(j)
        BY <1>2, <2>2 DEF Status, Recorded
      <3> QED BY <1>2, <2>1, <3>1, OneMove DEF Moved
    <2>3. CASE j \notin Recorded(ledger)
      <3>1. j \notin Recorded(ledger)' /\ pending' # j /\ outcome'[j] = "discarded"
        BY <1>2, <2>3, ConsoleConstants
      <3>2. Status(j) = "reserved" /\ Status(j)' = "void"
        BY <1>2, <2>3, <3>1, StatusFacts DEF StatusIs
      <3> QED BY <1>2, <2>1, <3>2, OneMove DEF Moved
    <2> QED BY <2>2, <2>3
  <1>3. CASE UNCHANGED <<pending, outcome, plan>>
    <2>1. ASSUME NEW j \in Job,
                 \A k \in Job : k # j => /\ k \in Live(ledger)' <=> k \in Live(ledger)
                                         /\ k \in Gone(ledger)' <=> k \in Gone(ledger)
          PROVE  \A k \in Job : k # j => Status(k)' = Status(k)
      <3>1. ASSUME NEW k \in Job, k # j PROVE Status(k)' = Status(k)
        <4>1. (k \in Live(ledger)' <=> k \in Live(ledger)) /\ (k \in Gone(ledger)' <=> k \in Gone(ledger))
          BY <2>1, <3>1
        <4> QED BY <1>3, <4>1 DEF Status, Recorded
      <3> QED BY <3>1
    <2>2. CASE Live(ledger)' = Live(ledger) /\ Gone(ledger)' = Gone(ledger)
      <3>1. \A k \in Job : Status(k)' = Status(k)
        BY <1>3, <2>2 DEF Status, Recorded
      <3>2. Statuses' = Statuses /\ Identities' = Identities
        BY <1>3, <3>1 DEF Statuses, Identities
      <3> QED BY <3>2 DEF Moved, Statuses, Identities, Registry!regvars
    <2>3. ASSUME NEW j \in Job, j = pending,
                 Live(ledger)' = Live(ledger) \cup {j}, Gone(ledger)' = Gone(ledger)
          PROVE  Moved
      <3>1. \A k \in Job : k # j => Status(k)' = Status(k)
        BY <2>1, <2>3
      <3>2. \/ Status(j)' = Status(j)
            \/ Status(j) = "reserved" /\ Status(j)' = "live"
        BY <2>3, StatusFacts DEF StatusIs, Recorded
      <3> QED BY <1>3, <3>1, <3>2, OneMove DEF Moved
    <2>4. ASSUME NEW j \in Job, j = pending \/ j \in Live(ledger), Gone(ledger)' = Gone(ledger) \cup {j},
                 Live(ledger)' \in {Live(ledger), Live(ledger) \ {j}}
          PROVE  Moved
      <3>1. \A k \in Job : k # j => Status(k)' = Status(k)
        BY <2>1, <2>4
      <3>2. Status(j) \in {"retired", "live", "reserved"} /\ Status(j)' = "retired"
        BY <2>4, StatusFacts DEF StatusIs, Recorded
      <3> QED BY <1>3, <3>1, <3>2, OneMove DEF Moved
    <2>5. op.job \in Live(ledger) => op.job \in Job
      BY DEF Live
    <2>6. \A j \in Job : ResolveRetire(j) => j = pending
      BY DEF ResolveRetire
    <2> QED BY <2>2, <2>3, <2>4, <2>5, <2>6, ListSteps
  <1>4. CASE /\ pending \in Job /\ pending' = NoJob /\ UNCHANGED <<ledger, plan>>
             /\ \/ outcome' = [outcome EXCEPT ![pending] = "discarded"]
                \/ (CreateArchive \/ ResolveRetired) /\ op.job = pending
                     /\ \E o \in Outcomes : outcome' = [outcome EXCEPT ![pending] = o]
    <2>1. PICK j \in Job : j = pending
      BY <1>4
    <2>2. CreateArchive \/ ResolveRetired => op.job \in Recorded(ledger)
      BY DEF CreateArchive, ResolveRetired, ConsoleInv, OpPhase
    <2>3. outcome \in [Job -> Outcomes]
      BY DEF ConsoleInv, ConsoleTypeOK
    <2>4. /\ outcome'[j] = "discarded" \/ j \in Recorded(ledger)
          /\ \A k \in Job : k # j => outcome'[k] = outcome[k]
      BY <1>4, <2>1, <2>2, <2>3
    <2> QED BY <1>2, <1>4, <2>1, <2>4
  <1>5. "completed" \in Outcomes /\ "retired" \in Outcomes
    BY DEF Outcomes
  <1> QED BY <1>1, <1>3, <1>4, <1>5, JournalSteps

\* Seen as statuses and identities of jobs, the console only reserves free identities, gives
\* back what never reached the P-chain, admits and retires: ImplementsRegistry.
THEOREM ConsoleIsARegistry == ConsoleSpec => ImplementsRegistry
  <1>1. ConsoleInit => OutcomeSound
    BY DEF ConsoleInit, OutcomeSound
  <1>2. ConsoleInv /\ OutcomeSound /\ [ConsoleNext]_vars => [Registry!RegistryNext]_(Registry!regvars)
    BY StepRefines
  <1> QED BY <1>1, <1>2, InitRefines, OutcomeStep, Invariance, PTL
          DEF ConsoleSpec, ImplementsRegistry, Registry!RegistrySpec

-----------------------------------------------------------------------------
(* The console's operations as steps of a reservation book. *)

\* Only the pending creation is open.
OpenIsPending == \A j \in Job : phase[j] # "free" /\ outcome[j] = "open" => pending = j

\* What is about to be archived is complete, and what is about to be closed as retired has
\* been submitted.
CloseReady == /\ op.at = "archive" => phase[op.job] = "complete"
              /\ op.at = "resolve" => phase[op.job] # "prepared"

BookReady == OutcomeSound /\ OpenIsPending /\ CloseReady

\* The steps that touch what the book sees.
LEMMA BookSteps ==
  ASSUME [ConsoleNext]_vars
  PROVE  \/ UNCHANGED <<phase, outcome, pending>>
         \/ \E j \in Job : \E n \in Name, c \in ChainId, w \in Wallet : CreateBegin(j, n, c, w)
         \/ CreateSubmit \/ CliAnswer \/ CreateComplete
         \/ \E j \in Job : ResolveAdopt(j) \/ ResolveDiscard(j)
         \/ CreateAbort \/ CreateArchive \/ ResolveRetired
  BY DEF ConsoleNext, vars, journal, CliLost, CreateReady, CreateNotReady, CreateRecord,
         CreateCompleteRefused, CliAccept, CliExit, ResolveRetire, RolloutNode, RolloutFails,
         UndoNode, RevokeBegin, UpgradeBegin, RevokeStillServed, RevokeRecord, UpgradeRecord,
         TransferBegin, TransferCommit, TransferFails, Crash, ReconcileLedger

LEMMA OpenIsPendingStep ==
  ASSUME ConsoleInv, OpenIsPending, [ConsoleNext]_vars
  PROVE  OpenIsPending'
  <1> USE DEF ConsoleInv
  <1>1. /\ phase \in [Job -> Phases] /\ outcome \in [Job -> Outcomes]
        /\ pending # NoJob => phase[pending] # "free"
    BY DEF ConsoleTypeOK, JournalSound
  <1>2. CASE UNCHANGED <<phase, outcome, pending>>
    BY <1>2 DEF OpenIsPending
  <1>3. ASSUME NEW j \in Job, NEW n \in Name, NEW c \in ChainId, NEW w \in Wallet,
               CreateBegin(j, n, c, w)
        PROVE  OpenIsPending'
    <2>1. /\ pending = NoJob /\ pending' = j /\ outcome' = outcome
          /\ phase' = [phase EXCEPT ![j] = "prepared"]
      BY <1>3 DEF CreateBegin
    <2> QED BY <1>1, <2>1, ConsoleConstants DEF OpenIsPending
  <1>4. CASE CreateSubmit \/ CliAnswer \/ CreateComplete
    <2>1. op.job \in Job /\ op.job = pending /\ UNCHANGED <<outcome, pending>>
      BY <1>4 DEF CreateSubmit, CliAnswer, CreateComplete, OpShape, OpHoldsJob
    <2>2. \A k \in Job : k # op.job => phase'[k] = phase[k]
      BY <1>1, <1>4 DEF CreateSubmit, CliAnswer, CreateComplete
    <2> QED BY <2>1, <2>2 DEF OpenIsPending
  <1>5. ASSUME NEW j \in Job, ResolveAdopt(j)
        PROVE  OpenIsPending'
    <2>1. pending = j /\ UNCHANGED <<outcome, pending>>
      BY <1>5 DEF ResolveAdopt
    <2>2. \A k \in Job : k # j => phase'[k] = phase[k]
      BY <1>1, <1>5 DEF ResolveAdopt
    <2> QED BY <2>1, <2>2 DEF OpenIsPending
  <1>6. ASSUME NEW o, o # "open", pending \in Job, UNCHANGED phase,
               outcome' = [outcome EXCEPT ![pending] = o]
        PROVE  OpenIsPending'
    BY <1>1, <1>6 DEF OpenIsPending
  <1>7. CASE CreateAbort \/ CreateArchive \/ ResolveRetired \/ \E j \in Job : ResolveDiscard(j)
    <2>1. /\ pending \in Job /\ UNCHANGED phase
          /\ \E o \in {"discarded", "completed", "retired"} :
               outcome' = [outcome EXCEPT ![pending] = o]
      BY <1>7 DEF CreateAbort, CreateArchive, ResolveRetired, ResolveDiscard, OpShape, OpHoldsJob
    <2> QED BY <1>6, <2>1
  <1> QED BY <1>2, <1>3, <1>4, <1>5, <1>7, BookSteps

LEMMA CloseReadyStep ==
  ASSUME ConsoleInv, CloseReady, [ConsoleNext]_vars
  PROVE  CloseReady'
  <1> USE DEF ConsoleInv
  <1>1. CASE UNCHANGED <<op, phase>>
    BY <1>1 DEF CloseReady
  <1>2. ASSUME op'.at \notin {"archive", "resolve"}
        PROVE  CloseReady'
    BY <1>2 DEF CloseReady
  <1>3. CASE UNCHANGED op /\ ~UNCHANGED phase
    BY <1>3, BookSteps DEF CreateBegin, CreateSubmit, CliAnswer, CreateComplete, ResolveAdopt,
       ResolveDiscard, CreateAbort, CreateArchive, ResolveRetired, GoTo, StartFinish, QueueFree,
       Idle, ConsoleTypeOK, OpType
  <1>4. CASE op' = Idle
    BY <1>2, <1>4 DEF Idle
  <1>5. ASSUME NEW j \in Job, NEW n \in Name, NEW c \in ChainId, NEW w \in Wallet,
               CreateBegin(j, n, c, w)
        PROVE  op'.at = "prepared"
    BY <1>5 DEF CreateBegin, Idle
  <1>6. ASSUME NEW j \in Job, ResolveAdopt(j) \/ RevokeBegin(j) \/ UpgradeBegin(j), op' # op
        PROVE  op'.at = "rollout"
    <2>1. op \in OpType
      BY DEF ConsoleTypeOK
    <2>2. CASE ResolveAdopt(j)
      BY <2>1, <2>2 DEF ResolveAdopt, StartFinish, OpType
    <2>3. CASE RevokeBegin(j)
      BY <1>6, <2>3 DEF RevokeBegin
    <2>4. CASE UpgradeBegin(j)
      BY <2>4 DEF UpgradeBegin, Idle
    <2> QED BY <1>6, <2>2, <2>3, <2>4
  <1>7. ASSUME NEW j \in Job, ResolveRetire(j), op' # op
        PROVE  CloseReady'
    <2>1. op' = [Idle EXCEPT !.kind = "retire", !.at = "resolve", !.job = j]
          /\ UNCHANGED phase /\ phase[j] # "prepared"
      BY <1>7 DEF ResolveRetire, OnPChain, journal
    <2>2. op'.at = "resolve" /\ op'.job = j
      BY <2>1 DEF Idle
    <2> QED BY <2>1, <2>2 DEF CloseReady
  <1>8. CASE CreateComplete
    <2>1. /\ op \in OpType /\ phase \in [Job -> Phases] /\ op.job \in Job
          /\ phase' = [phase EXCEPT ![op.job] = "complete"]
          /\ op' = [op EXCEPT !.at = "archive"]
      BY <1>8 DEF CreateComplete, GoTo, ConsoleTypeOK, OpShape
    <2>2. op'.at = "archive" /\ op'.job = op.job /\ phase'[op.job] = "complete"
      BY <2>1 DEF OpType
    <2> QED BY <2>2 DEF CloseReady
  <1>9. CASE CreateSubmit \/ CreateReady \/ CliAnswer \/ CreateRecord
    BY <1>2, <1>4, <1>9 DEF CreateSubmit, CreateReady, CliAnswer, CreateRecord, GoTo, Fail,
       StartFinish, ConsoleTypeOK, OpType
  <1>10. ASSUME NEW n \in Node, RolloutNode(n) \/ UndoNode(n) \/ RolloutFails(n), op' # Idle
         PROVE  op'.at \notin {"archive", "resolve"}
    <2>1. op \in OpType
      BY DEF ConsoleTypeOK
    <2>2. CASE RolloutNode(n)
      <3>1. AfterRollout[op.kind] \notin {"archive", "resolve"}
        BY <2>2 DEF RolloutNode, OpShape, AfterRollout
      <3> QED BY <2>1, <2>2, <3>1 DEF RolloutNode, OpType
    <2>3. CASE UndoNode(n)
      BY <1>10, <2>1, <2>3 DEF UndoNode, OpType
    <2>4. CASE RolloutFails(n)
      BY <1>10, <2>1, <2>4 DEF RolloutFails, Fail, OpType
    <2> QED BY <1>10, <2>2, <2>3, <2>4
  <1> QED BY <1>1, <1>2, <1>3, <1>4, <1>5, <1>6, <1>7, <1>8, <1>9, <1>10, OpSteps

LEMMA BookReadyStep == ConsoleInv /\ BookReady /\ [ConsoleNext]_vars => BookReady'
  BY OutcomeStep, OpenIsPendingStep, CloseReadyStep DEF BookReady

\* A step of the console is one step of the book, or none: a reservation is taken when none
\* is open, the phases follow one another, and each way of closing is one the phase permits.
LEMMA BookStep ==
  ASSUME ConsoleInv, BookReady, [ConsoleNext]_vars
  PROVE  [Book!BookNext]_<<phase, outcome>>
  <1> USE DEF ConsoleInv
  <1>1. /\ phase \in [Job -> Phases] /\ outcome \in [Job -> Outcomes]
        /\ pending # NoJob => pending \in Job /\ phase[pending] # "free"
                              /\ outcome[pending] = "open"
    BY DEF ConsoleTypeOK, JournalSound, BookReady, OutcomeSound
  <1>2. CASE UNCHANGED <<phase, outcome, pending>>
    BY <1>2
  <1>3. ASSUME NEW j \in Job, NEW n \in Name, NEW c \in ChainId, NEW w \in Wallet,
               CreateBegin(j, n, c, w)
        PROVE  Book!Reserve(j)
    <2>1. /\ pending = NoJob /\ phase[j] = "free" /\ outcome' = outcome
          /\ phase' = [phase EXCEPT ![j] = "prepared"]
      BY <1>3 DEF CreateBegin
    <2>2. \A k \in Job : ~Book!Open(k)
      BY <2>1, ConsoleConstants DEF BookReady, OpenIsPending, Book!Open
    <2> QED BY <2>1, <2>2 DEF Book!Reserve
  <1>4. ASSUME NEW j \in Job, NEW p, pending = j, phase[j] \in {"prepared", "submitting", "created"},
               p = Book!Following[phase[j]],
               phase' = [phase EXCEPT ![j] = p], outcome' = outcome
        PROVE  Book!Advance(j)
    BY <1>1, <1>4, ConsoleConstants DEF Book!Advance, Book!Open, Book!Following
  <1>5. CASE CreateSubmit \/ CliAnswer \/ CreateComplete
    <2>1. op.job \in Job /\ op.job = pending /\ outcome' = outcome
      BY <1>5 DEF CreateSubmit, CliAnswer, CreateComplete, OpShape, OpHoldsJob
    <2>2. \/ phase[op.job] = "prepared" /\ phase' = [phase EXCEPT ![op.job] = "submitting"]
          \/ phase[op.job] = "submitting" /\ phase' = [phase EXCEPT ![op.job] = "created"]
          \/ phase[op.job] = "created" /\ phase' = [phase EXCEPT ![op.job] = "complete"]
      BY <1>5 DEF CreateSubmit, CliAnswer, CreateComplete, OpPhase
    <2>3. /\ Book!Following["prepared"] = "submitting"
          /\ Book!Following["submitting"] = "created"
          /\ Book!Following["created"] = "complete"
      BY DEF Book!Following
    <2>4. Book!Advance(op.job)
      BY <1>4, <2>1, <2>2, <2>3
    <2> QED BY <2>1, <2>4 DEF Book!BookNext
  <1>6. ASSUME NEW j \in Job, ResolveAdopt(j)
        PROVE  Book!Advance(j) \/ UNCHANGED <<phase, outcome>>
    <2>1. /\ pending = j /\ outcome' = outcome
          /\ phase' = [phase EXCEPT ![j] = IF @ = "submitting" THEN "created" ELSE @]
      BY <1>6 DEF ResolveAdopt
    <2>2. CASE phase[j] = "submitting"
      <3>1. Book!Following[phase[j]] = "created"
        BY <2>2 DEF Book!Following
      <3> QED BY <1>1, <1>4, <2>1, <2>2, <3>1
    <2>3. CASE phase[j] # "submitting"
      BY <1>1, <2>1, <2>3
    <2> QED BY <2>2, <2>3
  <1>7. ASSUME NEW v, v \in Book!Verdicts, pending \in Job, Book!Permits(phase[pending], v),
               outcome' = [outcome EXCEPT ![pending] = v], UNCHANGED phase
        PROVE  Book!BookNext
    <2>1. Book!Close(pending, v)
      BY <1>1, <1>7, ConsoleConstants DEF Book!Close, Book!Open
    <2> QED BY <1>7, <2>1 DEF Book!BookNext
  <1>8. CASE CreateAbort \/ \E j \in Job : ResolveDiscard(j)
    <2>1. /\ pending \in Job /\ UNCHANGED phase /\ phase[pending] # "created"
          /\ outcome' = [outcome EXCEPT ![pending] = "discarded"]
      BY <1>8 DEF CreateAbort, ResolveDiscard, MayDiscard, OpShape, OpHoldsJob, OpPhase
    <2> QED BY <1>7, <2>1 DEF Book!Permits, Book!Verdicts
  <1>9. CASE CreateArchive
    <2>1. /\ pending \in Job /\ UNCHANGED phase /\ phase[pending] = "complete"
          /\ outcome' = [outcome EXCEPT ![pending] = "completed"]
      BY <1>9 DEF CreateArchive, OpShape, OpHoldsJob, BookReady, CloseReady
    <2> QED BY <1>7, <2>1 DEF Book!Permits, Book!Verdicts
  <1>10. CASE ResolveRetired
    <2>1. /\ pending \in Job /\ UNCHANGED phase /\ phase[pending] # "prepared"
          /\ outcome' = [outcome EXCEPT ![pending] = "retired"]
      BY <1>10 DEF ResolveRetired, OpShape, OpHoldsJob, BookReady, CloseReady
    <2> QED BY <1>7, <2>1 DEF Book!Permits, Book!Verdicts
  <1>11. \A j \in Job : Book!Reserve(j) \/ Book!Advance(j) => Book!BookNext
    BY DEF Book!BookNext
  <1> QED BY <1>2, <1>3, <1>5, <1>6, <1>8, <1>9, <1>10, <1>11, <1>4, BookSteps

\* The console's operations keep what the journal promises: one creation open at a time, its
\* phases in their order, and a verdict that its phase permits and that nothing changes
\* (creation-journal.mjs, as server.mjs uses it, through every crash of the console).
THEOREM ConsoleIsABook == ConsoleSpec => ImplementsBook
  <1>1. ConsoleInit => BookReady
    BY DEF ConsoleInit, BookReady, OutcomeSound, OpenIsPending, CloseReady, Idle
  <1>2. ConsoleInit => Book!BookInit
    BY DEF ConsoleInit, Book!BookInit
  <1>3. ConsoleInv /\ BookReady /\ [ConsoleNext]_vars => [Book!BookNext]_<<phase, outcome>>
    BY BookStep
  <1>4. Book!bookVars = <<phase, outcome>>
    BY DEF Book!bookVars
  <1> QED BY <1>1, <1>2, <1>3, <1>4, BookReadyStep, Invariance, PTL
         DEF ConsoleSpec, ImplementsBook, Book!BookSpec, Book!bookVars

-----------------------------------------------------------------------------
(* What would mend three properties that the console does not have.  Each    *)
(* fails in a run or a configuration; each holds of the behaviours without    *)
(* the one kind of step that its counterexample takes.                        *)

\* While the running operation will still write back the ledger it read.
HoldsCopy == op.kind = "revoke" \/ (op.kind = "create" /\ op.at \notin {"complete", "archive"})

\* A transfer does not commit between another operation's read of the ledger and its write.
CommitsWait == \A s \in Slot, k \in Job : TransferCommit(s, k) => ~HoldsCopy

\* What is listed already is not adopted, nor entered as retired, once more.
AdoptsUnlisted == \A j \in Job : ResolveAdopt(j) \/ ResolveRetire(j) => j \notin Recorded(ledger)

\* A job in its last phase is not discarded.
DiscardsUnfinished == \A j \in Job : ResolveDiscard(j) => phase[j] # "complete"

-----------------------------------------------------------------------------
(* Owners. *)

OwnersInv == /\ HoldsCopy => op.copy.owner = ledger.owner
             /\ \A j \in Job : ackOwner[j] # NoWallet =>
                                 j \in Recorded(ledger) /\ ledger.owner[j] = ackOwner[j]

\* A record that is pushed for a listed chain keeps its owner.
LEMMA PushKeepsOwners ==
  ASSUME NEW l \in LedgerType, NEW j \in Job
  PROVE  /\ \A k \in Recorded(l) : PushLive(l, j).owner[k] = l.owner[k]
         /\ \A k \in Recorded(l) : PushRetired(l, j).owner[k] = l.owner[k]
  <1> DEFINE o == IF j \in Recorded(l) THEN l.owner[j] ELSE plan[j].admin
  <1>1. /\ PushLive(l, j) = [l EXCEPT !.live[j] = @ + 1, !.owner[j] = o]
        /\ PushRetired(l, j) = [l EXCEPT !.retired[j] = @ + 1, !.owner[j] = o]
    BY DEF PushLive, PushRetired
  <1>2. j \in Recorded(l) => o = l.owner[j]
    OBVIOUS
  <1> HIDE DEF o
  <1>3. /\ PushLive(l, j).owner = [l.owner EXCEPT ![j] = o]
        /\ PushRetired(l, j).owner = [l.owner EXCEPT ![j] = o]
        /\ l.owner \in [Job -> Wallet \cup {NoWallet}]
    BY <1>1 DEF LedgerType
  <1>4. Recorded(l) \subseteq Job
    BY DEF Recorded, Live, Gone
  <1> QED BY <1>2, <1>3, <1>4

\* The steps that tell a client who owns a chain.
LEMMA AckSteps ==
  ASSUME [ConsoleNext]_vars
  PROVE  UNCHANGED ackOwner \/ CreateArchive \/ \E s \in Slot, k \in Job : TransferCommit(s, k)
  <1>1. \/ CreateAbort \/ CreateSubmit \/ CliAnswer \/ CliLost \/ CreateReady \/ CreateNotReady
        \/ CreateRecord \/ CreateComplete \/ CreateCompleteRefused \/ ResolveRetired
        \/ RevokeStillServed \/ RevokeRecord \/ UpgradeRecord \/ Crash \/ ReconcileLedger
        \/ UNCHANGED vars
        => UNCHANGED ackOwner
    BY DEF vars, acks, CreateAbort, CreateSubmit, CliAnswer, CliLost, CreateReady, CreateNotReady,
           CreateRecord, CreateComplete, CreateCompleteRefused, ResolveRetired, RevokeStillServed,
           RevokeRecord, UpgradeRecord, Crash, ReconcileLedger
  <1>2. \A j \in Job : CliAccept(j) \/ CliExit(j) \/ ResolveDiscard(j) \/ ResolveRetire(j)
                       \/ ResolveAdopt(j) => UNCHANGED ackOwner
    BY DEF acks, CliAccept, CliExit, ResolveDiscard, ResolveRetire, ResolveAdopt
  <1>3. /\ \A j \in Job, n \in Name, c \in ChainId, w \in Wallet :
             CreateBegin(j, n, c, w) => UNCHANGED ackOwner
        /\ \A n \in Node : RolloutNode(n) \/ RolloutFails(n) \/ UndoNode(n) => UNCHANGED ackOwner
    BY DEF acks, CreateBegin, RolloutNode, RolloutFails, UndoNode
  <1>4. \A j \in Job : RevokeBegin(j) \/ UpgradeBegin(j) => UNCHANGED ackOwner
    BY DEF acks, RevokeBegin, UpgradeBegin
  <1>5. /\ \A s \in Slot, j \in Job, w \in Wallet : TransferBegin(s, j, w) => UNCHANGED ackOwner
        /\ \A s \in Slot : TransferFails(s) => UNCHANGED ackOwner
    BY DEF acks, TransferBegin, TransferFails
  <1> QED BY <1>1, <1>2, <1>3, <1>4, <1>5 DEF ConsoleNext

\* The owners on record change when a transfer commits; a record that is pushed brings the
\* owner of a chain that had none.
LEMMA OwnerSteps ==
  ASSUME ConsoleInv, OwnersInv, [ConsoleNext]_vars, CommitsWait
  PROVE  \/ ledger'.owner = ledger.owner /\ UNCHANGED ackOwner
         \/ CreateArchive /\ UNCHANGED ledger
         \/ /\ \A k \in Recorded(ledger) : ledger'.owner[k] = ledger.owner[k]
            /\ UNCHANGED ackOwner /\ ~HoldsCopy'
         \/ \E k \in Live(ledger), w \in Wallet \cup {NoWallet} :
              /\ ledger'.owner \in {ledger.owner, [ledger.owner EXCEPT ![k] = w]}
              /\ \/ ackOwner' = [ackOwner EXCEPT ![k] = NoWallet]
                 \/ /\ ackOwner' = [ackOwner EXCEPT ![k] = w]
                    /\ ledger'.owner = [ledger.owner EXCEPT ![k] = w]
              /\ UNCHANGED op /\ ~HoldsCopy
  <1> USE DEF ConsoleInv
  <1>1. ledger \in LedgerType /\ op.copy \in LedgerType /\ op \in OpType
    BY DEF ConsoleTypeOK, OpType
  <1>2. CASE CreateRecord
    <2>1. op.kind = "create" /\ op.at = "save" /\ op.job \in Job
      BY <1>2 DEF CreateRecord, OpShape
    <2>2. /\ op.copy.owner = ledger.owner
          /\ Recorded(op.copy) = Recorded(ledger)
      BY <2>1, SameLists DEF OwnersInv, HoldsCopy, CopyFresh
    <2>3. \A k \in Recorded(ledger) : PushLive(op.copy, op.job).owner[k] = ledger.owner[k]
      BY <1>1, <2>1, <2>2, PushKeepsOwners
    <2>4. ledger' \in {ledger, PushLive(op.copy, op.job)} /\ UNCHANGED ackOwner
      BY <1>2, SaveFacts DEF CreateRecord, acks
    <2>5. op' = Idle \/ op' = [op EXCEPT !.at = "complete"]
      BY <1>2 DEF CreateRecord, GoTo, Fail
    <2>6. ~HoldsCopy'
      BY <1>1, <2>1, <2>5 DEF HoldsCopy, Idle, OpType
    <2> QED BY <2>3, <2>4, <2>6
  <1>3. CASE RevokeRecord
    <2>1. op.kind = "revoke" /\ op.job \in Job
      BY <1>3 DEF RevokeRecord, OpShape
    <2>2. Splice(op.copy, op.job).owner = ledger.owner
      BY <1>1, <2>1 DEF Splice, LedgerType, OwnersInv, HoldsCopy
    <2>3. ledger' \in {ledger, Splice(op.copy, op.job)} /\ UNCHANGED ackOwner
      BY <1>3, SaveFacts DEF RevokeRecord, acks
    <2> QED BY <2>2, <2>3
  <1>4. ASSUME NEW j \in Job, ResolveRetire(j)
        PROVE  /\ \A k \in Recorded(ledger) : ledger'.owner[k] = ledger.owner[k]
               /\ UNCHANGED ackOwner /\ ~HoldsCopy'
    <2>1. \A k \in Recorded(ledger) : PushRetired(ledger, j).owner[k] = ledger.owner[k]
      BY <1>1, PushKeepsOwners
    <2>2. ledger' \in {ledger, PushRetired(ledger, j)} /\ UNCHANGED ackOwner
      BY <1>4, SaveFacts DEF ResolveRetire, acks
    <2>3. op' = op \/ op' = [Idle EXCEPT !.kind = "retire", !.at = "resolve", !.job = j]
      BY <1>4 DEF ResolveRetire
    <2>4. op.kind = "none"
      BY <1>4 DEF ResolveRetire, QueueFree, OpShape
    <2>5. ~HoldsCopy'
      BY <2>3, <2>4 DEF HoldsCopy, Idle
    <2> QED BY <2>1, <2>2, <2>5
  <1>5. ASSUME NEW j \in Job, RevokeBegin(j)
        PROVE  ledger'.owner = ledger.owner /\ UNCHANGED ackOwner
    <2>1. ledger' \in {ledger, [ledger EXCEPT !.marked = @ \cup {j}]} /\ UNCHANGED ackOwner
      BY <1>5, SaveFacts DEF RevokeBegin, acks
    <2> QED BY <1>1, <2>1 DEF LedgerType
  <1>6. CASE UpgradeRecord
    <2>1. ledger' \in {ledger, [ledger EXCEPT !.upgrades[op.job] = @ + 1]} /\ UNCHANGED ackOwner
      BY <1>6, SaveFacts DEF UpgradeRecord
    <2> QED BY <1>1, <2>1 DEF LedgerType
  <1>7. ASSUME NEW s \in Slot, NEW k \in Job, TransferCommit(s, k)
        PROVE  \E w \in Wallet \cup {NoWallet} :
                 /\ k \in Live(ledger)
                 /\ ledger'.owner \in {ledger.owner, [ledger.owner EXCEPT ![k] = w]}
                 /\ \/ ackOwner' = [ackOwner EXCEPT ![k] = NoWallet]
                    \/ /\ ackOwner' = [ackOwner EXCEPT ![k] = w]
                       /\ ledger'.owner = [ledger.owner EXCEPT ![k] = w]
                 /\ UNCHANGED op /\ ~HoldsCopy
    <2> DEFINE new == [ledger EXCEPT !.owner[k] = transfer[s].to]
    <2>1. new.owner = [ledger.owner EXCEPT ![k] = transfer[s].to]
      BY <1>1 DEF LedgerType
    <2>2. transfer[s].to \in Wallet \cup {NoWallet}
      BY DEF ConsoleTypeOK
    <2>3. /\ k \in Live(ledger) /\ UNCHANGED op
          /\ \/ Save(new) /\ ackOwner' = [ackOwner EXCEPT ![k] = transfer[s].to]
             \/ SaveThrows(new) /\ ackOwner' = [ackOwner EXCEPT ![k] = NoWallet]
      BY <1>7 DEF TransferCommit
    <2>4. ~HoldsCopy
      BY <1>7 DEF CommitsWait
    <2> HIDE DEF new
    <2>5. Save(new) => ledger' = new
      BY DEF Save
    <2>6. ledger' \in {ledger, new}
      BY <2>3, SaveFacts
    <2> QED BY <2>1, <2>2, <2>3, <2>4, <2>5, <2>6
  <1>8. CASE UNCHANGED <<ledger, ackOwner>>
    BY <1>8
  <1>9. CreateArchive => UNCHANGED ledger
    BY DEF CreateArchive
  <1> QED BY <1>2, <1>3, <1>4, <1>5, <1>6, <1>7, <1>8, <1>9, LedgerSteps, AckSteps

LEMMA OwnersStep ==
  ASSUME ConsoleInv, OwnersInv, [ConsoleNext]_vars, CommitsWait
  PROVE  OwnersInv'
  <1>1. /\ ledger.owner \in [Job -> Wallet \cup {NoWallet}]
        /\ ackOwner \in [Job -> Wallet \cup {NoWallet}]
        /\ Recorded(ledger) \subseteq Recorded(ledger)'
        /\ Live(ledger) \subseteq Recorded(ledger) /\ Recorded(ledger) \subseteq Job
    <2>1. ledger \in LedgerType /\ ackOwner \in [Job -> Wallet \cup {NoWallet}]
      BY DEF ConsoleInv, ConsoleTypeOK
    <2>2. Recorded(ledger) \subseteq Recorded(ledger)'
      BY EveryStepGrows DEF Grows
    <2>3. Live(ledger) \subseteq Recorded(ledger) /\ Recorded(ledger) \subseteq Job
      BY DEF Recorded, Live, Gone
    <2> QED BY <2>1, <2>2, <2>3 DEF LedgerType
  <1>2. HoldsCopy' /\ ledger'.owner = ledger.owner => op'.copy.owner = ledger'.owner
    BY CopySteps DEF OwnersInv, HoldsCopy
  <1>3. CASE ledger'.owner = ledger.owner /\ UNCHANGED ackOwner
    BY <1>1, <1>2, <1>3 DEF OwnersInv
  <1>4. CASE CreateArchive /\ UNCHANGED ledger
    <2>1. /\ op.job \in Recorded(ledger)
          /\ ackOwner' = [ackOwner EXCEPT ![op.job] = ledger.owner[op.job]]
      BY <1>4 DEF CreateArchive, ConsoleInv, OpPhase
    <2>2. \A j \in Job : ackOwner'[j] = IF j = op.job THEN ledger.owner[j] ELSE ackOwner[j]
      BY <1>1, <2>1
    <2> QED BY <1>1, <1>2, <1>4, <2>1, <2>2 DEF OwnersInv
  <1>5. CASE /\ \A k \in Recorded(ledger) : ledger'.owner[k] = ledger.owner[k]
             /\ UNCHANGED ackOwner /\ ~HoldsCopy'
    BY <1>1, <1>5 DEF OwnersInv
  <1>6. ASSUME NEW k \in Live(ledger), NEW w \in Wallet \cup {NoWallet},
               ledger'.owner \in {ledger.owner, [ledger.owner EXCEPT ![k] = w]},
               \/ ackOwner' = [ackOwner EXCEPT ![k] = NoWallet]
               \/ /\ ackOwner' = [ackOwner EXCEPT ![k] = w]
                  /\ ledger'.owner = [ledger.owner EXCEPT ![k] = w],
               UNCHANGED op, ~HoldsCopy
        PROVE  OwnersInv'
    <2>1. \A j \in Job \ {k} : ledger'.owner[j] = ledger.owner[j] /\ ackOwner'[j] = ackOwner[j]
      BY <1>1, <1>6
    <2>2. ackOwner'[k] = NoWallet \/ ackOwner'[k] = ledger'.owner[k]
      BY <1>1, <1>6
    <2>3. ~HoldsCopy'
      BY <1>6 DEF HoldsCopy
    <2> QED BY <1>1, <2>1, <2>2, <2>3 DEF OwnersInv
  <1> QED BY <1>3, <1>4, <1>5, <1>6, OwnerSteps

\* AckedOwnerKept, which the console_lost_update run refutes, fails for want of this alone: the
\* owner last confirmed to a client is the one on record if no transfer commits while a creation
\* or a revocation holds the ledger it will write back (executeChainLaunch, thuHoiChain, doiChu).
THEOREM OwnersStayIfCommitsWait == ConsoleSpec /\ [][CommitsWait]_vars => []AckedOwnerKept
  <1>1. ConsoleInit => OwnersInv
    BY DEF ConsoleInit, OwnersInv, HoldsCopy, Idle
  <1>2. ConsoleInv /\ OwnersInv /\ [ConsoleNext]_vars /\ [CommitsWait]_vars => OwnersInv'
    <2> SUFFICES ASSUME ConsoleInv, OwnersInv, [ConsoleNext]_vars, [CommitsWait]_vars
                 PROVE  OwnersInv'
      OBVIOUS
    <2>1. CASE CommitsWait
      BY <2>1, OwnersStep
    <2>2. CASE UNCHANGED vars
      BY <2>2 DEF vars, acks, OwnersInv, HoldsCopy
    <2> QED BY <2>1, <2>2
  <1>3. OwnersInv => AckedOwnerKept
    BY DEF OwnersInv, AckedOwnerKept, Live
  <1> QED BY <1>1, <1>2, <1>3, Invariance, PTL DEF ConsoleSpec

-----------------------------------------------------------------------------
(* Records. *)

\* A chain is recorded once, and one that is being created not at all before its record is
\* pushed.
RecordsOnceInv ==
  /\ OneRecordPerChain
  /\ op.kind = "create" /\ op.at \notin {"complete", "archive"} => op.job \notin Recorded(ledger)

\* The counts move by one record of one chain.
LEMMA CountSteps ==
  ASSUME ConsoleInv, [ConsoleNext]_vars
  PROVE  \/ ledger'.live = ledger.live /\ ledger'.retired = ledger.retired
         \/ /\ CreateRecord /\ op.job \in Job /\ op.kind = "create" /\ op.at = "save"
            /\ ledger'.live = [ledger.live EXCEPT ![op.job] = @ + 1]
            /\ ledger'.retired = ledger.retired
         \/ \E j \in Job : /\ ResolveRetire(j)
                           /\ ledger'.live = ledger.live
                           /\ ledger'.retired = [ledger.retired EXCEPT ![j] = @ + 1]
         \/ /\ RevokeRecord /\ op.job \in Job /\ ledger.live[op.job] > 0
            /\ ledger'.live = [ledger.live EXCEPT ![op.job] = @ - 1]
            /\ ledger'.retired = [ledger.retired EXCEPT ![op.job] = @ + 1]
  <1> USE DEF ConsoleInv
  <1>1. ledger \in LedgerType /\ op.copy \in LedgerType
    BY DEF ConsoleTypeOK, OpType
  <1>2. CASE CreateRecord
    <2>1. /\ op.kind = "create" /\ op.at = "save" /\ op.job \in Job
          /\ op.copy.live = ledger.live /\ op.copy.retired = ledger.retired
      BY <1>2 DEF CreateRecord, OpShape, CopyFresh
    <2>2. /\ PushLive(op.copy, op.job).live = [ledger.live EXCEPT ![op.job] = @ + 1]
          /\ PushLive(op.copy, op.job).retired = ledger.retired
      BY <1>1, <2>1 DEF PushLive, LedgerType
    <2>3. ledger' \in {ledger, PushLive(op.copy, op.job)}
      BY <1>2, SaveFacts DEF CreateRecord
    <2> QED BY <1>2, <2>1, <2>2, <2>3
  <1>3. ASSUME NEW j \in Job, ResolveRetire(j)
        PROVE  /\ ledger'.live = ledger.live
               /\ ledger'.retired \in {ledger.retired, [ledger.retired EXCEPT ![j] = @ + 1]}
    <2>1. /\ PushRetired(ledger, j).live = ledger.live
          /\ PushRetired(ledger, j).retired = [ledger.retired EXCEPT ![j] = @ + 1]
      BY <1>1 DEF PushRetired, LedgerType
    <2>2. ledger' \in {ledger, PushRetired(ledger, j)}
      BY <1>3, SaveFacts DEF ResolveRetire
    <2> QED BY <2>1, <2>2
  <1>4. CASE RevokeRecord
    <2>1. /\ op.job \in Job /\ op.copy.live[op.job] > 0
          /\ op.copy.live = ledger.live /\ op.copy.retired = ledger.retired
      BY <1>4 DEF RevokeRecord, OpShape, CopyFresh
    <2>2. /\ Splice(op.copy, op.job).live = [ledger.live EXCEPT ![op.job] = @ - 1]
          /\ Splice(op.copy, op.job).retired = [ledger.retired EXCEPT ![op.job] = @ + 1]
      BY <1>1, <2>1 DEF Splice, LedgerType
    <2>3. ledger' \in {ledger, Splice(op.copy, op.job)}
      BY <1>4, SaveFacts DEF RevokeRecord
    <2> QED BY <1>4, <2>1, <2>2, <2>3
  <1>5. CASE \/ \E j \in Job : RevokeBegin(j)
             \/ UpgradeRecord
             \/ \E s \in Slot, k \in Job : TransferCommit(s, k)
    <2>1. \/ \E j \in Job : ledger' \in {ledger, [ledger EXCEPT !.marked = @ \cup {j}]}
          \/ ledger' \in {ledger, [ledger EXCEPT !.upgrades[op.job] = @ + 1]}
          \/ \E s \in Slot, k \in Job : ledger' \in {ledger, [ledger EXCEPT !.owner[k] = transfer[s].to]}
      BY <1>5, SaveFacts DEF RevokeBegin, UpgradeRecord, TransferCommit
    <2> QED BY <1>1, <2>1 DEF LedgerType
  <1>6. CASE UNCHANGED ledger
    BY <1>6
  <1> QED BY <1>2, <1>3, <1>4, <1>5, <1>6, LedgerSteps

\* The operation that creates a chain is a creation that began, an adoption, or the one that
\* was running.
LEMMA CreatorSteps ==
  ASSUME ConsoleInv, [ConsoleNext]_vars, op'.kind = "create", op'.at \notin {"complete", "archive"}
  PROVE  \/ \E j \in Job : /\ op'.job = j
                           /\ \/ ResolveAdopt(j)
                              \/ \E n \in Name, c \in ChainId, w \in Wallet : CreateBegin(j, n, c, w)
         \/ /\ op.kind = "create" /\ op.job = op'.job /\ op.at \notin {"complete", "archive"}
            /\ ~CreateRecord
  <1> USE DEF ConsoleInv
  <1>1. op \in OpType
    BY DEF ConsoleTypeOK
  <1>2. CASE op' = op
    BY <1>1, <1>2 DEF CreateRecord, GoTo, Fail, Idle, OpType
  <1>3. CASE op' = Idle
    BY <1>3 DEF Idle
  <1>4. ASSUME NEW j \in Job, NEW n \in Name, NEW c \in ChainId, NEW w \in Wallet,
               CreateBegin(j, n, c, w)
        PROVE  op'.job = j
    BY <1>4 DEF CreateBegin, Idle
  <1>5. ASSUME NEW j \in Job, ResolveAdopt(j)
        PROVE  op'.job = j
    BY <1>1, <1>5 DEF ResolveAdopt, StartFinish, OpType
  <1>6. ASSUME NEW j \in Job, RevokeBegin(j) \/ UpgradeBegin(j) \/ ResolveRetire(j), op' # op
        PROVE  op'.kind # "create"
    <2>1. CASE RevokeBegin(j)
      BY <1>6, <2>1 DEF RevokeBegin
    <2>2. CASE UpgradeBegin(j) \/ ResolveRetire(j)
      BY <1>6, <2>2 DEF UpgradeBegin, ResolveRetire, Idle
    <2> QED BY <1>6, <2>1, <2>2
  <1>7. CASE CreateSubmit \/ CreateReady \/ CliAnswer
    <2>1. op.kind = "create" /\ op.at \in {"prepared", "cli", "ready"} /\ op'.job = op.job
      BY <1>1, <1>7 DEF CreateSubmit, CreateReady, CliAnswer, GoTo, StartFinish, OpShape, OpType
    <2> QED BY <2>1 DEF CreateRecord
  <1>8. CASE CreateComplete \/ CreateRecord
    BY <1>1, <1>8 DEF CreateComplete, CreateRecord, GoTo, Fail, OpType, Idle
  <1>9. ASSUME NEW n \in Node, RolloutNode(n) \/ UndoNode(n) \/ RolloutFails(n), op' # Idle
        PROVE  op.at \in {"rollout", "undo"} /\ op'.kind = op.kind /\ op'.job = op.job
    BY <1>1, <1>9 DEF RolloutNode, UndoNode, RolloutFails, Fail, OpType
  <1> QED BY <1>2, <1>3, <1>4, <1>5, <1>6, <1>7, <1>8, <1>9, OpSteps DEF CreateRecord

LEMMA RecordsOnceStep ==
  ASSUME ConsoleInv, RecordsOnceInv, [ConsoleNext]_vars, AdoptsUnlisted
  PROVE  RecordsOnceInv'
  <1>1. /\ ledger \in LedgerType /\ \A j \in Job : ledger.live[j] \in Nat /\ ledger.retired[j] \in Nat
        /\ \A j \in Job : ledger.live[j] + ledger.retired[j] <= 1
    BY DEF ConsoleInv, ConsoleTypeOK, LedgerType, RecordsOnceInv, OneRecordPerChain
  <1>2. \A j \in Job : j \notin Recorded(ledger) => ledger.live[j] = 0 /\ ledger.retired[j] = 0
    BY <1>1 DEF Recorded, Live, Gone
  <1>3. OneRecordPerChain'
    <2>1. CASE ledger'.live = ledger.live /\ ledger'.retired = ledger.retired
      BY <1>1, <2>1 DEF OneRecordPerChain
    <2>2. CASE /\ op.job \in Job /\ op.kind = "create" /\ op.at = "save"
               /\ ledger'.live = [ledger.live EXCEPT ![op.job] = @ + 1]
               /\ ledger'.retired = ledger.retired
      <3>1. ledger.live[op.job] = 0 /\ ledger.retired[op.job] = 0
        BY <1>2, <2>2 DEF RecordsOnceInv
      <3> QED BY <1>1, <2>2, <3>1 DEF OneRecordPerChain, LedgerType
    <2>3. ASSUME NEW j \in Job, ResolveRetire(j), ledger'.live = ledger.live,
                 ledger'.retired = [ledger.retired EXCEPT ![j] = @ + 1]
          PROVE  OneRecordPerChain'
      <3>1. ledger.live[j] = 0 /\ ledger.retired[j] = 0
        BY <1>2, <2>3 DEF AdoptsUnlisted
      <3> QED BY <1>1, <2>3, <3>1 DEF OneRecordPerChain, LedgerType
    <2>4. CASE /\ op.job \in Job /\ ledger.live[op.job] > 0
               /\ ledger'.live = [ledger.live EXCEPT ![op.job] = @ - 1]
               /\ ledger'.retired = [ledger.retired EXCEPT ![op.job] = @ + 1]
      BY <1>1, <2>4 DEF OneRecordPerChain, LedgerType
    <2> QED BY <2>1, <2>2, <2>3, <2>4, CountSteps
  <1>4. ASSUME (op.kind = "create")', (op.at \notin {"complete", "archive"})'
        PROVE  op'.job \notin Recorded(ledger)'
    <2>1. ASSUME NEW j \in Job, NEW n \in Name, NEW c \in ChainId, NEW w \in Wallet,
                 CreateBegin(j, n, c, w)
          PROVE  j \notin Recorded(ledger) /\ UNCHANGED ledger
      BY <2>1 DEF CreateBegin, ConsoleInv, JournalSound
    <2>2. ASSUME NEW j \in Job, ResolveAdopt(j)
          PROVE  j \notin Recorded(ledger) /\ UNCHANGED ledger
      BY <2>2 DEF ResolveAdopt, AdoptsUnlisted
    <2>3. CASE op.kind = "create" /\ op.at \notin {"complete", "archive"} /\ op'.job = op.job /\ ~CreateRecord
      <3>1. op.job \notin Recorded(ledger) /\ op.at # "idle"
        BY <2>3 DEF RecordsOnceInv, ConsoleInv, OpShape
      <3>2. \A j \in Job : ~ResolveRetire(j)
        BY <3>1 DEF ResolveRetire, QueueFree
      <3>3. Recorded(ledger)' = Recorded(ledger)
        BY <2>3, <3>2, ListSteps DEF Recorded
      <3> QED BY <2>3, <3>1, <3>3
    <2> QED BY <1>4, <2>1, <2>2, <2>3, CreatorSteps
  <1> QED BY <1>3, <1>4 DEF RecordsOnceInv

\* OneRecordPerChain, which console_double_record.cfg refutes: each chain has one record, in one
\* list, if resolveCreation adopts, or enters as retired, no chain the ledger lists already.
THEOREM RecordedOnceIfAdoptsUnlisted == ConsoleSpec /\ [][AdoptsUnlisted]_vars => []OneRecordPerChain
  <1>1. ConsoleInit => RecordsOnceInv
    BY DEF ConsoleInit, RecordsOnceInv, OneRecordPerChain, Idle, EmptyLedger
  <1>2. ConsoleInv /\ RecordsOnceInv /\ [ConsoleNext]_vars /\ [AdoptsUnlisted]_vars => RecordsOnceInv'
    <2> SUFFICES ASSUME ConsoleInv, RecordsOnceInv, [ConsoleNext]_vars, [AdoptsUnlisted]_vars
                 PROVE  RecordsOnceInv'
      OBVIOUS
    <2>1. CASE AdoptsUnlisted
      BY <2>1, RecordsOnceStep
    <2>2. CASE UNCHANGED vars
      BY <2>2 DEF vars, RecordsOnceInv, OneRecordPerChain
    <2> QED BY <2>1, <2>2
  <1>3. RecordsOnceInv => OneRecordPerChain
    BY DEF RecordsOnceInv
  <1> QED BY <1>1, <1>2, <1>3, Invariance, PTL DEF ConsoleSpec

-----------------------------------------------------------------------------
(* Discarded jobs. *)

\* Nothing of a discarded job reached the P-chain, and no CLI of it runs.
DiscardedIsGone == \A j \in Job : outcome[j] = "discarded" => j \notin pchain \cup cli

\* The steps that reach the P-chain or a CLI, and those that close a job.
LEMMA WorldSteps ==
  ASSUME [ConsoleNext]_vars
  PROVE  UNCHANGED <<pchain, cli>> \/ CreateSubmit \/ \E j \in Job : CliAccept(j) \/ CliExit(j)
  <1>1. \/ CreateAbort \/ CliAnswer \/ CliLost \/ CreateReady \/ CreateNotReady
        \/ CreateRecord \/ CreateComplete \/ CreateCompleteRefused \/ CreateArchive
        \/ ResolveRetired \/ RevokeStillServed \/ RevokeRecord \/ UpgradeRecord \/ Crash
        \/ ReconcileLedger \/ UNCHANGED vars
        => UNCHANGED <<pchain, cli>>
    BY DEF vars, world, CreateAbort, CliAnswer, CliLost, CreateReady, CreateNotReady, CreateRecord,
           CreateComplete, CreateCompleteRefused, CreateArchive, ResolveRetired, RevokeStillServed,
           RevokeRecord, UpgradeRecord, Crash, ReconcileLedger
  <1>2. \A j \in Job : ResolveDiscard(j) \/ ResolveRetire(j) \/ ResolveAdopt(j)
                       => UNCHANGED <<pchain, cli>>
    BY DEF world, ResolveDiscard, ResolveRetire, ResolveAdopt
  <1>3. /\ \A j \in Job, n \in Name, c \in ChainId, w \in Wallet :
             CreateBegin(j, n, c, w) => UNCHANGED <<pchain, cli>>
        /\ \A n \in Node : RolloutNode(n) \/ RolloutFails(n) \/ UndoNode(n)
                            => UNCHANGED <<pchain, cli>>
    BY DEF world, CreateBegin, RolloutNode, RolloutFails, UndoNode
  <1>4. \A j \in Job : RevokeBegin(j) \/ UpgradeBegin(j) => UNCHANGED <<pchain, cli>>
    BY DEF world, RevokeBegin, UpgradeBegin
  <1>5. /\ \A s \in Slot, j \in Job, w \in Wallet :
             TransferBegin(s, j, w) => UNCHANGED <<pchain, cli>>
        /\ \A s \in Slot, k \in Job : TransferCommit(s, k) => UNCHANGED <<pchain, cli>>
        /\ \A s \in Slot : TransferFails(s) => UNCHANGED <<pchain, cli>>
    BY DEF world, TransferBegin, TransferCommit, TransferFails
  <1> QED BY <1>1, <1>2, <1>3, <1>4, <1>5 DEF ConsoleNext

LEMMA OutcomeSteps ==
  ASSUME [ConsoleNext]_vars
  PROVE  \/ UNCHANGED outcome \/ CreateAbort \/ CreateArchive \/ ResolveRetired
         \/ \E j \in Job : ResolveDiscard(j)
  <1>1. \/ CreateSubmit \/ CliAnswer \/ CliLost \/ CreateReady \/ CreateNotReady \/ CreateRecord
        \/ CreateComplete \/ CreateCompleteRefused \/ RevokeStillServed \/ RevokeRecord
        \/ UpgradeRecord \/ Crash \/ ReconcileLedger \/ UNCHANGED vars
        => UNCHANGED outcome
    BY DEF vars, journal, CreateSubmit, CliAnswer, CliLost, CreateReady, CreateNotReady,
           CreateRecord, CreateComplete, CreateCompleteRefused, RevokeStillServed, RevokeRecord,
           UpgradeRecord, Crash, ReconcileLedger
  <1>2. \A j \in Job : CliAccept(j) \/ CliExit(j) \/ ResolveRetire(j) \/ ResolveAdopt(j)
                       => UNCHANGED outcome
    BY DEF journal, CliAccept, CliExit, ResolveRetire, ResolveAdopt
  <1>3. /\ \A j \in Job, n \in Name, c \in ChainId, w \in Wallet :
             CreateBegin(j, n, c, w) => UNCHANGED outcome
        /\ \A n \in Node : RolloutNode(n) \/ RolloutFails(n) \/ UndoNode(n) => UNCHANGED outcome
    BY DEF journal, CreateBegin, RolloutNode, RolloutFails, UndoNode
  <1>4. \A j \in Job : RevokeBegin(j) \/ UpgradeBegin(j) => UNCHANGED outcome
    BY DEF journal, RevokeBegin, UpgradeBegin
  <1>5. /\ \A s \in Slot, j \in Job, w \in Wallet : TransferBegin(s, j, w) => UNCHANGED outcome
        /\ \A s \in Slot, k \in Job : TransferCommit(s, k) => UNCHANGED outcome
        /\ \A s \in Slot : TransferFails(s) => UNCHANGED outcome
    BY DEF journal, TransferBegin, TransferCommit, TransferFails
  <1> QED BY <1>1, <1>2, <1>3, <1>4, <1>5 DEF ConsoleNext

LEMMA DiscardedStep ==
  ASSUME ConsoleInv, OutcomeSound, DiscardedIsGone, [ConsoleNext]_vars, DiscardsUnfinished
  PROVE  DiscardedIsGone'
  <1> USE DEF ConsoleInv
  <1>1. outcome \in [Job -> Outcomes] /\ pchain \subseteq Job /\ cli \subseteq Job
    BY DEF ConsoleTypeOK
  <1>2. CASE UNCHANGED <<outcome, pchain>> /\ cli' \subseteq cli
    BY <1>2 DEF DiscardedIsGone
  <1>3. CASE CreateSubmit
    <2>1. /\ op.job \in Job /\ op.job = pending
          /\ UNCHANGED <<outcome, pchain>> /\ cli' = cli \cup {op.job}
      BY <1>3 DEF CreateSubmit, OpShape, OpHoldsJob
    <2> QED BY <2>1 DEF DiscardedIsGone, OutcomeSound
  <1>4. ASSUME NEW j \in Job, CliAccept(j) \/ CliExit(j)
        PROVE  DiscardedIsGone'
    BY <1>4 DEF CliAccept, CliExit, journal, DiscardedIsGone
  <1>5. ASSUME NEW j \in Job, j \notin pchain \cup cli, UNCHANGED <<pchain, cli>>,
               outcome' = [outcome EXCEPT ![j] = "discarded"]
        PROVE  DiscardedIsGone'
    BY <1>1, <1>5 DEF DiscardedIsGone
  <1>6. CASE CreateAbort
    <2>1. /\ op.job \in Job /\ op.job \notin pchain \cup cli /\ UNCHANGED <<pchain, cli>>
          /\ outcome' = [outcome EXCEPT ![op.job] = "discarded"]
      BY <1>6 DEF CreateAbort, world, OpShape, OpPhase, JournalSound
    <2> QED BY <1>5, <2>1
  <1>7. ASSUME NEW j \in Job, ResolveDiscard(j)
        PROVE  DiscardedIsGone'
    <2>1. /\ pending = j /\ phase[j] \in {"prepared", "submitting"}
          /\ phase[j] = "submitting" => j \notin pchain \cup cli
          /\ UNCHANGED <<pchain, cli>> /\ outcome' = [outcome EXCEPT ![j] = "discarded"]
      BY <1>7, ConsoleConstants DEF ResolveDiscard, MayDiscard, DiscardsUnfinished, world,
         JournalSound, ConsoleTypeOK, Phases
    <2>2. j \notin pchain \cup cli
      BY <2>1 DEF JournalSound
    <2> QED BY <1>5, <2>1, <2>2
  <1>8. ASSUME NEW o, o # "discarded", pending \in Job, UNCHANGED <<pchain, cli>>,
               outcome' = [outcome EXCEPT ![pending] = o]
        PROVE  DiscardedIsGone'
    BY <1>1, <1>8 DEF DiscardedIsGone
  <1>9. CASE CreateArchive \/ ResolveRetired
    <2>1. /\ op.job \in Job /\ op.job = pending /\ UNCHANGED <<pchain, cli>>
          /\ \E o \in {"completed", "retired"} : outcome' = [outcome EXCEPT ![op.job] = o]
      BY <1>9 DEF CreateArchive, ResolveRetired, world, OpShape, OpHoldsJob
    <2> QED BY <1>8, <2>1
  <1> QED BY <1>2, <1>3, <1>4, <1>6, <1>7, <1>9, WorldSteps, OutcomeSteps

\* DiscardedNeverAccepted, which a crash between the last phase and the move to history refutes:
\* a discarded job never reached the P-chain if resolveCreation refuses, as it does in phase
\* created, to discard a job in phase complete.
THEOREM DiscardsTrueIfUnfinished == ConsoleSpec /\ [][DiscardsUnfinished]_vars => []DiscardedNeverAccepted
  <1>1. ConsoleInit => OutcomeSound /\ DiscardedIsGone
    BY DEF ConsoleInit, OutcomeSound, DiscardedIsGone
  <1>2. ConsoleInv /\ OutcomeSound /\ DiscardedIsGone /\ [ConsoleNext]_vars /\ [DiscardsUnfinished]_vars
          => DiscardedIsGone'
    <2> SUFFICES ASSUME ConsoleInv, OutcomeSound, DiscardedIsGone, [ConsoleNext]_vars,
                        [DiscardsUnfinished]_vars
                 PROVE  DiscardedIsGone'
      OBVIOUS
    <2>1. CASE DiscardsUnfinished
      BY <2>1, DiscardedStep
    <2>2. CASE UNCHANGED vars
      BY <2>2 DEF vars, journal, world, DiscardedIsGone
    <2> QED BY <2>1, <2>2
  <1>3. DiscardedIsGone => DiscardedNeverAccepted
    BY DEF DiscardedIsGone, DiscardedNeverAccepted
  <1> QED BY <1>1, <1>2, <1>3, OutcomeStep, Invariance, PTL DEF ConsoleSpec
=============================================================================
