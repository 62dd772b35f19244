----------------------------- MODULE ConsoleOps -----------------------------
(***************************************************************************)
(* The mutations of the L1 console (local-net/console/server.mjs), at the  *)
(* granularity of its awaits and of its durable writes: creating a chain,  *)
(* resolving an interrupted creation, revoking, upgrading and handing over *)
(* a chain, with the ledger, the creation journal, the P-chain and the     *)
(* subnets each node tracks.  The console may die between any two steps.   *)
(*                                                                         *)
(* Every mutation but the owner transfer goes through one serial queue, so *)
(* at most one runs (variable op); transfers run beside it (variable       *)
(* transfer).  The tracking model is the console's default, in which every *)
(* node tracks every chain (A1_L1_VALIDATORS_PER_CHAIN unset).             *)
(***************************************************************************)
EXTENDS Naturals, FiniteSets

CONSTANTS Job,         \* job ids of the creation journal; also the subnet a job creates
          NoJob,
          Name,        \* chain names, up to letter case
          ChainId,     \* EVM chain IDs
          Wallet,      \* chain owners
          NoWallet,
          NoPlan,      \* the plan of a job that was never begun
          Node,        \* the managed nodes
          PublicNode,  \* the node whose RPC the console itself reads
          Slot,        \* owner transfers that may be in flight at once
          Operation,   \* the kinds of request that arrive
          MaxL1,       \* A1_MAX_L1: chains the ledger may list
          MaxRecords,  \* bound: records of one chain in one list of the ledger
          MaxUpgrades, \* bound: upgrades recorded for one chain
          MaxFaults,   \* bound: ledger writes that throw half-way
          MaxCrashes   \* bound: deaths of the console process

Plan == [name : Name, cid : ChainId, admin : Wallet]

ASSUME ConsoleConstants ==
  /\ NoJob \notin Job /\ NoWallet \notin Wallet /\ NoPlan \notin Plan
  /\ IsFiniteSet(Job) /\ PublicNode \in Node
  /\ Operation \subseteq {"create", "discard", "retire", "adopt", "revoke", "upgrade", "transfer"}
  /\ {MaxL1, MaxRecords, MaxUpgrades, MaxFaults, MaxCrashes} \subseteq Nat
  /\ MaxRecords > 0

VARIABLES ledger,    \* console-chains.json
          stranded,  \* an unfinished ledger write (.tmp) is on disk
          pending,   \* the job in creation-journal/pending.json, or NoJob
          phase,     \* the last phase the journal recorded for each job
          outcome,   \* how each archived job ended (creation-journal/history)
          plan,      \* the plan each job carries
          pchain,    \* subnets the P-chain has accepted
          cli,       \* creation CLIs still running inside the node's container
          track,     \* subnets each node runs with
          op,        \* the queue's running operation and its local state
          transfer,  \* owner transfers between their first check and their commit
          ackOwner,  \* the owner last acknowledged to a client, per chain
          ackUpgrades, \* upgrades acknowledged to a client, per chain
          faults, crashes

journal == <<pending, phase, outcome, plan>>
world   == <<pchain, cli>>
acks    == <<ackOwner, ackUpgrades>>
vars == <<ledger, stranded, journal, world, track, op, transfer, acks, faults, crashes>>

Phases   == {"free", "prepared", "submitting", "created", "complete"}
Outcomes == {"open", "completed", "discarded", "retired"}
Kinds    == {"none", "create", "revoke", "upgrade", "retire"}
Points   == {"idle", "prepared", "cli", "rollout", "ready", "save", "complete", "archive",
             "verify", "record", "undo", "resolve"}

-----------------------------------------------------------------------------
(* The ledger.  A chain is identified by the job that made it; live and     *)
(* retired count its records in the two lists, the rest is read off the     *)
(* first of them, the one findIndex returns.                                *)

LedgerType == [live     : [Job -> Nat],
               retired  : [Job -> Nat],
               owner    : [Job -> Wallet \cup {NoWallet}],
               marked   : SUBSET Job,
               upgrades : [Job -> Nat]]

EmptyLedger == [live     |-> [j \in Job |-> 0],
                retired  |-> [j \in Job |-> 0],
                owner    |-> [j \in Job |-> NoWallet],
                marked   |-> {},
                upgrades |-> [j \in Job |-> 0]]

Live(l)     == {j \in Job : l.live[j] > 0}
Gone(l)     == {j \in Job : l.retired[j] > 0}
Recorded(l) == Live(l) \cup Gone(l)

\* state.chains: one element per record.
LiveRecords(l) == {r \in Job \X (1..MaxRecords) : r[2] <= l.live[r[1]]}

PushLive(l, j) ==
  [l EXCEPT !.live[j] = @ + 1,
            !.owner[j] = IF j \in Recorded(l) THEN @ ELSE plan[j].admin]
PushRetired(l, j) ==
  [l EXCEPT !.retired[j] = @ + 1,
            !.owner[j] = IF j \in Recorded(l) THEN @ ELSE plan[j].admin]

\* Mutants: the record is not pushed to retired; the retired record is rebuilt without
\* its upgrades.
Splice_Nowhere(l, j) == [l EXCEPT !.live[j] = @ - 1, !.marked = @ \ {j}]
Splice_Bare(l, j)   == [l EXCEPT !.live[j] = @ - 1, !.retired[j] = @ + 1, !.marked = @ \ {j},
                                 !.upgrades[j] = 0]

\* A revoked record moves from chains to retired and loses its mark.
Splice(l, j) ==
  [l EXCEPT !.live[j] = @ - 1, !.retired[j] = @ + 1, !.marked = @ \ {j}]

\* saveState: the previous ledger to .bak, the new one over the old, both flushed.
Save(new) == /\ ~stranded
             /\ ledger' = new
             /\ UNCHANGED <<stranded, faults>>

\* saveState throws: a stranded write refuses it, or it dies on the way, and
\* then the new ledger may or may not be the visible one.
SaveThrows(new) ==
  \/ stranded /\ UNCHANGED <<ledger, stranded, faults>>
  \/ /\ ~stranded /\ faults < MaxFaults /\ faults' = faults + 1
     /\ \/ ledger' = ledger /\ stranded' \in BOOLEAN
        \/ ledger' = new /\ stranded' = FALSE

NoPendingLedgerWrite == ~stranded

-----------------------------------------------------------------------------
(* The journal as the other operations see it. *)

NotPendingFor(j) == pending # NoJob => plan[pending].name # plan[j].name

PendingSubnets == {j \in Job : pending = j /\ phase[j] = "created"}

-----------------------------------------------------------------------------
(* The running operation: what it does, where it waits, the chain it is     *)
(* about, the ledger it read (create, revoke), the list it rolls out and    *)
(* the nodes still to restart.                                              *)

OpType == [kind : Kinds, at : Points, job : Job \cup {NoJob}, copy : LedgerType,
           target : SUBSET Job, todo : SUBSET Node]

Idle == [kind |-> "none", at |-> "idle", job |-> NoJob, copy |-> EmptyLedger,
         target |-> {}, todo |-> {}]

QueueFree == op.at = "idle"
At(kind, point) == op.kind = kind /\ op.at = point
GoTo(point) == op' = [op EXCEPT !.at = point]
Fail == op' = Idle

\* The queue's operation is waiting for something, so other handlers may run:
\* false between the ledger write and the journal write of one handler.
Yielded == op.at \notin {"complete", "archive", "resolve"}

NoTransfer == [job |-> NoJob, to |-> NoWallet]

ConsoleInit ==
  /\ ledger = EmptyLedger /\ stranded = FALSE
  /\ pending = NoJob
  /\ phase = [j \in Job |-> "free"]
  /\ outcome = [j \in Job |-> "open"]
  /\ plan = [j \in Job |-> NoPlan]
  /\ pchain = {} /\ cli = {}
  /\ track = [n \in Node |-> {}]
  /\ op = Idle
  /\ transfer = [s \in Slot |-> NoTransfer]
  /\ ackOwner = [j \in Job |-> NoWallet]
  /\ ackUpgrades = [j \in Job |-> 0]
  /\ faults = 0 /\ crashes = 0

-----------------------------------------------------------------------------
(* Creating a chain. *)

\* Mutants: only live chains hold a name and a number; only names are compared;
\* the ceiling is off by one.
Free_LiveOnly(n, c)  == \A k \in Live(ledger) : plan[k].name # n /\ plan[k].cid # c
Free_NameOnly(n, c)  == \A k \in Recorded(ledger) : plan[k].name # n
SlotLeft_OffByOne == Cardinality(LiveRecords(ledger)) <= MaxL1

\* planChain: a revoked chain keeps its name and its number, but not its slot.
NameUnused(n) == \A k \in Recorded(ledger) : plan[k].name # n
NumberUnused(c) == \A k \in Recorded(ledger) : plan[k].cid # c
Free(n, c) == NameUnused(n) /\ NumberUnused(c)
SlotLeft == Cardinality(LiveRecords(ledger)) < MaxL1

\* planChain checks, launchChain reserves in the journal, and
\* executeChainLaunch reads the ledger it will write back.
CreateBegin(j, n, c, w) ==
  /\ "create" \in Operation
  /\ QueueFree /\ pending = NoJob /\ NoPendingLedgerWrite
  /\ phase[j] = "free"
  /\ Free(n, c) /\ SlotLeft
  /\ plan' = [plan EXCEPT ![j] = [name |-> n, cid |-> c, admin |-> w]]
  /\ phase' = [phase EXCEPT ![j] = "prepared"]
  /\ pending' = j
  /\ op' = [Idle EXCEPT !.kind = "create", !.at = "prepared", !.job = j, !.copy = ledger]
  /\ UNCHANGED <<ledger, stranded, outcome, world, track, transfer, acks, faults, crashes>>

\* A failure before the CLI starts: nothing left this machine, so the console
\* gives the reservation back itself.
CreateAbort ==
  /\ op.at = "prepared"
  /\ outcome' = [outcome EXCEPT ![op.job] = "discarded"]
  /\ pending' = NoJob
  /\ Fail
  /\ UNCHANGED <<ledger, stranded, phase, plan, world, track, transfer, acks, faults, crashes>>

CreateSubmit ==
  /\ op.at = "prepared"
  /\ phase' = [phase EXCEPT ![op.job] = "submitting"]
  /\ cli' = cli \cup {op.job}
  /\ GoTo("cli")
  /\ UNCHANGED <<ledger, stranded, pending, outcome, plan, pchain, track, transfer, acks,
                 faults, crashes>>

\* The CLI runs inside the node's container: its transaction is accepted, and
\* it exits, whether or not a console still waits for it.
CliAccept(j) ==
  /\ j \in cli /\ j \notin pchain
  /\ pchain' = pchain \cup {j}
  /\ UNCHANGED <<ledger, stranded, journal, cli, track, op, transfer, acks, faults, crashes>>

CliExit(j) ==
  /\ j \in cli
  /\ cli' = cli \ {j}
  /\ UNCHANGED <<ledger, stranded, journal, pchain, track, op, transfer, acks, faults, crashes>>

\* Mutant: the retired list is rolled out too.
StartFinish_All(j, l) ==
  op' = [op EXCEPT !.kind = "create", !.at = "rollout", !.job = j, !.copy = l,
                   !.target = Recorded(l) \cup {j}, !.todo = Node]

\* finishChainLaunch: the union of every listed subnet and the new one, on every node.
StartFinish(j, l) ==
  op' = [op EXCEPT !.kind = "create", !.at = "rollout", !.job = j, !.copy = l,
                   !.target = Live(l) \cup {j}, !.todo = Node]

CliAnswer ==
  /\ op.at = "cli" /\ op.job \in pchain \ cli
  /\ phase' = [phase EXCEPT ![op.job] = "created"]
  /\ StartFinish(op.job, op.copy)
  /\ UNCHANGED <<ledger, stranded, pending, outcome, plan, world, track, transfer, acks,
                 faults, crashes>>

\* The answer is lost, or holds no identifiers: the journal stays as it is.
CliLost ==
  /\ op.at = "cli"
  /\ Fail
  /\ UNCHANGED <<ledger, stranded, journal, world, track, transfer, acks, faults, crashes>>

CreateReady ==
  /\ op.at = "ready"
  /\ \A n \in Node : op.job \in track[n]
  /\ GoTo("save")
  /\ UNCHANGED <<ledger, stranded, journal, world, track, transfer, acks, faults, crashes>>

\* The RPC wait or the readiness gate runs into its deadline.
CreateNotReady ==
  /\ op.at = "ready"
  /\ Fail
  /\ UNCHANGED <<ledger, stranded, journal, world, track, transfer, acks, faults, crashes>>

\* state.chains.push(chain); saveState(state): the ledger read when the
\* operation began, with one record more.
CreateRecord ==
  /\ op.at = "save"
  /\ LET new == PushLive(op.copy, op.job)
     IN \/ Save(new) /\ GoTo("complete")
        \/ SaveThrows(new) /\ Fail
  /\ UNCHANGED <<journal, world, track, transfer, acks, crashes>>

\* creationJournal.complete: the phase first, refused unless it was created,
\* then the move to history, and only then the answer to the client.
CreateComplete ==
  /\ op.at = "complete" /\ phase[op.job] = "created"
  /\ phase' = [phase EXCEPT ![op.job] = "complete"]
  /\ GoTo("archive")
  /\ UNCHANGED <<ledger, stranded, pending, outcome, plan, world, track, transfer, acks,
                 faults, crashes>>

CreateCompleteRefused ==
  /\ op.at = "complete" /\ phase[op.job] # "created"
  /\ Fail
  /\ UNCHANGED <<ledger, stranded, journal, world, track, transfer, acks, faults, crashes>>


\* Mutant: the job is answered for but not moved to history.
CreateArchive_Kept ==
  /\ op.at = "archive"
  /\ outcome' = [outcome EXCEPT ![op.job] = "completed"]
  /\ ackOwner' = [ackOwner EXCEPT ![op.job] = ledger.owner[op.job]]
  /\ Fail
  /\ UNCHANGED <<ledger, stranded, pending, phase, plan, world, track, transfer, ackUpgrades,
                 faults, crashes>>

CreateArchive ==
  /\ op.at = "archive"
  /\ outcome' = [outcome EXCEPT ![op.job] = "completed"]
  /\ pending' = NoJob
  /\ ackOwner' = [ackOwner EXCEPT ![op.job] = ledger.owner[op.job]]
  /\ Fail
  /\ UNCHANGED <<ledger, stranded, phase, plan, world, track, transfer, ackUpgrades,
                 faults, crashes>>

-----------------------------------------------------------------------------
(* POST /api/creation/resolve.  The operator acts on what the P-chain       *)
(* holds, as scripts/inspect-creation.mjs and docs/CREATION-RECOVERY.md ask  *)
(* of him: of a submission of unknown outcome he says "not submitted" only   *)
(* when the CLI is gone and the P-chain has nothing.                         *)

\* Mutant: a created job may be discarded.
MayDiscard_Created(j) == phase[j] = "submitting" => j \notin pchain \cup cli

MayDiscard(j) == /\ phase[j] # "created"
                 /\ phase[j] = "submitting" => j \notin pchain \cup cli

ResolveDiscard(j) ==
  /\ "discard" \in Operation
  /\ QueueFree /\ pending = j /\ MayDiscard(j)
  /\ outcome' = [outcome EXCEPT ![j] = "discarded"]
  /\ pending' = NoJob
  /\ UNCHANGED <<ledger, stranded, phase, plan, world, track, op, transfer, acks, faults, crashes>>

OnPChain(j) == phase[j] # "prepared" /\ (phase[j] # "created" => j \in pchain)

ResolveRetire(j) ==
  /\ "retire" \in Operation
  /\ QueueFree /\ pending = j /\ OnPChain(j) /\ NoPendingLedgerWrite
  /\ ledger.retired[j] < MaxRecords
  /\ LET new == PushRetired(ledger, j)
     IN \/ Save(new) /\ op' = [Idle EXCEPT !.kind = "retire", !.at = "resolve", !.job = j]
        \/ SaveThrows(new) /\ UNCHANGED op
  /\ UNCHANGED <<journal, world, track, transfer, acks, crashes>>

ResolveRetired ==
  /\ op.at = "resolve"
  /\ outcome' = [outcome EXCEPT ![op.job] = "retired"]
  /\ pending' = NoJob
  /\ Fail
  /\ UNCHANGED <<ledger, stranded, phase, plan, world, track, transfer, acks, faults, crashes>>

\* adopt re-runs the second half of the creation on the ledger as it is now.
ResolveAdopt(j) ==
  /\ "adopt" \in Operation
  /\ QueueFree /\ pending = j /\ OnPChain(j) /\ NoPendingLedgerWrite
  /\ ledger.live[j] < MaxRecords
  /\ phase' = [phase EXCEPT ![j] = IF @ = "submitting" THEN "created" ELSE @]
  /\ StartFinish(j, ledger)
  /\ UNCHANGED <<ledger, stranded, pending, outcome, plan, world, track, transfer, acks,
                 faults, crashes>>

-----------------------------------------------------------------------------
(* Rolling the tracking list out, one node at a time. *)

AfterRollout == [create |-> "ready", revoke |-> "verify", upgrade |-> "record"]

RolloutNode(n) ==
  /\ op.at = "rollout" /\ n \in op.todo
  /\ track' = [track EXCEPT ![n] = op.target]
  /\ op' = [op EXCEPT !.todo = @ \ {n},
                      !.at = IF op.todo = {n} THEN AfterRollout[op.kind] ELSE "rollout"]
  /\ UNCHANGED <<ledger, stranded, journal, world, transfer, acks, faults, crashes>>

\* Node n does not come back: the rollout stops and leaves the rest alone.  An
\* upgrade then takes the nodes it touched, n with them, back.
RolloutFails(n) ==
  /\ op.at = "rollout" /\ n \in op.todo
  /\ \/ UNCHANGED track
     \/ track' = [track EXCEPT ![n] = op.target]
  /\ IF op.kind = "upgrade"
     THEN op' = [op EXCEPT !.at = "undo", !.target = Live(ledger),
                           !.todo = (Node \ op.todo) \cup {n}]
     ELSE Fail
  /\ UNCHANGED <<ledger, stranded, journal, world, transfer, acks, faults, crashes>>

-----------------------------------------------------------------------------
(* Revoking a chain. *)

\* Mutant: the list keeps nothing but the pending creation.
KeptByRevoke_PendingOnly(j) == PendingSubnets

\* thuHoiChain marks the record and saves it before any node is touched; the
\* rollout keeps every other record and the subnet of a pending creation.
KeptByRevoke(j) == Live([ledger EXCEPT !.live[j] = @ - 1]) \cup PendingSubnets

RevokeBegin(j) ==
  /\ "revoke" \in Operation
  /\ QueueFree /\ NoPendingLedgerWrite
  /\ j \in Live(ledger) /\ NotPendingFor(j)
  /\ LET new == [ledger EXCEPT !.marked = @ \cup {j}]
     IN \/ /\ Save(new)
           /\ op' = [kind |-> "revoke", at |-> "rollout", job |-> j, copy |-> new,
                     target |-> KeptByRevoke(j), todo |-> Node]
        \/ SaveThrows(new) /\ UNCHANGED op
  /\ UNCHANGED <<journal, world, track, transfer, acks, crashes>>

\* The public RPC still answers for the chain.
RevokeStillServed ==
  /\ op.at = "verify" /\ op.job \in track[PublicNode]
  /\ Fail
  /\ UNCHANGED <<ledger, stranded, journal, world, track, transfer, acks, faults, crashes>>

\* Its RPC no longer answers, or one probe of it failed: the record moves to
\* retired in the ledger the operation read at its start.
RevokeRecord ==
  /\ op.at = "verify"
  /\ LET new == Splice(op.copy, op.job)
     IN Save(new) \/ SaveThrows(new)
  /\ Fail
  /\ UNCHANGED <<journal, world, track, transfer, acks, crashes>>

-----------------------------------------------------------------------------
(* Upgrading a chain: findGovernableChain refuses one being revoked, the    *)
(* plan reads the chain's configuration from the public node.               *)

UpgradeBegin(j) ==
  /\ "upgrade" \in Operation
  /\ QueueFree /\ NoPendingLedgerWrite
  /\ j \in Live(ledger) \ ledger.marked /\ NotPendingFor(j)
  /\ j \in track[PublicNode]
  /\ ledger.upgrades[j] < MaxUpgrades
  /\ op' = [Idle EXCEPT !.kind = "upgrade", !.at = "rollout", !.job = j,
                        !.target = Live(ledger) \cup PendingSubnets, !.todo = Node]
  /\ UNCHANGED <<ledger, stranded, journal, world, track, transfer, acks, faults, crashes>>

\* napCapChain reads the ledger again before it records the upgrade.
UpgradeRecord ==
  /\ op.at = "record"
  /\ LET new == [ledger EXCEPT !.upgrades[op.job] = @ + 1]
     IN \/ Save(new) /\ ackUpgrades' = [ackUpgrades EXCEPT ![op.job] = @ + 1]
        \/ SaveThrows(new) /\ UNCHANGED ackUpgrades
        \/ UNCHANGED <<ledger, stranded, faults, ackUpgrades>>  \* the public node disagrees
  /\ Fail
  /\ UNCHANGED <<journal, world, track, transfer, ackOwner, crashes>>

\* hoanTacNangCap: each touched node restarts on the ledger's list, or reports
\* that it could not be restarted.
UndoNode(n) ==
  /\ op.at = "undo" /\ n \in op.todo
  /\ \/ track' = [track EXCEPT ![n] = op.target]
     \/ UNCHANGED track
  /\ op' = IF op.todo = {n} THEN Idle ELSE [op EXCEPT !.todo = @ \ {n}]
  /\ UNCHANGED <<ledger, stranded, journal, world, transfer, acks, faults, crashes>>

-----------------------------------------------------------------------------
(* Handing a chain over: not queued.  doiChu checks, waits for the chain    *)
(* itself to name the new owner, then reads the ledger again and commits.   *)

TransferBegin(s, j, w) ==
  /\ "transfer" \in Operation
  /\ Yielded /\ transfer[s] = NoTransfer
  /\ NoPendingLedgerWrite
  /\ j \in Live(ledger) \ ledger.marked /\ NotPendingFor(j)
  /\ w # ledger.owner[j]
  /\ transfer' = [transfer EXCEPT ![s] = [job |-> j, to |-> w]]
  /\ UNCHANGED <<ledger, stranded, journal, world, track, op, acks, faults, crashes>>

\* The chain of that name in the ledger read now.
TransferCommit(s, k) ==
  /\ Yielded /\ transfer[s] # NoTransfer
  /\ k \in Live(ledger) /\ plan[k].name = plan[transfer[s].job].name
  /\ LET new == [ledger EXCEPT !.owner[k] = transfer[s].to]
     IN \/ Save(new) /\ ackOwner' = [ackOwner EXCEPT ![k] = transfer[s].to]
        \/ SaveThrows(new) /\ ackOwner' = [ackOwner EXCEPT ![k] = NoWallet]
  /\ transfer' = [transfer EXCEPT ![s] = NoTransfer]
  /\ UNCHANGED <<journal, world, track, op, ackUpgrades, crashes>>

\* The chain does not confirm the new owner, or has left the ledger.
TransferFails(s) ==
  /\ Yielded /\ transfer[s] # NoTransfer
  /\ transfer' = [transfer EXCEPT ![s] = NoTransfer]
  /\ UNCHANGED <<ledger, stranded, journal, world, track, op, acks, faults, crashes>>

-----------------------------------------------------------------------------
\* The process dies: what is in memory goes, what is on disk, on the P-chain,
\* in the nodes and in the container's CLI stays.
Crash ==
  /\ crashes < MaxCrashes /\ crashes' = crashes + 1
  /\ op' = Idle
  /\ transfer' = [s \in Slot |-> NoTransfer]
  /\ UNCHANGED <<ledger, stranded, journal, world, track, acks, faults>>

\* The operator reconciles a stranded ledger write by hand.
ReconcileLedger ==
  /\ stranded /\ stranded' = FALSE
  /\ UNCHANGED <<ledger, journal, world, track, op, transfer, acks, faults, crashes>>

ConsoleNext ==
  \/ \E j \in Job : \E n \in Name, c \in ChainId, w \in Wallet : CreateBegin(j, n, c, w)
  \/ CreateAbort \/ CreateSubmit \/ CliAnswer \/ CliLost
  \/ CreateReady \/ CreateNotReady \/ CreateRecord
  \/ CreateComplete \/ CreateCompleteRefused \/ CreateArchive
  \/ \E j \in Job : CliAccept(j) \/ CliExit(j)
  \/ \E j \in Job : ResolveDiscard(j) \/ ResolveRetire(j) \/ ResolveAdopt(j)
  \/ ResolveRetired
  \/ \E n \in Node : RolloutNode(n) \/ RolloutFails(n) \/ UndoNode(n)
  \/ \E j \in Job : RevokeBegin(j) \/ UpgradeBegin(j)
  \/ RevokeStillServed \/ RevokeRecord \/ UpgradeRecord
  \/ \E s \in Slot : \E j \in Job, w \in Wallet : TransferBegin(s, j, w)
  \/ \E s \in Slot : \E k \in Job : TransferCommit(s, k)
  \/ \E s \in Slot : TransferFails(s)
  \/ Crash \/ ReconcileLedger

ConsoleSpec == ConsoleInit /\ [][ConsoleNext]_vars

-----------------------------------------------------------------------------
ConsoleTypeOK ==
  /\ ledger \in LedgerType /\ stranded \in BOOLEAN
  /\ pending \in Job \cup {NoJob}
  /\ phase \in [Job -> Phases]
  /\ outcome \in [Job -> Outcomes]
  /\ plan \in [Job -> Plan \cup {NoPlan}]
  /\ pchain \subseteq Job /\ cli \subseteq Job
  /\ track \in [Node -> SUBSET Job]
  /\ op \in OpType
  /\ transfer \in [Slot -> [job : Job \cup {NoJob}, to : Wallet \cup {NoWallet}]]
  /\ ackOwner \in [Job -> Wallet \cup {NoWallet}]
  /\ ackUpgrades \in [Job -> Nat]
  /\ faults \in 0..MaxFaults /\ crashes \in 0..MaxCrashes

-----------------------------------------------------------------------------
(* What must hold. *)

\* Two chains on the P-chain never share a name or an EVM chain ID, whatever was
\* retired, revoked, discarded or interrupted in between: an identifier a wallet
\* may hold is never issued again.
IdentityNeverReissued ==
  \A j, k \in pchain : j # k => /\ plan[j].name # plan[k].name
                                /\ plan[j].cid # plan[k].cid

\* No chain that was paid for on the P-chain drops out of the console's memory:
\* it is in the ledger, live or retired, or the journal still holds it.
NoChainForgotten == pchain \subseteq Recorded(ledger) \cup {pending}

\* A rollout never carries more subnets than the ceiling: the slot of a pending
\* creation is kept free from its reservation to its resolution, so the wall in
\* trackSubnetsLanLuot never stops a recovery half-way.
RolloutWithinCeiling == Cardinality(op.target) <= MaxL1

\* A listed chain that nobody is revoking stays tracked by every node that tracks
\* it, through every rollout of every other chain and through every undo.
UnrelatedStaysTracked ==
  [][\A n \in Node : \A j \in Live(ledger) \cap track[n] :
       (At("revoke", "rollout") /\ op.job = j) \/ j \in track'[n]]_vars

\* A chain whose revocation is on record is tracked by no node again, so the slot
\* it gave back really is free.
RevokedStaysOff ==
  \A j \in Gone(ledger) \ Live(ledger) :
    outcome[j] = "completed" => \A n \in Node : j \notin track[n]

\* The ledger only grows: a recorded chain stays recorded and a retired one stays
\* retired, although create and revoke write back a copy they read long before.
LedgerNeverForgets ==
  [][Recorded(ledger) \subseteq Recorded(ledger)' /\ Gone(ledger) \subseteq Gone(ledger)']_vars

\* Each chain has one record, in one list.
OneRecordPerChain == \A j \in Job : ledger.live[j] + ledger.retired[j] <= 1

\* An upgrade the console has confirmed stays in the public record.
AckedUpgradesKept == \A j \in Job : ackUpgrades[j] <= ledger.upgrades[j]

\* The chain a transfer commits to, found by name after its waits, is the chain it
\* was checked against.
TransferHitsItsChain ==
  \A s \in Slot, k \in Live(ledger) :
    transfer[s] # NoTransfer /\ plan[k].name = plan[transfer[s].job].name => k = transfer[s].job

\* The owner last confirmed to a client is the owner on record (doiChu: "Transfer
\* the RECORDED owner").
AckedOwnerKept ==
  \A j \in Live(ledger) : ackOwner[j] # NoWallet => ledger.owner[j] = ackOwner[j]

\* docs/CREATION-RECOVERY.md: "a rollout for another chain keeps a `created` subnet
\* on its track list".
PendingStaysTracked ==
  [][\A n \in Node : \A j \in PendingSubnets \cap track[n] : j \in track'[n]]_vars

\* lib/creation-journal.mjs: "discarded - nothing reached the P-chain".
DiscardedNeverAccepted == \A j \in Job : outcome[j] = "discarded" => j \notin pchain

-----------------------------------------------------------------------------
(* The inductive invariant behind the safety properties: what the running   *)
(* operation may rely on, what a phase in the journal says of the P-chain    *)
(* and of the ledger, and that held identities differ.                       *)

\* Where each kind of operation may wait.
OpShape ==
  /\ op.at \in {"prepared", "cli", "ready", "save", "complete", "archive"} => op.kind = "create"
  /\ op.at = "rollout" => op.kind \in {"create", "revoke", "upgrade"}
  /\ op.at = "verify" => op.kind = "revoke"
  /\ op.at \in {"record", "undo"} => op.kind = "upgrade"
  /\ op.at = "resolve" => op.kind = "retire"
  /\ op.kind # "none" => op.job \in Job /\ op.at # "idle"

\* A creation, or a retirement, holds the journal's reservation while it runs.
OpHoldsJob == op.kind \in {"create", "retire"} => op.job = pending

OpPhase ==
  /\ op.at = "prepared" => phase[op.job] = "prepared"
  /\ op.at = "cli" => phase[op.job] = "submitting"
  /\ op.kind = "create" /\ op.at \in {"rollout", "ready", "save", "complete", "archive"} =>
       phase[op.job] \in {"created", "complete"}
  /\ op.at \in {"complete", "archive", "resolve"} => op.job \in Recorded(ledger)

\* The copy an operation writes back lists the chains the ledger lists.
CopyFresh ==
  /\ op.kind = "revoke" \/ (op.kind = "create" /\ op.at \notin {"complete", "archive"}) =>
       op.copy.live = ledger.live /\ op.copy.retired = ledger.retired
  /\ op.kind = "revoke" => op.copy.live[op.job] > 0

JournalSound ==
  /\ pending # NoJob => phase[pending] # "free"
  /\ \A j \in Job : phase[j] # "free" => plan[j] \in Plan
  /\ \A j \in Job : phase[j] \in {"created", "complete"} => j \in pchain
  /\ \A j \in Job : phase[j] = "complete" => j \in Recorded(ledger)
  /\ \A j \in pchain \cup cli : phase[j] \notin {"free", "prepared"}
  /\ cli \subseteq pchain \cup {pending}
  /\ Recorded(ledger) \subseteq pchain

Held == Recorded(ledger) \cup ({pending} \cap Job)

HeldDistinct == \A j, k \in Held : j # k => /\ plan[j].name # plan[k].name
                                            /\ plan[j].cid # plan[k].cid

\* All of it holds of every state the console reaches.
ConsoleInv == /\ ConsoleTypeOK
              /\ OpShape /\ OpHoldsJob /\ OpPhase /\ CopyFresh
              /\ JournalSound /\ HeldDistinct /\ NoChainForgotten

-----------------------------------------------------------------------------
(* The registry of identities the console implements. *)

Status(j) == CASE j \in Gone(ledger)          -> "retired"
               [] j \in Live(ledger) \ Gone(ledger) -> "live"
               [] j \notin Recorded(ledger) /\ pending = j -> "reserved"
               [] j \notin Recorded(ledger) /\ pending # j
                    /\ outcome[j] = "discarded" -> "void"
               [] OTHER                       -> "free"

Registry == INSTANCE ChainRegistry WITH
  status <- [j \in Job |-> Status(j)],
  ident  <- [j \in Job |-> IF plan[j] = NoPlan THEN [named |-> FALSE]
                           ELSE [named |-> TRUE, name |-> plan[j].name, cid |-> plan[j].cid]]

\* The detailed console only ever reserves, gives back, admits and retires.
ImplementsRegistry == Registry!RegistrySpec

\* The reservation book that the files of the journal implement as well (CreationJournal).
Book == INSTANCE ReservationBook WITH verdict <- outcome

\* The journal the operations see goes through the book's steps, and no others.
ImplementsBook == Book!BookSpec
=============================================================================
