# Verification of 9chain's L1 console and its operators' tools

9chain runs a public network on a patched third-party node and lets a wallet
create its own L1 chain from a web form. The program that does it is the **L1
console** (`src/local-net/console/server.mjs` with `src/local-net/lib/`): it
reserves a creation, calls a command line that submits the P-chain transaction,
rolls the new subnet out to the managed nodes, waits until the chain answers,
and writes the chain into a ledger file. It also revokes, upgrades and hands
over chains, is paused for maintenance, and is expected to die at any moment
without losing what somebody paid for. Around it stand the tools of its
operators (deployment, snapshots, batch creation, re-genesis), a faucet with a
load pump, and a bridge contract.

This directory holds TLA+ models of these programs, their TLC configurations,
and proofs checked by TLAPS. Each definition that models code is listed in
`PROJECT.json` ("map") with the lines it stands for.

To check: `tlc -config X.cfg M` for a run, `tlapm M_proofs.tla` for the proofs.

## 1. Inventory

| Component (source) | State | Operations | Hard behaviour |
|---|---|---|---|
| Console operations (`console/server.mjs` 1090-2070, 2360-2515) | the ledger read into memory, the operation in progress | create, discard, retire, adopt, revoke, upgrade, transfer | minutes of awaits between a read of the ledger and the write of it; one handler outside the queue; death between two durable writes |
| Chain identities (`server.mjs` planChain, `lib/chainid.mjs`, `scripts/gen-chainid-issued.mjs`, ...) | names and EVM chain IDs ever issued, over all generations | reserve, give back, admit, retire, pull, rebuild, release, re-genesis | revoked chains keep their identity, unknown submissions surface later, a network is erased but its numbers are not |
| Creation journal (`lib/creation-journal.mjs`) | `pending.json`, `.tmp`, `history/` | begin, update, complete, resolve, read | several file operations per call; two processes on one directory |
| Ledger file (`lib/ledger-write.mjs`, `ledger-read.mjs`) | ledger, `.bak`, two `.tmp` | writeLedger, the reader's verdict | torn writes, lost renames, half-done replacement |
| Maintenance gate (`lib/maintenance.mjs`) | marker directory, paused, the pause's id, admissions | enter, release, snapshot, pause, resume | admissions racing a pause; stale snapshots; marker lost, spoilt or not flushed |
| Serial queue (`lib/guard.mjs` 145-163) | tail promise, pending count | run | a failing task, a full queue, order of promise reactions |
| Operation journal (`console/operation-journal.mjs`) | what `/api/progress` shows | open, addStep, stepRunning, stepDone, close | closed by one handler while another operation runs |
| Track lists and rollout (`console/track-files.mjs`, `server.mjs` 608-955, 1866-2010) | override file and upgrade file on disk; what each node runs | write, restart node by node, prove the restart, undo | a restart that half happened; a failure whose nodes nobody names; two tracking models |
| Validator assignment (`lib/validator-assignment.mjs`) | none (pure) | place a chain on the least loaded nodes | ties, ceilings |
| Chain upgrades (`lib/l1-upgrade.mjs`, `console/upgrade-files.mjs`) | `upgrade.json`, the activations in force | plan, append, roll out, transfer beside it | two clocks; an entry in the past of a chain; an owner changed between scheduling and activation |
| Numbers of chains (`lib/chainid.mjs`) | none (pure) | draw the next number, refuse a typed one | end of the band, collisions with three books |
| Rate limits, tokens, sessions (`lib/guard.mjs` 29-143, `console/siwe.mjs`) | windows, nonces, sessions in memory | admit, issue, consume, expire, sweep | store at capacity, a nonce tried twice, expiry while in use |
| Presets, options, genesis (`lib/presets.mjs`, `l1-options.mjs`, ...) | none (pure) | validate, build | a legal combination that builds no block |
| Ownership, state and generation helpers (`console/chain-ownership.mjs`, `generation-gate.mjs`, ...) | none | read, refuse | a check made before the queue, used after it |
| Readiness, health, RPC (`lib/chain-readiness.mjs`, `console/node-health.mjs`, ...) | none | probes | deadlines |
| Faucet (`faucet/server.mjs`) | cooldowns, windows, a send queue, a nonce counter | drip | budgets spent before a refusal; a counter nobody resets |
| Heartbeat pump (`faucet/heartbeat-pump.mjs`) | next nonce, sends in flight | burst, resync, unstick, scan, supervise | nonce given back while others are in flight |
| Operator scripts (`src/scripts/*.mjs`) | lock, receipt and pause on the server; snapshot bundles; archived ledgers | deploy, resume, unwind; snapshot, release, join; pull, compact, reopen | phases over ssh whose answers are lost; a node that moves while it is copied |
| Go tools (`local-net/tools/k1`) | `chains.jsonl`, what is accepted on chain | plan, apply, render, create, move, stake | workers that die; a re-run after a lost answer |
| Asset bridge, ceremony (`contracts/AssetBridge.sol`, `faucet/ceremony-9s-union.mjs`) | liquidity, marks; the run's block numbers | lock, pay, pin; anchor | re-entry and replay; others' blocks between two calls |
| Web site, node patches | - | - | presentation, third-party code |

How they interact. An HTTP handler first **enters the gate**, then hands a task
to the **serial queue** (all mutations but the owner transfer, which runs beside
it). The task checks names, numbers and slots against the **ledger** and the
**journal**, reserves in the journal, calls the Go command line inside a node's
container, rolls out **track lists**, waits for **readiness**, saves the ledger
and completes the journal. The handler closes the **operation journal** and
leaves the gate. Restarting the console happens only after the operator has
paused the gate and read that nobody is inside; a creation that was interrupted
blocks every later one until the operator resolves it.

The other programs meet the console at its files and its doors: a **deployment**
pauses the gate over ssh, replaces the code and restarts the process; a
**re-genesis** carries the ledger's identities over into a list the console
reads at start; a **snapshot** stops a node the rollout may restart. The faucet,
the pump, the batch tool and the bridge only share the network with it.

What makes each part correct:

- *Operations*: a name or number is never issued twice; no chain accepted by the
  P-chain is forgotten; the ledger only grows; a confirmed upgrade or transfer
  stays; a rollout touches no other chain and fits the ceiling; a revoked chain
  stays off.
- *Creation journal*: a reservation never just disappears; one creation is open at
  a time, its phases come in order and its verdict is final; one carrier at a time;
  a way out always exists.
- *Ledger file*: a confirmed ledger survives deaths and power loss; nothing is
  found torn; the backup is at most one step behind.
- *Gate*: "ready" means drained, and stays so; an answered pause survives; only
  who read this pause ends it; a pause drains.
- *Queue and progress*: one operation at a time, in order; a place is given back
  whatever happens; the page shows the operation that runs.
- *Rollout and upgrades*: a recorded upgrade is run by the public node; a node
  that could not be undone is named; a validator never finds a file it must
  refuse; the ledger's owner administers what is enabled.
- *Door*: one invitation opens one session; limits hold whatever is swept when.
- *Deployment*: a console that admits requests runs one whole release.
- *Identities over generations*: no number or name twice unless released.
- *Tools*: records are true whatever died; nothing is paid, converted or staked
  twice; a snapshot seals what it restores.

The full list of hazards, each at its line, with the properties that cover it or
the reason why none does, is `PROJECT.json` "hazards".

## 2. Modules

| Module | Models | Checked through |
|---|---|---|
| `ChainRegistry` | abstract: each identity goes free, reserved, live, retired, or void when given back, and held identities differ | refined by `ConsoleOps` |
| `ReservationBook` | abstract: one creation open at a time, phases in order, a final verdict that the phase permits | refined by `CreationJournal` and by `ConsoleOps` |
| `ConsoleOps` | the console's mutations at the granularity of awaits and durable writes | `MCConsoleOps`, `ConsoleOps_proofs` |
| `CreationJournal` | the journal's directory, one file operation per step | `MCCreationJournal`, `MCConsoleFiles`, `CreationJournal_proofs` |
| `DurableRegister` | abstract: a register whose reader always finds a whole value, never older than the last one confirmed | refined by `LedgerFile` |
| `LedgerFile` | `writeLedger`, one file operation per step, with what a power loss may leave | `MCConsoleFiles`, `LedgerFile_proofs` |
| `MaintenanceGate` | the gate, its marker, restarts and power loss | `MCServing`, `MaintenanceGate_proofs` |
| `OperationQueue` | the serial queue with the operation journal | `MCServing`, `OperationQueue_proofs` |
| `NodeRollout` | a rollout node by node, in both tracking models, and the undo of an upgrade | `MCNodeRollout`, `MCFleet`, `Fleet_proofs` |
| `ChainUpgrades` | one chain's list of activations, two clocks, what each validator runs, the owner transfer | `MCFleet`, `Fleet_proofs` |
| `WalletDoor` | sign-in, sessions, limits, ownership of a chain | `MCFleet`, `Fleet_proofs` |
| `RateLimit` | the sliding window, as operators | used by `WalletDoor`, `Faucet` |
| `ConsoleDeploy` | apply, resume and unwind of a console release over ssh | `MCFleet`, `Fleet_proofs` |
| `Generations` | identities over re-geneses: machine, checkout, console | `MCFleet`, `Fleet_proofs` |
| `ChainPlan` | `planChain` with its libraries, as operators | `MCTools`, `Tools_proofs` |
| `K1Placement` | nodes, ports, addresses and beacons of an inventory, as operators | `MCTools`, `Tools_proofs` |
| `L1Batch` | plan, apply (workers, crash, resume), render, router | `MCTools`, `Tools_proofs` |
| `SpendTools` | `create`, `c-to-x`, `stake-validator` | `MCTools`, `Tools_proofs` |
| `ChainSnapshot` | snapshot of a node, its release and its verification | `MCTools`, `Tools_proofs` |
| `AssetBridge` | two bridge contracts with re-entered calls | `MCTools`, `Tools_proofs` |
| `Ceremony` | the anchored message past a published instant | `MCTools`, `Faucet_proofs` |
| `Faucet` | one drip endpoint with limits, queue and nonces | `MCTools`, `Faucet_proofs` |
| `HeartbeatPump` | one wallet of the pump and its loop | itself, `Tools_proofs` |

Some MC modules hold several independent machines and a variable (`which`,
`setting`) that picks one at the start and never changes: their state spaces
add up, they do not multiply. `MCFleet` has the machines around a running chain,
`MCTools` those of the operators, `MCConsoleFiles` the console's two durable
stores, `MCServing` the gate and the queue that a request goes through.

### ConsoleOps

- `ledger` is `console-chains.json`. A chain is identified by the job that
  created it (its subnet); `live` and `retired` count its records in the lists
  `chains` and `retired`, because the code can list a chain twice.
  `stranded` is an unfinished write of it, which refuses later writes
  (`assertNoPendingLedgerWrite`).
- `pending`, `phase`, `outcome`, `plan` are the creation journal as its callers
  see it; its files are `CreationJournal`'s subject.
- `pchain`, `cli` are the world: transactions accepted, and command lines still
  running in a container, which survive the console (so an answer may be lost
  and the chain accepted later).
- `track` is the list each node runs with. A node's restart is one step.
- `op` is the queue's running operation: where it waits, the chain, the copy of
  the ledger it read, the list it rolls out. Create and revoke write back the
  copy they read when they began; upgrade and transfer read again. Keeping the
  copy is what lets the model lose an update where the code does.
- `transfer` holds the owner transfers that run beside the queue. Between two
  writes of one handler that has no await in between (`saveState` and
  `creationJournal.complete`) no other handler runs (`Yielded`), but the process
  may still die.
- `ackOwner`, `ackUpgrades` are history variables: what clients were told.

A rollout is one step per node here, and every node tracks every chain (the
default: `A1_L1_VALIDATORS_PER_CHAIN` unset); `NodeRollout` has the rest.
The operator who resolves a creation acts as
`docs/CREATION-RECOVERY.md` asks: of a submission of unknown outcome he says
"not submitted" only when no command line runs and the P-chain holds nothing.
A failed save ends in one of three ways: refused by a stranded write, old ledger
visible (possibly with a stranded `.tmp`), new ledger visible. They are the
outcomes of `LedgerFile`'s `Throw` and `Kill`.

### CreationJournal

One step per call that changes the directory. `Torn` is a file opened and not
yet written. A process may die, or a call throw, between any two steps, and
another console may run in between. Loss of power is **not** modelled here: the
renames and unlinks of the model are durable.

### LedgerFile

`disk` is what processes see; `possible` is the set of directories a power loss
may leave: it grows with each call and shrinks to what a flush guarantees. One
console writes. On Windows, where a directory cannot be flushed, the code makes
no claim about power loss, and neither does the model.

### MaintenanceGate

Every method runs to its end without an await, so each is one step, with one
outcome per file operation that may throw. `inside` are the handlers admitted,
`obs` the last snapshot each operator read, `onDisk` what a power loss may leave
of the marker, `pinned` remembers that a pause was answered. The marker may also
be changed by hand.

### OperationQueue

One action is one turn of the event loop. The order that matters is that of
promise reactions: `queue.run` chains the next task to the tail **before** the
handler's `await` is registered behind `finally`, so when a task settles the
next one starts first, and runs to its first await, and only then does the
handler of the settled one wake up and close the journal. `Settle` does both in
that order. A revocation and an adoption open the journal before they await
anything, a creation and an upgrade after (`OpensAtOnce`, `OpensLater`).

### NodeRollout, ChainUpgrades

`NodeRollout` splits what `ConsoleOps` takes as one step. `lists` and `file` are
the override file and a chain's `upgrade.json` on disk, `tracks` and `loaded`
what each node really runs. `Up` and `Wait` are `docker compose up` of one node
and the wait for it; a compose call may fail before or after it re-created the
container, the console may die between two nodes, and a container may restart
by itself. Two chains suffice: `a` is upgraded, `b` comes and goes. The tracking
model is chosen at the start (`model`).

`ChainUpgrades` has the time that `NodeRollout` lacks: the console's clock and
the chain's, which only moves when a block is built. `list` is the file, `runs`
what each validator runs, the last of which is the public node (`inForce`).
`rollingTo` counts the validators a rollout has restarted; each may take
`NodeWait`, and nothing relates the whole of it to the shortest lead. A rollout
that fails puts the previous list back and restarts some validators, or cannot
write the file and restarts none; the console may die between any two of these
steps, and a validator restarts by itself at any time. An upgrade reads the owner
and asks the node (`UpgradeAsks`) before it writes the file (`Upgrade`). A transfer
runs outside the queue: it fixes the roles to ask for (`TransferAsks`), is answered
one by one (`RoleAnswered`) and saves the ledger at the end (`Transfer`), with
blocks, upgrades and rollouts in between.

### WalletDoor, RateLimit

The stores of nonces and sessions with their expiry, the capacity rule that
refuses instead of evicting, the sweeps, a restart that forgets both. One chain
stands for the ledger; its owner is compared when a revocation is asked for and
the revocation runs later. Recovering a signer is `ethers`' and external.

### ConsoleDeploy

A run is a sequence of phases, each one ssh call that is refused, or takes
effect and answers, or takes effect and is not heard. `server` is what the
server has (process, pause, lock, staged package, source on disk, source that
runs), `receipt` what a later run is given. Two invocations overlap; a person
pauses and reopens by hand; the process may restart at any time.

### Generations

`machine` is the server's disk and network, `console` what the process read when
it started, `repo` the checkout. The operator follows the runbook in three
things only: he pulls with the door closed, he has a green `--check` before he
erases, he opens when the tool reports ready. Further assumptions: an archived
ledger is lost only after the list was once written of it (no gate catches one
lost before), and `--check` compares numbers and names (the code compares their
sources as well, which is stricter).

### ChainPlan, K1Placement

No state: a request and the books it meets go in, a refusal or a plan comes out,
compared with what the node software, an owner and docker need of it. Chain ids,
gas and amounts are scaled down with the order of every boundary kept.

### L1Batch, SpendTools, ChainSnapshot

Command-line tools with nothing but files and the chain between two runs. A
transaction is refused, accepted, or accepted with its answer lost. In
`L1Batch`, workers write `chains.jsonl` and the process dies anywhere; transaction
status is left out of `SpendTools` because a transfer to oneself does not fail
once it is accepted. In `ChainSnapshot` a hash is the content itself, a data file
holds the height it was written at, the source node is started by others too,
and whoever serves a release may replace any asset of it.

### AssetBridge, Ceremony

A transaction of the bridge is a stack of calls; a payment hands control to a
recipient that may call a bridge again or refuse. Messages may be submitted in
any order any number of times, and other contracts send forged ones. In the
ceremony other people's blocks come between any two calls of the tool; a block
may be stamped before its parent, at most once in the instance, and two blocks
stand for the nine of the code's offset.

### Faucet, HeartbeatPump

One endpoint with its three limits, its queue of sends and the counter of nonces
that `ethers`' `NonceManager` keeps: external, modelled as the code relies on it
(it reads the nonce once, counts every send from there, and is never reset).
Limits are those of one life of the process. The pump has one wallet; the node
mines the lowest nonce when it holds it and loses calls or answers. A resync asks
for the two counts at once and is answered in either order, at different moments.
The supervisor's replacement transaction may be rejected, the reads around it may
fail, and a wallet whose read fails is passed over. A block the node answers
nothing for counts no transactions (`absent` keeps how many blocks those were).

## 3. Runs

| Run | Bounds | Shows |
|---|---|---|
| `console_recovery` | 3 jobs, 2 names, 2 numbers, 1 node, 2 deaths, 1 failed save, 1 slot | identities never reissued, no chain forgotten, no rollout above the ceiling, the ledger only grows, refinement of `ChainRegistry` |
| `console_concurrent` | 2 jobs, 2 wallets, 2 nodes, 1 transfer beside the queue, 1 upgrade | confirmed upgrades kept, a transfer hits the chain it checked, revoked chains stay off |
| `console_files` | 3 jobs, 1 console with its operator or 2 consoles, 3 deaths, 2 throwing calls; 4 ledger writes, 3 deaths or power losses, 2 throwing calls | no reservation lost, one carrier, refinement of `ReservationBook`; confirmed ledgers survive, nothing torn, backup at most one behind, refinement of `DurableRegister` |
| `serving` | 2 handlers, 2 operators, 3 pauses, 2 restarts, 1 failed call, 1 change by hand; 3 requests of any kind, 2 places, 1 node | ready means drained, answered pauses persist, only the reader of a pause ends it, a paused console drains; one at a time in order, running is true, accepted requests are served |
| `fleet` | 3 nodes, 3 rollouts, with room for both chains on a node and with room for one; 1 precompile beside FeeManager, 2 validators, 2 upgrades, leads of 2 and 3, 1 transfer, time to 5; 2 wallets, 3 invitations, stores of 2, time to 3; 2 deployments, 2 pauses, 1 reboot; 3 generations, 2 creations | a recorded upgrade is run, every node touched is named, every node tracks, a validator in step with the public node accepts the file whenever it restarts, one session per invitation, an open console runs one whole release, identities never reissued |
| `tools` | 3 ledgers, 2 hosts, 2 workers; 2 nodes, 3 runs; heights to 2, 2 snapshots; 2 locks, 1 deposit, calls 2 deep; 7 blocks; 3 drips, 2 addresses, 3 IPs, 1 reboot; about 47 000 planned requests and inventories | records true, subnets with exactly their validators, sealed is what restores, joined is sealed, plans sound, nodes fit, paid was locked, anchored as published, drips within limits |
| `pump` | 3 nonces, 2 in flight, 2 failed probes, 1 block without an answer | published throughput counts once every scanned block the node answered for, a hole is cured |
| `console_lost_update`, `rollout_undone`, `rollout_too_long`, `owner_pending`, `faucet_refusal` | small | disagreements, see section 5 |

Why the bounds are enough for the interesting cases. Two names and two numbers
with three jobs force a third creation to want an identity that a live, retired,
revoked, discarded or interrupted job held. A ceiling of one makes a kept
reservation compete for the only slot; two live chains side by side are in
`console_concurrent`. Two deaths split an operation anywhere, and what resumes or
resolves it.
The three deaths of `console_files` interrupt a retried recovery, and let a
ledger write run over what two interrupted ones left. Two places and three
requests make the queue both full and non-empty when a task settles. Three
pauses give an operator a snapshot two pauses old. Three nodes are one done, one
failed and one not reached, and the third rollout meets what two interrupted
ones left. Two upgrades with a lead of two or three give one activation pending or
passed while another is planned over a rollout that failed or died, or passed
while the chain's clock stands still. `rollout_too_long` has the network's nine
validators and the code's own limits: its unit of time is the 180 s one of them may
take, the lead five of those.
Two deployments overlap once, with a pause that is not theirs. Three generations
let a number be carried over, released and wanted again. Three ledgers on two
workers give one worker a second ledger after the other died. Calls two deep are
one payment that re-enters; two locks let a payment's mark be compared with
another message's. Three drips of two addresses and two IPs meet each limit with
room left under the others.

`CHECK_DEADLOCK FALSE` is set everywhere because jobs, requests, deaths, time and
nonces are bounded: the system may really stop once they are used up. Symmetry
is used in the console and journal runs for jobs, names, numbers and wallets,
which no action tells apart (operators and nodes are not reduced), and in
`tools` for the faucet's addresses and callers; the runs with liveness use none.

Fairness. `serving` assumes `WF(Release(h))` of the gate and of the queue that a
running task settles: every wait of a handler is bounded (readiness, RPC, restart and
execution deadlines), whatever the outcome, and the `finally` of the handler runs.
The one call without a deadline is `docker()` (`server.mjs:957`), a child process
the operating system has to answer for; the fairness is that assumption. `pump`
assumes that the node mines, that the loop keeps ticking and supervising (it is
one `while` with timers), and, strongly, that a send and a replacement are taken, both
reads of a resync answered, the blocks scanned to the end and the wallet's count
read in a supervision again and again; a node that stays away stops the pump,
which the property allows. `faucet_gap` assumes that the node mines what it
can and that every call ends. No other run has or needs fairness. Nothing is
assumed about operators, but for what the modules above name.

## 4. Proofs

TLC checks an instance; the theorems hold for every value of the constants, that
is for every number of jobs, nodes, chains, wallets, requests, deaths, restarts
and so on. Every module follows one argument: an inductive invariant, one lemma
per action that it is kept, one step per conjunct the action disturbs, and a
temporal step at the end. The invariants below are not the properties themselves
because these are not inductive; the table says what had to be added.

`ConsoleOps_proofs`, about `ConsoleSpec`:

| Theorem | States | The invariant needs |
|---|---|---|
| `TypeCorrectness`, `IdentitiesDiffer`, `ChainsRemembered` | `ConsoleTypeOK`, `IdentityNeverReissued`, `NoChainForgotten` | identities *held* - recorded or reserved - differ (`HeldDistinct`); what each journal phase says of the P-chain (`JournalSound`); the shape of the running operation (`OpShape`, `OpHoldsJob`, `OpPhase`). Together `ConsoleInv` |
| `LedgerGrows` | `LedgerNeverForgets`, an action property | a copy that is written back lists the chains the ledger lists (`CopyFresh`), because everything that changes the lists goes through the queue |
| `UpgradesStay` | `AckedUpgradesKept` | a creation's or revocation's copy has the ledger's upgrades (`CopyUpgrades`): upgrades, unlike owners, change only in the queue |
| `TransfersHit` | `TransferHitsItsChain` | a transfer in flight is of a chain the ledger lists, once (`TransfersListed`) |
| `RevokedChainsStayOff` | `RevokedStaysOff` | between operations each node's list is within what is on record or reserved (`Resting`), and so is a list on its way (`RolloutListed`), without the chain that is being revoked (`RevokeDone`) |
| `UnrelatedChainsStay` | `UnrelatedStaysTracked`, an action property | a list that is rolled out keeps every listed chain but the one operated on (`KeepsListed`) |
| `RolloutsWithinCeiling` | `RolloutWithinCeiling` | a slot that was free when the operation began is free until it writes (`SlotKept`) |
| `ConsoleIsARegistry` | `ImplementsRegistry`, step by step | `ConsoleInv` |
| `ConsoleIsABook` | `ImplementsBook` of `ConsoleOps`, step by step | that an unresolved job is the pending one, and which phase it is in where it is closed |
| `OwnersStayIfCommitsWait` | `AckedOwnerKept`, under `[][CommitsWait]` | the copies that are written back have the ledger's owners (`OwnersInv`) |
| `RecordedOnceIfAdoptsUnlisted` | `OneRecordPerChain`, under `[][AdoptsUnlisted]` | what a creation is about to record is not recorded yet (`RecordsOnceInv`) |
| `DiscardsTrueIfUnfinished` | `DiscardedNeverAccepted`, under `[][DiscardsUnfinished]` | no command line of a discarded job runs any more (`DiscardedIsGone`) |

The assumption that the operator only says "not submitted" of what is not
submitted is the guard `MayDiscard`, without which `NoChainForgotten` is false.
`UnrelatedStaysTracked` and `ImplementsBook` of `ConsoleOps` are proved and are no
property of a run; the latter holds when it replaces those of
`console_recovery.cfg`.

The last three speak of properties that are false of the code (section 5). Each
names one kind of step and shows that the property holds of every behaviour
without it, so there is no second way to lose it: a transfer that commits while a
creation or a revocation holds a copy of the ledger; an adoption, or a
retirement, of a chain that is listed already; a discard of a job in phase
`complete`. `OwnersAdminIfReached` below does the same for `OwnerAdminsAll`, of
which there is more than one way to lose it.

`MaintenanceGate_proofs`, about `GateSpec`: `GateTypes` (with it, that the count
of admissions is the number of handlers inside), `ReadyIsDrained`
(`ReadyMeansDrained`), `PausePersists` (`AnsweredPausePersists`), `OpensToItsReader`
(`OpensOnlyToItsReader`). A new pause could reuse the identifier an operator once
read as ready; `ReadsArePast` says that nobody has read a process or a pause that
is still to come. In the code the identifiers are random UUIDs; the model takes
them as fresh.

`CreationJournal_proofs`, about `JournalSpec`: `JournalTypes`, `ReservationsKept`
(`NoReservationLost`), `OneCarries` (`OneCarrier`), `HistoryStays`
(`HistoryNeverRewritten`, which no run states: `ImplementsBook` has it of a
record's phase and verdict) and `JournalIsABook` (`ImplementsBook`). `JournalInv`
says who holds the directory, one at most (`OneHolder`), what is on it at each
point of `begin`, `update` and `complete` (`Beginning`, `Updating`, `Resolving`),
and that what another console still carries is in the history already (`Owning`);
`RecordsInv` says what the records in flight carry, for the refinement.

These theorems assume `OperatorWaits`: an operator resolves or adopts a creation
only while no other console carries it or is inside a call that writes the
directory, as `docs/CREATION-RECOVERY.md` asks ("A pending job may still be
running"). It is not a convenience. If he does not wait, `NoReservationLost` is
false: he resolves `j1` while the other console is in the middle of an update of
`j1`, the first console reserves `j2`, and the rename of the update replaces
`j2`'s `pending.json`. `AttendedJournal` shows that there is nothing to wait for,
and so all of it holds, with one console and its operator, or with any number of
consoles and nobody who resolves: the two settings of `console_files`.

`LedgerFile_proofs`, about `LedgerFileSpec`: `LedgerFileTypes`,
`AckedLedgerSurvives`, `LedgerNeverTorn`, `BackupIsClose`, and `LedgerIsARegister`
(`ImplementsRegister`). `FileInv` speaks of every directory that a power loss may
leave, not of the visible one alone (`Sound`), and of what each step of a write
has made durable (`BackingUp`, `Replacing`, `Newer`).

`OperationQueue_proofs`, about `QueueSpec`: `QueueTypes`, `SerialInOrder`
(`OneAtATimeInOrder`), `ProgressIsTrue` (`RunningIsTrue`). `QueueInv` ties each
handler to its place in the chain of promises (`Listed`, `Chained`), the counter
to the places taken (`Counted`) and a running journal to its owner (`Owned`).

`Fleet_proofs`, a section for each module:

| Theorem | States | The invariant needs |
|---|---|---|
| `OneLoginPerInvite` | `OneSessionPerInvite` | nonces of invitations and sessions are issued, differ, and an opened one is in no invitation |
| `RestartsAccepted` | `RestartAccepts` | every list there is, on disk and on each validator, is sorted and legal; up to `planned + MinLead` the list on disk and the public node's have the same past; the entry being carried is not before that (`UpgradeInv`). Nothing bounds a rollout |
| `OwnersAdminIfReached` | `OwnerAdminsAll`, under `[][TransfersInTurn]` | what is enabled after the chain's clock names the recorded owner, in the list on disk and in the one that runs; an owner read for an upgrade is the recorded one; a transfer under way has been answered, or has still to ask for, each role that is on (`GovernedInv`) |
| `IdentitiesAcrossGenerations` | `NeverReissued` | every chain there ever was is on the machine's ledger or in the checkout's list, and, while the door is open, in what the console read (`GenInv`) |
| `UpgradesAreRun`, `UndoReportsTruly`, `RolloutsReachAll` | `RecordedIsRun`, `TouchedOrNamed`, `EveryNodeTracks` | which nodes have the new file or list, are touched, or are still to do, in each phase of a rollout and of its undo (`RolloutInv`) |
| `ReleasesRunWhole` | `OpenRunsWhole` | while an installation is under way the pause and the lock are its own (`LockedAway`, `UnwindHoldsLock`); what was verified stands (`VerifiedStands`) |

`TransfersInTurn` has four parts, and `owner_pending.cfg` loses the property
without any of them: when a transfer starts, no upgrade has read the owner, the
chain runs the list on disk, and its clock is past all of it; and no upgrade reads
the owner while a transfer is under way.

`Tools_proofs`, likewise:

| Theorem | States | The invariant needs |
|---|---|---|
| `PaidIsLocked` | `PaidWasLocked` | all the worlds a call on the stack may be undone to are sound as well, and locks only grow from one to the next (`BridgeInv`) |
| `FinishedStands` | nothing that a finished transaction locked, paid or marked is taken back, an action property | every world a call may be undone to has all that stood before the outermost one (`KeptInv`) |
| `SnapshotsRestore`, `JoinsAreTrue` | `SealedIsWhatRestores`, `JoinedIsSealed` | what a run of create has compared when it comes to each step (`SnapInv`) |
| `ValidatorsAreExact` | `ExactlyThese` | the last subnet lacks exactly what the run has left (`SpendInv`) |
| `ThroughputIsCounted` | `ThroughputFromBlocks` | nothing but types |
| `RecordsAreTrue` | `RecordIsTrue` | what a worker has before it is on no line, what it has behind it is on one, and what is being written is converted (`BatchInv`); that the plan deals nodes evenly enough rests on an induction over the plan |
| `AcceptedIsBornAlive`, `AcceptedIsFreshAndPlaced` | the two halves of `PlanIsSound` | none: functions of a request and the books, here any books whose lists are finite (`IsBook`). Fresh means in no book of chains, and of a drawn number also in the band and not the C-chain's; of a typed one this is not so (`ParentMayBeTyped`: whatever request with a typed number is accepted, the same request with the C-chain's own number is accepted too, unless a book has that number). That no node gets above the cap needs that none is above it before (`WithinCap`); a cap lowered below a present load is what this leaves out. `PlansAreSound` is `PlanIsSound` from the two |
| `InventoriesFit`, `TenHostsClash` | `PlacementFits`, and when it fails | none: a function of the inventory. It holds with at most nine mothers and nine hosts on each machine, however many machines; and fails with ten hosts on one: port 9660 is then the tenth host's for staking and the second one's for its API. `NodesAreFit` is `NodesFit` from the first |

`Faucet_proofs`:

| Theorem | States | The invariant needs |
|---|---|---|
| `LimitsHold` | `DripsWithinLimits` | each list of times counts, from any instant of the last hour on, at least the drips signed since, and an address is remembered as long as it cools down, so what a sweep forgets is never missed (`FaucetInv`) |
| `AnchorsAreTrue` | `AnchoredAsPublished`, under `[]ShortWalks` and `[]ShortDips` | what is sent, mined and settled at each point of the run, above all that the block it found is the first past the mark (`CeremonyInv`) |

The tool walks down from Adam's block while blocks are past the mark, and then
looks at `ProbeBelow` (20) more for one that contradicts the order of the stamps.
`ShortWalks` says that the walk ends within its `WalkSteps` (10 000) blocks,
`ShortDips` that stamps which fall back below the mark have been above it within
those `ProbeBelow`. Where either fails the tool may settle on a later block and
not know it. Both hold in the run because the instance has seven blocks.

Assumptions on constants are named in the modules and evaluated by TLC: finite
counts are naturals; at least one record per ledger (`MaxRecords`) and one
validator that carries a chain (`Carriers`); `Order` lists the fleet once; the
names of invocations, of callers and of the states that are none of them differ;
`feeManager` is not among the precompiles an upgrade may name.

The provers have no induction over the naturals that takes a formula.
`LeastNatural` (every non-empty set of naturals has a least element, from the
library's well-foundedness) does its work where it is needed: for the walk of the
ceremony, the sliding window, the dealing of ledgers to nodes and workers, and
the plan of a chain.

Only model-checked:

- The liveness properties (`Drains`, `AcceptedIsServed`, `HoleIsCured`): fairness
  and `ENABLED` are outside the prover's reach.
- `PlanIsSound` for books in which a node is over the cap already.
- The properties of section 5, which are false.

## 5. Disagreements between the code and what it says

Five are runs, listed in `PROJECT.json` "findings":

1. `console_lost_update`: a creation or a revocation that began before an owner
   transfer writes the old owner back over the confirmed one.
2. `rollout_undone`: a `compose up` that fails after it re-created a container
   throws an error that names no node; the undo restarts none and answers UNDONE
   while that node runs the new file.
3. `rollout_too_long`: "must carry the new file before that moment"
   (`l1-upgrade.mjs`) is not ensured. Each validator may take 90 s to restart and
   90 s to show it (`server.mjs` 904, 923-932), nine of them 1620 s; the shortest
   lead is 900 s. The file's activation passes while the last validators still wait
   for theirs, and they refuse it as one that rewrites the chain's past.
   `RestartAccepts` is what does hold: up to the shortest lead after a plan.
4. `owner_pending`: the ledger's owner is not the admin of what is enabled. It is
   lost in three ways. A transfer asks the new owner's role only of precompiles
   active now; one scheduled before it activates later with the old owner (the run's
   trace). So it does when the transfer commits between an upgrade's read of the
   owner (`server.mjs` 1841) and its write of the file (1960). And it is not enough
   that the console's clock is past every entry: while no block is built, or the
   chain runs another list than the disk, a precompile that went off and on again
   still shows its admins of before.
5. `faucet_refusal`: a full queue or an exhausted global limit refuses a drip
   after the caller's hourly place (and, for the queue, the cooldown) was spent.

These have a configuration here, each checking one property that TLC finds
violated:

| Configuration (module) | Property | What happens |
|---|---|---|
| `console_double_record` (`MCConsoleOps`) | `OneRecordPerChain` | a death between the ledger write and the journal's completion, then adopt: the chain is listed twice |
| `console_undo_untracks` (`MCConsoleOps`) | `PendingStaysTracked` | undoing an upgrade restarts nodes on the ledger's list, without the subnet of a `created`, unrecorded job that `docs/CREATION-RECOVERY.md` says stays tracked |
| `journal_exit_closed` (`MCCreationJournal`) | `ExitStaysOpen` | a death between the history write and the unlink of `pending.json` leaves a reservation no resolution can close |
| `gate_unflushed` (`MaintenanceGate`) | `PersistentIsDurable` | after a failed flush and a restart the marker is reported persistent, although nothing ever flushed it |
| `queue_full_closes` (`MCServing`) | `RunningIsShown` | a request refused by a full queue closes the journal of the operation that runs |
| `queue_handover_closes` (`MCServing`) | `RunningIsShown` | a revocation that waited opens its journal before the handler ahead of it closes the journal; its progress is never shown |
| `faucet_gap` (`Faucet`) | `SentIsPaid` | a send that fails leaves a hole in the nonces; later drips wait behind it until the process restarts |
| `parent_number` (`MCTools`) | `PlansApartFromParent` | a typed 9000000009, the C-chain's own number, is accepted (`server.mjs` 1260-1288, `chainid.mjs` 140-152), although `chainid.mjs:39-40` and `chainid-test.mjs:108-114` reserve it: only the drawn numbers avoid it |

More are refuted when they replace the properties of a configuration:

| Property | In | What happens |
|---|---|---|
| `DiscardedNeverAccepted` | `console_recovery.cfg` | a job that died between its last phase and the move to history may be discarded although its chain is live; `discarded` then does not mean "nothing reached the P-chain" |
| `ClosedNoLongerBlocks` | `journal_exit_closed.cfg` | a `.tmp` left by an interrupted update outlives the resolution of its job and blocks every later creation |
| `FinishedIsKept` | `serving.cfg` | a request that fails before it opens the journal overwrites the result shown for the one before it |
| `EachNodeTracks` | `rollout_undone.cfg` | per-node model: a rollout repeated after one that died restarts only the nodes whose list differs from the file on disk, not those that never read it |
| `RevokedByOwner` | `fleet.cfg` | a revocation waits in the queue while its chain is handed over; the new owner's chain is revoked |
| `UnwindsItsOwnPause` | `fleet.cfg` | an unwind releases a pause set by hand before its deployment began |
| `FailedInstallResumes` | `fleet.cfg` | an apply that failed at install leaves a receipt neither resume nor unwind accepts, although the script says resume applies |
| `ConvertedOnce` | `tools.cfg` | an `apply` run again after a conversion whose answer was lost converts the ledger a second time |
| `ExportedOnce` | `tools.cfg` | a move run again after an import failed exports again |
| `StuckIsCured` | `pump.cfg` | a wallet that counts nothing in flight is not looked at |

So is `TickersDiffer` of `ChainPlan` on the requests of `MCTools`: a chain without
a symbol shows the ticker of its name, which may be another chain's.

Read while modelling, and not the subject of a configuration:

- The port plan of `k1.go` speaks of room for fifteen hosts on a machine
  (`k1.go:78-82`). That is the room below the mothers' API ports; the hosts' own
  staking and API ports meet at ten (`TenHostsClash`), and no inventory is refused
  for it. The example inventory has eight.
- `describeChain` calls every supply "fixed forever", also that of a mintable
  chain.
- `chainid-released.json` calls a release safe because the automatic path "can
  never re-emit" the numbers; the typed path of `planChain` (`server.mjs`
  1260-1288) accepts any released number.
- The directory step of `reopen-chain-creation.mjs` fails a live chain whose
  number was typed outside the generation's block (`PlannedIsListed` of
  `ChainPlan`), so it stays red for as long as such a chain lives.
- A pulled ledger's file is named for the day: a second pull of a day writes
  over the first.
- A console whose block list cannot be read logs it and goes on.
- A snapshot tool that is killed leaves the node it stopped stopped.

## 6. Not modelled

- The scripts that only read: the checks of documents, directories, site and
  live network, lints, preflights, load tests and drills. They change nothing
  and meet no interleaving that the models above lack. They are, with tests, the
  pages and the dashboards, most of the lines that the map does not cover.
- Requests, parsing, wording; the bytecode and the storage words of the library
  contracts and the text shown of a plan; the parsing of `upgrade.json`.
- Probes of nodes and chains: every outcome is taken as possible where it is
  used. Backups of chain data.
- Power loss in `CreationJournal`, and a death inside the write that puts
  `upgrade.json` back in place (`server.mjs:1893`): the models write it whole.
- Addresses and address ranges (CIDR) in the refusals of the door: an address is
  a key.
- The network, the P-chain, docker, ssh, GitHub and wallets are external: the
  models have the answers the programs can get (accepted, refused, lost).
- The web site, and the patches and genesis of the node.

## 7. Plan

Done: the console's operations with their two abstract specifications, the two
durable stores with theirs, the gate, the queue, the rollout and the upgrades, the
door, the deployment, the generations, the plan of a chain, the operators' tools
that change something, faucet, pump and bridge; a theorem for each safety property
of the runs, with all four refinements; and, for four of the properties the code
does not have, the one kind of step they fail for.

Left, in this order:

1. The same for the other properties of section 5: which interleaving, and no
   other, leaves a node with the file that was undone, or a reservation that
   cannot be closed.
2. An abstract specification of the door and of the faucet's limits (a window
   that admits at most so many in any hour) that `WalletDoor` and `Faucet` share
   and implement.
3. The probes of nodes and chains, which every model takes as an arbitrary answer.
