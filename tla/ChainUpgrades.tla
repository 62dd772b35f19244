--------------------------- MODULE ChainUpgrades ---------------------------
(***************************************************************************)
(* Governing one chain after its birth (l1-upgrade.mjs with                *)
(* planUpgradeForChain, napCapChain, hoanTacNangCap and doiChu of          *)
(* server.mjs): precompiles are enabled and disabled by a list of upgrades *)
(* that every validator reads when it restarts, and the recorded owner     *)
(* changes hands after the chain agrees.                                   *)
(*                                                                         *)
(* Two clocks: now is the console's, head the time of the chain's last     *)
(* block, which stays behind while nobody uses the chain.  The nodes and   *)
(* the chain are external: a validator runs the list it last accepted, the *)
(* last one of the rollout's order is the public node, whose view of the   *)
(* chain head and admins are.  An upgrade reads the owner, asks the node   *)
(* and writes the file; a transfer asks role by role, outside the queue.   *)
(***************************************************************************)
EXTENDS Integers, Sequences, FiniteSets, FiniteSetsExt

CONSTANTS Keys,         \* the upgradable precompiles
          OnAtBirth,    \* those of the genesis
          Owners, FirstOwner,
          MinLead,      \* activation is at least this far ahead
          MaxLead,      \* and at most this far
          Carriers,     \* how many validators a rollout restarts, one after another
          NodeWait,     \* how long one of them may take
          MaxNow, MaxUpgrades, MaxTransfers \* bounds

ASSUME UpgradeConstants ==
  /\ {MinLead, MaxLead, Carriers, NodeWait, MaxNow, MaxUpgrades, MaxTransfers} \subseteq Nat
  /\ Carriers > 0 /\ FirstOwner \in Owners /\ OnAtBirth \subseteq Keys

\* UPGRADABLE_PRECOMPILES: "it is on for every chain and it is how the owner governs fees".
ASSUME FeeManagerStays == "feeManager" \notin Keys

VARIABLES now, head,
          list,      \* upgrade.json on disk
          runs,      \* the list each validator runs
          rollingTo, \* how many validators the rollout has restarted, or Idle, or Undoing
          waited,    \* how long the validator being restarted has taken
          planned,   \* when the last upgrade was planned
          planning,  \* the owner an upgrade being planned has read
          transfers, \* the transfers under way: the new owner and the roles still to ask for
          admins,    \* on the chain: precompile -> its admins
          recorded,  \* the owner in the ledger
          asked      \* bound: upgrades written

chainVars == <<head, admins>>
rolloutUpVars == <<list, runs, rollingTo, waited>>
governVars == <<now, chainVars, rolloutUpVars, planned, planning, transfers, recorded, asked>>

Enable(k, t, w) == [key |-> k, at |-> t, disable |-> FALSE, admin |-> w]
Disable(k, t) == [key |-> k, at |-> t, disable |-> TRUE, admin |-> FirstOwner]
EveryKey == Keys \cup {"feeManager"}
Idle == -1
Undoing == -2
inForce == runs[Carriers] \* by eth_getChainConfig of the public node

\* activePrecompiles: the last entry that is not in the future decides.
UpTo(l, k, t) == {i \in DOMAIN l : l[i].key = k /\ l[i].at <= t}
Enabled(l, k, t) ==
  IF UpTo(l, k, t) = {} THEN k \in OnAtBirth ELSE ~l[Max(UpTo(l, k, t))].disable
PendingAt(l, k, t) == \E i \in DOMAIN l : l[i].key = k /\ l[i].at > t

\* verifyPrecompileUpgrades: times never go back, those of one key increase, and every entry
\* turns over what the one before it left.
Before(l, i) == {j \in 1 .. i - 1 : l[j].key = l[i].key}
Legal(l) ==
  \A i \in DOMAIN l :
    /\ i > 1 => l[i].at >= l[i - 1].at
    /\ \A j \in Before(l, i) : l[i].at > l[j].at
    /\ l[i].disable = IF Before(l, i) = {} THEN l[i].key \in OnAtBirth ELSE ~l[Max(Before(l, i))].disable

\* What of a list is not after t.  A node refuses a list that differs from its own in the chain's
\* past ("cannot retroactively enable").
Past(l, t) == {<<i, l[i]>> : i \in {j \in DOMAIN l : l[j].at <= t}}
Loads(v) == Legal(list) /\ Past(list, head) = Past(runs[v], head)

GovernInit ==
  /\ now = 0 /\ head = 0 /\ list = <<>> /\ runs = [v \in 1 .. Carriers |-> <<>>]
  /\ rollingTo = Idle /\ waited = 0 /\ planned = 0 /\ planning = {} /\ transfers = {}
  /\ admins = [k \in EveryKey |-> IF k = "feeManager" \/ k \in OnAtBirth THEN {FirstOwner} ELSE {}]
  /\ recorded = FirstOwner /\ asked = 0

-----------------------------------------------------------------------------
\* The admins after the chain's clock moved from t to u: entries in between configure theirs.
Configured(t, u) ==
  [k \in EveryKey |->
     LET passed == {i \in DOMAIN inForce : inForce[i].key = k /\ inForce[i].at > t /\ inForce[i].at <= u}
     IN IF passed = {} THEN admins[k]
        ELSE IF inForce[Max(passed)].disable THEN {} ELSE {inForce[Max(passed)].admin}]

\* A block, with a transaction in it: an admin makes somebody else an admin (setAdmin).
Block ==
  /\ head < now /\ head' = now /\ admins' = Configured(head, now)
  /\ UNCHANGED <<now, rolloutUpVars, planned, planning, transfers, recorded, asked>>
SetAdmin(w, k) ==
  /\ recorded \in Configured(head, now)[k]
  /\ head' = now /\ admins' = [Configured(head, now) EXCEPT ![k] = @ \cup {w}]
  /\ UNCHANGED <<now, rolloutUpVars, planned, planning, transfers, recorded, asked>>

\* Time passes; a validator being restarted answers within its waits, or the rollout fails.
Elapse ==
  /\ now < MaxNow /\ now' = now + 1
  /\ rollingTo >= 0 => waited < NodeWait
  /\ waited' = IF rollingTo >= 0 THEN waited + 1 ELSE 0
  /\ UNCHANGED <<chainVars, list, runs, rollingTo, planned, planning, transfers, recorded, asked>>

-----------------------------------------------------------------------------
\* planUpgrade: the activation is the lead away and not before any entry of the list.
ActivateAt(lead) == Max({now + lead} \cup {list[i].at : i \in DOMAIN list})
Entry(k, lead, w) ==
  LET same == {list[i].at : i \in {j \in DOMAIN list : list[j].key = k}}
      t == IF same # {} /\ Max(same) >= ActivateAt(lead) THEN Max(same) + 1 ELSE ActivateAt(lead)
  IN IF Enabled(list, k, now) THEN Disable(k, t) ELSE Enable(k, t, w)
LeadInRange(lead) == MinLead <= lead /\ lead <= MaxLead

\* Mutant: the node is not asked what it runs.
NodeRunsDisk_Unasked == TRUE
NodeRunsDisk == list = inForce

\* planUpgradeForChain: in the queue, an upgrade reads the owner of the chain and asks the node.
UpgradeAsks ==
  /\ rollingTo = Idle /\ planning = {} /\ planning' = {recorded}
  /\ UNCHANGED <<now, chainVars, rolloutUpVars, planned, transfers, recorded, asked>>

\* With the node's answer, planUpgrade and napCapChain: refused while the node runs another list than
\* the disk, or the key has an upgrade to come; the new list is on disk before the first restart.
Upgrade(k, lead) ==
  /\ asked < MaxUpgrades /\ LeadInRange(lead)
  /\ NodeRunsDisk /\ Legal(list) /\ ~PendingAt(list, k, now)
  /\ \E w \in planning :
       /\ Legal(Append(list, Entry(k, lead, w)))
       /\ list' = Append(list, Entry(k, lead, w))
  /\ planning' = {} /\ rollingTo' = 0 /\ waited' = 0 /\ planned' = now /\ asked' = asked + 1
  /\ UNCHANGED <<now, chainVars, runs, transfers, recorded>>

\* Or it is refused.
UpgradeRefused ==
  /\ planning # {} /\ planning' = {}
  /\ UNCHANGED <<now, chainVars, rolloutUpVars, planned, transfers, recorded, asked>>

-----------------------------------------------------------------------------
\* The rollout: the next validator restarts and runs what is on disk; the public node is the last one.
Restarted ==
  /\ rollingTo \in 0 .. Carriers - 1 /\ waited' = 0 /\ Loads(rollingTo + 1)
  /\ runs' = [runs EXCEPT ![rollingTo + 1] = list]
  /\ rollingTo' = IF rollingTo + 1 = Carriers THEN Idle ELSE rollingTo + 1
  /\ UNCHANGED <<now, chainVars, list, planned, planning, transfers, recorded, asked>>

\* A validator restarts for another reason: the undo, another chain's rollout, its machine.
Reread(v) ==
  /\ Loads(v) /\ runs' = [runs EXCEPT ![v] = list]
  /\ UNCHANGED <<now, chainVars, list, rollingTo, waited, planned, planning, transfers, recorded, asked>>

\* A validator did not come back, or compose failed.  hoanTacNangCap puts the previous list on disk and
\* restarts some of the validators, or cannot write the file and restarts none.
RolloutFails ==
  /\ rollingTo >= 0 /\ waited' = 0
  /\ \/ list' = SubSeq(list, 1, Len(list) - 1) /\ rollingTo' = Undoing
     \/ list' = list /\ rollingTo' = Idle
  /\ UNCHANGED <<now, chainVars, runs, planned, planning, transfers, recorded, asked>>
UndoReturns ==
  /\ rollingTo = Undoing /\ rollingTo' = Idle
  /\ UNCHANGED <<now, chainVars, list, runs, waited, planned, planning, transfers, recorded, asked>>

\* The console dies: whatever was under way stays as it is on disk and on the nodes.
Dies ==
  /\ rollingTo' = Idle /\ waited' = 0 /\ planning' = {} /\ transfers' = {}
  /\ UNCHANGED <<now, chainVars, list, runs, planned, recorded, asked>>

-----------------------------------------------------------------------------
\* doiChu: the new owner is an admin of FeeManager and of every precompile active on the console's
\* clock; the chain answers nothing about a precompile it has not reached.  The roles are asked one
\* after another and the ledger is written at the end, while upgrades are planned and rolled out.
Asked == {"feeManager"} \cup {k \in Keys : Enabled(list, k, now)}
TransferAsks(w) ==
  /\ Cardinality(transfers) < MaxTransfers /\ w # recorded
  /\ transfers' = transfers \cup {[to |-> w, keys |-> Asked]}
  /\ UNCHANGED <<now, chainVars, rolloutUpVars, planned, planning, recorded, asked>>
RoleAnswered(t, k) ==
  /\ k \in t.keys /\ t.to \in admins[k]
  /\ k = "feeManager" \/ "feeManager" \notin t.keys
  /\ transfers' = (transfers \ {t}) \cup {[t EXCEPT !.keys = @ \ {k}]}
  /\ UNCHANGED <<now, chainVars, rolloutUpVars, planned, planning, recorded, asked>>
TransferRefused(t) ==
  /\ transfers' = transfers \ {t}
  /\ UNCHANGED <<now, chainVars, rolloutUpVars, planned, planning, recorded, asked>>
Transfer(t) ==
  /\ t.keys = {} /\ recorded' = t.to /\ transfers' = transfers \ {t}
  /\ UNCHANGED <<now, chainVars, rolloutUpVars, planned, planning, asked>>

GovernNext ==
  \/ Block \/ Elapse \/ UpgradeAsks \/ UpgradeRefused \/ Restarted \/ RolloutFails \/ UndoReturns \/ Dies
  \/ \E w \in Owners, k \in EveryKey : SetAdmin(w, k)
  \/ \E k \in Keys, lead \in 0 .. MaxLead + 1 : Upgrade(k, lead)
  \/ \E v \in 1 .. Carriers : Reread(v)
  \/ \E w \in Owners : TransferAsks(w)
  \/ \E t \in transfers : TransferRefused(t) \/ Transfer(t) \/ \E k \in EveryKey : RoleAnswered(t, k)
GovernSpec == GovernInit /\ [][GovernNext]_governVars

-----------------------------------------------------------------------------
\* Until the shortest lead after a plan is over, a validator in step with the public node accepts the
\* file on disk, whichever of them restarts: after rollouts that failed, were undone or died half-way,
\* and upgrades planned after those (planUpgradeForChain's comparison of the node with the disk).
RestartAccepts ==
  /\ Legal(list)
  /\ now < planned + MinLead => \A v \in 1 .. Carriers : runs[v] = inForce => Loads(v)

\* "the owner is the admin of anything enabled here": in the next block, whatever precompile
\* is on has the recorded owner among its admins.
OwnerAdminsAll ==
  \A k \in EveryKey :
    (k = "feeManager" \/ Enabled(inForce, k, now)) => recorded \in Configured(head, now)[k]

\* "restarts once, one after another (~5 minutes), and must carry the new file before that moment":
\* while a list is rolled out, each validator still accepts it.
CarriedInTime == rollingTo >= 0 => \A v \in 1 .. Carriers : Loads(v)
=============================================================================
