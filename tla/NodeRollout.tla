---------------------------- MODULE NodeRollout ----------------------------
(***************************************************************************)
(* How the console changes what the nodes run: trackSubnetsLanLuot brings  *)
(* new track lists, or a new upgrade.json, to the nodes one at a time, and *)
(* napCapChain / hoanTacNangCap roll a chain's upgrade out and undo it.    *)
(*                                                                         *)
(* Two chains: `a` is on Validators and is the one upgraded; `b` is being  *)
(* created or revoked, on BValidators.  A file is the number of upgrades   *)
(* in it.  Docker and the nodes are external: a compose call may fail (the *)
(* container then counts as running what it ran), a node may not come back *)
(* in its 90 seconds, and a container may restart by itself, which makes   *)
(* it read the file on disk.                                               *)
(***************************************************************************)
EXTENDS Naturals, FiniteSets, SequencesExt

CONSTANTS Order,         \* the managed services in rollout order, the public node last
          Validators,    \* the nodes of chain a
          BValidators,   \* the nodes of chain b
          RestartsAlone, \* whether containers restart by themselves
          Wall,          \* the protocol's limit of subnets per node
          MaxRollouts    \* bound: rollouts begun

ASSUME RolloutConstants == /\ Order \in Seq(ToSet(Order)) /\ IsInjective(Order) /\ Order # <<>>
                           /\ Validators \cup BValidators \subseteq ToSet(Order)
                           /\ RestartsAlone \in BOOLEAN
                           /\ {Wall, MaxRollouts} \subseteq Nat

VARIABLES model,      \* "every" or "each": the console's V_PER_CHAIN, "unset" before it starts
          chainB,     \* "absent", "pending" (on the P-chain, unrecorded) or "recorded"
          lists,      \* node -> subnets to track, as the files on disk say
          file,       \* upgrade.json of chain a
          upgraded,   \* the last upgrade of a in the ledger
          tracks,     \* node -> subnets its container was created with
          loaded,     \* node -> the upgrade.json its process read
          rollout,    \* the rollout under way
          answer,     \* what the console said of the last one
          rollouts

nodesVars == <<tracks, loaded>>
diskVars == <<lists, file>>
ledgerVars == <<chainB, upgraded>>
rolloutVars == <<model, ledgerVars, diskVars, nodesVars, rollout, answer, rollouts>>

Fleet == ToSet(Order)
PublicNode == Last(Order)
NoRollout == [kind |-> "none"]
NoAnswer == [kind |-> "none"]

\* trackListsByNode and, in the every-node model, the one list of all of them.
TargetLists(b) ==
  [n \in Fleet |->
     IF model = "every" THEN {"a"} \cup (IF b = "absent" THEN {} ELSE {"b"})
     ELSE (IF n \in Validators THEN {"a"} ELSE {})
            \cup (IF b = "pending" \/ (b = "recorded" /\ n \in BValidators) THEN {"b"} ELSE {})]

RolloutInit ==
  /\ model = "unset" /\ chainB = "absent" /\ upgraded = 0
  /\ lists = [n \in Fleet |-> {}] /\ file = 0
  /\ tracks = [n \in Fleet |-> {}] /\ loaded = [n \in Fleet |-> 0]
  /\ rollout = NoRollout /\ answer = NoAnswer /\ rollouts = 0

\* The console is started on a network where chain a runs.
StartModel(m) ==
  /\ model = "unset" /\ model' = m
  /\ lists' = [n \in Fleet |-> IF m = "every" \/ n \in Validators THEN {"a"} ELSE {}]
  /\ tracks' = lists'
  /\ UNCHANGED <<ledgerVars, file, loaded, rollout, answer, rollouts>>

-----------------------------------------------------------------------------
\* trackSubnetsLanLuot: the wall, then the files, then the nodes to touch.  Every node in the
\* every-node model, the nodes whose list on DISK changes in the per-node one.
\* Mutant: the every-node model leaves out the nodes whose list on disk is the same.
Touches_Changed(target) == {n \in Fleet : lists[n] # target[n]}
Touches(target) ==
  IF model = "every" THEN Fleet ELSE {n \in Fleet : lists[n] # target[n]}

\* One after another, in the order of the services.
Position(n) == CHOOSE i \in DOMAIN Order : Order[i] = n
First(n, nodes) == n \in nodes /\ \A m \in nodes : Position(n) <= Position(m)

OverTheWall(target) == \E n \in Fleet : Cardinality(target[n]) > Wall

Begin(kind, phase, target, todo) ==
  /\ rollouts' = rollouts + 1
  /\ answer' = NoAnswer
  /\ rollout' = [kind |-> kind, phase |-> phase, target |-> target, todo |-> todo, done |-> {},
                 force |-> kind = "upgrade", upped |-> {}, named |-> {}, compose |-> FALSE, prev |-> file]

\* A creation (or its resumption) and a revocation of chain b bring their lists to the nodes.
BeginTracks(kind) ==
  /\ model # "unset" /\ rollout = NoRollout /\ rollouts < MaxRollouts
  /\ kind = "create" => chainB # "recorded"
  /\ kind = "revoke" => chainB = "recorded"
  /\ LET target == TargetLists(IF kind = "create" THEN "recorded" ELSE "absent") IN
     IF OverTheWall(target)
       THEN UNCHANGED <<lists, rollout, answer, rollouts>>
       ELSE Begin(kind, "up", target, Touches(target)) /\ lists' = target
  /\ chainB' = IF kind = "create" THEN "pending" ELSE chainB
  /\ UNCHANGED <<model, upgraded, file, nodesVars>>

\* napCapChain: the file on disk must be the one the public node runs; the new file is written
\* first, and only the chain's validators are touched.  From the wall on, a failure is undone.
\* Mutant: only the public node, whose answer is checked in the end, is touched.
UpgradeTouches_Public == {PublicNode}
UpgradeTouches == Validators

FileIsRun == "a" \in tracks[PublicNode] /\ loaded[PublicNode] = file

BeginUpgrade ==
  /\ model # "unset" /\ rollout = NoRollout /\ rollouts < MaxRollouts
  /\ FileIsRun
  /\ LET target == TargetLists(chainB) IN
     IF OverTheWall(target)
       THEN Begin("upgrade", "restore", target, {}) /\ lists' = lists
       ELSE Begin("upgrade", "up", target, UpgradeTouches) /\ lists' = target
  /\ file' = file + 1
  /\ UNCHANGED <<model, ledgerVars, nodesVars>>

-----------------------------------------------------------------------------
\* compose up of a container: it is created anew when forced or when its list differs, and then
\* reads its list and the file on disk.
Recreate(n, list) == tracks' = [tracks EXCEPT ![n] = list] /\ loaded' = [loaded EXCEPT ![n] = file]
ComposeUp(n, force) ==
  IF force \/ tracks[n] # lists[n] THEN Recreate(n, lists[n]) ELSE UNCHANGED nodesVars

\* A failed rollout of tracks is over; one of an upgrade is undone, on the nodes the error names:
\* those that were done and the one that failed.  An error of compose itself names none.
\* Mutant: the node that failed is left out.
ToUndo_Done(done, failed) == done
ToUndo(done, failed) == done \cup failed

FailWith(done, failed, upped, compose) ==
  IF rollout.kind = "upgrade"
    THEN /\ rollout' = [rollout EXCEPT !.phase = "restore", !.todo = ToUndo(done, failed), !.upped = upped,
                                        !.compose = compose]
         /\ answer' = answer
    ELSE rollout' = NoRollout /\ answer' = [kind |-> "failed"]

Up ==
  /\ rollout.kind # "none" /\ rollout.phase = "up" /\ rollout.todo # {}
  /\ \/ /\ UNCHANGED nodesVars                                 \* compose fails
        /\ FailWith({}, {}, rollout.upped, TRUE)
     \/ \E n \in rollout.todo :
           LET upped == rollout.upped \cup {n} IN
           /\ First(n, rollout.todo)
           /\ ComposeUp(n, rollout.force)
           /\ \/ rollout' = [rollout EXCEPT !.phase = "wait", !.upped = upped] /\ answer' = answer
              \/ FailWith(rollout.done, {n}, upped, FALSE)          \* the restart is not proven
  /\ UNCHANGED <<model, ledgerVars, diskVars, rollouts>>

\* waitChainOnNode, on an upgrade: the chain is healthy there and runs the file just written.
ChainAsRequired(n) == rollout.force => loaded[n] = file

\* The node answers for P, X and C within its time, and the chain as required.
Wait ==
  /\ rollout.kind # "none" /\ rollout.phase = "wait"
  /\ \E n \in rollout.todo :
       /\ First(n, rollout.todo)
       /\ \/ /\ ChainAsRequired(n)
             /\ rollout' = [rollout EXCEPT !.phase = "up", !.todo = @ \ {n}, !.done = @ \cup {n}]
             /\ answer' = answer
          \/ FailWith(rollout.done, {n}, rollout.upped, FALSE)
  /\ UNCHANGED <<model, ledgerVars, diskVars, nodesVars, rollouts>>

\* The rollout returns.  An upgrade is recorded when the public node runs the file and
\* says so; it may give no answer.
Return ==
  /\ rollout.kind # "none" /\ rollout.phase = "up" /\ rollout.todo = {}
  /\ rollout' = NoRollout
  /\ IF rollout.kind = "upgrade"
       THEN /\ \/ loaded[PublicNode] = file /\ upgraded' = file /\ answer' = [kind |-> "upgraded"]
               \/ upgraded' = upgraded /\ answer' = [kind |-> "unrecorded"]
            /\ chainB' = chainB
       ELSE /\ chainB' = IF rollout.kind = "create" THEN "recorded" ELSE "absent"
            /\ answer' = [kind |-> "tracking", target |-> rollout.target]
            /\ upgraded' = upgraded
  /\ UNCHANGED <<model, diskVars, nodesVars, rollouts>>

-----------------------------------------------------------------------------
\* hoanTacNangCap: the previous file first; without it every node is named.
Restore ==
  /\ rollout.kind = "upgrade" /\ rollout.phase = "restore"
  /\ \/ file' = rollout.prev /\ rollout' = [rollout EXCEPT !.phase = "undo"]
     \/ /\ file' = file
        /\ rollout' = [rollout EXCEPT !.phase = "undo", !.todo = {}, !.named = rollout.todo]
  /\ UNCHANGED <<model, ledgerVars, lists, nodesVars, answer, rollouts>>

\* Each node is forced to restart and must prove the restart, its health and the old file.  In the
\* every-node model it is given the list of the recorded chains.
UndoList(n) ==
  IF model = "every" THEN TargetLists(IF chainB = "recorded" THEN chainB ELSE "absent")[n] ELSE lists[n]

UndoNode ==
  /\ rollout.kind = "upgrade" /\ rollout.phase = "undo"
  /\ \E n \in rollout.todo :
       /\ First(n, rollout.todo)
       /\ \/ /\ Recreate(n, UndoList(n))
             /\ rollout' = [rollout EXCEPT !.todo = @ \ {n}]
          \/ /\ Recreate(n, UndoList(n)) \/ UNCHANGED nodesVars
             /\ rollout' = [rollout EXCEPT !.todo = @ \ {n}, !.named = @ \cup {n}]
  /\ UNCHANGED <<model, ledgerVars, diskVars, answer, rollouts>>

UndoAnswer ==
  /\ rollout.kind = "upgrade" /\ rollout.phase = "undo" /\ rollout.todo = {}
  /\ answer' = [kind |-> IF rollout.named = {} THEN "undone" ELSE "incomplete",
                upped |-> rollout.upped, named |-> rollout.named, compose |-> rollout.compose]
  /\ rollout' = NoRollout
  /\ UNCHANGED <<model, ledgerVars, diskVars, nodesVars, rollouts>>

-----------------------------------------------------------------------------
\* The console dies in the middle of a rollout and starts again with nothing of it in memory.
RolloutCrash ==
  /\ rollout # NoRollout /\ rollout' = NoRollout /\ answer' = NoAnswer
  /\ UNCHANGED <<model, ledgerVars, diskVars, nodesVars, rollouts>>

\* A container restarts by itself: same list, the file on disk.
NodeRestarts(n) ==
  /\ RestartsAlone
  /\ loaded[n] # file /\ loaded' = [loaded EXCEPT ![n] = file]
  /\ UNCHANGED <<model, ledgerVars, diskVars, tracks, rollout, answer, rollouts>>

RolloutNext ==
  \/ \E m \in {"every", "each"} : StartModel(m)
  \/ \E kind \in {"create", "revoke"} : BeginTracks(kind)
  \/ BeginUpgrade \/ Up \/ Wait \/ Return \/ Restore \/ UndoNode \/ UndoAnswer \/ RolloutCrash
  \/ \E n \in Fleet : NodeRestarts(n)

RolloutSpec == RolloutInit /\ [][RolloutNext]_rolloutVars

-----------------------------------------------------------------------------
\* An upgrade that stands in the ledger is the one every validator of the chain runs, or an
\* earlier one than it runs, whatever rollouts failed, died or were undone since.
RecordedIsRun == \A n \in Validators : loaded[n] >= upgraded

\* When an undo has been reported, a node whose container that rollout had brought up runs no file
\* newer than the one now on disk, or the report names it.  A rollout that ended on an error of
\* compose itself is left out: see UndoneMeansOld.
TouchedOrNamed ==
  answer.kind \in {"undone", "incomplete"} /\ ~answer.compose =>
    \A n \in answer.upped : loaded[n] <= file \/ n \in answer.named

\* In the every-node model a rollout that returned has left every node with the list, also when it
\* repeats one that failed or died after the list was written.
EveryNodeTracks ==
  model = "every" /\ answer.kind = "tracking" => \A n \in Fleet : tracks[n] = answer.target[n]

\* The same of the per-node model, whose comment in readTrackLists calls the lists on disk "what
\* every node tracks RIGHT NOW".
EachNodeTracks == answer.kind = "tracking" => \A n \in Fleet : tracks[n] = answer.target[n]

\* What the console says when it answers UNDONE: "the chain keeps its previous rules", on every
\* validator.
UndoneMeansOld == answer.kind = "undone" => \A n \in Validators : loaded[n] <= file
=============================================================================
