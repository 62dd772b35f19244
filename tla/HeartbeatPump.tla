--------------------------- MODULE HeartbeatPump ---------------------------
(***************************************************************************)
(* The heartbeat pump (local-net/faucet/heartbeat-pump.mjs): one of its    *)
(* wallets, the account's transactions on the node, and the loop that      *)
(* paces sends, supervises and publishes.                                  *)
(*                                                                         *)
(* The node is external: it mines the lowest nonce when it holds it,       *)
(* counts as "pending" what follows without a gap, and may lose a call or  *)
(* only the answer to it.  Time is the flag that STUCK_AFTER_MS went by    *)
(* without a mined nonce; the schedule's deficit is any number up to its   *)
(* cap.                                                                    *)
(***************************************************************************)
EXTENDS Naturals, Integers, FiniteSets, Sequences, FiniteSetsExt

CONSTANTS MaxNonce,        \* bound: nonces the wallet may use
          MaxInFlight,     \* MAX_IN_FLIGHT
          TargetTps,       \* TARGET_TPS, one wallet's share
          MaxRpcFailures,  \* MAX_RPC_FAILURES
          MaxAbsent        \* bound: blocks the node has no answer for

ASSUME PumpConstants ==
  /\ {MaxNonce, MaxInFlight, TargetTps, MaxRpcFailures} \subseteq Nat \ {0}
  /\ MaxAbsent \in Nat

VARIABLES height, held,                      \* the node: next nonce to mine, nonces held
          nextNonce, minedNonce, inFlight,   \* the wallet's entry of `state`
          frozen,                            \* STUCK_AFTER_MS since minedNonce moved
          burst,                             \* the sends of a tick under way
          lastScanned, committedTotal,       \* one block per mined transaction: heights are nonces
          absent,                            \* history: scanned blocks the node had no answer for
          running, rpcFailures, published

nodeVars == <<height, held>>
walletVars == <<nextNonce, minedNonce, inFlight, frozen>>
blockVars == <<lastScanned, committedTotal, absent>>
loopVars == <<running, rpcFailures, published>>
pumpVars == <<nodeVars, walletVars, burst, blockVars, loopVars>>

Pending == Min({n \in height .. MaxNonce + 1 : n \notin held})   \* getTransactionCount "pending"
Gap == \E n \in held : n > Pending                             \* a transaction that cannot be mined
Unread == -1
NoCall == [st |-> "done", nonce |-> 0, pending |-> Unread, latest |-> Unread]
Asked == [NoCall EXCEPT !.st = "asked"]   \* a resync under way

PumpInit ==
  /\ height = 0 /\ held = {}
  /\ nextNonce = 0 /\ minedNonce = 0 /\ inFlight = 0 /\ frozen = FALSE
  /\ burst = <<>>
  /\ lastScanned = 0 /\ committedTotal = 0 /\ absent = 0
  /\ running = TRUE /\ rpcFailures = 0
  /\ published = TRUE

-----------------------------------------------------------------------------
\* The node and the clock.
MineNext ==
  /\ height \in held
  /\ height' = height + 1 /\ held' = held \ {height}
  /\ UNCHANGED <<walletVars, burst, blockVars, loopVars>>

Freeze ==
  /\ running /\ ~frozen /\ minedNonce = height
  /\ frozen' = TRUE
  /\ UNCHANGED <<nodeVars, nextNonce, minedNonce, inFlight, burst, blockVars, loopVars>>

-----------------------------------------------------------------------------
\* tick(): the deficit is capped at two seconds of work and the sends start together;
\* a send that finds the wallet at the ceiling returns at once.
Room == IF inFlight >= MaxInFlight THEN 0 ELSE MaxInFlight - inFlight
Started(deficit) == Min({deficit, Room})

Idle == \A i \in DOMAIN burst : burst[i].st = "done"

Tick ==
  /\ running /\ Idle
  /\ \E deficit \in 1 .. 2 * TargetTps :
       LET k == Started(deficit) IN
       /\ k > 0 /\ nextNonce + k <= MaxNonce
       /\ burst' = [i \in 1 .. k |-> [NoCall EXCEPT !.st = "air", !.nonce = nextNonce + i - 1]]
       /\ nextNonce' = nextNonce + k /\ inFlight' = inFlight + k
  /\ UNCHANGED <<nodeVars, minedNonce, frozen, blockVars, loopVars>>

\* The node's answer to a send: taken, refused for its nonce, or lost on the way there or back.
InPool(n) == n \in held
TooLow(n) == n < height

\* sendOne's catch: the nonce goes back, and the wallet is read again unless the
\* node said it already has that transaction (a lost call says nothing).
GiveBack(i, known) ==
  /\ nextNonce' = burst[i].nonce /\ inFlight' = inFlight - 1
  /\ burst' = [burst EXCEPT ![i] = IF known THEN NoCall ELSE Asked]

Answer(i) ==
  /\ i \in DOMAIN burst /\ burst[i].st = "air"
  /\ LET n == burst[i].nonce IN
     \/ /\ ~InPool(n) /\ ~TooLow(n)                       \* taken, and the wallet hears of it
        /\ held' = held \cup {n}
        /\ burst' = [burst EXCEPT ![i] = NoCall]
        /\ UNCHANGED <<nextNonce, inFlight>>
     \/ /\ ~InPool(n) /\ ~TooLow(n)                       \* taken, the answer is lost
        /\ held' = held \cup {n} /\ GiveBack(i, FALSE)
     \/ held' = held /\ GiveBack(i, FALSE)                \* refused, or the call is lost
     \/ held' = held /\ InPool(n) /\ GiveBack(i, TRUE)    \* "already known"
  /\ UNCHANGED <<height, minedNonce, frozen, blockVars, loopVars>>

\* resync(): two reads at once, answered in any order, then the assignments; a read
\* that fails leaves the wallet alone.
AllRead(call) == call.st = "asked" /\ call.pending # Unread /\ call.latest # Unread

Read(i) ==
  /\ i \in DOMAIN burst /\ burst[i].st = "asked" /\ ~AllRead(burst[i])
  /\ \/ burst[i].pending = Unread /\ burst' = [burst EXCEPT ![i].pending = Pending]
     \/ burst[i].latest = Unread /\ burst' = [burst EXCEPT ![i].latest = height]
     \/ burst' = [burst EXCEPT ![i] = NoCall]
  /\ UNCHANGED <<nodeVars, walletVars, blockVars, loopVars>>

Resynced(pending, latest) ==
  /\ nextNonce' = pending /\ inFlight' = pending - latest
  /\ minedNonce' = latest /\ frozen' = (frozen /\ latest = minedNonce)

Resync(i) ==
  /\ i \in DOMAIN burst /\ AllRead(burst[i])
  /\ Resynced(burst[i].pending, burst[i].latest)
  /\ burst' = [burst EXCEPT ![i] = NoCall]
  /\ UNCHANGED <<nodeVars, blockVars, loopVars>>

-----------------------------------------------------------------------------
\* scanBlocks(): the blocks since the last scan are counted once, whatever block a
\* failed read stops at (a block of the account holds one transaction here); a block the
\* node has no answer for counts nothing.
\* Mutant: the total moves with every block read, the height only at the end.
Scanned_Eager(ok, upTo) ==
  /\ committedTotal' = committedTotal + (upTo - lastScanned)
  /\ lastScanned' = IF ok THEN height ELSE lastScanned
  /\ UNCHANGED absent

Scanned(ok, upTo) ==
  IF ok THEN /\ lastScanned' = height
             /\ \E none \in 0 .. height - lastScanned :
                  /\ absent + none <= MaxAbsent
                  /\ committedTotal' = committedTotal + (height - lastScanned) - none
                  /\ absent' = absent + none
        ELSE UNCHANGED blockVars

\* A probe that fails: the fifth in a row stops the pump.
Unreachable ==
  /\ rpcFailures' = rpcFailures + 1
  /\ running' = (rpcFailures + 1 < MaxRpcFailures)
  /\ UNCHANGED <<held, walletVars, burst>>

\* unstick(): a dearer transaction at the mined nonce, taken or rejected, then a resync;
\* when the fee cannot be read, neither.
Replacement == minedNonce

Unstick ==
  /\ \/ /\ held' = held
        /\ burst' \in {burst, <<Asked>>}
     \/ /\ Replacement >= height /\ held' = held \cup {Replacement}
        /\ burst' = <<Asked>>
  /\ UNCHANGED walletVars

\* Mutant: only a wallet past its ceiling is looked at.
Stuck_PastCeiling == height <= minedNonce /\ inFlight > MaxInFlight /\ frozen

Stuck == height <= minedNonce /\ inFlight > 0 /\ frozen

StillRunning == BOOLEAN   \* enough disk, no stop file, before the deadline: or not

\* The wallet's mined count is read.
Counted ==
  \/ /\ height > minedNonce
     /\ minedNonce' = height /\ frozen' = FALSE
     /\ inFlight' = Max({0, nextNonce - height})
     /\ UNCHANGED <<nextNonce, held, burst>>
  \/ Stuck /\ Unstick
  \/ height <= minedNonce /\ ~(inFlight > 0 /\ frozen) /\ UNCHANGED <<held, walletVars, burst>>

\* A wallet whose count cannot be read is skipped.
Reachable ==
  /\ rpcFailures' = 0
  /\ running' \in StillRunning
  /\ Counted \/ UNCHANGED <<held, walletVars, burst>>

Supervise ==
  /\ running /\ Idle
  /\ \/ \E upTo \in lastScanned .. height : Scanned(FALSE, upTo) /\ Unreachable
     \/ Scanned(TRUE, height) /\ Reachable
  /\ UNCHANGED <<height, published>>

\* publish(): also the last thing the loop does when it has stopped; the write may fail.
Publish ==
  /\ Idle
  /\ published' = running
  /\ UNCHANGED <<nodeVars, walletVars, burst, blockVars, running, rpcFailures>>

PumpNext ==
  \/ MineNext \/ Freeze \/ Tick \/ Supervise \/ Publish
  \/ \E i \in DOMAIN burst : Answer(i) \/ Read(i) \/ Resync(i)

PumpSpec == PumpInit /\ [][PumpNext]_pumpVars

-----------------------------------------------------------------------------
\* The throughput the pump publishes counts every block it has scanned once, whatever
\* read of a scan failed, but for those the node had no answer for, and no block that is
\* not mined (RULE 3 of the pump).
ThroughputFromBlocks == committedTotal + absent = lastScanned /\ lastScanned <= height

\* A hole in the wallet's nonces is filled while the pump runs: by unstick, which sends
\* at the mined nonce, or by the next send after a resync.  The one state it can rest
\* in is a wallet that counts nothing in flight and a next nonce past the hole.
HoleIsCured == Gap ~> (~Gap \/ (inFlight <= 0 /\ nextNonce > Pending) \/ ~running)

\* What the pump says of unstick: a stuck wallet, whatever it counts, is cured.
StuckIsCured == Gap ~> (~Gap \/ ~running)

\* The node mines and answers; it takes a send and a replacement, answers a read, and
\* the other read of the same resync, and is reached by a supervision again and again:
\* the loop runs a tick, then supervises, and a node that stays away for
\* MAX_RPC_FAILURES probes stops the pump.
FairPump ==
  /\ PumpSpec
  /\ WF_pumpVars(MineNext) /\ WF_pumpVars(Freeze)
  /\ WF_pumpVars(\E i \in DOMAIN burst : Answer(i) \/ Read(i) \/ Resync(i))
  /\ SF_pumpVars(\E i \in DOMAIN burst : Answer(i) /\ held' # held)
  /\ SF_pumpVars(\E i \in DOMAIN burst : Read(i) /\ burst'[i].st = "asked")
  /\ SF_pumpVars(\E i \in DOMAIN burst : Read(i) /\ AllRead(burst'[i]))
  /\ SF_pumpVars(Tick)
  /\ SF_pumpVars(Supervise /\ Scanned(TRUE, height) /\ Counted)
  /\ SF_pumpVars(Supervise /\ held' # held)
=============================================================================
