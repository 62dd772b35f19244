------------------------------ MODULE Ceremony ------------------------------
(***************************************************************************)
(* The ceremony of the first block past a published instant                *)
(* (local-net/faucet/ceremony-9s-union.mjs): transactions Adam and Eva,    *)
(* the fillers that walk the head, and the message that must land in one   *)
(* block, numbered from the first block past the mark.                     *)
(*                                                                         *)
(* The chain is external: anybody's blocks come between any two calls of   *)
(* the tool, a sent transaction is in some later block or in none, and a   *)
(* block may be stamped before its parent, which the tool does not take on *)
(* trust.  Time is the stamp of a block: 0 before the mark, Mark on it, 2  *)
(* after it.                                                               *)
(***************************************************************************)
EXTENDS Naturals, Sequences, FiniteSetsExt

CONSTANTS UnionOffset,  \* UNION_OFFSET_BLOCKS
          ProbeBelow,   \* probeBelow of findBlockAdam
          WalkSteps,    \* maxSteps of findBlockAdam
          MaxBlocks     \* bound

Mark == 1
EvaOffset == 1
Payloads == {"message", "adam", "eva"}

ASSUME CeremonyConstants == {UnionOffset, ProbeBelow, WalkSteps, MaxBlocks} \subseteq Nat \ {0}

VARIABLES blocks,     \* the chain: the stamp of each block, and the ceremony's transaction in it
          sent,       \* the transaction broadcast and in no block yet
          run         \* the tool: where it is, its options, what it has read and scored

ceremonyVars == <<blocks, sent, run>>

None == "none"

CeremonyInit ==
  /\ blocks = <<[ts |-> 0, tx |-> None]>>
  /\ sent = None
  /\ run \in [at : {"probe"}, inclusive : BOOLEAN, busy : BOOLEAN, drifted : SUBSET Payloads,
              start : {0}, head : {0}, adam : {0}, clean : {TRUE}]

Height == Len(blocks)
BlockOf(tx) == Max({n \in DOMAIN blocks : blocks[n].tx = tx} \cup {0})

-----------------------------------------------------------------------------
\* The chain.
Dips == {n \in 2 .. Height : blocks[n].ts < blocks[n - 1].ts}

NextBlock(tx) ==
  /\ Height < MaxBlocks
  /\ \E t \in 0 .. 2 :
       /\ t < blocks[Height].ts => Dips = {}                  \* bound: one of them
       /\ blocks' = Append(blocks, [ts |-> t, tx |-> tx])

Stranger == NextBlock(None) /\ UNCHANGED <<sent, run>>

Include == sent # None /\ NextBlock(sent) /\ sent' = None /\ UNCHANGED run

-----------------------------------------------------------------------------
\* main's refusals: bytes that are not the frozen ones, and a chain somebody else writes to.
LoadFrozen(file) == file \notin run.drifted

Probe ==
  /\ run.at = "probe"
  /\ run' = IF LoadFrozen("message") THEN [run EXCEPT !.at = "quiet", !.start = Height]
                                     ELSE [run EXCEPT !.at = "refused"]
  /\ UNCHANGED <<blocks, sent>>

Broadcast(tx, next) == sent' = tx /\ run' = next /\ UNCHANGED blocks

Stops(why) == run' = [run EXCEPT !.at = why] /\ UNCHANGED <<blocks, sent>>

Quiet == (Height = run.start \/ run.busy) /\ LoadFrozen("adam") /\ LoadFrozen("eva")

Begin ==
  /\ run.at = "quiet"
  /\ \/ Quiet /\ Broadcast("adam", [run EXCEPT !.at = "adam", !.start = Height])
     \/ ~Quiet /\ Stops("refused")

-----------------------------------------------------------------------------
\* findBlockAdam: down from Adam's block while the rule holds, WalkSteps blocks at most, then a look
\* below if the walk met a block that is not past the mark.
Crosses(n) == IF run.inclusive THEN blocks[n].ts >= Mark ELSE blocks[n].ts > Mark

Below(top) == Max({n \in 1 .. top : ~Crosses(n)} \cup {0})      \* where the rule fails first
WalkEnd(top) == IF top - Below(top) <= WalkSteps THEN Below(top) ELSE top - WalkSteps

\* Mutant, the first draft: up from the head read before the ceremony.
Walked_Upward(top) ==
  LET past == {n \in run.start + 1 .. top : Crosses(n)} IN IF past = {} THEN 0 ELSE Min(past)

Walked(top) == IF WalkEnd(top) = top THEN 0 ELSE WalkEnd(top) + 1

Contradicted(top) ==
  /\ top - Below(top) < WalkSteps
  /\ \E n \in DOMAIN blocks : Below(top) - ProbeBelow <= n /\ n < Below(top) /\ Crosses(n)

Target == run.adam + EvaOffset + UnionOffset

\* Adam's receipt, the search, Eva.
AdamSettled ==
  /\ run.at = "adam" /\ BlockOf("adam") > 0
  /\ LET top == BlockOf("adam") IN
     \/ Contradicted(top) /\ Stops("timestamps-not-ordered")
     \/ ~Contradicted(top) /\ Walked(top) = 0 /\ Stops("no-block-past-mark")
     \/ /\ ~Contradicted(top) /\ Walked(top) > 0
        /\ Broadcast("eva", [run EXCEPT !.at = "eva", !.adam = Walked(top)])

\* Eva's receipt: a wrong block is scored, and the run goes on.
EvaSettled ==
  /\ run.at = "eva" /\ BlockOf("eva") > 0
  /\ run' = [run EXCEPT !.at = "fill", !.head = Height,
                        !.clean = (BlockOf("eva") = run.adam + EvaOffset)]
  /\ UNCHANGED <<blocks, sent>>

\* The fillers: one is sent while the head that was read is short of the slot.
Fill ==
  /\ run.at = "fill" /\ run.head < Target - 1
  /\ Broadcast("filler", [run EXCEPT !.at = "filler", !.start = Height])

FillerSettled ==
  /\ run.at = "filler" /\ BlockOf("filler") > run.start
  /\ run' = [run EXCEPT !.at = "fill", !.head = Height]
  /\ UNCHANGED <<blocks, sent>>

Union ==
  /\ run.at = "fill" /\ run.head >= Target - 1
  /\ \/ run.head > Target - 1 /\ Stops("slot-lost")
     \/ run.head = Target - 1 /\ Broadcast("union", [run EXCEPT !.at = "union"])

\* The message's receipt, the readback, the exit code.
UnionSettled ==
  /\ run.at = "union" /\ BlockOf("union") > 0
  /\ Stops(IF run.clean /\ BlockOf("union") = Target THEN "complete" ELSE "failed")

\* wait() gives up on a receipt; the transaction may still be mined.
GivesUp ==
  /\ run.at \in {"adam", "eva", "filler", "union"} /\ sent # None
  /\ Stops("threw")

CeremonyNext ==
  \/ Stranger \/ Include
  \/ Probe \/ Begin \/ AdamSettled \/ EvaSettled \/ Fill \/ FillerSettled
  \/ Union \/ UnionSettled \/ GivesUp

CeremonySpec == CeremonyInit /\ [][CeremonyNext]_ceremonyVars

-----------------------------------------------------------------------------
\* A run that says it anchored the message did: Eva is in the block after the first block past
\* the mark, whoever made that one and whenever, the message UnionOffset blocks later; a run that
\* lost the slot sent no message, and only frozen bytes are ever on the chain (runCeremony; its
\* first draft searched upward and crowned its own block).
AnchoredAsPublished ==
  LET first == Min({n \in DOMAIN blocks : Crosses(n)} \cup {MaxBlocks + 1}) IN
  /\ run.at = "complete" =>
       BlockOf("eva") = first + EvaOffset /\ BlockOf("union") = first + EvaOffset + UnionOffset
  /\ run.at = "slot-lost" => sent # "union" /\ BlockOf("union") = 0
  /\ \A n \in DOMAIN blocks : blocks[n].tx # None => run.drifted = {}
=============================================================================
