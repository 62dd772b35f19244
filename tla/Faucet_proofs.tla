---------------------------- MODULE Faucet_proofs ---------------------------
(***************************************************************************)
(* What holds of the faucet's endpoint and of the ceremony, the two        *)
(* programs of local-net/faucet that keep numbers of their own beside the  *)
(* node's: the times of the drips, the numbers of the blocks.              *)
(***************************************************************************)
EXTENDS Ceremony, Faucet, FiniteSetTheorems, SequenceTheorems, WellFoundedInduction, TLAPS

-----------------------------------------------------------------------------
\* Every set of naturals has a least one: induction, where a statement about all blocks needs it.
LEMMA LeastNatural ==
  ASSUME NEW T \in SUBSET Nat, T # {}
  PROVE  \E x \in T : \A y \in T : x <= y
<1> DEFINE R == OpToRel(<, Nat)
<1>1. IsWellFoundedOn(R, Nat)
  BY NatLessThanWellFounded
<1>2. \A x, y \in Nat : x < y => <<x, y>> \in R
  BY DEF OpToRel
<1> HIDE DEF R
<1>3. \E x \in T : \A y \in T : ~(<<y, x>> \in R)
  BY <1>1, WFMin
<1>4. PICK x \in T : \A y \in T : ~(<<y, x>> \in R)
  BY <1>3
<1>5. ASSUME NEW y \in T PROVE x <= y
  <2>1. x \in Nat /\ y \in Nat
    OBVIOUS
  <2>2. ~(y < x)
    BY <1>2, <1>4, <2>1
  <2> QED
    BY <2>1, <2>2
<1> QED BY <1>5

-----------------------------------------------------------------------------
\* The ceremony.
Carried == {None, "adam", "eva", "filler", "union"}
Places == {"probe", "quiet", "refused", "adam", "eva", "fill", "filler", "union", "complete", "failed", "slot-lost",
           "timestamps-not-ordered", "no-block-past-mark", "threw"}
ToolType ==
  [at : Places, inclusive : BOOLEAN, busy : BOOLEAN, drifted : SUBSET Payloads, start : Nat, head : Nat, adam : Nat,
   clean : BOOLEAN]

InNoBlock(tx) == \A n \in DOMAIN blocks : blocks[n].tx # tx
FirstPast(k) == k \in DOMAIN blocks /\ Crosses(k) /\ \A n \in DOMAIN blocks : n < k => ~Crosses(n)

\* Where the tool is tells what it may have sent, and what is settled.
CeremonyInv ==
  /\ blocks \in Seq([ts : Nat, tx : Carried]) /\ Len(blocks) <= MaxBlocks /\ sent \in Carried /\ run \in ToolType
  /\ IF run.at \in {"probe", "quiet", "refused"} THEN sent = None /\ \A n \in DOMAIN blocks : blocks[n].tx = None
                                                 ELSE run.drifted = {}
  /\ run.at = "quiet" => "message" \notin run.drifted
  /\ run.at = "adam" => sent # "eva" /\ InNoBlock("eva")
  /\ sent \in {"eva", "union"} => InNoBlock(sent)
  /\ run.at \in {"fill", "filler", "union", "complete", "slot-lost"} => sent # "eva"
  /\ run.at \in {"adam", "eva", "fill", "filler", "slot-lost"} => sent # "union" /\ InNoBlock("union")
  /\ run.at \in {"eva", "fill", "filler", "union", "complete"} => FirstPast(run.adam)
  /\ run.at \in {"fill", "filler", "union", "complete"} /\ run.clean => BlockOf("eva") = run.adam + EvaOffset
  /\ run.at = "complete" => run.clean /\ BlockOf("union") = Target /\ sent # "union"

\* What the tool's search has to see is within its reach: the walk comes to a block that is not past
\* the mark within its steps, and below such a block the look finds one that is if there is one.
ShortWalks == \A n \in DOMAIN blocks : n - Below(n) < WalkSteps
ShortDips ==
  \A n \in DOMAIN blocks :
    ~Crosses(n) /\ (\E m \in DOMAIN blocks : m < n /\ Crosses(m)) =>
      \E m \in DOMAIN blocks : n - ProbeBelow <= m /\ m < n /\ Crosses(m)

LEMMA GreatestNatural ==
  ASSUME NEW b \in Nat, NEW S \in SUBSET (0 .. b), S # {}
  PROVE  Max(S) \in S /\ \A y \in S : y <= Max(S)
<1> DEFINE T == {b - x : x \in S}
<1>1. T \in SUBSET Nat /\ T # {}
  <2>1. \A x \in S : b - x \in Nat
    OBVIOUS
  <2> QED
    BY <2>1
<1>2. PICK t \in T : \A y \in T : t <= y
  <2> HIDE DEF T
  <2> QED
    BY <1>1, LeastNatural
<1>3. PICK x \in S : t = b - x
  OBVIOUS
<1>4. ASSUME NEW y \in S PROVE x >= y
  <2>1. b - x <= b - y
    BY <1>2, <1>3
  <2>2. x \in Int /\ y \in Int
    OBVIOUS
  <2> QED
    BY <2>1, <2>2
<1>5. Max(S) \in S /\ \A y \in S : Max(S) >= y
  BY <1>4 DEF Max
<1>6. Max(S) \in Int /\ \A y \in S : y \in Int
  <2>1. \A y \in S : y \in Int
    OBVIOUS
  <2> QED
    BY <1>5, <2>1
<1> QED
  BY <1>5, <1>6

LEMMA BlockOfTop ==
  ASSUME blocks \in Seq([ts : Nat, tx : Carried]), NEW tx
  PROVE  /\ BlockOf(tx) \in Nat
         /\ BlockOf(tx) > 0 => BlockOf(tx) \in DOMAIN blocks /\ blocks[BlockOf(tx)].tx = tx
         /\ InNoBlock(tx) => BlockOf(tx) = 0
<1> DEFINE S == {n \in DOMAIN blocks : blocks[n].tx = tx} \cup {0}
<1>1. Len(blocks) \in Nat /\ DOMAIN blocks = 1 .. Len(blocks)
  OBVIOUS
<1>2. S \in SUBSET (0 .. Len(blocks)) /\ S # {}
  BY <1>1
<1>3. BlockOf(tx) = Max(S)
  BY DEF BlockOf
<1>4. BlockOf(tx) \in S
  <2> HIDE DEF S
  <2> QED
    BY <1>1, <1>2, <1>3, GreatestNatural
<1> QED
  BY <1>1, <1>4 DEF InNoBlock

-----------------------------------------------------------------------------
\* A new block changes none of what is settled.
LEMMA GrowthKeeps ==
  ASSUME CeremonyInv, NEW tx \in {None, sent}, NextBlock(tx), sent' \in {None, sent}, tx # None => sent' = None, UNCHANGED run
  PROVE  CeremonyInv'
<1>1. PICK t \in 0 .. 2 : blocks' = Append(blocks, [ts |-> t, tx |-> tx])
  BY DEF NextBlock
<1>2. /\ blocks \in Seq([ts : Nat, tx : Carried]) /\ sent \in Carried /\ run \in ToolType /\ MaxBlocks \in Nat
      /\ Len(blocks) \in Nat /\ DOMAIN blocks = 1 .. Len(blocks) /\ Len(blocks) < MaxBlocks
  BY CeremonyConstants DEF CeremonyInv, NextBlock, Height
<1>3. [ts |-> t, tx |-> tx] \in [ts : Nat, tx : Carried]
  BY <1>2 DEF Carried
<1>4. /\ blocks' \in Seq([ts : Nat, tx : Carried]) /\ Len(blocks') = Len(blocks) + 1
      /\ DOMAIN blocks' = DOMAIN blocks \cup {Len(blocks) + 1}
      /\ \A n \in DOMAIN blocks : blocks'[n] = blocks[n]
      /\ blocks'[Len(blocks) + 1] = [ts |-> t, tx |-> tx]
  BY <1>1, <1>2, <1>3
<1>5. /\ run' = run /\ sent' \in Carried /\ Len(blocks') <= MaxBlocks
  BY <1>2, <1>4 DEF Carried
<1>6. ASSUME NEW x, x # None, InNoBlock(x), x # sent PROVE InNoBlock(x)'
  BY <1>4, <1>6 DEF InNoBlock
<1>7. ASSUME NEW x, x # None, x # sent PROVE BlockOf(x)' = BlockOf(x)
  <2>1. {n \in DOMAIN blocks' : blocks'[n].tx = x} = {n \in DOMAIN blocks : blocks[n].tx = x}
    BY <1>4, <1>7
  <2> QED
    BY <2>1 DEF BlockOf
<1>8. ASSUME NEW k, FirstPast(k) PROVE FirstPast(k)'
  BY <1>2, <1>4, <1>5, <1>8 DEF FirstPast, Crosses
<1>9. IF run'.at \in {"probe", "quiet", "refused"} THEN sent' = None /\ \A n \in DOMAIN blocks' : blocks'[n].tx = None
                                                   ELSE run'.drifted = {}
  BY <1>4, <1>5 DEF CeremonyInv
<1>10. sent' \in {"eva", "union"} => InNoBlock(sent)'
  <2> SUFFICES ASSUME sent' \in {"eva", "union"} PROVE InNoBlock(sent)'
    OBVIOUS
  <2>1. sent' = sent /\ tx = None /\ InNoBlock(sent)
    BY DEF CeremonyInv, None
  <2> QED
    BY <1>4, <2>1 DEF InNoBlock, None
<1>11. Target' = Target
  BY <1>5 DEF Target
<1>12. "eva" # None /\ "union" # None
  BY DEF None
<1>13. run.at = "adam" => sent' # "eva" /\ InNoBlock("eva")'
  BY <1>6, <1>12 DEF CeremonyInv
<1>14. run.at \in {"fill", "filler", "union", "complete", "slot-lost"} => sent' # "eva"
  BY <1>12 DEF CeremonyInv
<1>15. run.at \in {"adam", "eva", "fill", "filler", "slot-lost"} => sent' # "union" /\ InNoBlock("union")'
  BY <1>6, <1>12 DEF CeremonyInv
<1>16. run.at \in {"eva", "fill", "filler", "union", "complete"} => FirstPast(run.adam)'
  BY <1>8 DEF CeremonyInv
<1>17. run.at \in {"fill", "filler", "union", "complete"} /\ run.clean => BlockOf("eva")' = run.adam + EvaOffset
  BY <1>7, <1>12 DEF CeremonyInv
<1>18. run.at = "complete" => run.clean /\ BlockOf("union")' = Target /\ sent' # "union"
  BY <1>7, <1>12 DEF CeremonyInv
<1> QED
  BY <1>2, <1>4, <1>5, <1>9, <1>10, <1>11, <1>13, <1>14, <1>15, <1>16, <1>17, <1>18 DEF CeremonyInv

\* A step of the tool changes no block: what it says of them stays, but for what it settles.
LEMMA ToolKeeps ==
  ASSUME CeremonyInv, UNCHANGED blocks, sent' \in Carried, run' \in ToolType, run'.inclusive = run.inclusive,
         run'.drifted = run.drifted,
         IF run'.at \in {"probe", "quiet", "refused"}
           THEN sent' = None /\ run.at \in {"probe", "quiet", "refused"} ELSE run.drifted = {},
         run'.at = "quiet" => "message" \notin run.drifted,
         run'.at = "adam" => sent' # "eva" /\ InNoBlock("eva"),
         sent' # sent /\ sent' \in {"eva", "union"} => InNoBlock(sent'),
         run'.at \in {"fill", "filler", "union", "complete", "slot-lost"} => sent' # "eva",
         run'.at \in {"adam", "eva", "fill", "filler", "slot-lost"} => sent' # "union" /\ InNoBlock("union"),
         run'.at \in {"eva", "fill", "filler", "union", "complete"} => FirstPast(run'.adam),
         run'.at \in {"fill", "filler", "union", "complete"} /\ run'.clean => BlockOf("eva") = run'.adam + EvaOffset,
         run'.at = "complete" =>
           run'.clean /\ BlockOf("union") = run'.adam + EvaOffset + UnionOffset /\ sent' # "union"
  PROVE  CeremonyInv'
<1>1. /\ BlockOf("eva")' = BlockOf("eva") /\ BlockOf("union")' = BlockOf("union")
      /\ InNoBlock("eva")' <=> InNoBlock("eva")
      /\ InNoBlock("union")' <=> InNoBlock("union")
  BY DEF BlockOf, InNoBlock
<1>2. FirstPast(run.adam)' <=> FirstPast(run'.adam)
  BY DEF FirstPast, Crosses
<1>3. sent' \in {"eva", "union"} => InNoBlock(sent)'
  <2>1. sent' \in {"eva", "union"} => InNoBlock(sent')
    BY DEF CeremonyInv
  <2> QED
    BY <2>1 DEF InNoBlock
<1>4. Target' = run'.adam + EvaOffset + UnionOffset
  BY DEF Target
<1>5. IF run'.at \in {"probe", "quiet", "refused"} THEN sent' = None /\ \A n \in DOMAIN blocks' : blocks'[n].tx = None
                                                   ELSE run'.drifted = {}
  BY DEF CeremonyInv
<1>6. blocks' \in Seq([ts : Nat, tx : Carried]) /\ Len(blocks') <= MaxBlocks
  BY DEF CeremonyInv
<1> QED
  BY <1>1, <1>2, <1>3, <1>4, <1>5, <1>6 DEF CeremonyInv

\* Everything the tool needs to know of where it stands, in one place.
LEMMA Stands ==
  ASSUME CeremonyInv
  PROVE  /\ blocks \in Seq([ts : Nat, tx : Carried]) /\ sent \in Carried /\ run \in ToolType
         /\ Height \in Nat
         /\ sent \in {"eva", "union"} => InNoBlock(sent)
         /\ run.at \in Places
BY DEF CeremonyInv, ToolType, Height

\* Why a run stops, when it is not that the message is anchored or the slot lost.
LEMMA StopKeeps ==
  ASSUME CeremonyInv, NEW why \in {"timestamps-not-ordered", "no-block-past-mark", "threw", "failed"}, Stops(why),
         run.at \notin {"probe", "quiet", "refused"}
  PROVE  CeremonyInv'
<1>1. run' = [run EXCEPT !.at = why] /\ UNCHANGED <<blocks, sent>> /\ run \in ToolType
  BY DEF Stops, CeremonyInv
<1>2. run' \in ToolType /\ run'.at = why /\ run'.inclusive = run.inclusive /\ run'.drifted = run.drifted
  BY <1>1 DEF ToolType, Places
<1>3. run.drifted = {}
  BY DEF CeremonyInv
<1> QED
  BY <1>1, <1>2, <1>3, ToolKeeps, Stands

LEMMA ProbeKeeps == ASSUME CeremonyInv, Probe PROVE CeremonyInv'
<1>1. /\ run.at = "probe" /\ UNCHANGED <<blocks, sent>> /\ run \in ToolType /\ Height \in Nat /\ sent = None
      /\ run' = IF LoadFrozen("message") THEN [run EXCEPT !.at = "quiet", !.start = Height]
                                         ELSE [run EXCEPT !.at = "refused"]
  BY Stands DEF Probe, CeremonyInv
<1>2. /\ run' \in ToolType /\ run'.inclusive = run.inclusive /\ run'.drifted = run.drifted
      /\ run'.at \in {"quiet", "refused"} /\ run'.at = "quiet" => LoadFrozen("message")
  BY <1>1 DEF ToolType, Places
<1> QED
  BY <1>1, <1>2, ToolKeeps DEF LoadFrozen, Carried, None

LEMMA BeginKeepsTool == ASSUME CeremonyInv, Begin PROVE CeremonyInv'
<1>1. run.at = "quiet" /\ run \in ToolType /\ Height \in Nat /\ sent = None /\ \A n \in DOMAIN blocks : blocks[n].tx = None
  BY Stands DEF Begin, CeremonyInv
<1>2. CASE Quiet /\ Broadcast("adam", [run EXCEPT !.at = "adam", !.start = Height])
  <2>1. run' = [run EXCEPT !.at = "adam", !.start = Height] /\ sent' = "adam" /\ UNCHANGED blocks
    BY <1>2 DEF Broadcast
  <2>2. run' \in ToolType /\ run'.at = "adam" /\ run'.inclusive = run.inclusive /\ run'.drifted = run.drifted
    BY <1>1, <2>1 DEF ToolType, Places
  <2>3. run.drifted = {}
    BY <1>1, <1>2 DEF Quiet, LoadFrozen, CeremonyInv, ToolType, Payloads
  <2>4. InNoBlock("eva") /\ InNoBlock("union")
    BY <1>1 DEF InNoBlock, None
  <2> QED
    BY <2>1, <2>2, <2>3, <2>4, ToolKeeps DEF Carried
<1>3. CASE ~Quiet /\ Stops("refused")
  <2>1. run' = [run EXCEPT !.at = "refused"] /\ UNCHANGED <<blocks, sent>>
    BY <1>3 DEF Stops
  <2>2. run' \in ToolType /\ run'.at = "refused" /\ run'.inclusive = run.inclusive /\ run'.drifted = run.drifted
    BY <1>1, <2>1 DEF ToolType, Places
  <2> QED
    BY <1>1, <2>1, <2>2, ToolKeeps DEF Carried, None
<1> QED
  BY <1>2, <1>3 DEF Begin

\* Where the walk down ends is the first block past the mark, whatever came before the tool.
LEMMA WalkEnds ==
  ASSUME CeremonyInv, ShortWalks, ShortDips, NEW top \in DOMAIN blocks, ~Contradicted(top), Walked(top) > 0
  PROVE  Walked(top) \in Nat /\ FirstPast(Walked(top))
<1> DEFINE S == {n \in 1 .. top : ~Crosses(n)} \cup {0}
           low == Below(top)
<1>1. Len(blocks) \in Nat /\ DOMAIN blocks = 1 .. Len(blocks) /\ top \in Nat /\ top >= 1
  BY DEF CeremonyInv
<1>2. S \in SUBSET (0 .. top) /\ S # {}
  BY <1>1
<1>3. low \in S /\ \A y \in S : y <= low
  <2>1. low = Max(S)
    BY DEF Below
  <2> HIDE DEF S, low
  <2> QED
    BY <1>1, <1>2, <2>1, GreatestNatural
<1>4. low \in 0 .. top /\ \A n \in 1 .. top : n > low => Crosses(n)
  BY <1>1, <1>3
<1>5. low # top /\ Walked(top) = low + 1
  <2>1. top - low < WalkSteps /\ WalkSteps \in Nat /\ low \in Nat
    BY <1>4, CeremonyConstants DEF ShortWalks
  <2>2. WalkEnd(top) = low
    BY <1>1, <2>1 DEF WalkEnd
  <2> QED
    BY <1>1, <2>1, <2>2 DEF Walked
<1>6. low + 1 \in DOMAIN blocks /\ Crosses(low + 1)
  BY <1>1, <1>4, <1>5
<1>7. ASSUME NEW n \in DOMAIN blocks, n < low + 1 PROVE ~Crosses(n)
  <2>1. low \in DOMAIN blocks /\ ~Crosses(low) /\ n <= low
    BY <1>1, <1>3, <1>4, <1>7
  <2>2. CASE n = low
    BY <2>1, <2>2
  <2>3. CASE n < low
    <3> SUFFICES ASSUME Crosses(n) PROVE FALSE
      OBVIOUS
    <3>1. \E m \in DOMAIN blocks : low - ProbeBelow <= m /\ m < low /\ Crosses(m)
      BY <2>1, <2>3 DEF ShortDips
    <3> QED
      BY <3>1 DEF Contradicted, ShortWalks
  <2> QED
    BY <1>1, <1>4, <2>1, <2>2, <2>3
<1> QED
  BY <1>1, <1>4, <1>5, <1>6, <1>7 DEF FirstPast

LEMMA AdamKeeps == ASSUME CeremonyInv, ShortWalks, ShortDips, AdamSettled PROVE CeremonyInv'
<1> DEFINE top == BlockOf("adam")
<1>1. /\ run.at = "adam" /\ run \in ToolType /\ top \in DOMAIN blocks /\ run.drifted = {}
      /\ sent # "union" /\ InNoBlock("union") /\ sent # "eva" /\ InNoBlock("eva")
  BY BlockOfTop DEF AdamSettled, CeremonyInv
<1>2. CASE Contradicted(top) /\ Stops("timestamps-not-ordered")
  BY <1>1, <1>2, StopKeeps
<1>3. CASE ~Contradicted(top) /\ Walked(top) = 0 /\ Stops("no-block-past-mark")
  BY <1>1, <1>3, StopKeeps
<1>4. CASE /\ ~Contradicted(top) /\ Walked(top) > 0
           /\ Broadcast("eva", [run EXCEPT !.at = "eva", !.adam = Walked(top)])
  <2>1. run' = [run EXCEPT !.at = "eva", !.adam = Walked(top)] /\ sent' = "eva" /\ UNCHANGED blocks
    BY <1>4 DEF Broadcast
  <2>2. Walked(top) \in Nat /\ FirstPast(Walked(top))
    BY <1>1, <1>4, WalkEnds
  <2> HIDE DEF top
  <2>3. /\ run' \in ToolType /\ run'.at = "eva" /\ run'.adam = Walked(top)
        /\ run'.inclusive = run.inclusive /\ run'.drifted = run.drifted
    BY <1>1, <2>1, <2>2 DEF ToolType, Places
  <2> QED
    BY <1>1, <2>1, <2>2, <2>3, ToolKeeps DEF Carried
<1> QED
  BY <1>2, <1>3, <1>4 DEF AdamSettled

LEMMA EvaKeeps == ASSUME CeremonyInv, EvaSettled PROVE CeremonyInv'
<1>1. /\ run.at = "eva" /\ run \in ToolType /\ run.drifted = {} /\ sent \in Carried /\ Height \in Nat
      /\ sent # "union" /\ InNoBlock("union") /\ FirstPast(run.adam)
  BY Stands DEF EvaSettled, CeremonyInv
<1>2. sent # "eva"
  BY BlockOfTop DEF EvaSettled, CeremonyInv
<1>3. /\ run' = [run EXCEPT !.at = "fill", !.head = Height, !.clean = (BlockOf("eva") = run.adam + EvaOffset)]
      /\ UNCHANGED <<blocks, sent>>
  BY DEF EvaSettled
<1>4. (BlockOf("eva") = run.adam + EvaOffset) \in BOOLEAN
  OBVIOUS
<1>5. /\ run' \in ToolType /\ run'.at = "fill" /\ run'.adam = run.adam /\ run'.inclusive = run.inclusive
      /\ run'.drifted = run.drifted /\ run'.clean = (BlockOf("eva") = run.adam + EvaOffset)
  BY <1>1, <1>3, <1>4 DEF ToolType, Places
<1> QED
  BY <1>1, <1>2, <1>3, <1>5, ToolKeeps

LEMMA FillKeeps == ASSUME CeremonyInv, Fill \/ FillerSettled PROVE CeremonyInv'
<1>1. /\ run.at \in {"fill", "filler"} /\ run \in ToolType /\ run.drifted = {} /\ sent \in Carried /\ Height \in Nat
      /\ sent \notin {"eva", "union"} /\ InNoBlock("union") /\ FirstPast(run.adam)
      /\ run.clean => BlockOf("eva") = run.adam + EvaOffset
  BY Stands DEF Fill, FillerSettled, CeremonyInv
<1>2. /\ \/ run' = [run EXCEPT !.at = "filler", !.start = Height] /\ sent' = "filler"
         \/ run' = [run EXCEPT !.at = "fill", !.head = Height] /\ sent' = sent
      /\ UNCHANGED blocks
  BY DEF Fill, FillerSettled, Broadcast
<1>3. /\ run' \in ToolType /\ run'.at \in {"fill", "filler"} /\ run'.adam = run.adam /\ run'.inclusive = run.inclusive
      /\ run'.drifted = run.drifted /\ run'.clean = run.clean
  BY <1>1, <1>2 DEF ToolType, Places
<1>4. sent' \in Carried /\ sent' \notin {"eva", "union"}
  BY <1>1, <1>2 DEF Carried
<1> QED
  BY <1>1, <1>2, <1>3, <1>4, ToolKeeps

LEMMA UnionKeeps == ASSUME CeremonyInv, Union PROVE CeremonyInv'
<1>1. /\ run.at = "fill" /\ run \in ToolType /\ run.drifted = {} /\ sent \in Carried
      /\ sent \notin {"eva", "union"} /\ InNoBlock("union") /\ FirstPast(run.adam)
      /\ run.clean => BlockOf("eva") = run.adam + EvaOffset
  BY Stands DEF Union, CeremonyInv
<1>2. /\ \/ run' = [run EXCEPT !.at = "slot-lost"] /\ sent' = sent
         \/ run' = [run EXCEPT !.at = "union"] /\ sent' = "union"
      /\ UNCHANGED blocks
  BY DEF Union, Stops, Broadcast
<1>3. /\ run' \in ToolType /\ run'.adam = run.adam /\ run'.inclusive = run.inclusive
      /\ run'.drifted = run.drifted /\ run'.clean = run.clean
      /\ (run'.at = "slot-lost" /\ sent' = sent) \/ (run'.at = "union" /\ sent' = "union")
  <2>1. CASE run' = [run EXCEPT !.at = "slot-lost"] /\ sent' = sent
    BY <1>1, <2>1 DEF ToolType, Places
  <2>2. CASE run' = [run EXCEPT !.at = "union"] /\ sent' = "union"
    BY <1>1, <2>2 DEF ToolType, Places
  <2> QED
    BY <1>2, <2>1, <2>2
<1>4. sent' \in Carried /\ sent' # "eva"
  BY <1>1, <1>3 DEF Carried
<1> QED
  BY <1>1, <1>2, <1>3, <1>4, ToolKeeps

LEMMA UnionEnds == ASSUME CeremonyInv, UnionSettled PROVE CeremonyInv'
<1>1. /\ run.at = "union" /\ run \in ToolType /\ run.drifted = {} /\ sent \in Carried /\ sent # "eva" /\ FirstPast(run.adam)
      /\ run.clean => BlockOf("eva") = run.adam + EvaOffset
  BY Stands DEF UnionSettled, CeremonyInv
<1>2. CASE run.clean /\ BlockOf("union") = Target
  <2>1. run' = [run EXCEPT !.at = "complete"] /\ UNCHANGED <<blocks, sent>>
    BY <1>2 DEF UnionSettled, Stops
  <2>2. /\ run' \in ToolType /\ run'.at = "complete" /\ run'.adam = run.adam /\ run'.inclusive = run.inclusive
        /\ run'.drifted = run.drifted /\ run'.clean = run.clean
    BY <1>1, <2>1 DEF ToolType, Places
  <2>3. sent # "union"
    BY BlockOfTop DEF UnionSettled, CeremonyInv
  <2>4. BlockOf("union") = run'.adam + EvaOffset + UnionOffset
    BY <1>2, <2>2 DEF Target
  <2> QED
    BY <1>1, <1>2, <2>1, <2>2, <2>3, <2>4, ToolKeeps
<1>3. CASE ~(run.clean /\ BlockOf("union") = Target)
  BY <1>1, <1>3, StopKeeps DEF UnionSettled
<1> QED
  BY <1>2, <1>3

LEMMA CeremonyStep == CeremonyInv /\ ShortWalks /\ ShortDips /\ [CeremonyNext]_ceremonyVars => CeremonyInv'
<1> SUFFICES ASSUME CeremonyInv, ShortWalks, ShortDips, [CeremonyNext]_ceremonyVars PROVE CeremonyInv'
  OBVIOUS
<1>1. CASE Stranger
  <2>1. NextBlock(None) /\ sent' = sent /\ UNCHANGED run
    BY <1>1 DEF Stranger
  <2> QED
    BY <2>1, GrowthKeeps
<1>2. CASE Include
  BY <1>2, GrowthKeeps DEF Include
<1>3. CASE GivesUp
  BY <1>3, StopKeeps DEF GivesUp
<1>4. CASE UNCHANGED ceremonyVars
  BY <1>4 DEF ceremonyVars, CeremonyInv, InNoBlock, FirstPast, Crosses, BlockOf, Target
<1> QED
  BY <1>1, <1>2, <1>3, <1>4, ProbeKeeps, BeginKeepsTool, AdamKeeps, EvaKeeps, FillKeeps, UnionKeeps, UnionEnds
  DEF CeremonyNext

\* A run that says it anchored the message did, and one that lost the slot sent none: for every
\* offset and every length of the chain, as long as the search reaches what it relies on: no more
\* than WalkSteps blocks past the mark, and stamps that fall back for no more than ProbeBelow blocks.
THEOREM AnchorsAreTrue == CeremonySpec /\ []ShortWalks /\ []ShortDips => []AnchoredAsPublished
<1>1. CeremonyInit => CeremonyInv
  <2> SUFFICES ASSUME CeremonyInit PROVE CeremonyInv
    OBVIOUS
  <2>1. blocks = <<[ts |-> 0, tx |-> None]>> /\ sent = None
    BY DEF CeremonyInit
  <2>2. run \in ToolType /\ run.at = "probe"
    <3>1. run \in [at : {"probe"}, inclusive : BOOLEAN, busy : BOOLEAN, drifted : SUBSET Payloads, start : {0},
                   head : {0}, adam : {0}, clean : {TRUE}]
      BY DEF CeremonyInit
    <3>2. {"probe"} \subseteq Places /\ {0} \subseteq Nat /\ {TRUE} \subseteq BOOLEAN
      BY DEF Places
    <3> QED
      BY <3>1, <3>2 DEF ToolType
  <2>3. blocks \in Seq([ts : Nat, tx : Carried]) /\ Len(blocks) = 1 /\ DOMAIN blocks = {1} /\ blocks[1].tx = None
    BY <2>1 DEF Carried
  <2>4. MaxBlocks >= 1 /\ None \in Carried /\ None \notin {"eva", "union"}
    BY CeremonyConstants DEF Carried, None
  <2> QED
    BY <2>1, <2>2, <2>3, <2>4 DEF CeremonyInv
<1>2. CeremonyInv => AnchoredAsPublished
  <2> SUFFICES ASSUME CeremonyInv PROVE AnchoredAsPublished
    OBVIOUS
  <2> DEFINE past == {n \in DOMAIN blocks : Crosses(n)} \cup {MaxBlocks + 1}
             first == Min(past)
  <2>1. Len(blocks) \in Nat /\ DOMAIN blocks = 1 .. Len(blocks) /\ Len(blocks) <= MaxBlocks /\ MaxBlocks \in Nat
    BY CeremonyConstants DEF CeremonyInv
  <2>2. ASSUME run.at = "complete"
        PROVE  BlockOf("eva") = first + EvaOffset /\ BlockOf("union") = first + EvaOffset + UnionOffset
    <3>1. FirstPast(run.adam) /\ BlockOf("eva") = run.adam + EvaOffset /\ BlockOf("union") = run.adam + EvaOffset + UnionOffset
      BY <2>2 DEF CeremonyInv, Target
    <3>2. run.adam \in past /\ \A n \in past : run.adam <= n
      BY <2>1, <3>1 DEF FirstPast
    <3>3. past \in SUBSET Nat
      BY <2>1
    <3>4. first = run.adam
      <4> HIDE DEF past
      <4>1. first \in past /\ \A n \in past : first <= n
        BY <3>2 DEF Min
      <4>2. first \in Nat /\ run.adam \in Nat /\ first <= run.adam /\ run.adam <= first
        BY <3>2, <3>3, <4>1
      <4> HIDE DEF first
      <4> QED
        BY <4>2
    <3> QED
      BY <3>1, <3>4
  <2>3. run.at = "slot-lost" => sent # "union" /\ BlockOf("union") = 0
    BY BlockOfTop DEF CeremonyInv
  <2>4. \A n \in DOMAIN blocks : blocks[n].tx # None => run.drifted = {}
    BY DEF CeremonyInv
  <2> QED
    BY <2>2, <2>3, <2>4 DEF AnchoredAsPublished
<1> QED
  BY <1>1, <1>2, CeremonyStep, PTL DEF CeremonySpec

-----------------------------------------------------------------------------
\* The sliding window.
Ascends(s) == \A i, j \in DOMAIN s : i < j => s[i] <= s[j]

\* How many times of a list are after x.
Kept(s, x) == Len(s) - Forgotten(s, x)

\* The times at or before x are the first of an ascending list, and counted by their number.
LEMMA ForgottenIs ==
  ASSUME NEW s \in Seq(Nat), NEW x \in Int, NEW p \in 0 .. Len(s), \A i \in DOMAIN s : s[i] <= x <=> i <= p
  PROVE  Forgotten(s, x) = p
<1>1. Len(s) \in Nat /\ DOMAIN s = 1 .. Len(s) /\ p \in Nat
  OBVIOUS
<1>2. {i \in DOMAIN s : s[i] <= x} = 1 .. p
  BY <1>1
<1>3. Cardinality(1 .. p) = p
  <2>1. Cardinality(1 .. p) = IF 1 > p THEN 0 ELSE p - 1 + 1
    BY <1>1, FS_Interval
  <2> QED
    BY <1>1, <2>1
<1> QED
  BY <1>2, <1>3 DEF Forgotten

LEMMA ForgottenFirst ==
  ASSUME NEW s \in Seq(Nat), Ascends(s), NEW x \in Int
  PROVE  Forgotten(s, x) \in 0 .. Len(s) /\ \A i \in DOMAIN s : s[i] <= x <=> i <= Forgotten(s, x)
<1> DEFINE T == {k \in Nat : k <= Len(s) /\ \A i \in DOMAIN s : k < i => s[i] > x}
<1>1. Len(s) \in Nat /\ DOMAIN s = 1 .. Len(s) /\ \A i \in DOMAIN s : s[i] \in Nat
  OBVIOUS
<1>2. Len(s) \in T
  BY <1>1
<1>3. PICK p \in T : \A k \in T : p <= k
  <2>1. T \in SUBSET Nat /\ T # {}
    BY <1>2
  <2> HIDE DEF T
  <2> QED
    BY <2>1, LeastNatural
<1>4. p \in 0 .. Len(s) /\ \A i \in DOMAIN s : p < i => s[i] > x
  BY <1>1
<1>5. p # 0 => p \in DOMAIN s /\ s[p] <= x
  <2> SUFFICES ASSUME p # 0, s[p] > x PROVE FALSE
    BY <1>1, <1>4
  <2>1. p - 1 \in Nat /\ p - 1 <= Len(s) /\ ~(p <= p - 1)
    BY <1>1, <1>4
  <2>2. \A i \in DOMAIN s : p - 1 < i => s[i] > x
    BY <1>1, <1>4
  <2>3. p - 1 \in T
    BY <2>1, <2>2
  <2> HIDE DEF T
  <2> QED
    BY <1>3, <2>1, <2>3
<1>6. \A i \in DOMAIN s : s[i] <= x <=> i <= p
  <2> SUFFICES ASSUME NEW i \in DOMAIN s PROVE s[i] <= x <=> i <= p
    OBVIOUS
  <2>1. i \in Nat /\ p \in Nat /\ s[i] \in Nat
    BY <1>1, <1>4
  <2>2. i < p => s[i] <= s[p]
    BY <1>1, <1>4, <1>5, <2>1 DEF Ascends
  <2>3. p # 0 => s[p] \in Nat
    BY <1>1, <1>5
  <2>4. i >= 1
    BY <1>1
  <2> QED
    BY <1>4, <1>5, <2>1, <2>2, <2>3, <2>4
<1> HIDE DEF T
<1>7. Forgotten(s, x) = p
  BY <1>4, <1>6, ForgottenIs
<1> QED
  BY <1>4, <1>6, <1>7

LEMMA KeptType ==
  ASSUME NEW s \in Seq(Nat), Ascends(s), NEW x \in Int
  PROVE  Kept(s, x) \in Nat /\ ((\A i \in DOMAIN s : s[i] <= x) => Kept(s, x) = 0)
<1>1. Len(s) \in Nat /\ DOMAIN s = 1 .. Len(s)
  OBVIOUS
<1>2. Forgotten(s, x) \in 0 .. Len(s)
  BY ForgottenFirst
<1>3. ASSUME \A i \in DOMAIN s : s[i] <= x PROVE Forgotten(s, x) = Len(s)
  <2>1. Len(s) \in 0 .. Len(s) /\ \A i \in DOMAIN s : s[i] <= x <=> i <= Len(s)
    BY <1>1, <1>3
  <2> QED
    BY <2>1, ForgottenIs
<1> QED
  BY <1>1, <1>2, <1>3 DEF Kept

\* What is left of a list when the old times are dropped: as many after any time that still counts.
LEMMA RecentKeeps ==
  ASSUME NEW s \in Seq(Nat), Ascends(s), NEW now \in Nat, NEW window \in Nat
  PROVE  /\ Recent(s, now, window) \in Seq(Nat) /\ Ascends(Recent(s, now, window))
         /\ Len(Recent(s, now, window)) = Kept(s, now - window)
         /\ \A x \in Int : x >= now - window => Kept(Recent(s, now, window), x) = Kept(s, x)
         /\ \A top \in Nat : (\A i \in DOMAIN s : s[i] <= top) =>
              \A i \in DOMAIN Recent(s, now, window) : Recent(s, now, window)[i] <= top
<1> DEFINE d == Forgotten(s, now - window)
           r == SubSeq(s, d + 1, Len(s))
<1>1. Recent(s, now, window) = r
  BY DEF Recent
<1>2. Len(s) \in Nat /\ DOMAIN s = 1 .. Len(s) /\ now - window \in Int /\ \A i \in DOMAIN s : s[i] \in Nat
  OBVIOUS
<1>3. d \in 0 .. Len(s) /\ \A i \in DOMAIN s : s[i] <= now - window <=> i <= d
  BY <1>2, ForgottenFirst
<1>4. d + 1 \in 1 .. Len(s) + 1 /\ d \in Nat
  BY <1>2, <1>3
<1> HIDE DEF d
<1>5. /\ r \in Seq(Nat) /\ Len(r) = Len(s) - d /\ DOMAIN r = 1 .. Len(s) - d
      /\ \A i \in 1 .. Len(s) - d : r[i] = s[i + d]
  <2>1. \A i \in d + 1 .. Len(s) : s[i] \in Nat
    BY <1>2, <1>4
  <2>2. r \in Seq(Nat)
    BY <1>2, <1>4, <2>1, SubSeqProperties
  <2>3. Len(r) = Len(s) - d
    <3>1. Len(r) = IF d + 1 <= Len(s) THEN Len(s) - (d + 1) + 1 ELSE 0
      BY <1>2, <1>4, <2>1, SubSeqProperties
    <3>2. Len(s) \in Nat /\ d \in Nat /\ d <= Len(s)
      BY <1>2, <1>3
    <3>3. Len(s) - (d + 1) + 1 = Len(s) - d /\ (~(d + 1 <= Len(s)) => Len(s) - d = 0)
      BY <3>2
    <3> HIDE DEF r
    <3> QED
      BY <3>1, <3>3
  <2>4. \A i \in 1 .. Len(s) - d : r[i] = s[i + d]
    <3> SUFFICES ASSUME NEW i \in 1 .. Len(s) - d PROVE r[i] = s[i + d]
      OBVIOUS
    <3>1. r[i] = s[d + 1 + i - 1]
      BY <1>2, <1>3, <1>4, SubSeqProperties
    <3>2. d + 1 + i - 1 = i + d
      BY <1>2, <1>4
    <3> QED
      BY <3>1, <3>2
  <2> QED
    BY <2>2, <2>3, <2>4
<1> HIDE DEF r
<1>6. Ascends(r)
  <2> SUFFICES ASSUME NEW i \in DOMAIN r, NEW j \in DOMAIN r, i < j PROVE r[i] <= r[j]
    BY DEF Ascends
  <2>1. i \in 1 .. Len(s) - d /\ j \in 1 .. Len(s) - d
    BY <1>5
  <2>2. i + d \in DOMAIN s /\ j + d \in DOMAIN s /\ i + d < j + d
    BY <1>2, <1>4, <2>1
  <2> QED
    BY <1>5, <2>1, <2>2 DEF Ascends
<1>7. Len(r) = Kept(s, now - window)
  BY <1>5 DEF Kept, d
<1>8. ASSUME NEW x \in Int, x >= now - window PROVE Kept(r, x) = Kept(s, x)
  <2> DEFINE p == Forgotten(s, x)
  <2>1. p \in 0 .. Len(s) /\ \A i \in DOMAIN s : s[i] <= x <=> i <= p
    BY ForgottenFirst
  <2> HIDE DEF p
  <2>2. d <= p
    <3>1. CASE d = 0
      BY <1>2, <2>1, <3>1
    <3>2. CASE d # 0
      <4>1. d \in DOMAIN s /\ s[d] <= now - window /\ s[d] \in Nat
        BY <1>2, <1>3, <1>4, <3>2
      <4>2. s[d] <= x
        BY <1>2, <1>8, <4>1
      <4> QED
        BY <2>1, <4>1, <4>2
    <3> QED
      BY <3>1, <3>2
  <2>3. p - d \in 0 .. Len(r)
    BY <1>2, <1>4, <1>5, <2>1, <2>2
  <2>4. \A i \in DOMAIN r : r[i] <= x <=> i <= p - d
    <3> SUFFICES ASSUME NEW i \in DOMAIN r PROVE r[i] <= x <=> i <= p - d
      OBVIOUS
    <3>1. i + d \in DOMAIN s /\ r[i] = s[i + d]
      BY <1>2, <1>4, <1>5
    <3>2. i + d <= p <=> i <= p - d
      <4>1. i \in Int /\ d \in Int /\ p \in Int
        BY <1>2, <1>4, <1>5, <2>1
      <4> QED
        BY ONLY <4>1
    <3> QED
      BY <2>1, <3>1, <3>2
  <2>5. Forgotten(r, x) = p - d
    BY <1>5, <2>3, <2>4, ForgottenIs
  <2>6. Kept(s, x) = Len(s) - p
    BY DEF Kept, p
  <2> QED
    BY <1>2, <1>4, <1>5, <2>1, <2>5, <2>6 DEF Kept
<1>9. ASSUME NEW top \in Nat, \A i \in DOMAIN s : s[i] <= top PROVE \A i \in DOMAIN r : r[i] <= top
  <2> SUFFICES ASSUME NEW i \in DOMAIN r PROVE r[i] <= top
    OBVIOUS
  <2>1. i + d \in DOMAIN s /\ r[i] = s[i + d]
    BY <1>2, <1>4, <1>5
  <2> QED
    BY <1>9, <2>1
<1> QED
  BY <1>1, <1>5, <1>6, <1>7, <1>8, <1>9

\* The list of a request that is let in has one time more after any time before now.
LEMMA LetInKeeps ==
  ASSUME NEW s \in Seq(Nat), Ascends(s), NEW now \in Nat, NEW window \in Nat, \A i \in DOMAIN s : s[i] <= now
  PROVE  /\ LetIn(s, now, window) \in Seq(Nat) /\ Ascends(LetIn(s, now, window))
         /\ \A i \in DOMAIN LetIn(s, now, window) : LetIn(s, now, window)[i] <= now
         /\ \A x \in Int : x >= now - window /\ x < now => Kept(LetIn(s, now, window), x) = Kept(s, x) + 1
         /\ \A x \in Int : x >= now => Kept(LetIn(s, now, window), x) = 0 /\ Kept(s, x) = 0
<1> DEFINE r == Recent(s, now, window)
           l == Append(r, now)
<1>1. LetIn(s, now, window) = l
  BY DEF LetIn
<1>2. /\ r \in Seq(Nat) /\ Ascends(r) /\ \A x \in Int : x >= now - window => Kept(r, x) = Kept(s, x)
      /\ \A i \in DOMAIN r : r[i] <= now
  BY RecentKeeps
<1> HIDE DEF r
<1>3. /\ l \in Seq(Nat) /\ Len(r) \in Nat /\ Len(l) = Len(r) + 1 /\ DOMAIN l = 1 .. Len(r) + 1 /\ DOMAIN r = 1 .. Len(r)
      /\ \A i \in DOMAIN r : l[i] = r[i] /\ r[i] \in Nat
      /\ l[Len(r) + 1] = now
  BY <1>2
<1> HIDE DEF l
<1>4. \A i \in DOMAIN l : l[i] <= now
  <2> SUFFICES ASSUME NEW i \in DOMAIN l PROVE l[i] <= now
    OBVIOUS
  <2>1. i \in DOMAIN r \/ i = Len(r) + 1
    BY <1>3
  <2> QED
    BY <1>2, <1>3, <2>1
<1>5. Ascends(l)
  <2> SUFFICES ASSUME NEW i \in DOMAIN l, NEW j \in DOMAIN l, i < j PROVE l[i] <= l[j]
    BY DEF Ascends
  <2>1. i \in DOMAIN r
    BY <1>3
  <2>2. CASE j \in DOMAIN r
    BY <1>2, <1>3, <2>1, <2>2 DEF Ascends
  <2>3. CASE j = Len(r) + 1
    BY <1>3, <1>4, <2>3
  <2> QED
    BY <1>3, <2>2, <2>3
<1>6. ASSUME NEW x \in Int, x >= now - window, x < now PROVE Kept(l, x) = Kept(s, x) + 1
  <2> DEFINE p == Forgotten(r, x)
  <2>1. p \in 0 .. Len(r) /\ \A i \in DOMAIN r : r[i] <= x <=> i <= p
    BY <1>2, ForgottenFirst
  <2> HIDE DEF p
  <2>2. p \in 0 .. Len(l) /\ \A i \in DOMAIN l : l[i] <= x <=> i <= p
    <3>1. ASSUME NEW i \in DOMAIN l PROVE l[i] <= x <=> i <= p
      <4>1. CASE i \in DOMAIN r
        BY <1>3, <2>1, <4>1
      <4>2. CASE i = Len(r) + 1
        BY <1>3, <1>6, <2>1, <4>2
      <4> QED
        BY <1>3, <4>1, <4>2
    <3> QED
      BY <1>3, <2>1, <3>1
  <2>3. Forgotten(l, x) = p
    BY <1>3, <2>2, ForgottenIs
  <2>4. Kept(l, x) = Len(r) + 1 - p /\ Kept(r, x) = Len(r) - p
    <3>1. Kept(r, x) = Len(r) - p
      BY DEF Kept, p
    <3>2. Len(l) = Len(r) + 1
      BY <1>3
    <3>3. Kept(l, x) = Len(l) - Forgotten(l, x)
      BY DEF Kept
    <3>4. p \in Nat /\ Len(r) \in Nat
      BY <1>3, <2>1
    <3> QED
      BY <2>3, <3>1, <3>2, <3>3, <3>4
  <2> QED
    BY <1>2, <1>3, <1>6, <2>1, <2>4
<1>7. ASSUME NEW x \in Int, x >= now PROVE Kept(l, x) = 0 /\ Kept(s, x) = 0
  <2>1. \A i \in DOMAIN l : l[i] <= x <=> i <= Len(l)
    <3> SUFFICES ASSUME NEW i \in DOMAIN l PROVE l[i] <= x /\ i <= Len(l)
      OBVIOUS
    <3>1. l[i] \in Nat /\ l[i] <= now
      BY <1>3, <1>4
    <3> QED
      BY <1>3, <1>7, <3>1
  <2>2. Forgotten(l, x) = Len(l)
    <3>1. Len(l) \in 0 .. Len(l)
      BY <1>3
    <3> QED
      BY <1>3, <2>1, <3>1, ForgottenIs
  <2>3. Kept(l, x) = 0
    BY <1>3, <2>2 DEF Kept
  <2>4. \A i \in DOMAIN s : s[i] <= x
    <3> SUFFICES ASSUME NEW i \in DOMAIN s PROVE s[i] <= x
      OBVIOUS
    <3>1. s[i] \in Nat /\ s[i] <= now
      OBVIOUS
    <3> QED
      BY <1>7, <3>1
  <2> QED
    BY <2>3, <2>4, KeptType
<1> QED
  BY <1>1, <1>3, <1>4, <1>5, <1>6, <1>7

-----------------------------------------------------------------------------
\* The faucet.
Signed == {"queued", "sent", "paid", "failed"}
DripType == [address : Addresses, ip : IPs, at : Nat, stage : Signed \cup {"refused", "full", "cut"}, life : Nat]

\* What the wallet signed, or will, in this life of the process; what a key counts of it, and from when on.
Ours == {r \in DOMAIN drips : drips[r].life = reboots /\ drips[r].stage \in Signed}
OursOf(k) == {r \in Ours : k = Everybody \/ drips[r].ip = k}
Since(k, x) == {q \in OursOf(k) : drips[q].at > x}
During(k, t) == {q \in OursOf(k) : drips[q].at \in t - Hour + 1 .. t}

\* The limits hold although they are checked before a send is queued and a sweep forgets what it may: a list
\* has at least as many times as there are drips in its window, and an address is remembered while it cools down.
FaucetInv ==
  /\ time \in Nat /\ reboots \in Nat
  /\ drips \in Seq(DripType) /\ \A r \in DOMAIN drips : drips[r].at <= time /\ drips[r].life <= reboots
  /\ \A r \in DOMAIN drips : drips[r].stage \in {"queued", "sent"} => drips[r].life = reboots
  /\ waiting \in Seq(Ours)
  /\ \A a \in DOMAIN lastDrip : lastDrip[a] \in Nat /\ lastDrip[a] <= time
  /\ spentBy \in [Keys -> Seq(Nat)]
  /\ \A k \in Keys : Ascends(spentBy[k]) /\ \A i \in DOMAIN spentBy[k] : spentBy[k][i] <= time
  /\ \A r \in Ours : LET a == drips[r].address IN
       (a \in DOMAIN lastDrip /\ drips[r].at <= lastDrip[a]) \/ time - drips[r].at >= Cooldown
  /\ \A k \in Keys, x \in Int : x >= time - Hour => Cardinality(Since(k, x)) <= Kept(spentBy[k], x)
  /\ \A q, r \in Ours : q < r /\ drips[q].address = drips[r].address => drips[r].at - drips[q].at >= Cooldown
  /\ \A k \in Keys : \A r \in OursOf(k) : Cardinality(During(k, drips[r].at)) <= MaxOf(k)

LEMMA FaucetNumbers ==
  /\ Cooldown \in Nat /\ Hour \in Nat /\ MaxPerIp \in Nat /\ MaxPerHour \in Nat
  /\ Everybody \in Keys /\ Everybody \notin IPs /\ IPs \subseteq Keys
  /\ \A k \in Keys : MaxOf(k) \in Nat
BY FaucetConstants DEF Keys, Everybody, MaxOf

LEMMA OursFinite ==
  ASSUME drips \in Seq(DripType)
  PROVE  \A S \in SUBSET Ours : IsFiniteSet(S) /\ Cardinality(S) \in Nat
<1>1. DOMAIN drips = 1 .. Len(drips) /\ Len(drips) \in Nat
  OBVIOUS
<1>2. IsFiniteSet(1 .. Len(drips))
  BY <1>1, FS_Interval
<1>3. Ours \in SUBSET (1 .. Len(drips))
  BY <1>1 DEF Ours
<1> QED
  BY <1>2, <1>3, FS_Subset, FS_CardinalityType

\* A step that neither signs anything nor forgets what still counts.
SameDrips ==
  /\ reboots' = reboots /\ drips' \in Seq(DripType) /\ DOMAIN drips \subseteq DOMAIN drips'
  /\ \A r \in DOMAIN drips' \ DOMAIN drips : drips'[r].stage \notin Signed /\ drips'[r].at = time /\ drips'[r].life = reboots
  /\ \A r \in DOMAIN drips : /\ drips'[r].at = drips[r].at /\ drips'[r].life = drips[r].life
                             /\ drips'[r].address = drips[r].address /\ drips'[r].ip = drips[r].ip
                             /\ drips'[r].stage \in Signed <=> drips[r].stage \in Signed
                             /\ drips'[r].stage = drips[r].stage \/ drips[r].life = reboots
  /\ waiting' \in Seq(Ours)
SameLimits ==
  /\ \A a \in DOMAIN lastDrip : time' - lastDrip[a] >= Cooldown \/ (a \in DOMAIN lastDrip' /\ lastDrip'[a] >= lastDrip[a])
  /\ \A a \in DOMAIN lastDrip' : lastDrip'[a] \in Nat /\ lastDrip'[a] <= time'
  /\ spentBy' \in [Keys -> Seq(Nat)]
  /\ \A k \in Keys : /\ Ascends(spentBy'[k]) /\ \A i \in DOMAIN spentBy'[k] : spentBy'[k][i] <= time
                     /\ \A x \in Int : x >= time' - Hour =>
                          Kept(spentBy'[k], x) >= Kept(spentBy[k], x) /\ Kept(spentBy'[k], x) \in Nat

LEMMA SameDripsKeep ==
  ASSUME FaucetInv, SameDrips, SameLimits, time' \in Nat, time' >= time
  PROVE  FaucetInv'
<1>1. /\ Cooldown \in Nat /\ Hour \in Nat /\ time \in Nat /\ drips \in Seq(DripType)
      /\ \A r \in DOMAIN drips : drips[r].at \in Nat /\ drips[r].at <= time
  <2>1. time \in Nat /\ drips \in Seq(DripType)
    BY DEF FaucetInv
  <2>2. \A r \in DOMAIN drips : drips[r] \in DripType
    BY <2>1
  <2>3. \A r \in DOMAIN drips : drips[r].at <= time
    BY DEF FaucetInv
  <2> QED
    BY <2>1, <2>2, <2>3, FaucetNumbers DEF DripType
<1>2. Ours' = Ours
  BY DEF Ours, SameDrips
<1>3. \A k \in Keys : \A r \in Ours : (k = Everybody \/ drips'[r].ip = k) <=> (k = Everybody \/ drips[r].ip = k)
  BY DEF Ours, SameDrips
<1>4. ASSUME NEW k \in Keys PROVE OursOf(k)' = OursOf(k)
  BY <1>2, <1>3 DEF OursOf
<1>5. ASSUME NEW k \in Keys, NEW x \in Int PROVE Since(k, x)' = Since(k, x)
  BY <1>4 DEF Since, OursOf, Ours, SameDrips
<1>6. ASSUME NEW k \in Keys, NEW t \in Nat PROVE During(k, t)' = During(k, t)
  BY <1>4 DEF During, OursOf, Ours, SameDrips
<1>7. \A r \in Ours : drips'[r].at = drips[r].at /\ drips'[r].address = drips[r].address /\ r \in DOMAIN drips /\ r \in Int
  BY <1>1 DEF Ours, SameDrips
<1>8. \A r \in DOMAIN drips' : drips'[r].at <= time' /\ drips'[r].life <= reboots'
  <2> SUFFICES ASSUME NEW r \in DOMAIN drips' PROVE drips'[r].at <= time' /\ drips'[r].life <= reboots'
    OBVIOUS
  <2>1. CASE r \in DOMAIN drips
    <3>1. drips'[r].at = drips[r].at /\ drips'[r].life = drips[r].life /\ reboots' = reboots
      BY <2>1 DEF SameDrips
    <3>2. drips[r].at \in Nat /\ drips[r].at <= time /\ drips[r].life <= reboots
      BY <1>1, <2>1 DEF FaucetInv
    <3> QED
      BY <1>1, <3>1, <3>2
  <2>2. CASE r \notin DOMAIN drips
    <3>1. drips'[r].at = time /\ drips'[r].life = reboots /\ reboots' = reboots /\ reboots \in Nat
      BY <2>2 DEF SameDrips, FaucetInv
    <3> QED
      BY <1>1, <3>1
  <2> QED
    BY <2>1, <2>2
<1>9. ASSUME NEW r \in Ours
      PROVE  LET a == drips'[r].address IN
             (a \in DOMAIN lastDrip' /\ drips'[r].at <= lastDrip'[a]) \/ time' - drips'[r].at >= Cooldown
  <2> DEFINE a == drips[r].address
  <2>1. (a \in DOMAIN lastDrip /\ drips[r].at <= lastDrip[a]) \/ time - drips[r].at >= Cooldown
    BY DEF FaucetInv
  <2>2. drips[r].at \in Nat /\ drips'[r].at = drips[r].at /\ drips'[r].address = a
    BY <1>1, <1>7
  <2>3. /\ a \in DOMAIN lastDrip => lastDrip[a] \in Nat
        /\ a \in DOMAIN lastDrip => time' - lastDrip[a] >= Cooldown \/ (a \in DOMAIN lastDrip' /\ lastDrip'[a] >= lastDrip[a])
        /\ a \in DOMAIN lastDrip' => lastDrip'[a] \in Nat
    BY DEF FaucetInv, SameLimits
  <2> HIDE DEF a
  <2> QED
    BY <1>1, <2>1, <2>2, <2>3
<1>10. ASSUME NEW k \in Keys, NEW x \in Int, x >= time' - Hour PROVE Cardinality(Since(k, x)') <= Kept(spentBy'[k], x)
  <2>1. x >= time - Hour
    <3>1. ASSUME NEW h \in Nat, NEW t \in Nat, NEW u \in Nat, u >= t, x >= u - h PROVE x >= t - h
      BY <3>1
    <3>2. Hour \in Nat /\ time \in Nat
      BY <1>1
    <3> QED
      BY <1>10, <3>1, <3>2
  <2> QED
    <3>1. Cardinality(Since(k, x)) <= Kept(spentBy[k], x)
      BY <2>1 DEF FaucetInv
    <3>2. Kept(spentBy'[k], x) >= Kept(spentBy[k], x) /\ Kept(spentBy'[k], x) \in Nat
      BY <1>10 DEF SameLimits
    <3>3. Cardinality(Since(k, x)) \in Nat
      BY <1>1, OursFinite DEF Since, OursOf
    <3>4. Kept(spentBy[k], x) \in Int
      <4>1. spentBy[k] \in Seq(Nat) /\ Ascends(spentBy[k])
        BY DEF FaucetInv
      <4> QED
        BY <4>1, KeptType
    <3> QED
      BY <1>5, <3>1, <3>2, <3>3, <3>4
<1>11. \A q, r \in Ours : q < r /\ drips'[q].address = drips'[r].address => drips'[r].at - drips'[q].at >= Cooldown
  BY <1>7 DEF FaucetInv
<1>12. ASSUME NEW k \in Keys, NEW r \in OursOf(k) PROVE Cardinality(During(k, drips[r].at)') <= MaxOf(k)
  <2>1. r \in Ours
    BY DEF OursOf
  <2> QED
    BY <1>1, <1>6, <1>7, <2>1 DEF FaucetInv
<1>13. \A k \in Keys : \A i \in DOMAIN spentBy'[k] : spentBy'[k][i] <= time'
  <2> SUFFICES ASSUME NEW k \in Keys, NEW i \in DOMAIN spentBy'[k] PROVE spentBy'[k][i] <= time'
    OBVIOUS
  <2>1. spentBy'[k] \in Seq(Nat) /\ spentBy'[k][i] <= time
    BY DEF SameLimits
  <2>2. spentBy'[k][i] \in Nat
    BY <2>1
  <2> QED
    BY <1>1, <2>1, <2>2
<1>14. ASSUME NEW r \in DOMAIN drips', drips'[r].stage \in {"queued", "sent"} PROVE drips'[r].life = reboots'
  <2>1. r \in DOMAIN drips /\ drips'[r].life = drips[r].life /\ reboots' = reboots
    BY <1>14 DEF SameDrips, Signed
  <2>2. drips'[r].stage = drips[r].stage \/ drips[r].life = reboots
    BY <2>1 DEF SameDrips
  <2> QED
    BY <1>14, <2>1, <2>2 DEF FaucetInv
<1> QED
  BY <1>1, <1>2, <1>4, <1>8, <1>9, <1>10, <1>11, <1>12, <1>13, <1>14 DEF FaucetInv, SameDrips, SameLimits

\* What is spent of each key, and that it is counted.
LEMMA SpendKeeps ==
  ASSUME FaucetInv, NEW keys \in SUBSET Keys, spentBy' = Spend(keys)
  PROVE  /\ spentBy' \in [Keys -> Seq(Nat)]
         /\ \A k \in Keys : /\ Ascends(spentBy'[k]) /\ \A i \in DOMAIN spentBy'[k] : spentBy'[k][i] <= time
                            /\ \A x \in Int : x >= time - Hour =>
                                 Kept(spentBy'[k], x) >= Kept(spentBy[k], x) /\ Kept(spentBy'[k], x) \in Nat
         /\ \A k \in keys, x \in Int :
              x >= time - Hour /\ x < time => Kept(spentBy'[k], x) = Kept(spentBy[k], x) + 1
         /\ \A k \in keys : Kept(spentBy'[k], time - Hour) <= Len(Recent(spentBy[k], time, Hour)) + 1
<1>1. time \in Nat /\ Hour \in Nat /\ time - Hour \in Int
  BY FaucetNumbers DEF FaucetInv
<1>2. ASSUME NEW k \in Keys
      PROVE  spentBy[k] \in Seq(Nat) /\ Ascends(spentBy[k]) /\ \A i \in DOMAIN spentBy[k] : spentBy[k][i] <= time
  BY DEF FaucetInv
<1>3. \A k \in Keys : spentBy'[k] = IF k \in keys THEN LetIn(spentBy[k], time, Hour) ELSE spentBy[k]
  BY DEF Spend
<1>4. ASSUME NEW k \in Keys
      PROVE  /\ spentBy'[k] \in Seq(Nat) /\ Ascends(spentBy'[k]) /\ \A i \in DOMAIN spentBy'[k] : spentBy'[k][i] <= time
  <2>1. CASE k \in keys
    <3>1. spentBy'[k] = LetIn(spentBy[k], time, Hour)
      BY <1>3, <2>1
    <3> QED
      BY <1>1, <1>2, <3>1, LetInKeeps
  <2>2. CASE k \notin keys
    <3>1. spentBy'[k] = spentBy[k]
      BY <1>3, <2>2
    <3> QED
      BY <1>2, <3>1
  <2> QED
    BY <2>1, <2>2
<1>5. ASSUME NEW k \in keys, NEW x \in Int, x >= time - Hour
      PROVE  /\ x < time => Kept(spentBy'[k], x) = Kept(spentBy[k], x) + 1
             /\ x >= time => Kept(spentBy'[k], x) = 0 /\ Kept(spentBy[k], x) = 0
  <2>1. k \in Keys /\ spentBy'[k] = LetIn(spentBy[k], time, Hour)
    BY <1>3
  <2>2. /\ \A y \in Int : y >= time - Hour /\ y < time =>
               Kept(LetIn(spentBy[k], time, Hour), y) = Kept(spentBy[k], y) + 1
        /\ \A y \in Int : y >= time => Kept(LetIn(spentBy[k], time, Hour), y) = 0 /\ Kept(spentBy[k], y) = 0
    BY <1>1, <1>2, <2>1, LetInKeeps
  <2> QED
    BY <1>5, <2>1, <2>2
<1>6. ASSUME NEW k \in Keys, NEW x \in Int, x >= time - Hour
      PROVE  Kept(spentBy'[k], x) >= Kept(spentBy[k], x) /\ Kept(spentBy'[k], x) \in Nat
  <2>1. Kept(spentBy'[k], x) \in Nat /\ Kept(spentBy[k], x) \in Nat
    BY <1>2, <1>4, KeptType
  <2>2. k \notin keys => spentBy'[k] = spentBy[k]
    BY <1>3
  <2> QED
    BY <1>1, <1>5, <1>6, <2>1, <2>2
<1>7. ASSUME NEW k \in keys PROVE Kept(spentBy'[k], time - Hour) <= Len(Recent(spentBy[k], time, Hour)) + 1
  <2>1. k \in Keys
    OBVIOUS
  <2>2. Len(Recent(spentBy[k], time, Hour)) = Kept(spentBy[k], time - Hour)
    BY <1>1, <1>2, <2>1, RecentKeeps
  <2>3. Kept(spentBy[k], time - Hour) \in Nat
    BY <1>1, <1>2, <2>1, KeptType
  <2>4. /\ time - Hour < time => Kept(spentBy'[k], time - Hour) = Kept(spentBy[k], time - Hour) + 1
        /\ time - Hour >= time => Kept(spentBy'[k], time - Hour) = 0
    BY <1>1, <1>5
  <2> QED
    BY <1>1, <2>2, <2>3, <2>4
<1>8. spentBy' \in [Keys -> Seq(Nat)]
  BY <1>4 DEF Spend
<1> QED
  BY <1>4, <1>5, <1>6, <1>7, <1>8

LEMMA ArrivesType ==
  ASSUME FaucetInv, NEW a \in Addresses, NEW ip \in IPs, NEW stage \in {"refused", "full", "queued"}, Arrives(a, ip, stage)
  PROVE  /\ Len(drips) \in Nat /\ DOMAIN drips = 1 .. Len(drips)
         /\ drips' \in Seq(DripType) /\ DOMAIN drips' = DOMAIN drips \cup {Len(drips) + 1}
         /\ Len(drips) + 1 \notin DOMAIN drips /\ \A r \in DOMAIN drips : r < Len(drips) + 1 /\ r \in Nat
         /\ \A r \in DOMAIN drips : drips'[r] = drips[r]
         /\ drips'[Len(drips) + 1] = [address |-> a, ip |-> ip, at |-> time, stage |-> stage, life |-> reboots]
<1>1. drips \in Seq(DripType) /\ time \in Nat /\ reboots \in Nat
  BY DEF FaucetInv
<1> DEFINE new == [address |-> a, ip |-> ip, at |-> time, stage |-> stage, life |-> reboots]
<1>2. new \in DripType
  BY <1>1 DEF DripType, Signed
<1>3. drips' = Append(drips, new)
  BY DEF Arrives
<1> HIDE DEF new
<1>4. /\ Len(drips) \in Nat /\ DOMAIN drips = 1 .. Len(drips)
      /\ drips' \in Seq(DripType) /\ DOMAIN drips' = 1 .. Len(drips) + 1
      /\ \A r \in 1 .. Len(drips) : drips'[r] = drips[r]
      /\ drips'[Len(drips) + 1] = new
  BY <1>1, <1>2, <1>3
<1>5. /\ 1 .. Len(drips) + 1 = (1 .. Len(drips)) \cup {Len(drips) + 1} /\ Len(drips) + 1 \notin 1 .. Len(drips)
      /\ \A r \in 1 .. Len(drips) : r < Len(drips) + 1 /\ r \in Nat
  BY <1>4
<1> QED
  BY <1>4, <1>5 DEF new

\* A request that is not sent, with or without its places spent.
LEMMA RefusedKeeps ==
  ASSUME FaucetInv, NEW a \in Addresses, NEW ip \in IPs, NEW stage \in {"refused", "full"}, Arrives(a, ip, stage),
         NEW keys \in SUBSET Keys, spentBy' = spentBy \/ spentBy' = Spend(keys), lastDrip' = lastDrip \/ lastDrip' = Noted(a),
         UNCHANGED <<time, reboots, waiting>>
  PROVE  FaucetInv'
<1>1. /\ time \in Nat /\ time' = time /\ Hour \in Nat /\ reboots' = reboots /\ waiting' \in Seq(Ours)
      /\ \A c \in DOMAIN lastDrip : lastDrip[c] \in Nat /\ lastDrip[c] <= time
  BY FaucetNumbers DEF FaucetInv
<1>2. SameDrips
  <2>1. stage \notin Signed
    BY DEF Signed
  <2>2. Len(drips) + 1 \notin DOMAIN drips /\ DOMAIN drips' = DOMAIN drips \cup {Len(drips) + 1}
    BY ArrivesType
  <2>3. /\ drips' \in Seq(DripType)
        /\ \A r \in DOMAIN drips : drips'[r] = drips[r]
    BY ArrivesType
  <2>4. /\ drips'[Len(drips) + 1].stage = stage /\ drips'[Len(drips) + 1].at = time
        /\ drips'[Len(drips) + 1].life = reboots
    <3>1. drips'[Len(drips) + 1] = [address |-> a, ip |-> ip, at |-> time, stage |-> stage, life |-> reboots]
      BY ArrivesType
    <3> QED
      BY <3>1
  <2> QED
    BY <1>1, <2>1, <2>2, <2>3, <2>4 DEF SameDrips
<1>3. \A c \in DOMAIN lastDrip : c \in DOMAIN lastDrip' /\ lastDrip'[c] >= lastDrip[c]
  BY <1>1 DEF Noted, With
<1>4. \A c \in DOMAIN lastDrip' : lastDrip'[c] \in Nat /\ lastDrip'[c] <= time
  BY <1>1 DEF Noted, With
<1>5. /\ spentBy' \in [Keys -> Seq(Nat)]
      /\ \A k \in Keys : /\ Ascends(spentBy'[k]) /\ \A i \in DOMAIN spentBy'[k] : spentBy'[k][i] <= time
                         /\ \A x \in Int : x >= time - Hour =>
                              Kept(spentBy'[k], x) >= Kept(spentBy[k], x) /\ Kept(spentBy'[k], x) \in Nat
  <2>1. CASE spentBy' = spentBy
    <3>1. ASSUME NEW k \in Keys, NEW x \in Int
          PROVE  Kept(spentBy[k], x) \in Nat /\ Kept(spentBy[k], x) >= Kept(spentBy[k], x)
      <4>1. spentBy[k] \in Seq(Nat) /\ Ascends(spentBy[k])
        BY DEF FaucetInv
      <4>2. Kept(spentBy[k], x) \in Nat
        BY <4>1, KeptType
      <4> QED
        BY <4>2
    <3> QED
      BY <2>1, <3>1 DEF FaucetInv
  <2>2. CASE spentBy' = Spend(keys)
    BY <2>2, SpendKeeps
  <2> QED
    BY <2>1, <2>2
<1>6. SameLimits
  BY <1>1, <1>3, <1>4, <1>5 DEF SameLimits
<1> QED
  BY <1>1, <1>2, <1>6, SameDripsKeep

\* A request that is let in: every check has passed, and the send is queued.
LEMMA QueuedKeeps ==
  ASSUME FaucetInv, NEW a \in Addresses, NEW ip \in IPs, ~OnCooldown(a), ~Exhausted(ip), ~Exhausted(Everybody),
         Arrives(a, ip, "queued"), spentBy' = Spend({ip, Everybody}), lastDrip' = Noted(a),
         waiting' = Append(waiting, Len(drips) + 1), UNCHANGED <<time, reboots>>
  PROVE  FaucetInv'
<1> DEFINE n == Len(drips) + 1
           keys == {ip, Everybody}
<1>1. /\ time \in Nat /\ time' = time /\ Hour \in Nat /\ Cooldown \in Nat /\ reboots \in Nat /\ reboots' = reboots
      /\ waiting \in Seq(Ours) /\ time - Hour \in Int /\ drips \in Seq(DripType)
      /\ keys \in SUBSET Keys /\ Everybody \notin IPs
  BY FaucetNumbers DEF FaucetInv
<1>2. /\ Len(drips) \in Nat /\ DOMAIN drips = 1 .. Len(drips)
      /\ drips' \in Seq(DripType) /\ DOMAIN drips' = DOMAIN drips \cup {n} /\ n \notin DOMAIN drips
      /\ \A r \in DOMAIN drips : r < n /\ r \in Nat
      /\ \A r \in DOMAIN drips : drips'[r] = drips[r]
  BY ArrivesType
<1>3. /\ drips'[n].address = a /\ drips'[n].ip = ip /\ drips'[n].at = time /\ drips'[n].stage = "queued"
      /\ drips'[n].life = reboots
  <2>1. drips'[n] = [address |-> a, ip |-> ip, at |-> time, stage |-> "queued", life |-> reboots]
    BY ArrivesType
  <2> QED
    BY <2>1
<1>4. \A r \in DOMAIN drips : drips[r].at \in Nat /\ drips[r].at <= time /\ drips[r].life <= reboots
  <2>1. \A r \in DOMAIN drips : drips[r] \in DripType
    BY <1>1
  <2> QED
    BY <2>1 DEF DripType, FaucetInv
<1> HIDE DEF n, keys
<1>5. Ours' = Ours \cup {n} /\ n \notin Ours
  BY <1>1, <1>2, <1>3 DEF Ours, Signed
<1>6. \A r \in Ours : r \in DOMAIN drips /\ drips'[r] = drips[r] /\ r < n /\ r \in Nat
  BY <1>2 DEF Ours
<1>7. ASSUME NEW k \in Keys PROVE OursOf(k)' = IF k \in keys THEN OursOf(k) \cup {n} ELSE OursOf(k)
  BY <1>1, <1>3, <1>5, <1>6 DEF OursOf, keys, Keys
<1>8. \A k : OursOf(k) \subseteq Ours
  BY DEF OursOf
<1>9. ASSUME NEW k \in Keys, NEW x \in Int
      PROVE  Since(k, x)' = IF k \in keys /\ time > x THEN Since(k, x) \cup {n} ELSE Since(k, x)
  BY <1>3, <1>6, <1>7, <1>8 DEF Since
<1>10. ASSUME NEW k \in Keys, NEW x \in Int, x >= time - Hour PROVE Cardinality(Since(k, x)') <= Kept(spentBy'[k], x)
  <2>1. Cardinality(Since(k, x)) <= Kept(spentBy[k], x)
    BY <1>10 DEF FaucetInv
  <2>2. IsFiniteSet(Since(k, x)) /\ Cardinality(Since(k, x)) \in Nat /\ n \notin Since(k, x)
    BY <1>1, <1>5, <1>8, OursFinite DEF Since
  <2>3. spentBy[k] \in Seq(Nat) /\ Ascends(spentBy[k])
    BY DEF FaucetInv
  <2>4. Kept(spentBy[k], x) \in Nat
    BY <2>3, KeptType
  <2>5. Kept(spentBy'[k], x) >= Kept(spentBy[k], x) /\ Kept(spentBy'[k], x) \in Nat
    BY <1>1, <1>10, SpendKeeps DEF keys
  <2>6. CASE k \in keys /\ time > x
    <3>1. Kept(spentBy'[k], x) = Kept(spentBy[k], x) + 1
      BY <1>1, <1>10, <2>6, SpendKeeps DEF keys
    <3>2. Cardinality(Since(k, x) \cup {n}) = Cardinality(Since(k, x)) + 1
      BY <2>2, FS_AddElement
    <3>3. Since(k, x)' = Since(k, x) \cup {n}
      BY <1>9, <2>6
    <3> QED
      BY <2>1, <2>2, <2>4, <3>1, <3>2, <3>3
  <2>7. CASE ~(k \in keys /\ time > x)
    <3>1. Since(k, x)' = Since(k, x)
      BY <1>9, <2>7
    <3> QED
      BY <2>1, <2>2, <2>4, <2>5, <3>1
  <2> QED
    BY <2>6, <2>7
<1>11. ASSUME NEW k \in keys PROVE Kept(spentBy'[k], time - Hour) <= MaxOf(k)
  <2>1. k \in Keys /\ MaxOf(k) \in Nat
    BY <1>1, FaucetNumbers
  <2>2. spentBy[k] \in Seq(Nat) /\ Ascends(spentBy[k])
    BY <2>1 DEF FaucetInv
  <2>3. Len(Recent(spentBy[k], time, Hour)) \in Nat
    BY <1>1, <2>2, RecentKeeps
  <2>4. ~(Len(Recent(spentBy[k], time, Hour)) >= MaxOf(k))
    BY DEF keys, Exhausted, OverLimit
  <2>5. Kept(spentBy'[k], time - Hour) <= Len(Recent(spentBy[k], time, Hour)) + 1
    BY <1>1, SpendKeeps DEF keys
  <2>6. Kept(spentBy'[k], time - Hour) \in Nat
    <3>1. time - Hour >= time - Hour
      BY <1>1
    <3> QED
      BY <1>1, <2>1, <3>1, SpendKeeps DEF keys
  <2> QED
    BY <2>1, <2>3, <2>4, <2>5, <2>6
<1>12. ASSUME NEW k \in Keys, NEW r \in OursOf(k)' PROVE Cardinality(During(k, drips[r].at)') <= MaxOf(k)
  <2> DEFINE t == drips'[r].at
             now == {q \in OursOf(k)' : drips'[q].at \in t - Hour + 1 .. t}
  <2>1. During(k, drips[r].at)' = now
    BY DEF During
  <2>2. t \in Nat /\ t <= time /\ (r \in Ours => t = drips[r].at) /\ (r \notin Ours => r = n /\ k \in keys /\ t = time)
    <3>1. r \in OursOf(k) \/ (r = n /\ k \in keys)
      BY <1>7
    <3>2. n \notin Ours /\ (r \in OursOf(k) => r \in Ours)
      BY <1>5, <1>8
    <3> QED
      BY <1>1, <1>3, <1>4, <1>6, <3>1, <3>2
  <2>3. MaxOf(k) \in Nat
    BY FaucetNumbers
  <2> HIDE DEF t
  <2>4. CASE k \in keys /\ t = time
    <3>1. now \subseteq Since(k, time - Hour)'
      <4> SUFFICES ASSUME NEW q \in OursOf(k)', drips'[q].at \in t - Hour + 1 .. t PROVE drips'[q].at > time - Hour
        BY DEF Since
      <4> QED
        BY <1>1, <2>4
    <3>2. Cardinality(Since(k, time - Hour)') <= Kept(spentBy'[k], time - Hour)
      <4>1. time - Hour >= time - Hour
        BY <1>1
      <4> QED
        BY <1>1, <1>10, <4>1
    <3>3. Kept(spentBy'[k], time - Hour) <= MaxOf(k)
      BY <1>11, <2>4
    <3>4. IsFiniteSet(Since(k, time - Hour)') /\ Cardinality(Since(k, time - Hour)') \in Nat
      <4>1. IsFiniteSet(Since(k, time - Hour)) /\ n \notin Since(k, time - Hour)
        BY <1>1, <1>5, <1>8, OursFinite DEF Since
      <4>2. Since(k, time - Hour)' \in {Since(k, time - Hour), Since(k, time - Hour) \cup {n}}
        BY <1>1, <1>9
      <4>3. IsFiniteSet(Since(k, time - Hour) \cup {n})
        BY <4>1, FS_AddElement
      <4> QED
        BY <4>1, <4>2, <4>3, FS_CardinalityType
    <3>5. Cardinality(now) \in Nat /\ Cardinality(now) <= Cardinality(Since(k, time - Hour)')
      <4> HIDE DEF now
      <4> QED
        BY <3>1, <3>4, FS_Subset, FS_CardinalityType
    <3>6. Kept(spentBy'[k], time - Hour) \in Nat
      <4>1. time - Hour >= time - Hour
        BY <1>1
      <4> QED
        BY <1>1, <4>1, SpendKeeps DEF keys
    <3> HIDE DEF now
    <3> QED
      BY <2>1, <2>3, <3>2, <3>3, <3>4, <3>5, <3>6
  <2>5. CASE ~(k \in keys /\ t = time)
    <3>1. r \in Ours /\ r \in OursOf(k) /\ t = drips[r].at
      <4>1. r \in Ours
        BY <2>2, <2>5
      <4>2. r # n
        BY <1>5, <4>1
      <4> QED
        BY <1>7, <2>2, <4>1, <4>2
    <3>2. now = During(k, drips[r].at)
      <4>1. \A q \in OursOf(k) : drips'[q].at = drips[q].at
        BY <1>6, <1>8
      <4>2. CASE k \notin keys
        <5>1. OursOf(k)' = OursOf(k)
          BY <1>7, <4>2
        <5> QED
          BY <3>1, <4>1, <5>1 DEF During
      <4>3. CASE k \in keys /\ t # time
        <5>1. OursOf(k)' = OursOf(k) \cup {n}
          BY <1>7, <4>3
        <5>2. drips'[n].at \notin t - Hour + 1 .. t
          BY <1>1, <1>3, <2>2, <4>3
        <5> QED
          BY <3>1, <4>1, <5>1, <5>2 DEF During
      <4> QED
        BY <2>5, <4>2, <4>3
    <3>3. Cardinality(During(k, drips[r].at)) <= MaxOf(k)
      BY <3>1 DEF FaucetInv
    <3> HIDE DEF now
    <3> QED
      BY <2>1, <3>2, <3>3
  <2> QED
    BY <2>4, <2>5
<1>13. ASSUME NEW r \in Ours'
       PROVE  LET c == drips'[r].address IN
              (c \in DOMAIN lastDrip' /\ drips'[r].at <= lastDrip'[c]) \/ time' - drips'[r].at >= Cooldown
  <2> DEFINE c == drips'[r].address
  <2>1. /\ DOMAIN lastDrip' = DOMAIN lastDrip \cup {a} /\ lastDrip'[a] = time
        /\ \A y \in DOMAIN lastDrip \ {a} : lastDrip'[y] = lastDrip[y]
    BY DEF Noted, With
  <2>2. drips'[r].at \in Nat /\ drips'[r].at <= time
    BY <1>1, <1>3, <1>4, <1>5, <1>6
  <2>3. CASE c = a
    BY <1>1, <2>1, <2>2, <2>3
  <2>4. CASE c # a
    <3>1. r \in Ours /\ c = drips[r].address /\ drips'[r].at = drips[r].at
      BY <1>3, <1>5, <1>6, <2>4
    <3>2. (c \in DOMAIN lastDrip /\ drips[r].at <= lastDrip[c]) \/ time - drips[r].at >= Cooldown
      BY <3>1 DEF FaucetInv
    <3> HIDE DEF c
    <3> QED
      BY <1>1, <2>1, <2>4, <3>1, <3>2 DEF c
  <2> QED
    BY <2>3, <2>4
<1>14. ASSUME NEW q \in Ours', NEW r \in Ours', q < r, drips'[q].address = drips'[r].address
       PROVE  drips'[r].at - drips'[q].at >= Cooldown
  <2>1. q \in Ours /\ (r \in Ours \/ r = n)
    <3>1. q # n
      <4> SUFFICES ASSUME q = n PROVE FALSE
        OBVIOUS
      <4>1. n \in Nat /\ (r \in Ours => r < n /\ r \in Nat)
        BY <1>2, <1>6 DEF n
      <4> QED
        BY <1>5, <1>14, <4>1
    <3> QED
      BY <1>5, <3>1
  <2>2. CASE r \in Ours
    <3>1. drips'[q] = drips[q] /\ drips'[r] = drips[r]
      BY <1>6, <2>1, <2>2
    <3> QED
      BY <1>14, <2>1, <2>2, <3>1 DEF FaucetInv
  <2>3. CASE r = n
    <3>1. drips'[q] = drips[q] /\ drips[q].address = a /\ drips'[r].at = time /\ drips[q].at \in Nat
      BY <1>3, <1>4, <1>6, <1>14, <2>1, <2>3
    <3>2. (a \in DOMAIN lastDrip /\ drips[q].at <= lastDrip[a]) \/ time - drips[q].at >= Cooldown
      BY <2>1, <3>1 DEF FaucetInv
    <3>3. a \in DOMAIN lastDrip => lastDrip[a] \in Nat /\ ~(time - lastDrip[a] < Cooldown)
      BY DEF OnCooldown, FaucetInv
    <3> QED
      BY <1>1, <3>1, <3>2, <3>3
  <2> QED
    BY <2>1, <2>2, <2>3
<1>15. \A r \in DOMAIN drips' : drips'[r].at <= time' /\ drips'[r].life <= reboots'
  BY <1>1, <1>2, <1>3, <1>4
<1>16. waiting' \in Seq(Ours')
  BY <1>1, <1>5 DEF n
<1>17. \A c \in DOMAIN lastDrip' : lastDrip'[c] \in Nat /\ lastDrip'[c] <= time'
  BY <1>1 DEF Noted, With, FaucetInv
<1>18. /\ spentBy' \in [Keys -> Seq(Nat)]
       /\ \A k \in Keys : Ascends(spentBy'[k]) /\ \A i \in DOMAIN spentBy'[k] : spentBy'[k][i] <= time'
  BY <1>1, SpendKeeps DEF keys
<1>19. \A r \in DOMAIN drips' : drips'[r].stage \in {"queued", "sent"} => drips'[r].life = reboots'
  BY <1>1, <1>2, <1>3 DEF FaucetInv
<1> QED
  BY <1>1, <1>2, <1>10, <1>12, <1>13, <1>14, <1>15, <1>16, <1>17, <1>18, <1>19 DEF FaucetInv

LEMMA DripKeeps == ASSUME FaucetInv, NEW a \in Addresses, NEW ip \in IPs, Drip(a, ip) PROVE FaucetInv'
<1>1. UNCHANGED <<time, reboots>> /\ {ip, Everybody} \in SUBSET Keys /\ {ip} \in SUBSET Keys
  BY FaucetNumbers DEF Drip
<1>2. CASE Arrives(a, ip, "refused") /\ UNCHANGED <<lastDrip, spentBy, waiting>>
  <2>1. spentBy' = spentBy /\ lastDrip' = lastDrip /\ waiting' = waiting
    BY <1>2
  <2> QED
    BY <1>1, <1>2, <2>1, RefusedKeeps
<1>3. CASE Arrives(a, ip, "refused") /\ spentBy' = Spend({ip}) /\ UNCHANGED <<lastDrip, waiting>>
  <2>1. lastDrip' = lastDrip /\ waiting' = waiting
    BY <1>3
  <2> QED
    BY <1>1, <1>3, <2>1, RefusedKeeps
<1>4. CASE /\ ~OnCooldown(a) /\ ~Exhausted(ip) /\ ~Exhausted(Everybody)
           /\ spentBy' = Spend({ip, Everybody}) /\ lastDrip' = Noted(a)
           /\ IF Len(waiting) >= QueuePlaces
                THEN Arrives(a, ip, "full") /\ UNCHANGED waiting
                ELSE Arrives(a, ip, "queued") /\ waiting' = Append(waiting, Len(drips) + 1)
  <2>1. CASE Len(waiting) >= QueuePlaces
    BY <1>1, <1>4, <2>1, RefusedKeeps
  <2>2. CASE ~(Len(waiting) >= QueuePlaces)
    BY <1>1, <1>4, <2>2, QueuedKeeps
  <2> QED
    BY <2>1, <2>2
<1> QED
  BY <1>2, <1>3, <1>4 DEF Drip

\* The sweep forgets no more than a check would, and time only makes more forgettable.
LEMMA SweepKeeps == ASSUME FaucetInv, DripSweep PROVE FaucetInv'
<1>1. /\ time \in Nat /\ time' = time /\ Hour \in Nat /\ time - Hour \in Int
      /\ reboots' = reboots /\ drips' = drips /\ waiting' = waiting
      /\ waiting \in Seq(Ours) /\ drips \in Seq(DripType)
  BY FaucetNumbers DEF FaucetInv, DripSweep
<1>2. SameDrips
  BY <1>1 DEF SameDrips
<1>3. lastDrip' = [c \in {c \in DOMAIN lastDrip : OnCooldown(c)} |-> lastDrip[c]]
  BY DEF DripSweep, Restrict
<1>4. ASSUME NEW k \in Keys
      PROVE  /\ spentBy'[k] \in Seq(Nat) /\ Ascends(spentBy'[k]) /\ \A i \in DOMAIN spentBy'[k] : spentBy'[k][i] <= time
             /\ \A x \in Int : x >= time' - Hour => Kept(spentBy'[k], x) = Kept(spentBy[k], x)
  <2>1. spentBy'[k] = Recent(spentBy[k], time, Hour)
    BY DEF DripSweep
  <2>2. spentBy[k] \in Seq(Nat) /\ Ascends(spentBy[k]) /\ \A i \in DOMAIN spentBy[k] : spentBy[k][i] <= time
    BY DEF FaucetInv
  <2> DEFINE s == Recent(spentBy[k], time, Hour)
  <2>3. /\ s \in Seq(Nat) /\ Ascends(s)
        /\ \A x \in Int : x >= time - Hour => Kept(s, x) = Kept(spentBy[k], x)
        /\ \A top \in Nat : (\A i \in DOMAIN spentBy[k] : spentBy[k][i] <= top) => \A i \in DOMAIN s : s[i] <= top
    BY <1>1, <2>2, RecentKeeps
  <2> HIDE DEF s
  <2>4. \A i \in DOMAIN s : s[i] <= time
    BY <1>1, <2>2, <2>3
  <2> QED
    BY <1>1, <2>1, <2>3, <2>4 DEF s
<1>5. spentBy' \in [Keys -> Seq(Nat)]
  BY <1>4 DEF DripSweep
<1>6. ASSUME NEW k \in Keys, NEW x \in Int, x >= time' - Hour
      PROVE  Kept(spentBy'[k], x) >= Kept(spentBy[k], x) /\ Kept(spentBy'[k], x) \in Nat
  <2>1. Kept(spentBy'[k], x) \in Nat /\ Kept(spentBy'[k], x) = Kept(spentBy[k], x)
    BY <1>4, <1>6, KeptType
  <2> QED
    BY <2>1
<1>7. ASSUME NEW c \in DOMAIN lastDrip
      PROVE  time' - lastDrip[c] >= Cooldown \/ (c \in DOMAIN lastDrip' /\ lastDrip'[c] >= lastDrip[c])
  <2>1. lastDrip[c] \in Nat /\ Cooldown \in Nat
    BY FaucetNumbers DEF FaucetInv
  <2>2. OnCooldown(c) => c \in DOMAIN lastDrip' /\ lastDrip'[c] = lastDrip[c]
    BY <1>3
  <2>3. ~OnCooldown(c) => ~(time - lastDrip[c] < Cooldown)
    BY DEF OnCooldown
  <2> QED
    BY <1>1, <2>1, <2>2, <2>3
<1>8. \A c \in DOMAIN lastDrip' : lastDrip'[c] \in Nat /\ lastDrip'[c] <= time'
  BY <1>1, <1>3 DEF FaucetInv
<1>9. SameLimits
  BY <1>4, <1>5, <1>6, <1>7, <1>8 DEF SameLimits
<1> QED
  BY <1>1, <1>2, <1>9, SameDripsKeep

\* Nothing of the limits changes but the time.
LEMMA LimitsStay ==
  ASSUME FaucetInv, UNCHANGED <<lastDrip, spentBy>>, time' \in Nat, time' >= time
  PROVE  SameLimits
<1>1. time \in Nat /\ Hour \in Nat /\ lastDrip' = lastDrip /\ spentBy' = spentBy
  BY FaucetNumbers DEF FaucetInv
<1>2. ASSUME NEW k \in Keys, NEW x \in Int PROVE Kept(spentBy[k], x) \in Nat /\ Kept(spentBy[k], x) >= Kept(spentBy[k], x)
  <2>1. spentBy[k] \in Seq(Nat) /\ Ascends(spentBy[k])
    BY DEF FaucetInv
  <2>2. Kept(spentBy[k], x) \in Nat
    BY <2>1, KeptType
  <2> QED
    BY <2>2
<1>3. \A a \in DOMAIN lastDrip : lastDrip[a] \in Nat /\ lastDrip[a] <= time /\ lastDrip[a] >= lastDrip[a]
  BY DEF FaucetInv
<1>4. \A a \in DOMAIN lastDrip' : lastDrip'[a] \in Nat /\ lastDrip'[a] <= time'
  BY <1>1, <1>3
<1>5. /\ spentBy \in [Keys -> Seq(Nat)]
      /\ \A k \in Keys : Ascends(spentBy[k]) /\ \A i \in DOMAIN spentBy[k] : spentBy[k][i] <= time
  BY DEF FaucetInv
<1> QED
  BY <1>1, <1>2, <1>3, <1>4, <1>5 DEF SameLimits

LEMMA TimeKeeps == ASSUME FaucetInv, FaucetTick \/ Mine PROVE FaucetInv'
<1>1. /\ time' \in Nat /\ time' >= time /\ UNCHANGED <<lastDrip, spentBy, drips, waiting, reboots>>
      /\ drips \in Seq(DripType) /\ waiting \in Seq(Ours)
  BY DEF FaucetInv, FaucetTick, Mine
<1>2. SameDrips
  BY <1>1 DEF SameDrips
<1> QED
  BY <1>1, <1>2, LimitsStay, SameDripsKeep

\* A drip that the wallet signed goes from stage to stage.
LEMMA StageKeeps ==
  ASSUME FaucetInv, NEW r \in Ours, NEW stage \in {"sent", "failed", "paid"}, drips' = [drips EXCEPT ![r].stage = stage],
         waiting' \in Seq(Ours), UNCHANGED <<time, reboots, lastDrip, spentBy>>
  PROVE  FaucetInv'
<1>1. drips \in Seq(DripType) /\ r \in DOMAIN drips /\ drips[r].stage \in Signed /\ drips[r] \in DripType /\ time \in Nat
  BY DEF FaucetInv, Ours
<1>2. drips' = [drips EXCEPT ![r] = [drips[r] EXCEPT !.stage = stage]]
  OBVIOUS
<1>3. stage \in Signed
  BY DEF Signed
<1>4. [drips[r] EXCEPT !.stage = stage] \in DripType
  BY <1>1, <1>3 DEF DripType
<1>5. drips' \in Seq(DripType) /\ DOMAIN drips' = DOMAIN drips
  BY <1>1, <1>2, <1>4
<1>6. ASSUME NEW q \in DOMAIN drips
      PROVE  /\ drips'[q].at = drips[q].at /\ drips'[q].life = drips[q].life
             /\ drips'[q].address = drips[q].address /\ drips'[q].ip = drips[q].ip
             /\ drips'[q].stage \in Signed <=> drips[q].stage \in Signed
             /\ drips'[q].stage = drips[q].stage \/ drips[q].life = reboots
  <2>1. CASE q = r
    <3>1. drips'[q] = [drips[r] EXCEPT !.stage = stage]
      BY <1>1, <1>2, <2>1
    <3> QED
      BY <1>1, <1>3, <2>1, <3>1 DEF DripType, Ours
  <2>2. CASE q # r
    BY <1>1, <1>2, <2>2
  <2> QED
    BY <2>1, <2>2
<1>7. SameDrips
  BY <1>5, <1>6 DEF SameDrips
<1>8. time' \in Nat /\ time' >= time
  BY <1>1
<1> QED
  BY <1>7, <1>8, LimitsStay, SameDripsKeep

LEMMA SendKeeps == ASSUME FaucetInv, NEW accepted, NEW answered, Send(accepted, answered) PROVE FaucetInv'
<1>1. waiting \in Seq(Ours) /\ waiting # <<>> /\ waiting' = Tail(waiting) /\ UNCHANGED <<time, reboots, lastDrip, spentBy>>
  BY DEF FaucetInv, Send
<1>2. Head(waiting) \in Ours /\ waiting' \in Seq(Ours)
  BY <1>1
<1>3. drips' = [drips EXCEPT ![Head(waiting)].stage = IF accepted /\ answered THEN "sent" ELSE "failed"]
  BY DEF Send
<1>4. PICK stage \in {"sent", "failed", "paid"} : drips' = [drips EXCEPT ![Head(waiting)].stage = stage]
  BY <1>3
<1> QED
  BY <1>1, <1>2, <1>4, StageKeeps

LEMMA WaitKeeps == ASSUME FaucetInv, NEW r \in DOMAIN drips, Wait(r) PROVE FaucetInv'
<1>1. /\ drips' = [drips EXCEPT ![r].stage = "paid"] /\ drips[r].stage = "sent" /\ waiting' = waiting /\ waiting \in Seq(Ours)
      /\ UNCHANGED <<time, reboots, lastDrip, spentBy>>
  BY DEF Wait, FaucetInv
<1>2. r \in Ours
  BY <1>1 DEF Ours, Signed, FaucetInv
<1> QED
  BY <1>1, <1>2, StageKeeps

\* A restart forgets the limits with all it had signed.
LEMMA RebootKeeps == ASSUME FaucetInv, Reboot PROVE FaucetInv'
<1>1. /\ time \in Nat /\ time' = time /\ reboots \in Nat /\ reboots' = reboots + 1 /\ Hour \in Nat
      /\ drips \in Seq(DripType) /\ waiting' = <<>> /\ lastDrip' = <<>> /\ spentBy' = [k \in Keys |-> <<>>]
      /\ drips' = [r \in DOMAIN drips |->
                     IF drips[r].stage \in {"queued", "sent"} THEN [drips[r] EXCEPT !.stage = "cut"] ELSE drips[r]]
      /\ \A k \in Keys : MaxOf(k) \in Nat
  BY FaucetNumbers DEF FaucetInv, Reboot
<1>2. ASSUME NEW r \in DOMAIN drips
      PROVE  /\ drips'[r] \in DripType /\ drips'[r].at = drips[r].at /\ drips'[r].life = drips[r].life
             /\ drips'[r].stage \notin {"queued", "sent"}
             /\ drips[r].life \in Nat /\ drips[r].life <= reboots /\ drips[r].at <= time
  <2>1. drips[r] \in DripType
    BY <1>1
  <2>2. CASE drips[r].stage \in {"queued", "sent"}
    <3>1. drips'[r] = [drips[r] EXCEPT !.stage = "cut"]
      BY <1>1, <2>2
    <3> QED
      BY <2>1, <3>1 DEF DripType, FaucetInv
  <2>3. CASE drips[r].stage \notin {"queued", "sent"}
    <3>1. drips'[r] = drips[r]
      BY <1>1, <2>3
    <3> QED
      BY <2>1, <2>3, <3>1 DEF DripType, FaucetInv
  <2> QED
    BY <2>2, <2>3
<1>3. DOMAIN drips' = DOMAIN drips
  BY <1>1
<1>4. drips' \in Seq(DripType)
  <2>1. DOMAIN drips = 1 .. Len(drips) /\ Len(drips) \in Nat
    BY <1>1
  <2> QED
    BY <1>1, <1>2, <2>1, IsASeq
<1>5. Ours' = {}
  <2> SUFFICES ASSUME NEW r \in DOMAIN drips PROVE drips'[r].life # reboots'
    BY <1>3 DEF Ours
  <2>1. drips'[r].life = drips[r].life /\ drips[r].life \in Nat /\ drips[r].life <= reboots
    BY <1>2
  <2>2. reboots \in Nat /\ reboots' = reboots + 1
    BY <1>1
  <2>3. drips[r].life # reboots + 1
    BY <2>1, <2>2
  <2> QED
    BY <2>1, <2>2, <2>3
<1>6. ASSUME NEW k \in Keys PROVE OursOf(k)' = {}
  BY <1>5 DEF OursOf
<1>7. ASSUME NEW k \in Keys, NEW x \in Int PROVE Cardinality(Since(k, x)') <= Kept(spentBy'[k], x)
  <2>1. Since(k, x)' = {}
    BY <1>6 DEF Since
  <2>2. spentBy'[k] = <<>> /\ <<>> \in Seq(Nat) /\ Ascends(<<>>)
    BY <1>1 DEF Ascends
  <2>3. Kept(<<>>, x) \in Nat
    BY <2>2, KeptType
  <2> QED
    BY <2>1, <2>2, <2>3, FS_EmptySet
<1>8. /\ spentBy' \in [Keys -> Seq(Nat)]
      /\ \A k \in Keys : Ascends(spentBy'[k]) /\ \A i \in DOMAIN spentBy'[k] : spentBy'[k][i] <= time'
  BY <1>1 DEF Ascends
<1>9. DOMAIN lastDrip' = {} /\ waiting' \in Seq(Ours')
  BY <1>1
<1>10. \A r \in DOMAIN drips' : drips'[r].at <= time' /\ drips'[r].life <= reboots'
  <2> SUFFICES ASSUME NEW r \in DOMAIN drips PROVE drips'[r].at <= time' /\ drips'[r].life <= reboots'
    BY <1>3
  <2>1. /\ drips'[r].life = drips[r].life /\ drips[r].life \in Nat /\ drips[r].life <= reboots
        /\ drips'[r].at = drips[r].at /\ drips[r].at <= time
    BY <1>2
  <2>2. reboots \in Nat /\ reboots' = reboots + 1 /\ time' = time
    BY <1>1
  <2>3. drips[r].life <= reboots + 1
    BY <2>1, <2>2
  <2> QED
    BY <2>1, <2>2, <2>3
<1> QED
  BY <1>1, <1>2, <1>3, <1>4, <1>5, <1>6, <1>7, <1>8, <1>9, <1>10 DEF FaucetInv

LEMMA FaucetStep == FaucetInv /\ [FaucetNext]_faucetVars => FaucetInv'
<1> SUFFICES ASSUME FaucetInv, [FaucetNext]_faucetVars PROVE FaucetInv'
  OBVIOUS
<1>1. CASE UNCHANGED faucetVars
  <2>1. /\ time' \in Nat /\ time' >= time /\ UNCHANGED <<lastDrip, spentBy, drips, waiting, reboots>>
        /\ drips \in Seq(DripType) /\ waiting \in Seq(Ours)
    BY <1>1 DEF FaucetInv, faucetVars
  <2>2. SameDrips
    BY <2>1 DEF SameDrips
  <2> QED
    BY <2>1, <2>2, LimitsStay, SameDripsKeep
<1> QED
  BY <1>1, DripKeeps, SweepKeeps, TimeKeeps, RebootKeeps, SendKeeps, WaitKeeps DEF FaucetNext

LEMMA FaucetStarts == FaucetInit => FaucetInv
<1> SUFFICES ASSUME FaucetInit PROVE FaucetInv
  OBVIOUS
<1>1. /\ time = 0 /\ reboots = 0 /\ lastDrip = <<>> /\ spentBy = [k \in Keys |-> <<>>] /\ drips = <<>> /\ waiting = <<>>
  BY DEF FaucetInit
<1>2. DOMAIN lastDrip = {} /\ DOMAIN drips = {} /\ drips \in Seq(DripType) /\ waiting \in Seq(Ours) /\ Ours = {}
  BY <1>1 DEF Ours
<1>3. ASSUME NEW k \in Keys, NEW x \in Int PROVE Cardinality(Since(k, x)) <= Kept(spentBy[k], x)
  <2>1. Since(k, x) = {}
    BY <1>2 DEF Since, OursOf
  <2>2. spentBy[k] = <<>> /\ <<>> \in Seq(Nat) /\ Ascends(<<>>)
    BY <1>1 DEF Ascends
  <2>3. Kept(<<>>, x) \in Nat
    BY <2>2, KeptType
  <2> QED
    BY <2>1, <2>2, <2>3, FS_EmptySet
<1>4. /\ spentBy \in [Keys -> Seq(Nat)]
      /\ \A k \in Keys : Ascends(spentBy[k]) /\ \A i \in DOMAIN spentBy[k] : spentBy[k][i] <= time
  BY <1>1 DEF Ascends
<1>5. \A k \in Keys : OursOf(k) = {}
  BY <1>2 DEF OursOf
<1> QED
  BY <1>1, <1>2, <1>3, <1>4, <1>5 DEF FaucetInv

THEOREM FaucetInvariance == FaucetSpec => []FaucetInv
BY FaucetStarts, FaucetStep, PTL DEF FaucetSpec

\* What the wallet signs in one life of the process is within the cooldown and both limits, whatever waits in the
\* queue and whenever the timers sweep: for every number of addresses, callers, places and requests.
THEOREM LimitsHold == FaucetSpec => []DripsWithinLimits
<1>1. FaucetInv => DripsWithinLimits
  <2> SUFFICES ASSUME FaucetInv PROVE DripsWithinLimits
    OBVIOUS
  <2> DEFINE InHour(r) == {q \in Ours : drips[q].at \in drips[r].at - Hour + 1 .. drips[r].at}
  <2>1. \A q, r \in Ours : q < r /\ drips[q].address = drips[r].address => drips[r].at - drips[q].at >= Cooldown
    BY DEF FaucetInv
  <2>2. ASSUME NEW r \in Ours
        PROVE  /\ Cardinality({q \in InHour(r) : drips[q].ip = drips[r].ip}) <= MaxPerIp
               /\ Cardinality(InHour(r)) <= MaxPerHour
    <3> DEFINE ip == drips[r].ip
    <3>1. ip \in IPs /\ ip \in Keys /\ ip # Everybody /\ Everybody \in Keys
      <4>1. drips[r] \in DripType
        BY DEF FaucetInv, Ours
      <4> QED
        BY <4>1, FaucetNumbers DEF DripType
    <3>2. r \in OursOf(ip) /\ r \in OursOf(Everybody)
      BY DEF OursOf
    <3>3. {q \in InHour(r) : drips[q].ip = drips[r].ip} = During(ip, drips[r].at) /\ InHour(r) = During(Everybody, drips[r].at)
      BY <3>1 DEF During, OursOf
    <3>4. MaxOf(ip) = MaxPerIp /\ MaxOf(Everybody) = MaxPerHour
      BY <3>1 DEF MaxOf
    <3> HIDE DEF ip, InHour
    <3> QED
      BY <3>1, <3>2, <3>3, <3>4 DEF FaucetInv
  <2>3. Ours = {r \in DOMAIN drips : drips[r].life = reboots /\ drips[r].stage \in {"queued", "sent", "paid", "failed"}}
    BY DEF Ours, Signed
  <2> QED
    BY <2>1, <2>2, <2>3 DEF DripsWithinLimits
<1> QED
  BY <1>1, FaucetInvariance, PTL
=============================================================================
