---------------------------- MODULE Tools_proofs ----------------------------
(***************************************************************************)
(* What holds of the tools beside the console, one section for each: the   *)
(* bridge of the drills, the snapshot of a node, the Go tools that spend,  *)
(* the heartbeat pump and the batch that converts chains, each with its    *)
(* inductive invariant first; and the plan of a chain and the placement of *)
(* an inventory, which are functions of what they are given, with what     *)
(* MCTools states of its own inputs proved of all inputs at the end.       *)
(***************************************************************************)
EXTENDS MCTools, HeartbeatPump,
        FiniteSetTheorems, SequenceTheorems, WellFoundedInduction, TLAPS

-----------------------------------------------------------------------------
\* The asset bridge.
LockType == [to : Recipients, amount : Amounts]
MessageType == [chain : {ChainOf[b] : b \in Bridges}, contract : Bridges, to : Recipients, amount : Amounts, seq : Nat]
WorldType ==
  [pinned : [Bridges -> {NotPinned} \cup ({ChainOf[b] : b \in Bridges} \X Bridges)], locks : [Bridges -> Seq(LockType)],
   daTra : [Bridges -> SUBSET Nat], balance : [Bridges -> Nat], deposits : Nat, payments : [Bridges -> Seq(MessageType)]]

SentBy(w, c, m) == m.chain = ChainOf[c] /\ m.seq \in DOMAIN w.locks[c] /\ w.locks[c][m.seq] = [to |-> m.to, amount |-> m.amount]

\* A world of the contracts: each pinned to the other end, each payment locked there and marked, no mark twice.
Sound(w) ==
  /\ w \in WorldType
  /\ \A b \in Bridges :
       /\ w.pinned[b] \in {NotPinned, <<ChainOf[SourceOf[b]], SourceOf[b]>>}
       /\ \A i \in DOMAIN w.payments[b] :
            SentBy(w, SourceOf[b], w.payments[b][i]) /\ w.payments[b][i].seq \in w.daTra[b]
       /\ \A i, j \in DOMAIN w.payments[b] : w.payments[b][i].seq = w.payments[b][j].seq => i = j

\* What was sent stays sent.
Grown(v, w) == \A c \in Bridges : \A i \in DOMAIN v.locks[c] : i \in DOMAIN w.locks[c] /\ w.locks[c][i] = v.locks[c][i]

\* The worlds a call may be undone to are as sound as the present one, and have all that is signed.
BridgeInv ==
  /\ Sound(world)
  /\ calls \in Seq([bridge : Bridges, before : WorldType])
  /\ \A k \in DOMAIN calls : Sound(calls[k].before) /\ Grown(calls[1].before, calls[k].before)
  /\ ~AtRest => Grown(calls[1].before, world)

LEMMA SourcesPair == \A b \in Bridges : SourceOf[b] \in Bridges
BY BridgeConstants

\* The pin, the liquidity and the locks: a world that differs in nothing a payment rests on, but for longer locks.
LEMMA SoundLater ==
  ASSUME NEW v, NEW w, Sound(v), w \in WorldType, Grown(v, w), w.payments = v.payments, w.daTra = v.daTra,
         \A b \in Bridges : w.pinned[b] \in {v.pinned[b], <<ChainOf[SourceOf[b]], SourceOf[b]>>}
  PROVE  Sound(w)
<1>1. ASSUME NEW b \in Bridges, NEW i \in DOMAIN v.payments[b]
      PROVE  SentBy(w, SourceOf[b], v.payments[b][i])
  <2>1. SentBy(v, SourceOf[b], v.payments[b][i]) /\ SourceOf[b] \in Bridges
    BY SourcesPair DEF Sound
  <2> QED
    BY <2>1 DEF SentBy, Grown
<1> QED
  BY <1>1 DEF Sound

\* A step that leaves the calls alone and only adds to the world.
LEMMA AddsKeep ==
  ASSUME BridgeInv, UNCHANGED calls, world' \in WorldType, Grown(world, world'), world'.payments = world.payments,
         world'.daTra = world.daTra,
         \A b \in Bridges : world'.pinned[b] \in {world.pinned[b], <<ChainOf[SourceOf[b]], SourceOf[b]>>}
  PROVE  BridgeInv'
<1>1. Sound(world')
  BY SoundLater DEF BridgeInv
<1>2. ~AtRest => Grown(calls[1].before, world')
  BY DEF BridgeInv, Grown
<1> QED
  BY <1>1, <1>2 DEF BridgeInv, AtRest

LEMMA PinKeeps == ASSUME BridgeInv, NEW b \in Bridges, Pin(b) PROVE BridgeInv'
<1>1. /\ world' = [world EXCEPT !.pinned[b] = <<ChainOf[SourceOf[b]], SourceOf[b]>>] /\ UNCHANGED calls
      /\ world \in WorldType
  BY DEF Pin, BridgeInv, Sound
<1>2. <<ChainOf[SourceOf[b]], SourceOf[b]>> \in {ChainOf[c] : c \in Bridges} \X Bridges
  BY SourcesPair
<1>3. /\ world'.locks = world.locks /\ world'.payments = world.payments /\ world'.daTra = world.daTra
      /\ world'.balance = world.balance /\ world'.deposits = world.deposits
      /\ world'.pinned = [world.pinned EXCEPT ![b] = <<ChainOf[SourceOf[b]], SourceOf[b]>>]
  BY <1>1 DEF WorldType
<1>4. world' \in WorldType
  BY <1>1, <1>2 DEF WorldType
<1>5. Grown(world, world')
  BY <1>3 DEF Grown
<1>6. \A c \in Bridges : world'.pinned[c] \in {world.pinned[c], <<ChainOf[SourceOf[c]], SourceOf[c]>>}
  BY <1>1, <1>3 DEF WorldType
<1> QED
  BY <1>1, <1>3, <1>4, <1>5, <1>6, AddsKeep

LEMMA ReceiveKeeps == ASSUME BridgeInv, NEW b \in Bridges, NEW n \in Amounts, Receive(b, n) PROVE BridgeInv'
<1>1. /\ world' = [world EXCEPT !.balance[b] = @ + n, !.deposits = @ + 1] /\ UNCHANGED calls
      /\ world \in WorldType /\ n \in Nat
  BY BridgeConstants DEF Receive, BridgeInv, Sound
<1>2. world.balance[b] + n \in Nat /\ world.deposits + 1 \in Nat
  BY <1>1 DEF WorldType
<1>3. /\ world'.locks = world.locks /\ world'.payments = world.payments /\ world'.daTra = world.daTra
      /\ world'.pinned = world.pinned
  BY <1>1 DEF WorldType
<1>4. world' \in WorldType
  BY <1>1, <1>2 DEF WorldType
<1>5. Grown(world, world')
  BY <1>3 DEF Grown
<1> QED
  BY <1>1, <1>3, <1>4, <1>5, AddsKeep

LEMMA LockKeeps ==
  ASSUME BridgeInv, NEW b \in Bridges, NEW to \in Recipients, NEW n \in Amounts, LockAndSend(b, to, n)
  PROVE  BridgeInv'
<1> DEFINE l == [to |-> to, amount |-> n]
<1>1. /\ world' = [world EXCEPT !.locks[b] = Append(@, l), !.balance[b] = @ + n] /\ UNCHANGED calls
      /\ world \in WorldType /\ n \in Nat /\ l \in LockType
  BY BridgeConstants DEF LockAndSend, BridgeInv, Sound, LockType
<1> HIDE DEF l
<1>2. world.locks[b] \in Seq(LockType) /\ world.balance[b] + n \in Nat
  BY <1>1 DEF WorldType
<1>3. Append(world.locks[b], l) \in Seq(LockType)
  BY <1>1, <1>2
<1>4. /\ world'.locks = [world.locks EXCEPT ![b] = Append(world.locks[b], l)] /\ world'.payments = world.payments
      /\ world'.daTra = world.daTra /\ world'.pinned = world.pinned
  BY <1>1 DEF WorldType
<1>5. world' \in WorldType
  BY <1>1, <1>2, <1>3 DEF WorldType
<1>6. Grown(world, world')
  <2>1. \A i \in DOMAIN world.locks[b] :
          i \in DOMAIN Append(world.locks[b], l) /\ Append(world.locks[b], l)[i] = world.locks[b][i]
    BY <1>1, <1>2
  <2> QED
    BY <1>1, <1>4, <2>1 DEF Grown, WorldType
<1> QED
  BY <1>1, <1>4, <1>5, <1>6, AddsKeep

\* A message of the pinned source that is signed was sent there.
LEMMA SignedWasSent ==
  ASSUME BridgeInv, NEW b \in Bridges, NEW m \in Signed, world.pinned[b] # NotPinned, FromSource(b, m)
  PROVE  m \in MessageType /\ SentBy(world, SourceOf[b], m)
<1> DEFINE s == SourceOf[b]
           done == IF AtRest THEN world ELSE calls[1].before
<1>1. <<m.chain, m.contract>> = <<ChainOf[s], s>> /\ s \in Bridges
  BY SourcesPair DEF FromSource, BridgeInv, Sound
<1>2. m \notin Foreign
  BY <1>1, BridgeConstants
<1>3. PICK c \in Bridges : \E i \in DOMAIN done.locks[c] :
        m = [chain |-> ChainOf[c], contract |-> c, to |-> done.locks[c][i].to, amount |-> done.locks[c][i].amount, seq |-> i]
  BY <1>2 DEF Signed
<1>4. c = s
  BY <1>1, <1>3
<1>5. Grown(done, world) /\ done \in WorldType
  <2>1. CASE AtRest
    BY <2>1 DEF Grown, BridgeInv, Sound
  <2>2. CASE ~AtRest
    <3>1. calls \in Seq([bridge : Bridges, before : WorldType]) /\ Len(calls) > 0
      BY <2>2 DEF BridgeInv, AtRest
    <3>2. 1 \in DOMAIN calls
      BY <3>1
    <3> QED
      BY <2>2, <3>2 DEF BridgeInv, Sound
  <2> QED
    BY <2>1, <2>2
<1> HIDE DEF done
<1>6. PICK i \in DOMAIN done.locks[s] :
        m = [chain |-> ChainOf[s], contract |-> s, to |-> done.locks[s][i].to, amount |-> done.locks[s][i].amount, seq |-> i]
  BY <1>3, <1>4
<1>7. done.locks[s] \in Seq(LockType)
  BY <1>1, <1>5 DEF WorldType
<1>8. i \in Nat /\ done.locks[s][i] \in LockType
  BY <1>6, <1>7
<1>9. /\ m.chain = ChainOf[s] /\ m.seq = i /\ m.to = done.locks[s][i].to /\ m.amount = done.locks[s][i].amount
      /\ m \in MessageType
  BY <1>1, <1>6, <1>8 DEF MessageType, LockType
<1>10. done.locks[s][i] = [to |-> m.to, amount |-> m.amount]
  BY <1>8, <1>9 DEF LockType
<1>11. i \in DOMAIN world.locks[s] /\ world.locks[s][i] = done.locks[s][i]
  BY <1>1, <1>5, <1>6 DEF Grown
<1> QED
  BY <1>9, <1>10, <1>11 DEF SentBy

LEMMA PayKeeps ==
  ASSUME BridgeInv, NEW b \in Bridges, NEW m \in Signed, ReceiveAndPay(b, m)
  PROVE  BridgeInv'
<1>1. /\ world.pinned[b] # NotPinned /\ FromSource(b, m) /\ m.seq \notin world.daTra[b] /\ world.balance[b] >= m.amount
      /\ world' = [world EXCEPT !.daTra[b] = @ \cup {m.seq}, !.balance[b] = @ - m.amount, !.payments[b] = Append(@, m)]
      /\ calls' = Append(calls, [bridge |-> b, before |-> world])
  BY DEF ReceiveAndPay, Marked
<1>2. m \in MessageType /\ SentBy(world, SourceOf[b], m)
  BY <1>1, SignedWasSent
<1>3. m.seq \in Nat /\ m.amount \in Nat
  BY <1>2, BridgeConstants DEF MessageType
<1>4. /\ world \in WorldType /\ Sound(world) /\ world.balance[b] \in Nat /\ world.daTra[b] \in SUBSET Nat
      /\ world.payments[b] \in Seq(MessageType)
  BY DEF BridgeInv, Sound, WorldType
<1>5. world.balance[b] - m.amount \in Nat /\ world.daTra[b] \cup {m.seq} \in SUBSET Nat
  BY <1>1, <1>3, <1>4
<1>6. Append(world.payments[b], m) \in Seq(MessageType)
  BY <1>2, <1>4
<1>7. /\ world'.payments = [world.payments EXCEPT ![b] = Append(world.payments[b], m)]
      /\ world'.daTra = [world.daTra EXCEPT ![b] = world.daTra[b] \cup {m.seq}]
      /\ world'.locks = world.locks /\ world'.pinned = world.pinned
      /\ world'.balance = [world.balance EXCEPT ![b] = world.balance[b] - m.amount] /\ world'.deposits = world.deposits
  BY <1>1, <1>4 DEF WorldType
<1>8. world' \in WorldType
  BY <1>1, <1>4, <1>5, <1>6 DEF WorldType
<1>9. Sound(world')
  <2>1. \A c \in Bridges : world'.pinned[c] \in {NotPinned, <<ChainOf[SourceOf[c]], SourceOf[c]>>}
    BY <1>4, <1>7 DEF Sound
  <2>2. ASSUME NEW c \in Bridges, c # b
        PROVE  world'.payments[c] = world.payments[c] /\ world'.daTra[c] = world.daTra[c]
    BY <1>4, <1>7, <2>2 DEF WorldType
  <2>3. world'.payments[b] = Append(world.payments[b], m) /\ world'.daTra[b] = world.daTra[b] \cup {m.seq}
    BY <1>4, <1>7 DEF WorldType
  <2>4. /\ Len(world.payments[b]) \in Nat /\ DOMAIN world.payments[b] = 1 .. Len(world.payments[b])
        /\ DOMAIN world'.payments[b] = 1 .. Len(world.payments[b]) + 1
        /\ world'.payments[b][Len(world.payments[b]) + 1] = m
        /\ \A i \in DOMAIN world.payments[b] : world'.payments[b][i] = world.payments[b][i]
    BY <1>4, <2>3
  <2>5. ASSUME NEW c \in Bridges, NEW i \in DOMAIN world'.payments[c]
        PROVE  SentBy(world', SourceOf[c], world'.payments[c][i]) /\ world'.payments[c][i].seq \in world'.daTra[c]
    <3>1. CASE c # b
      <4>1. SentBy(world, SourceOf[c], world.payments[c][i]) /\ world.payments[c][i].seq \in world.daTra[c]
        BY <1>4, <2>2, <2>5, <3>1 DEF Sound
      <4> QED
        BY <1>7, <2>2, <3>1, <4>1 DEF SentBy
    <3>2. CASE c = b /\ i \in DOMAIN world.payments[b]
      <4>1. world'.payments[c][i] = world.payments[b][i]
        BY <2>4, <3>2
      <4>2. SentBy(world, SourceOf[b], world.payments[b][i]) /\ world.payments[b][i].seq \in world.daTra[b]
        BY <1>4, <3>2 DEF Sound
      <4> QED
        BY <1>7, <2>3, <3>2, <4>1, <4>2 DEF SentBy
    <3>3. CASE c = b /\ i = Len(world.payments[b]) + 1
      BY <1>2, <1>7, <2>3, <2>4, <3>3 DEF SentBy
    <3> QED
      BY <2>4, <2>5, <3>1, <3>2, <3>3
  <2>6. ASSUME NEW c \in Bridges, NEW i \in DOMAIN world'.payments[c], NEW j \in DOMAIN world'.payments[c],
               world'.payments[c][i].seq = world'.payments[c][j].seq
        PROVE  i = j
    <3>1. CASE c # b
      BY <1>4, <2>2, <2>6, <3>1 DEF Sound
    <3>2. CASE c = b
      <4>1. \A k \in DOMAIN world.payments[b] : world.payments[b][k].seq # m.seq
        BY <1>1, <1>4 DEF Sound
      <4>2. \A k, l \in DOMAIN world.payments[b] : world.payments[b][k].seq = world.payments[b][l].seq => k = l
        BY <1>4 DEF Sound
      <4>3. \A k \in DOMAIN world'.payments[b] : k \in DOMAIN world.payments[b] \/ k = Len(world.payments[b]) + 1
        BY <2>4
      <4>4. CASE i \in DOMAIN world.payments[b] /\ j \in DOMAIN world.payments[b]
        BY <2>4, <2>6, <3>2, <4>2, <4>4
      <4>5. CASE i = Len(world.payments[b]) + 1 /\ j \in DOMAIN world.payments[b]
        BY <2>4, <2>6, <3>2, <4>1, <4>5
      <4>6. CASE i \in DOMAIN world.payments[b] /\ j = Len(world.payments[b]) + 1
        BY <2>4, <2>6, <3>2, <4>1, <4>6
      <4> QED
        BY <2>6, <3>2, <4>3, <4>4, <4>5, <4>6
    <3> QED
      BY <3>1, <3>2
  <2> QED
    BY <1>8, <2>1, <2>5, <2>6 DEF Sound
<1>10. Grown(world, world')
  BY <1>7 DEF Grown
<1>11. [bridge |-> b, before |-> world] \in [bridge : Bridges, before : WorldType]
  BY <1>4
<1>12. /\ calls' \in Seq([bridge : Bridges, before : WorldType]) /\ Len(calls) \in Nat /\ DOMAIN calls = 1 .. Len(calls)
       /\ DOMAIN calls' = 1 .. Len(calls) + 1 /\ calls'[Len(calls) + 1] = [bridge |-> b, before |-> world]
       /\ \A k \in DOMAIN calls : calls'[k] = calls[k]
  BY <1>1, <1>11 DEF BridgeInv
<1>13. calls'[Len(calls) + 1].before = world
  BY <1>12
<1>14. \A k \in DOMAIN calls' : Sound(calls'[k].before) /\ Grown(calls'[1].before, calls'[k].before)
  <2>1. CASE AtRest
    <3>1. Len(calls) = 0
      BY <2>1 DEF AtRest
    <3> QED
      BY <1>4, <1>12, <1>13, <3>1 DEF Grown
  <2>2. CASE ~AtRest
    <3>1. 1 \in DOMAIN calls
      BY <1>12, <2>2 DEF AtRest, BridgeInv
    <3> QED
      BY <1>4, <1>12, <1>13, <2>2, <3>1 DEF BridgeInv
  <2> QED
    BY <2>1, <2>2
<1>15. Grown(calls'[1].before, world')
  <2>1. Grown(calls'[1].before, world)
    BY <1>12, <1>13, <1>14
  <2> QED
    BY <1>10, <2>1 DEF Grown
<1> QED
  BY <1>9, <1>12, <1>14, <1>15 DEF BridgeInv

\* The end of the innermost call.
LEMMA PoppedCalls ==
  ASSUME BridgeInv, ~AtRest
  PROVE  /\ Popped \in Seq([bridge : Bridges, before : WorldType]) /\ Len(Popped) = Len(calls) - 1
         /\ Len(calls) \in DOMAIN calls /\ 1 \in DOMAIN calls
         /\ \A k \in DOMAIN Popped : k \in DOMAIN calls /\ Popped[k] = calls[k]
         /\ Popped # <<>> => Popped[1] = calls[1]
<1>1. calls \in Seq([bridge : Bridges, before : WorldType]) /\ Len(calls) \in Nat /\ Len(calls) > 0
  BY DEF BridgeInv, AtRest
<1>2. /\ Popped \in Seq([bridge : Bridges, before : WorldType]) /\ Len(Popped) = Len(calls) - 1
      /\ \A k \in 1 .. Len(calls) - 1 : Popped[k] = calls[k]
  <2> DEFINE T == [bridge : Bridges, before : WorldType]
           n == Len(calls) - 1
  <2>1. calls \in Seq(T)
    BY <1>1
  <2> HIDE DEF T
  <2>2. n \in Nat /\ n = Len(calls) - 1 /\ \A k \in 1 .. n : calls[k] \in T
    BY <1>1, <2>1
  <2> HIDE DEF n
  <2> DEFINE u == SubSeq(calls, 1, n)
  <2>3. /\ u \in Seq(T) /\ Len(u) = IF 1 <= n THEN n - 1 + 1 ELSE 0
        /\ \A k \in 1 .. n - 1 + 1 : u[k] = calls[1 + k - 1]
    BY <2>2, SubSeqProperties
  <2>4. Popped = u
    BY DEF Popped, n
  <2> HIDE DEF u
  <2>5. n - 1 + 1 = n /\ (IF 1 <= n THEN n - 1 + 1 ELSE 0) = n
    BY <2>2
  <2>6. \A k \in 1 .. n : 1 + k - 1 = k
    BY <2>2
  <2>7. Len(u) = n /\ \A k \in 1 .. n : u[k] = calls[k]
    BY <2>3, <2>5, <2>6
  <2> QED
    BY <2>2, <2>3, <2>4, <2>7 DEF T
<1> QED
  BY <1>1, <1>2

LEMMA ReturnKeeps == ASSUME BridgeInv, Paid \/ Reverted PROVE BridgeInv'
<1>1. ~AtRest /\ calls' = Popped /\ (world' = world \/ world' = Innermost.before)
  BY DEF Paid, Reverted
<1>2. /\ calls' \in Seq([bridge : Bridges, before : WorldType]) /\ Len(calls) \in DOMAIN calls /\ 1 \in DOMAIN calls
      /\ \A k \in DOMAIN calls' : k \in DOMAIN calls /\ calls'[k] = calls[k]
      /\ calls' # <<>> => calls'[1] = calls[1]
  BY <1>1, PoppedCalls
<1>3. Sound(world') /\ Grown(calls[1].before, world')
  BY <1>1, <1>2 DEF BridgeInv, Innermost
<1>4. \A k \in DOMAIN calls' : Sound(calls'[k].before) /\ Grown(calls'[1].before, calls'[k].before)
  <2> SUFFICES ASSUME NEW k \in DOMAIN calls' PROVE Sound(calls'[k].before) /\ Grown(calls'[1].before, calls'[k].before)
    OBVIOUS
  <2>1. calls' # <<>>
    OBVIOUS
  <2> QED
    BY <1>2, <2>1 DEF BridgeInv
<1> QED
  BY <1>2, <1>3, <1>4 DEF BridgeInv, AtRest

LEMMA BridgeStep == BridgeInv /\ [BridgeNext]_bridgeVars => BridgeInv'
<1> SUFFICES ASSUME BridgeInv, [BridgeNext]_bridgeVars PROVE BridgeInv'
  OBVIOUS
<1>1. CASE UNCHANGED bridgeVars
  BY <1>1 DEF bridgeVars, BridgeInv, AtRest
<1>2. CASE BridgeNext
  BY <1>2, PinKeeps, ReceiveKeeps, LockKeeps, PayKeeps, ReturnKeeps DEF BridgeNext
<1> QED
  BY <1>1, <1>2

THEOREM BridgeInvariance == BridgeSpec => []BridgeInv
<1>1. BridgeInit => BridgeInv
  <2> SUFFICES ASSUME BridgeInit PROVE BridgeInv
    OBVIOUS
  <2>1. /\ world = [pinned   |-> [b \in Bridges |-> NotPinned], locks |-> [b \in Bridges |-> <<>>],
                    daTra    |-> [b \in Bridges |-> {}], balance |-> [b \in Bridges |-> 0], deposits |-> 0,
                    payments |-> [b \in Bridges |-> <<>>]]
        /\ calls = <<>>
    BY DEF BridgeInit
  <2>2. world \in WorldType
    BY <2>1 DEF WorldType
  <2>3. Sound(world)
    BY <2>1, <2>2 DEF Sound
  <2> QED
    BY <2>1, <2>3 DEF BridgeInv, AtRest
<1>2. BridgeInv /\ [BridgeNext]_bridgeVars => BridgeInv'
  BY BridgeStep
<1> QED
  BY <1>1, <1>2, PTL DEF BridgeSpec

\* Everything a bridge pays was locked at its other end for that recipient and that amount, and is paid once:
\* for every number of bridges, calls nested to any depth and messages in any order.
THEOREM PaidIsLocked == BridgeSpec => []PaidWasLocked
<1>1. BridgeInv => PaidWasLocked
  BY DEF BridgeInv, Sound, SentBy, PaidWasLocked
<1> QED
  BY <1>1, BridgeInvariance, PTL

\* What is done once a transaction has ended: until then, what was when its outermost payment began.
Finished == IF AtRest THEN world ELSE calls[1].before

\* What was locked, paid and marked stays so.
Kept(v, w) ==
  \A b \in Bridges : /\ v.daTra[b] \subseteq w.daTra[b]
                     /\ \A i \in DOMAIN v.locks[b] : i \in DOMAIN w.locks[b] /\ w.locks[b][i] = v.locks[b][i]
                     /\ \A i \in DOMAIN v.payments[b] : i \in DOMAIN w.payments[b] /\ w.payments[b][i] = v.payments[b][i]

KeptInv == ~AtRest => /\ Kept(calls[1].before, world)
                      /\ \A k \in DOMAIN calls : Kept(calls[1].before, calls[k].before)

LEMMA KeptFurther == ASSUME NEW u, NEW v, NEW w, Kept(u, v), Kept(v, w) PROVE Kept(u, w)
<1>1. ASSUME NEW b \in Bridges PROVE u.daTra[b] \subseteq w.daTra[b]
  BY DEF Kept
<1>2. ASSUME NEW b \in Bridges, NEW i \in DOMAIN u.locks[b] PROVE i \in DOMAIN w.locks[b] /\ w.locks[b][i] = u.locks[b][i]
  <2>1. i \in DOMAIN v.locks[b] /\ v.locks[b][i] = u.locks[b][i]
    BY DEF Kept
  <2> QED
    BY <2>1 DEF Kept
<1>3. ASSUME NEW b \in Bridges, NEW i \in DOMAIN u.payments[b]
      PROVE  i \in DOMAIN w.payments[b] /\ w.payments[b][i] = u.payments[b][i]
  <2>1. i \in DOMAIN v.payments[b] /\ v.payments[b][i] = u.payments[b][i]
    BY DEF Kept
  <2> QED
    BY <2>1 DEF Kept
<1> QED
  BY <1>1, <1>2, <1>3 DEF Kept

LEMMA KeptSame == ASSUME NEW v PROVE Kept(v, v)
BY DEF Kept

\* Pins, deposits and locks leave the calls alone and take nothing back.
LEMMA AddsStand ==
  ASSUME KeptInv, UNCHANGED calls, Kept(world, world')
  PROVE  KeptInv' /\ Kept(Finished, Finished')
<1>1. CASE AtRest
  BY <1>1 DEF KeptInv, AtRest, Finished
<1>2. CASE ~AtRest
  <2>1. Kept(calls[1].before, world')
    BY <1>2, KeptFurther DEF KeptInv
  <2>2. ~AtRest' /\ Finished' = Finished
    BY <1>2 DEF AtRest, Finished
  <2>3. KeptInv'
    BY <1>2, <2>1 DEF KeptInv, AtRest
  <2> QED
    BY <2>2, <2>3, KeptSame
<1> QED
  BY <1>1, <1>2

LEMMA PinStands == ASSUME BridgeInv, NEW b \in Bridges, Pin(b) PROVE UNCHANGED calls /\ Kept(world, world')
<1>1. world' = [world EXCEPT !.pinned[b] = <<ChainOf[SourceOf[b]], SourceOf[b]>>] /\ UNCHANGED calls /\ world \in WorldType
  BY DEF Pin, BridgeInv, Sound
<1>2. world'.locks = world.locks /\ world'.payments = world.payments /\ world'.daTra = world.daTra
  BY <1>1 DEF WorldType
<1> QED
  BY <1>1, <1>2 DEF Kept

LEMMA ReceiveStands ==
  ASSUME BridgeInv, NEW b \in Bridges, NEW n \in Amounts, Receive(b, n)
  PROVE  UNCHANGED calls /\ Kept(world, world')
<1>1. world' = [world EXCEPT !.balance[b] = @ + n, !.deposits = @ + 1] /\ UNCHANGED calls /\ world \in WorldType
  BY DEF Receive, BridgeInv, Sound
<1>2. world'.locks = world.locks /\ world'.payments = world.payments /\ world'.daTra = world.daTra
  BY <1>1 DEF WorldType
<1> QED
  BY <1>1, <1>2 DEF Kept

LEMMA LockStands ==
  ASSUME BridgeInv, NEW b \in Bridges, NEW to \in Recipients, NEW n \in Amounts, LockAndSend(b, to, n)
  PROVE  UNCHANGED calls /\ Kept(world, world')
<1> DEFINE l == [to |-> to, amount |-> n]
<1>1. /\ world' = [world EXCEPT !.locks[b] = Append(@, l), !.balance[b] = @ + n] /\ UNCHANGED calls
      /\ world \in WorldType /\ l \in LockType
  BY BridgeConstants DEF LockAndSend, BridgeInv, Sound, LockType
<1> HIDE DEF l
<1>2. /\ world'.payments = world.payments /\ world'.daTra = world.daTra
      /\ world'.locks = [world.locks EXCEPT ![b] = Append(world.locks[b], l)]
      /\ world.locks \in [Bridges -> Seq(LockType)]
  BY <1>1 DEF WorldType
<1>3. \A i \in DOMAIN world.locks[b] :
        i \in DOMAIN Append(world.locks[b], l) /\ Append(world.locks[b], l)[i] = world.locks[b][i]
  BY <1>1, <1>2
<1> QED
  BY <1>1, <1>2, <1>3 DEF Kept

\* A payment begins: what was before it is what it is undone to.
LEMMA PayStands ==
  ASSUME BridgeInv, KeptInv, NEW b \in Bridges, NEW m \in Signed, ReceiveAndPay(b, m)
  PROVE  KeptInv' /\ Kept(Finished, Finished')
<1>1. /\ world' = [world EXCEPT !.daTra[b] = @ \cup {m.seq}, !.balance[b] = @ - m.amount, !.payments[b] = Append(@, m)]
      /\ calls' = Append(calls, [bridge |-> b, before |-> world])
      /\ world.pinned[b] # NotPinned /\ FromSource(b, m)
  BY DEF ReceiveAndPay, Marked
<1>2. m \in MessageType /\ world \in WorldType
  BY <1>1, SignedWasSent DEF BridgeInv, Sound
<1>3. /\ world'.payments = [world.payments EXCEPT ![b] = Append(world.payments[b], m)]
      /\ world'.daTra = [world.daTra EXCEPT ![b] = world.daTra[b] \cup {m.seq}] /\ world'.locks = world.locks
      /\ world.payments \in [Bridges -> Seq(MessageType)] /\ world.daTra \in [Bridges -> SUBSET Nat]
  BY <1>1, <1>2 DEF WorldType
<1>4. \A i \in DOMAIN world.payments[b] :
        i \in DOMAIN Append(world.payments[b], m) /\ Append(world.payments[b], m)[i] = world.payments[b][i]
  BY <1>2, <1>3
<1>5. Kept(world, world')
  BY <1>3, <1>4 DEF Kept
<1>6. [bridge |-> b, before |-> world] \in [bridge : Bridges, before : WorldType]
  BY <1>2
<1>7. /\ Len(calls) \in Nat /\ DOMAIN calls = 1 .. Len(calls)
      /\ DOMAIN calls' = 1 .. Len(calls) + 1 /\ calls'[Len(calls) + 1].before = world
      /\ \A k \in DOMAIN calls : calls'[k] = calls[k]
  BY <1>1, <1>6 DEF BridgeInv
<1>8. CASE AtRest
  <2>1. Len(calls) = 0 /\ ~AtRest' /\ calls'[1].before = world
    BY <1>7, <1>8 DEF AtRest
  <2>2. Finished = world /\ Finished' = world
    BY <1>8, <2>1 DEF Finished
  <2>3. \A k \in DOMAIN calls' : calls'[k].before = world
    BY <1>7, <2>1
  <2>4. KeptInv'
    BY <1>5, <2>1, <2>3, KeptSame DEF KeptInv
  <2> QED
    BY <2>2, <2>4, KeptSame
<1>9. CASE ~AtRest
  <2>1. 1 \in DOMAIN calls /\ calls'[1] = calls[1] /\ ~AtRest'
    BY <1>7, <1>9 DEF AtRest, BridgeInv
  <2>2. Kept(calls[1].before, world) /\ Kept(calls[1].before, world')
    BY <1>5, <1>9, KeptFurther DEF KeptInv
  <2>3. \A k \in DOMAIN calls' : Kept(calls[1].before, calls'[k].before)
    <3>1. \A k \in DOMAIN calls' : k \in DOMAIN calls \/ k = Len(calls) + 1
      BY <1>7
    <3> QED
      BY <1>7, <1>9, <2>2, <3>1 DEF KeptInv
  <2>4. KeptInv'
    BY <2>1, <2>2, <2>3 DEF KeptInv
  <2>5. Finished' = Finished
    BY <1>9, <2>1 DEF Finished
  <2> QED
    BY <2>4, <2>5, KeptSame
<1> QED
  BY <1>8, <1>9

\* The innermost call returns, or is undone: only the end of the outermost one finishes anything.
LEMMA ReturnStands ==
  ASSUME BridgeInv, KeptInv, Paid \/ Reverted
  PROVE  KeptInv' /\ Kept(Finished, Finished')
<1>1. ~AtRest /\ calls' = Popped /\ (world' = world \/ world' = Innermost.before)
  BY DEF Paid, Reverted
<1>2. /\ Len(calls) \in DOMAIN calls
      /\ \A k \in DOMAIN calls' : k \in DOMAIN calls /\ calls'[k] = calls[k]
      /\ calls' # <<>> => calls'[1] = calls[1]
  BY <1>1, PoppedCalls
<1>3. Kept(calls[1].before, world')
  BY <1>1, <1>2 DEF KeptInv, Innermost
<1>4. CASE calls' = <<>>
  <2>1. AtRest' /\ Finished' = world' /\ Finished = calls[1].before
    BY <1>1, <1>4 DEF AtRest, Finished
  <2> QED
    BY <1>3, <2>1 DEF KeptInv
<1>5. CASE calls' # <<>>
  <2>1. ~AtRest' /\ calls'[1] = calls[1] /\ Finished' = Finished
    BY <1>1, <1>2, <1>5 DEF AtRest, Finished
  <2>2. \A k \in DOMAIN calls' : Kept(calls'[1].before, calls'[k].before)
    BY <1>1, <1>2, <2>1 DEF KeptInv
  <2>3. KeptInv'
    BY <1>3, <2>1, <2>2 DEF KeptInv
  <2> QED
    BY <2>1, <2>3, KeptSame
<1> QED
  BY <1>4, <1>5

LEMMA BridgeStepStands == ASSUME BridgeInv, KeptInv, BridgeNext PROVE KeptInv' /\ Kept(Finished, Finished')
BY PinStands, ReceiveStands, LockStands, AddsStand, PayStands, ReturnStands DEF BridgeNext

\* A payment that was made, a lock that was sent and a mark against replay are never taken back once
\* their transaction has ended, although what is under way may be undone at any depth (nhanVaTra).
THEOREM FinishedStands == BridgeSpec => [][Kept(Finished, Finished')]_bridgeVars
<1>1. BridgeInit => KeptInv
  BY DEF BridgeInit, KeptInv, AtRest
<1>2. BridgeInv /\ KeptInv /\ [BridgeNext]_bridgeVars => KeptInv'
  <2>1. UNCHANGED bridgeVars /\ KeptInv => KeptInv'
    BY DEF bridgeVars, KeptInv, AtRest
  <2> QED
    BY <2>1, BridgeStepStands
<1>3. BridgeInv /\ KeptInv /\ [BridgeNext]_bridgeVars => [Kept(Finished, Finished')]_bridgeVars
  BY BridgeStepStands
<1> QED
  BY <1>1, <1>2, <1>3, BridgeInvariance, PTL DEF BridgeSpec

-----------------------------------------------------------------------------
\* The snapshot of a node.
Heights == [Files -> Nat]
NodeType == [up : BOOLEAN, height : Nat, data : Heights, held : SUBSET Files]
CreateType == [step : {"pack", "drill", "seal"}, wasStopped : BOOLEAN, allow : BOOLEAN, source : Nat]
BundleType ==
  [sealed : BOOLEAN, manifest : SUBSET Files, hashes : Heights, taken : SUBSET Files, tar : Heights, tips : Heights,
   uncovered : SUBSET Files, allowed : BOOLEAN]

\* What a run of create has done when it comes to each step, and that it works on a bundle of its own.
SnapInv ==
  /\ node \in NodeType /\ create \in CreateType \cup {NoCreate} /\ bundle \in BundleType /\ creates \in Nat
  /\ creates = 0 => create = NoCreate /\ bundle = Empty
  /\ bundle.manifest \subseteq node.held
  /\ create # NoCreate => ~bundle.sealed
  /\ create.step \in {"drill", "seal"} => bundle.manifest \subseteq bundle.taken
  /\ create.step = "seal" =>
       bundle.tips = bundle.tar /\ bundle.tar = bundle.hashes /\ bundle.uncovered = Tracked \ bundle.manifest
  /\ SealedIsWhatRestores

LEMMA EmptyType == Empty \in BundleType /\ Empty.manifest = {} /\ ~Empty.sealed
BY DEF Empty, BundleType, Unset, Heights

\* The steps of the node and of its operator, before and beside a run.
LEMMA NodeKeeps ==
  ASSUME SnapInv, node' \in NodeType, UNCHANGED <<create, bundle, creates>>, node'.held = node.held \/ creates = 0
  PROVE  SnapInv'
<1>1. bundle.manifest \subseteq node'.held
  BY EmptyType DEF SnapInv
<1> QED
  BY <1>1 DEF SnapInv, SealedIsWhatRestores

LEMMA SourceKeeps ==
  ASSUME SnapInv, Accept \/ OperatorStarts \/ StopFails \/ (\E f \in Files : Flush(f) \/ TracksLate(f))
  PROVE  SnapInv'
<1>1. node \in NodeType
  BY DEF SnapInv
<1>2. CASE Accept
  <2>1. PICK f \in node.held : node' = [node EXCEPT !.height = node.height + 1, !.data[f] = node.height + 1]
    BY <1>2 DEF Accept
  <2>2. node.height + 1 \in Nat /\ f \in Files /\ node.data \in [Files -> Nat]
    BY <1>1, <2>1 DEF NodeType, Heights
  <2>3. [node.data EXCEPT ![f] = node.height + 1] \in Heights
    BY <2>2 DEF Heights
  <2>4. node' = [up |-> node.up, height |-> node.height + 1, data |-> [node.data EXCEPT ![f] = node.height + 1],
                 held |-> node.held]
    BY <1>1, <2>1 DEF NodeType
  <2>5. node' \in NodeType /\ node'.held = node.held
    BY <1>1, <2>2, <2>3, <2>4 DEF NodeType
  <2> QED
    BY <1>2, <2>5, NodeKeeps DEF Accept
<1>3. CASE OperatorStarts
  <2>1. node' \in NodeType /\ node'.held = node.held
    BY <1>1, <1>3 DEF NodeType, OperatorStarts
  <2> QED
    BY <1>3, <2>1, NodeKeeps DEF OperatorStarts
<1>4. CASE StopFails
  <2>1. node' \in NodeType /\ node'.held = node.held
    BY <1>1, <1>4 DEF NodeType, StopFails
  <2> QED
    BY <1>4, <2>1, NodeKeeps DEF StopFails
<1>5. ASSUME NEW f \in Files, Flush(f) PROVE SnapInv'
  <2>1. node' \in NodeType /\ node'.held = node.held
    BY <1>1, <1>5 DEF NodeType, Heights, Flush
  <2> QED
    BY <1>5, <2>1, NodeKeeps DEF Flush
<1>6. ASSUME NEW f \in Files, TracksLate(f) PROVE SnapInv'
  <2>1. node' \in NodeType /\ creates = 0
    BY <1>1, <1>6 DEF NodeType, TracksLate
  <2> QED
    BY <1>6, <2>1, NodeKeeps DEF TracksLate
<1> QED
  BY <1>2, <1>3, <1>4, <1>5, <1>6

LEMMA BeginKeeps ==
  ASSUME SnapInv, NEW stopStart \in BOOLEAN, NEW allow \in BOOLEAN, BeginCreate(stopStart, allow)
  PROVE  SnapInv'
<1>1. /\ create' = [step |-> "pack", wasStopped |-> node.up, allow |-> allow, source |-> node.height]
      /\ creates' = creates + 1 /\ bundle' = bundle /\ bundle = Empty /\ node \in NodeType
  BY DEF BeginCreate, SnapInv
<1>2. node' \in NodeType /\ node'.held = node.held
  <2>1. \/ node' = [node EXCEPT !.up = FALSE, !.data = [f \in Files |-> IF f \in node.held THEN node.height ELSE node.data[f]]]
        \/ node' = [node EXCEPT !.up = FALSE]
    BY DEF BeginCreate
  <2>2. [f \in Files |-> IF f \in node.held THEN node.height ELSE node.data[f]] \in Heights
    BY <1>1 DEF NodeType, Heights
  <2> QED
    BY <1>1, <2>1, <2>2 DEF NodeType
<1>3. create' \in CreateType /\ create'.step = "pack" /\ creates' \in Nat /\ creates' # 0
  BY <1>1 DEF CreateType, NodeType, SnapInv
<1> QED
  BY <1>1, <1>2, <1>3, EmptyType DEF SnapInv, SealedIsWhatRestores

LEMMA PackKeeps ==
  ASSUME SnapInv, PackEnds \/ PackFails \/ (\E f \in Files : HashData(f) \/ TarData(f))
  PROVE  SnapInv'
<1>0. create.step = "pack" /\ create # NoCreate
  <2>1. create.step = "pack"
    BY DEF PackEnds, PackFails, HashData, TarData
  <2>2. NoCreate.step = "none"
    BY DEF NoCreate
  <2> QED
    BY <2>1, <2>2
<1>1. /\ node \in NodeType /\ bundle \in BundleType /\ create.step = "pack" /\ create \in CreateType /\ ~bundle.sealed
      /\ creates # 0 /\ creates \in Nat
  BY <1>0 DEF SnapInv
<1>2. CASE PackEnds \/ PackFails
  <2>1. node' = [node EXCEPT !.up = node.up \/ create.wasStopped] /\ UNCHANGED <<bundle, creates>>
    BY <1>2 DEF PackEnds, PackFails, StartAgain
  <2>2. node' \in NodeType /\ node'.held = node.held
    BY <1>1, <2>1 DEF NodeType, CreateType
  <2>3. CASE PackEnds
    <3>1. bundle.taken = node.held /\ create' = [create EXCEPT !.step = "drill"]
      BY <2>3 DEF PackEnds
    <3>2. create' \in CreateType /\ create'.step = "drill"
      BY <1>1, <3>1 DEF CreateType
    <3> QED
      BY <1>1, <2>1, <2>2, <3>1, <3>2 DEF SnapInv, SealedIsWhatRestores
  <2>4. CASE PackFails
    <3>1. create' = NoCreate /\ create'.step = "none"
      BY <2>4 DEF PackFails, NoCreate
    <3> QED
      BY <1>1, <2>1, <2>2, <3>1 DEF SnapInv, SealedIsWhatRestores
  <2> QED
    BY <1>2, <2>3, <2>4
<1>3. ASSUME NEW f \in Files, HashData(f) PROVE SnapInv'
  <2>1. /\ bundle' = [bundle EXCEPT !.manifest = bundle.manifest \cup {f}, !.hashes[f] = node.data[f]] /\ f \in node.held
        /\ UNCHANGED <<node, create, creates>>
    BY <1>3 DEF HashData
  <2>2. bundle' \in BundleType /\ ~bundle'.sealed /\ bundle'.manifest = bundle.manifest \cup {f}
    BY <1>1, <2>1 DEF BundleType, NodeType, Heights
  <2> QED
    BY <1>1, <2>1, <2>2 DEF SnapInv, SealedIsWhatRestores
<1>4. ASSUME NEW f \in Files, TarData(f) PROVE SnapInv'
  <2>1. /\ bundle' = [bundle EXCEPT !.taken = bundle.taken \cup {f}, !.tar[f] = node.data[f]]
        /\ UNCHANGED <<node, create, creates>>
    BY <1>4 DEF TarData
  <2>2. bundle' \in BundleType /\ ~bundle'.sealed /\ bundle'.manifest = bundle.manifest
    BY <1>1, <2>1 DEF BundleType, NodeType, Heights
  <2> QED
    BY <1>1, <2>1, <2>2 DEF SnapInv, SealedIsWhatRestores
<1> QED
  BY <1>2, <1>3, <1>4

LEMMA DrillKeeps == ASSUME SnapInv, Drill PROVE SnapInv'
<1>1. /\ bundle \in BundleType /\ create.step = "drill" /\ create \in CreateType /\ ~bundle.sealed
      /\ bundle.manifest \subseteq bundle.taken /\ UNCHANGED <<node, creates>> /\ creates # 0
  BY DEF SnapInv, Drill, NoCreate
<1>2. CASE bundle' = bundle /\ create' = NoCreate
  <2>1. create'.step = "none"
    BY <1>2 DEF NoCreate
  <2> QED
    BY <1>1, <1>2, <2>1 DEF SnapInv, SealedIsWhatRestores
<1>3. CASE /\ Restores(bundle) /\ create' = [create EXCEPT !.step = "seal"]
           /\ bundle' = [bundle EXCEPT !.tips = TipsOf(bundle), !.uncovered = Tracked \ bundle.manifest]
  <2>1. bundle.tar = bundle.hashes /\ bundle.tar \in Heights
    BY <1>1, <1>3 DEF Restores, BundleType
  <2>2. /\ bundle' \in BundleType /\ ~bundle'.sealed /\ bundle'.manifest = bundle.manifest /\ bundle'.taken = bundle.taken
        /\ bundle'.tips = bundle.tar /\ bundle'.tar = bundle.tar /\ bundle'.hashes = bundle.hashes
        /\ bundle'.uncovered = Tracked \ bundle.manifest
    BY <1>1, <1>3, <2>1 DEF BundleType, TipsOf, Files
  <2>3. create' \in CreateType /\ create'.step = "seal"
    BY <1>1, <1>3 DEF CreateType
  <2> QED
    BY <1>1, <2>1, <2>2, <2>3 DEF SnapInv, SealedIsWhatRestores
<1> QED
  BY <1>2, <1>3 DEF Drill

LEMMA SealKeeps == ASSUME SnapInv, NEW refs, Seal(refs) PROVE SnapInv'
<1>1. /\ bundle \in BundleType /\ create.step = "seal" /\ create \in CreateType /\ ~bundle.sealed
      /\ bundle.manifest \subseteq bundle.taken /\ bundle.uncovered = Tracked \ bundle.manifest
      /\ bundle.tips = bundle.tar /\ bundle.tar = bundle.hashes
      /\ UNCHANGED <<node, creates>> /\ creates # 0 /\ create' = NoCreate /\ create'.step = "none"
  BY DEF SnapInv, Seal, NoCreate
<1>2. CASE MaySeal(bundle, refs) /\ bundle' = [bundle EXCEPT !.sealed = TRUE, !.allowed = create.allow]
  <2>1. /\ bundle' \in BundleType /\ bundle'.manifest = bundle.manifest /\ bundle'.taken = bundle.taken
        /\ bundle'.tips = bundle.tips /\ bundle'.tar = bundle.tar /\ bundle'.hashes = bundle.hashes
        /\ bundle'.allowed = create.allow
    BY <1>1, <1>2 DEF BundleType, CreateType
  <2>2. bundle.uncovered = {} \/ create.allow
    BY <1>2 DEF MaySeal
  <2>3. Tracked \subseteq bundle'.taken \/ bundle'.allowed
    BY <1>1, <2>1, <2>2
  <2> QED
    BY <1>1, <2>1, <2>3 DEF SnapInv, SealedIsWhatRestores
<1>3. CASE bundle' = bundle
  BY <1>1, <1>3 DEF SnapInv, SealedIsWhatRestores
<1> QED
  BY <1>2, <1>3 DEF Seal

LEMMA SnapStep == SnapInv /\ [SnapNext]_snapVars => SnapInv'
<1> SUFFICES ASSUME SnapInv, [SnapNext]_snapVars PROVE SnapInv'
  OBVIOUS
<1>1. CASE UNCHANGED <<node, create, bundle, creates>>
  BY <1>1 DEF SnapInv, SealedIsWhatRestores
<1>2. CASE Killed
  <2>1. UNCHANGED <<node, bundle, creates>> /\ create' = NoCreate /\ create'.step = "none"
    BY <1>2 DEF Killed, NoCreate
  <2> QED
    BY <2>1 DEF SnapInv, SealedIsWhatRestores
<1>3. CASE ClearOut
  <2>1. UNCHANGED <<node, create, creates>> /\ bundle' = Empty /\ create = NoCreate /\ create.step = "none"
    BY <1>3 DEF ClearOut, NoCreate
  <2> QED
    BY <2>1, EmptyType DEF SnapInv, SealedIsWhatRestores
<1>4. CASE PackRelease \/ Upload \/ Mirror \/ (\E root \in {"none given", "published"} : Join(root))
  <2>1. UNCHANGED <<node, create, bundle, creates>>
    BY <1>4 DEF PackRelease, Upload, Mirror, Join
  <2> QED
    BY <1>1, <2>1
<1>5. CASE UNCHANGED snapVars
  <2>1. UNCHANGED <<node, create, bundle, creates>>
    BY <1>5 DEF snapVars
  <2> QED
    BY <1>1, <2>1
<1> QED
  <2>1. \/ (Accept \/ OperatorStarts \/ StopFails \/ (\E f \in Files : Flush(f) \/ TracksLate(f)))
        \/ (PackEnds \/ PackFails \/ (\E f \in Files : HashData(f) \/ TarData(f)))
        \/ Drill \/ Killed \/ ClearOut \/ (\E refs \in {{}} \cup {{r} : r \in Reference} : Seal(refs))
        \/ (PackRelease \/ Upload \/ Mirror \/ (\E root \in {"none given", "published"} : Join(root)))
        \/ (\E stopStart, allow \in BOOLEAN : BeginCreate(stopStart, allow))
        \/ UNCHANGED snapVars
    BY DEF SnapNext
  <2>2. CASE Accept \/ OperatorStarts \/ StopFails \/ (\E f \in Files : Flush(f) \/ TracksLate(f))
    BY <2>2, SourceKeeps
  <2>3. CASE PackEnds \/ PackFails \/ (\E f \in Files : HashData(f) \/ TarData(f))
    BY <2>3, PackKeeps
  <2>4. CASE Drill
    BY <2>4, DrillKeeps
  <2>5. CASE \E refs \in {{}} \cup {{r} : r \in Reference} : Seal(refs)
    BY <2>5, SealKeeps
  <2>6. CASE \E stopStart, allow \in BOOLEAN : BeginCreate(stopStart, allow)
    BY <2>6, BeginKeeps
  <2> QED
    BY <1>2, <1>3, <1>4, <1>5, <2>1, <2>2, <2>3, <2>4, <2>5, <2>6

\* A sealed bundle holds what a stranger gets by restoring it, whatever happened to the node while it was taken.
THEOREM SnapshotsRestore == SnapSpec => []SealedIsWhatRestores
<1>1. SnapInit => SnapInv
  <2> SUFFICES ASSUME SnapInit PROVE SnapInv
    OBVIOUS
  <2>1. node = [up |-> TRUE, height |-> 1, data |-> [f \in Files |-> 1], held |-> Files] /\ create = NoCreate
        /\ bundle = Empty /\ creates = 0
    BY DEF SnapInit
  <2>2. node \in NodeType
    BY <2>1 DEF NodeType, Heights
  <2>3. create.step = "none"
    BY <2>1 DEF NoCreate
  <2> QED
    BY <2>1, <2>2, <2>3, EmptyType DEF SnapInv, SealedIsWhatRestores
<1>2. SnapInv /\ [SnapNext]_snapVars => SnapInv'
  BY SnapStep
<1>3. SnapInv => SealedIsWhatRestores
  BY DEF SnapInv
<1> QED
  BY <1>1, <1>2, <1>3, PTL DEF SnapSpec

\* What is joined and verified against the root published elsewhere is the sealed bundle, whatever a mirror serves.
THEOREM JoinsAreTrue == SnapSpec => []JoinedIsSealed
<1>1. SnapInit => JoinedIsSealed
  BY DEF SnapInit, JoinedIsSealed, NoJoin
<1>2. JoinedIsSealed /\ [SnapNext]_snapVars => JoinedIsSealed'
  <2> SUFFICES ASSUME JoinedIsSealed, [SnapNext]_snapVars PROVE JoinedIsSealed'
    OBVIOUS
  <2>1. CASE joined' = joined
    BY <2>1 DEF JoinedIsSealed
  <2>2. ASSUME NEW root, Join(root) PROVE JoinedIsSealed'
    <3>1. /\ assets.sums[2] = IF assets.parts = <<"good", "good">> THEN "good" ELSE "other"
          /\ assets.sums[1] = assets.small /\ (root = "published" => assets.sums = <<"good", "good">>)
          /\ joined' = [root |-> root, small |-> assets.small, tar |-> assets.parts]
      BY <2>2 DEF Join, Rebuilt, SelfConsistent, RootAgrees
    <3> QED
      BY <3>1 DEF JoinedIsSealed
  <2>3. CASE ~ \E root \in {"none given", "published"} : Join(root)
    <3>1. joined' = joined
      BY <2>3 DEF SnapNext, snapVars, Accept, OperatorStarts, PackEnds, PackFails, Drill, Killed, ClearOut, StopFails, Seal,
                  PackRelease, Upload, Mirror, Flush, TracksLate, HashData, TarData, BeginCreate
    <3> QED
      BY <2>1, <3>1
  <2> QED
    BY <2>2, <2>3
<1> QED
  BY <1>1, <1>2, PTL DEF SnapSpec

-----------------------------------------------------------------------------
\* The tools that spend.
SubnetType == [asked : SUBSET Nodes, validators : SUBSET Nodes, chain : BOOLEAN]
SpenderType ==
  [tool : {"none", "create", "move", "stake"}, step : {"none", "check", "subnet", "validators", "export", "import", "issue"},
   issue : BOOLEAN, nodes : SUBSET Nodes, left : SUBSET Nodes, runs : Nat]

Complete(s) == s.chain => s.validators = s.asked /\ s.asked # {}

\* The last subnet is the one a run of create is filling; what it lacks is what the run has left.
SpendInv ==
  /\ subnets \in Seq(SubnetType) /\ spender \in SpenderType /\ staked \in BOOLEAN
  /\ funds \in [C : Nat, shared : Nat, X : Nat, P : Nat]
  /\ funds.P = IF staked THEN 0 ELSE Amount
  /\ \A i \in DOMAIN subnets : Complete(subnets[i])
  /\ At("create", "check") => spender.left = spender.nodes
  /\ At("create", "subnet") => spender.nodes # {} /\ spender.left = spender.nodes
  /\ At("create", "validators") =>
       /\ subnets # <<>> /\ spender.nodes # {} /\ spender.left \subseteq spender.nodes
       /\ LET s == subnets[Len(subnets)] IN
          s.asked = spender.nodes /\ s.validators = spender.nodes \ spender.left /\ ~s.chain

LEMMA EndedType ==
  ASSUME spender \in SpenderType PROVE Ended \in SpenderType /\ Ended.tool = "none" /\ Ended.step = "none"
BY DEF Ended, NoRun, SpenderType

\* A run that ends leaves everything else as it was.
LEMMA EndKeeps ==
  ASSUME SpendInv, subnets' \in Seq(SubnetType), \A i \in DOMAIN subnets' : Complete(subnets'[i]),
         staked' \in BOOLEAN, funds' \in [C : Nat, shared : Nat, X : Nat, P : Nat],
         funds'.P = IF staked' THEN 0 ELSE Amount, spender' = Ended
  PROVE  SpendInv'
BY EndedType DEF SpendInv, At

\* A step of a run that makes no chain.
LEMMA GoesKeeps ==
  ASSUME SpendInv, UNCHANGED <<subnets, staked>>, funds' \in [C : Nat, shared : Nat, X : Nat, P : Nat],
         funds'.P = funds.P, spender' \in SpenderType, spender'.tool \in {"move", "stake"}
  PROVE  SpendInv'
BY DEF SpendInv, At

LEMMA StartKeeps ==
  ASSUME SpendInv, NEW tool \in {"create", "move", "stake"}, NEW issue \in BOOLEAN, NEW nodes \in SUBSET Nodes,
         Start(tool, "check", issue, nodes)
  PROVE  SpendInv'
<1>1. /\ spender' = [tool |-> tool, step |-> "check", issue |-> issue, nodes |-> nodes, left |-> nodes, runs |-> spender.runs + 1]
      /\ UNCHANGED <<subnets, funds, staked>> /\ spender.runs \in Nat
  BY DEF Start, SpendInv, SpenderType
<1>2. spender' \in SpenderType /\ spender'.step = "check" /\ spender'.left = spender'.nodes
  BY <1>1 DEF SpenderType
<1> QED
  BY <1>1, <1>2 DEF SpendInv, At

LEMMA CreateKeeps == ASSUME SpendInv, CreateChecks \/ IssueSubnet \/ IssueChain PROVE SpendInv'
<1>1. /\ subnets \in Seq(SubnetType) /\ spender \in SpenderType /\ staked \in BOOLEAN
      /\ funds \in [C : Nat, shared : Nat, X : Nat, P : Nat] /\ funds.P = (IF staked THEN 0 ELSE Amount)
      /\ \A i \in DOMAIN subnets : Complete(subnets[i])
      /\ UNCHANGED <<funds, staked>> /\ spender.tool = "create"
  BY DEF SpendInv, CreateChecks, IssueSubnet, IssueChain, At
<1>2. CASE spender' = Ended /\ subnets' = subnets
  BY <1>1, <1>2, EndKeeps
<1>3. CASE CreateChecks /\ spender' # Ended
  <2>1. /\ spender' = [spender EXCEPT !.step = "subnet"] /\ subnets' = subnets /\ spender.nodes # {}
        /\ spender.left = spender.nodes
    BY <1>3 DEF CreateChecks, Goes, SpendInv
  <2>2. spender' \in SpenderType /\ spender'.step = "subnet" /\ spender'.nodes = spender.nodes /\ spender'.left = spender.left
    BY <1>1, <2>1 DEF SpenderType
  <2> QED
    BY <1>1, <2>1, <2>2 DEF SpendInv, At
<1>4. CASE /\ IssueSubnet /\ subnets' = Append(subnets, [asked |-> spender.nodes, validators |-> {}, chain |-> FALSE])
  <2> DEFINE s == [asked |-> spender.nodes, validators |-> {}, chain |-> FALSE]
  <2>1. s \in SubnetType /\ Complete(s) /\ s.asked = spender.nodes /\ s.validators = {} /\ ~s.chain
    BY <1>1 DEF SubnetType, SpenderType, Complete
  <2>2. subnets' = Append(subnets, s)
    BY <1>4
  <2> HIDE DEF s
  <2>3. /\ subnets' \in Seq(SubnetType) /\ Len(subnets') = Len(subnets) + 1 /\ subnets'[Len(subnets')] = s /\ subnets' # <<>>
        /\ \A i \in DOMAIN subnets' : (i \in DOMAIN subnets /\ subnets'[i] = subnets[i]) \/ subnets'[i] = s
    BY <1>1, <2>1, <2>2
  <2>4. \A i \in DOMAIN subnets' : Complete(subnets'[i])
    BY <1>1, <2>1, <2>3
  <2>5. CASE spender' = Ended
    BY <1>1, <2>3, <2>4, <2>5, EndKeeps
  <2>6. CASE spender' = [spender EXCEPT !.step = "validators"]
    <3>1. spender.nodes # {} /\ spender.left = spender.nodes
      BY <1>4 DEF IssueSubnet, SpendInv
    <3>2. /\ spender' \in SpenderType /\ spender'.step = "validators" /\ spender'.nodes = spender.nodes
          /\ spender'.left = spender.left
      BY <1>1, <2>6 DEF SpenderType
    <3>3. s.validators = spender'.nodes \ spender'.left
      BY <2>1, <3>1, <3>2
    <3> QED
      BY <1>1, <2>1, <2>3, <2>4, <3>1, <3>2, <3>3 DEF SpendInv, At
  <2> QED
    BY <1>4, <2>5, <2>6 DEF IssueSubnet, Goes
<1>5. CASE IssueChain
  <2>1. /\ spender.left = {} /\ spender' = Ended /\ subnets # <<>> /\ spender.nodes # {}
        /\ subnets[Len(subnets)].asked = spender.nodes /\ subnets[Len(subnets)].validators = spender.nodes
    BY <1>5 DEF IssueChain, SpendInv
  <2>2. subnets' = subnets \/ subnets' = [subnets EXCEPT ![Len(subnets)].chain = TRUE]
    BY <1>5 DEF IssueChain
  <2>3. Len(subnets) \in DOMAIN subnets /\ subnets[Len(subnets)] \in SubnetType
    BY <1>1, <2>1
  <2> DEFINE s == [subnets[Len(subnets)] EXCEPT !.chain = TRUE]
  <2>4. CASE subnets' = [subnets EXCEPT ![Len(subnets)] = s]
    <3>1. s \in SubnetType /\ Complete(s)
      BY <2>1, <2>3 DEF SubnetType, Complete
    <3> HIDE DEF s
    <3>2. /\ subnets' \in Seq(SubnetType) /\ DOMAIN subnets' = DOMAIN subnets
          /\ \A i \in DOMAIN subnets' : subnets'[i] = subnets[i] \/ subnets'[i] = s
      BY <1>1, <2>3, <2>4, <3>1
    <3> QED
      BY <1>1, <2>1, <3>1, <3>2, EndKeeps
  <2> QED
    BY <1>2, <2>1, <2>2, <2>4
<1> QED
  BY <1>2, <1>3, <1>4, <1>5 DEF CreateChecks, IssueSubnet

LEMMA ValidatorKeeps == ASSUME SpendInv, NEW n \in Nodes, IssueValidator(n) PROVE SpendInv'
<1>1. /\ subnets \in Seq(SubnetType) /\ spender \in SpenderType /\ staked \in BOOLEAN
      /\ funds \in [C : Nat, shared : Nat, X : Nat, P : Nat] /\ funds.P = (IF staked THEN 0 ELSE Amount)
      /\ \A i \in DOMAIN subnets : Complete(subnets[i])
      /\ UNCHANGED <<funds, staked>> /\ At("create", "validators") /\ n \in spender.left
      /\ subnets # <<>> /\ spender.nodes # {} /\ spender.left \subseteq spender.nodes
      /\ subnets[Len(subnets)].asked = spender.nodes /\ subnets[Len(subnets)].validators = spender.nodes \ spender.left
      /\ ~subnets[Len(subnets)].chain
  BY DEF SpendInv, IssueValidator
<1>2. Len(subnets) \in DOMAIN subnets /\ subnets[Len(subnets)] \in SubnetType
  BY <1>1
<1> DEFINE s == [subnets[Len(subnets)] EXCEPT !.validators = subnets[Len(subnets)].validators \cup {n}]
<1>3. CASE subnets' = subnets /\ AfterRefusal(n)
  BY <1>1, <1>3, EndKeeps DEF AfterRefusal
<1>4. CASE /\ subnets' = [subnets EXCEPT ![Len(subnets)] = s]
           /\ spender' = [spender EXCEPT !.left = spender.left \ {n}] \/ AfterRefusal(n)
  <2>1. /\ s \in SubnetType /\ Complete(s) /\ s.asked = spender.nodes /\ ~s.chain
        /\ s.validators = spender.nodes \ (spender.left \ {n})
    BY <1>1, <1>2 DEF SubnetType, Complete
  <2>2. subnets' = [subnets EXCEPT ![Len(subnets)] = s]
    BY <1>4
  <2> HIDE DEF s
  <2>3. /\ subnets' \in Seq(SubnetType) /\ DOMAIN subnets' = DOMAIN subnets /\ Len(subnets') = Len(subnets)
        /\ subnets'[Len(subnets)] = s /\ subnets' # <<>>
        /\ \A i \in DOMAIN subnets' : subnets'[i] = subnets[i] \/ subnets'[i] = s
    BY <1>1, <1>2, <2>1, <2>2
  <2>4. \A i \in DOMAIN subnets' : Complete(subnets'[i])
    BY <1>1, <2>1, <2>3
  <2>5. CASE spender' = Ended
    BY <1>1, <2>3, <2>4, <2>5, EndKeeps
  <2>6. CASE spender' = [spender EXCEPT !.left = spender.left \ {n}]
    <3>1. /\ spender' \in SpenderType /\ spender'.nodes = spender.nodes /\ spender'.left = spender.left \ {n}
          /\ spender'.tool = "create" /\ spender'.step = "validators"
      BY <1>1, <2>6 DEF SpenderType, At
    <3>2. spender'.left \subseteq spender'.nodes /\ s.validators = spender'.nodes \ spender'.left /\ s.asked = spender'.nodes
      BY <1>1, <2>1, <3>1
    <3> QED
      BY <1>1, <2>1, <2>3, <2>4, <3>1, <3>2 DEF SpendInv, At
  <2> QED
    BY <1>4, <2>5, <2>6 DEF AfterRefusal
<1> QED
  BY <1>3, <1>4 DEF IssueValidator

LEMMA MoveKeeps == ASSUME SpendInv, MoveChecks \/ Export \/ Import PROVE SpendInv'
<1>1. /\ subnets \in Seq(SubnetType) /\ spender \in SpenderType /\ staked \in BOOLEAN /\ spender.tool = "move"
      /\ funds \in [C : Nat, shared : Nat, X : Nat, P : Nat] /\ funds.P = (IF staked THEN 0 ELSE Amount)
      /\ UNCHANGED <<subnets, staked>>
      /\ \A i \in DOMAIN subnets : Complete(subnets[i])
  BY DEF SpendInv, MoveChecks, Export, Import, At
<1>2. funds' \in [C : Nat, shared : Nat, X : Nat, P : Nat] /\ funds'.P = funds.P
  <2>1. CASE funds' = funds
    BY <1>1, <2>1
  <2>2. CASE funds.C >= Amount /\ funds' = [funds EXCEPT !.C = funds.C - Amount, !.shared = funds.shared + Amount]
    <3>1. funds.C - Amount \in Nat /\ funds.shared + Amount \in Nat
      BY <1>1, <2>2, SpendConstants
    <3> QED
      BY <1>1, <2>2, <3>1
  <2>3. CASE funds' = [funds EXCEPT !.X = funds.X + funds.shared, !.shared = 0]
    <3>1. funds.X + funds.shared \in Nat
      BY <1>1
    <3>2. funds' = [C |-> funds.C, shared |-> 0, X |-> funds.X + funds.shared, P |-> funds.P]
      BY <1>1, <2>3
    <3> QED
      BY <1>1, <3>1, <3>2
  <2> QED
    BY <2>1, <2>2, <2>3 DEF MoveChecks, Export, Import
<1>3. spender' = Ended \/ (spender' \in SpenderType /\ spender'.tool = "move")
  BY <1>1 DEF MoveChecks, Export, Import, Goes, SpenderType
<1> QED
  <2>1. CASE spender' = Ended
    BY <1>1, <1>2, <2>1, EndKeeps
  <2>2. CASE spender' \in SpenderType /\ spender'.tool = "move"
    BY <1>1, <1>2, <2>2, GoesKeeps
  <2> QED
    BY <1>3, <2>1, <2>2

LEMMA StakeKeeps == ASSUME SpendInv, StakeChecks \/ IssueStake PROVE SpendInv'
<1>1. /\ subnets \in Seq(SubnetType) /\ spender \in SpenderType /\ staked \in BOOLEAN /\ spender.tool = "stake"
      /\ funds \in [C : Nat, shared : Nat, X : Nat, P : Nat] /\ funds.P = (IF staked THEN 0 ELSE Amount)
      /\ UNCHANGED subnets /\ Amount \in Nat
      /\ \A i \in DOMAIN subnets : Complete(subnets[i])
  BY SpendConstants DEF SpendInv, StakeChecks, IssueStake, At
<1>2. CASE StakeChecks
  <2>1. spender' = Ended \/ (spender' \in SpenderType /\ spender'.tool = "stake")
    BY <1>1, <1>2 DEF StakeChecks, Goes, SpenderType
  <2> QED
    BY <1>1, <1>2, <2>1, EndKeeps, GoesKeeps DEF StakeChecks
<1>3. CASE IssueStake
  <2>1. CASE UNCHANGED <<staked, funds>>
    BY <1>1, <1>3, <2>1, EndKeeps DEF IssueStake
  <2>2. CASE ~staked /\ staked' = TRUE /\ funds' = [funds EXCEPT !.P = funds.P - Amount]
    <3>1. funds.P - Amount = 0
      BY <1>1, <2>2
    <3>2. funds' \in [C : Nat, shared : Nat, X : Nat, P : Nat] /\ funds'.P = 0
      BY <1>1, <2>2, <3>1
    <3> QED
      BY <1>1, <1>3, <2>2, <3>2, EndKeeps DEF IssueStake
  <2> QED
    BY <1>3, <2>1, <2>2 DEF IssueStake
<1> QED
  BY <1>2, <1>3

LEMMA SpendStep == SpendInv /\ [SpendNext]_spendVars => SpendInv'
<1> SUFFICES ASSUME SpendInv, [SpendNext]_spendVars PROVE SpendInv'
  OBVIOUS
<1>1. CASE UNCHANGED <<subnets, funds, staked, spender>>
  BY <1>1 DEF SpendInv, At
<1>2. CASE StartCreate \/ StartMove \/ StartStake
  <2>1. CASE StartCreate
    <3>1. PICK nodes \in SUBSET Nodes : Start("create", "check", TRUE, nodes)
      BY <2>1 DEF StartCreate
    <3> QED
      BY <3>1, StartKeeps
  <2>2. CASE StartMove
    <3>1. PICK issue \in BOOLEAN : Start("move", "check", issue, {})
      BY <2>2 DEF StartMove
    <3> QED
      BY <3>1, StartKeeps
  <2>3. CASE StartStake
    <3>1. PICK issue \in BOOLEAN : Start("stake", "check", issue, {})
      BY <2>3 DEF StartStake
    <3> QED
      BY <3>1, StartKeeps
  <2> QED
    BY <1>2, <2>1, <2>2, <2>3
<1>3. ASSUME NEW n \in Nodes, TermRuns(n) PROVE UNCHANGED <<subnets, funds, staked, spender>>
  BY <1>3 DEF TermRuns
<1> QED
  BY <1>1, <1>2, <1>3, CreateKeeps, ValidatorKeeps, MoveKeeps, StakeKeeps DEF SpendNext, spendVars

\* A chain that exists has exactly the validators its run was asked for, and a stake is taken once: for every
\* number of nodes, runs, refusals and lost answers.
THEOREM ValidatorsAreExact == SpendSpec => []ExactlyThese
<1>1. SpendInit => SpendInv
  <2> SUFFICES ASSUME SpendInit PROVE SpendInv
    OBVIOUS
  <2>1. /\ subnets = <<>> /\ funds = [C |-> 2 * Amount, shared |-> 0, X |-> 0, P |-> Amount] /\ staked = FALSE
        /\ spender = NoRun /\ Amount \in Nat
    BY SpendConstants DEF SpendInit
  <2>2. spender \in SpenderType /\ spender.tool = "none"
    BY <2>1 DEF NoRun, SpenderType
  <2>3. funds \in [C : Nat, shared : Nat, X : Nat, P : Nat] /\ funds.P = Amount
    BY <2>1
  <2>4. subnets \in Seq(SubnetType) /\ \A i \in DOMAIN subnets : Complete(subnets[i])
    BY <2>1
  <2> QED
    BY <2>1, <2>2, <2>3, <2>4 DEF SpendInv, At
<1>2. SpendInv /\ [SpendNext]_spendVars => SpendInv'
  BY SpendStep
<1>3. SpendInv => ExactlyThese
  <2> SUFFICES ASSUME SpendInv PROVE ExactlyThese
    OBVIOUS
  <2>1. Amount \in Nat /\ Amount # 0
    BY SpendConstants
  <2> QED
    BY <2>1 DEF SpendInv, ExactlyThese, Complete
<1> QED
  BY <1>1, <1>2, <1>3, PTL DEF SpendSpec

-----------------------------------------------------------------------------
\* The heartbeat pump: the node's height and the pump's counters move in four actions of it.
PumpInv == {height, lastScanned, committedTotal, absent} \subseteq Nat /\ ThroughputFromBlocks

LEMMA ScanKeeps ==
  ASSUME PumpInv, NEW ok \in BOOLEAN, NEW upTo \in lastScanned .. height, Scanned(ok, upTo), height' = height
  PROVE  PumpInv'
<1>1. CASE ok
  BY <1>1 DEF PumpInv, ThroughputFromBlocks, Scanned
<1>2. CASE ~ok
  BY <1>2 DEF PumpInv, ThroughputFromBlocks, Scanned, blockVars
<1> QED
  BY <1>1, <1>2

\* What the pump publishes counts every scanned block the node answered for once and none that is not mined, for every
\* number of nonces, of transactions in flight, and whatever reads and probes fail.
THEOREM ThroughputIsCounted == PumpSpec => []ThroughputFromBlocks
<1>1. PumpInit => PumpInv
  BY DEF PumpInit, PumpInv, ThroughputFromBlocks
<1>2. PumpInv /\ [PumpNext]_pumpVars => PumpInv'
  <2> SUFFICES ASSUME PumpInv, [PumpNext]_pumpVars PROVE PumpInv'
    OBVIOUS
  <2>1. CASE UNCHANGED <<height, lastScanned, committedTotal, absent>>
    BY <2>1 DEF PumpInv, ThroughputFromBlocks
  <2>2. CASE MineNext
    BY <2>2 DEF MineNext, blockVars, PumpInv, ThroughputFromBlocks
  <2>3. CASE Supervise
    <3>1. height' = height /\ height \in lastScanned .. height
      BY <2>3 DEF Supervise, PumpInv, ThroughputFromBlocks
    <3>2. (\E upTo \in lastScanned .. height : Scanned(FALSE, upTo)) \/ Scanned(TRUE, height)
      BY <2>3 DEF Supervise
    <3> QED
      BY <3>1, <3>2, ScanKeeps
  <2>4. CASE Freeze \/ Tick \/ Publish \/ UNCHANGED pumpVars
    BY <2>1, <2>4 DEF Freeze, Tick, Publish, pumpVars, nodeVars, blockVars
  <2>5. ASSUME NEW i \in DOMAIN burst, Answer(i) \/ Read(i) \/ Resync(i) PROVE PumpInv'
    BY <2>1, <2>5 DEF Answer, Read, Resync, nodeVars, blockVars
  <2> QED
    BY <2>2, <2>3, <2>4, <2>5 DEF PumpNext
<1>3. PumpInv => ThroughputFromBlocks
  BY DEF PumpInv
<1> QED
  BY <1>1, <1>2, <1>3, PTL DEF PumpSpec

-----------------------------------------------------------------------------
\* Numbers, and how a list is dealt to workers.
LEMMA LeastNatural ==
  ASSUME NEW T \in SUBSET Nat, T # {}
  PROVE  \E x \in T : \A y \in T : x <= y
<1> DEFINE R == OpToRel(<, Nat)
<1>1. IsWellFoundedOn(R, Nat)
  BY NatLessThanWellFounded
<1>2. \A x, y \in Nat : x < y => <<x, y>> \in R
  BY DEF OpToRel
<1> HIDE DEF R
<1>3. \E x \in T : \A y \in T : ~(<<y, x>> \in R)
  BY <1>1, WFMin
<1>4. PICK x \in T : \A y \in T : ~(<<y, x>> \in R)
  BY <1>3
<1>5. ASSUME NEW y \in T PROVE x <= y
  <2>1. x \in Nat /\ y \in Nat
    OBVIOUS
  <2>2. ~(y < x)
    BY <1>2, <1>4, <2>1
  <2> QED
    BY <2>1, <2>2
<1> QED BY <1>5

\* The places of a worker: its own number and every Workers-th one after it.
Dealt(w) == {w + k * Workers : k \in Nat}

LEMMA WorkersPositive == Workers \in Nat /\ Workers >= 1 /\ Ledgers \in Nat /\ Hosts \in Nat /\ Hosts >= 1 /\ PerNode \in Nat
BY BatchConstants

LEMMA MoreTimes ==
  ASSUME NEW j \in Nat, NEW k \in Nat, j < k, NEW n \in Nat
  PROVE  k * n \in Nat /\ j * n \in Nat /\ k * n >= j * n + n
<1>1. PICK d \in Nat : k = j + 1 + d
  <2>1. k - j - 1 \in Nat /\ k = j + 1 + (k - j - 1)
    OBVIOUS
  <2> QED
    BY <2>1
<1>2. k * n = j * n + n + d * n /\ d * n \in Nat /\ j * n \in Nat /\ k * n \in Nat
  BY <1>1
<1> QED
  BY <1>2

LEMMA DealtNext ==
  ASSUME NEW w \in 1 .. Workers, NEW p \in Dealt(w), NEW a \in Dealt(w)
  PROVE  /\ p \in Nat /\ p >= w /\ a + Workers \in Dealt(w)
         /\ p < a + Workers => p <= a
<1>1. PICK j \in Nat : p = w + j * Workers
  BY DEF Dealt
<1>2. PICK k \in Nat : a = w + k * Workers
  BY DEF Dealt
<1>3. w \in Nat /\ j * Workers \in Nat /\ k * Workers \in Nat
  BY WorkersPositive
<1>4. a + Workers = w + (k + 1) * Workers /\ k + 1 \in Nat
  BY <1>2, <1>3, WorkersPositive
<1>5. a + Workers \in Dealt(w)
  BY <1>4 DEF Dealt
<1>6. CASE j <= k
  <2>1. j * Workers <= k * Workers
    BY <1>6, MoreTimes, WorkersPositive, <1>3
  <2> QED
    BY <1>1, <1>2, <1>3, <1>5, <2>1
<1>7. CASE k < j
  <2>1. j * Workers >= k * Workers + Workers
    BY <1>7, MoreTimes, WorkersPositive
  <2> QED
    BY <1>1, <1>2, <1>3, <1>5, <2>1, WorkersPositive
<1> QED
  BY <1>6, <1>7

LEMMA DealtApart ==
  ASSUME NEW w \in 1 .. Workers, NEW v \in 1 .. Workers, NEW p \in Dealt(w), p \in Dealt(v)
  PROVE  w = v
<1>1. PICK j \in Nat : p = w + j * Workers
  BY DEF Dealt
<1>2. PICK k \in Nat : p = v + k * Workers
  BY DEF Dealt
<1>3. w \in Nat /\ v \in Nat /\ j * Workers \in Nat /\ k * Workers \in Nat
  BY WorkersPositive
<1>4. CASE j = k
  BY <1>1, <1>2, <1>3, <1>4
<1>5. CASE j < k
  <2>1. k * Workers >= j * Workers + Workers
    BY <1>5, MoreTimes, WorkersPositive
  <2> QED
    BY <1>1, <1>2, <1>3, <2>1, WorkersPositive
<1>6. CASE k < j
  <2>1. j * Workers >= k * Workers + Workers
    BY <1>6, MoreTimes, WorkersPositive
  <2> QED
    BY <1>1, <1>2, <1>3, <2>1, WorkersPositive
<1> QED
  BY <1>4, <1>5, <1>6

LEMMA DealtAll == ASSUME NEW p \in Nat, p >= 1 PROVE \E w \in 1 .. Workers : p \in Dealt(w)
<1> DEFINE T == {n \in Nat : n >= 1 /\ \E k \in Nat : p = n + k * Workers}
<1>1. p \in T
  <2>1. p = p + 0 * Workers
    BY WorkersPositive
  <2> QED
    BY <2>1
<1>2. PICK n \in T : \A m \in T : n <= m
  <2> HIDE DEF T
  <2>1. T \in SUBSET Nat
    BY DEF T
  <2> QED
    BY <1>1, <2>1, LeastNatural
<1>3. PICK k \in Nat : p = n + k * Workers
  OBVIOUS
<1>4. n <= Workers
  <2> SUFFICES ASSUME n > Workers PROVE FALSE
    BY WorkersPositive
  <2>1. n - Workers \in Nat /\ n - Workers >= 1 /\ k + 1 \in Nat /\ k * Workers \in Nat
    BY WorkersPositive
  <2>2. p = (n - Workers) + (k + 1) * Workers
    BY <1>3, <2>1, WorkersPositive
  <2>3. n - Workers \in T
    BY <2>1, <2>2
  <2> QED
    BY <1>2, <2>1, <2>3, WorkersPositive
<1>5. n \in 1 .. Workers
  BY <1>4, WorkersPositive
<1>6. p \in Dealt(n)
  BY <1>3 DEF Dealt
<1> QED
  BY <1>5, <1>6

LEMMA Places ==
  ASSUME NEW list \in SUBSET Ledger
  PROVE  /\ IsFiniteSet(list) /\ Cardinality(list) \in Nat
         /\ \A l \in list : Place(list, l) \in Nat /\ Place(list, l) >= 1 /\ Place(list, l) <= Cardinality(list)
         /\ \A l, m \in list : Place(list, l) = Place(list, m) => l = m
<1>1. IsFiniteSet(Ledger) /\ Ledger \subseteq Nat
  BY FS_Interval, WorkersPositive DEF Ledger
<1>2. IsFiniteSet(list) /\ Cardinality(list) \in Nat
  BY <1>1, FS_Subset, FS_CardinalityType
<1> DEFINE Upto(l) == {k \in list : k <= l}
<1>3. ASSUME NEW l \in list
      PROVE  /\ IsFiniteSet(Upto(l)) /\ Cardinality(Upto(l)) \in Nat /\ Cardinality(Upto(l)) >= 1
             /\ Cardinality(Upto(l)) <= Cardinality(list) /\ l \in Upto(l)
  <2>1. IsFiniteSet(Upto(l)) /\ Cardinality(Upto(l)) <= Cardinality(list)
    BY <1>2, FS_Subset
  <2>2. Cardinality(Upto(l)) \in Nat
    BY <2>1, FS_CardinalityType
  <2>3. l \in Upto(l)
    BY <1>1
  <2>4. Cardinality(Upto(l)) # 0
    BY <2>1, <2>3, FS_EmptySet
  <2> QED
    BY <2>1, <2>2, <2>3, <2>4
<1>4. ASSUME NEW l \in list, NEW m \in list, l < m PROVE Cardinality(Upto(l)) # Cardinality(Upto(m))
  <2>0. l \in Nat /\ m \in Nat /\ \A k \in list : k \in Nat
    BY <1>1
  <2>1. Upto(l) \subseteq Upto(m) /\ m \notin Upto(l)
    <3>1. \A k \in list : k <= l => k <= m
      BY <1>4, <2>0
    <3>2. ~(m <= l)
      BY <1>4, <2>0
    <3> QED
      BY <3>1, <3>2
  <2>2. Upto(l) # Upto(m)
    BY <1>3, <2>1
  <2> QED
    BY <1>3, <2>1, <2>2, FS_Subset
<1>5. \A l, m \in list : Cardinality(Upto(l)) = Cardinality(Upto(m)) => l = m
  <2> SUFFICES ASSUME NEW l \in list, NEW m \in list, Cardinality(Upto(l)) = Cardinality(Upto(m)) PROVE l = m
    OBVIOUS
  <2>1. l \in Nat /\ m \in Nat
    BY <1>1
  <2> HIDE DEF Upto
  <2>2. ~(l < m) /\ ~(m < l)
    BY <1>4
  <2> QED
    BY <2>1, <2>2
<1> QED
  BY <1>2, <1>3, <1>5 DEF Place

-----------------------------------------------------------------------------
\* The plan of the batch.  If every node has its slots full, there are as many ledgers as slots.
LEMMA FullNodes ==
  ASSUME NEW l \in Ledger, NEW placed \in [Ledger -> Host], \A g \in Host : Load(placed, l, g) >= PerNode
  PROVE  l - 1 >= Hosts * PerNode
<1>0. l \in Nat /\ l >= 1 /\ l <= Ledgers /\ PerNode \in Nat /\ Hosts \in Nat /\ Hosts >= 1
  BY WorkersPositive DEF Ledger
<1>1. IsFiniteSet(1 .. l - 1) /\ Cardinality(1 .. l - 1) = l - 1
  BY <1>0, FS_Interval
<1>2. \A k \in 1 .. l - 1 : placed[k] \in Nat /\ placed[k] >= 1 /\ placed[k] <= Hosts
  BY <1>0, WorkersPositive DEF Ledger, Host
<1> DEFINE On(h) == {k \in 1 .. l - 1 : placed[k] = h}
           UpTo(n) == {k \in 1 .. l - 1 : placed[k] <= n}
           Bad == {n \in Nat : n <= Hosts /\ ~(Cardinality(UpTo(n)) >= n * PerNode)}
<1>3. \A n : /\ IsFiniteSet(On(n)) /\ Cardinality(On(n)) \in Nat
             /\ IsFiniteSet(UpTo(n)) /\ Cardinality(UpTo(n)) \in Nat
  BY <1>1, FS_Subset, FS_CardinalityType
<1>4. Bad = {}
  <2> SUFFICES ASSUME Bad # {} PROVE FALSE
    OBVIOUS
  <2>1. PICK n \in Bad : \A m \in Bad : n <= m
    <3> HIDE DEF Bad
    <3>1. Bad \in SUBSET Nat
      BY DEF Bad
    <3> QED
      BY <3>1, LeastNatural
  <2>2. n \in Nat /\ n <= Hosts /\ ~(Cardinality(UpTo(n)) >= n * PerNode)
    OBVIOUS
  <2>3. n # 0
    <3> SUFFICES ASSUME n = 0 PROVE FALSE
      OBVIOUS
    <3>1. n * PerNode = 0
      BY <1>0
    <3> HIDE DEF UpTo, Bad
    <3>2. Cardinality(UpTo(n)) \in Nat
      BY <1>3
    <3> QED
      BY <2>2, <3>1, <3>2
  <2>4. n - 1 \in Nat /\ Cardinality(UpTo(n - 1)) >= (n - 1) * PerNode
    <3>1. n - 1 \in Nat /\ n - 1 <= Hosts /\ ~(n <= n - 1)
      BY <1>0, <2>2, <2>3
    <3>2. n - 1 \notin Bad
      <4> HIDE DEF Bad
      <4> QED
        BY <2>1, <3>1
    <3> QED
      BY <3>1, <3>2
  <2>5. Cardinality(On(n)) >= PerNode
    <3>1. n \in Host
      BY <2>2, <2>3 DEF Host
    <3> QED
      BY <3>1 DEF Load
  <2>6. UpTo(n) = UpTo(n - 1) \cup On(n) /\ UpTo(n - 1) \cap On(n) = {}
    BY <1>2, <2>2, <2>4
  <2>7. Cardinality(UpTo(n)) = Cardinality(UpTo(n - 1)) + Cardinality(On(n))
    <3> HIDE DEF UpTo, On
    <3>1. Cardinality(UpTo(n - 1) \cap On(n)) = 0
      BY <2>6, FS_EmptySet
    <3>2. IsFiniteSet(UpTo(n - 1)) /\ IsFiniteSet(On(n))
      BY <1>3
    <3>3. Cardinality(UpTo(n - 1)) \in Nat /\ Cardinality(On(n)) \in Nat
      BY <1>3
    <3>4. Cardinality(UpTo(n)) = Cardinality(UpTo(n - 1)) + Cardinality(On(n)) - Cardinality(UpTo(n - 1) \cap On(n))
      BY <2>6, <3>2, FS_Union
    <3> QED
      BY <3>1, <3>3, <3>4
  <2>8. n * PerNode = (n - 1) * PerNode + PerNode /\ (n - 1) * PerNode \in Nat
    BY <1>0, <2>2, <2>4
  <2> HIDE DEF UpTo, On, Bad
  <2> QED
    BY <1>0, <1>3, <2>2, <2>4, <2>5, <2>7, <2>8
<1>5. UpTo(Hosts) = 1 .. l - 1
  BY <1>0, <1>2
<1>6. Cardinality(UpTo(Hosts)) >= Hosts * PerNode
  <2>1. Hosts \notin Bad
    BY <1>4
  <2> HIDE DEF UpTo
  <2> QED
    BY <1>0, <2>1
<1> QED
  BY <1>1, <1>5, <1>6

\* No node gets more ledgers than it has slots, when there are slots enough: the error "no node has a free slot"
\* of cmdPlan cannot come.
LEMMA SlotsSuffice ==
  ASSUME NEW placed \in Placement, Hosts * PerNode >= Ledgers, NEW h \in Host
  PROVE  Cardinality({k \in Ledger : placed[k] = h}) <= PerNode
<1>0. /\ PerNode \in Nat /\ PerNode >= 1 /\ Hosts \in Nat /\ Ledgers \in Nat /\ placed \in [Ledger -> Host]
      /\ Hosts * PerNode \in Nat
  BY BatchConstants DEF Placement
<1> DEFINE On(n) == {k \in 1 .. n : placed[k] = h}
           Bad == {n \in Nat : n <= Ledgers /\ ~(Cardinality(On(n)) <= PerNode)}
<1>1. \A n \in Nat : IsFiniteSet(On(n)) /\ Cardinality(On(n)) \in Nat
  <2> SUFFICES ASSUME NEW n \in Nat PROVE IsFiniteSet(On(n)) /\ Cardinality(On(n)) \in Nat
    OBVIOUS
  <2>1. IsFiniteSet(1 .. n)
    BY FS_Interval
  <2> QED
    BY <2>1, FS_Subset, FS_CardinalityType
<1>2. Bad = {}
  <2> SUFFICES ASSUME Bad # {} PROVE FALSE
    OBVIOUS
  <2>1. PICK n \in Bad : \A m \in Bad : n <= m
    <3> HIDE DEF Bad
    <3>1. Bad \in SUBSET Nat
      BY DEF Bad
    <3> QED
      BY <3>1, LeastNatural
  <2>2. n \in Nat /\ n <= Ledgers /\ ~(Cardinality(On(n)) <= PerNode)
    OBVIOUS
  <2>3. n # 0
    <3> SUFFICES ASSUME n = 0 PROVE FALSE
      OBVIOUS
    <3>1. On(n) = {}
      OBVIOUS
    <3> HIDE DEF On
    <3> QED
      BY <1>0, <2>2, <3>1, FS_EmptySet
  <2>4. n - 1 \in Nat /\ Cardinality(On(n - 1)) <= PerNode
    <3>1. n - 1 \in Nat /\ n - 1 <= Ledgers /\ ~(n <= n - 1)
      BY <1>0, <2>2, <2>3
    <3>2. n - 1 \notin Bad
      <4> HIDE DEF Bad
      <4> QED
        BY <2>1, <3>1
    <3> QED
      BY <3>1, <3>2
  <2>5. n \in Ledger
    BY <1>0, <2>2, <2>3 DEF Ledger
  <2>6. CASE placed[n] # h
    <3>1. On(n) = On(n - 1)
      BY <2>2, <2>4, <2>6
    <3> QED
      BY <2>2, <2>4, <3>1
  <2>7. CASE placed[n] = h
    <3>1. On(n) = On(n - 1) \cup {n} /\ n \notin On(n - 1)
      BY <2>2, <2>3, <2>4, <2>7
    <3>2. Cardinality(On(n)) = Cardinality(On(n - 1)) + 1
      BY <1>1, <2>4, <3>1, FS_AddElement
    <3>3. Cardinality(On(n - 1)) = Load(placed, n, h)
      BY DEF Load
    <3>4. Cardinality(On(n - 1)) >= PerNode
      <4> HIDE DEF On
      <4> QED
        BY <1>0, <1>1, <2>2, <2>4, <3>2
    <3>5. \A g \in Host : Load(placed, n, h) < Load(placed, n, g) \/ Load(placed, n, h) = Load(placed, n, g)
      BY <2>5, <2>7 DEF Placement, LeastLoaded
    <3>6. \A g \in Host : Load(placed, n, g) \in Nat
      <4> SUFFICES ASSUME NEW g \in Host PROVE Cardinality({k \in 1 .. n - 1 : placed[k] = g}) \in Nat
        BY DEF Load
      <4>1. IsFiniteSet(1 .. n - 1)
        BY <2>4, FS_Interval
      <4> QED
        BY <4>1, FS_Subset, FS_CardinalityType
    <3>7. \A g \in Host : Load(placed, n, g) >= PerNode
      <4> HIDE DEF On
      <4> QED
        BY <1>0, <3>3, <3>4, <3>5, <3>6
    <3>8. n - 1 >= Hosts * PerNode
      BY <1>0, <2>5, <3>7, FullNodes
    <3> QED
      BY <1>0, <2>2, <3>8
  <2> QED
    BY <2>6, <2>7
<1>3. On(Ledgers) = {k \in Ledger : placed[k] = h}
  BY DEF Ledger
<1>4. Ledgers \notin Bad
  BY <1>2
<1> HIDE DEF On
<1> QED
  BY <1>0, <1>3, <1>4

-----------------------------------------------------------------------------
\* The run of apply.  What a worker has still before it is on no line; what it has behind it is on one, unless the
\* run has failed; and before it writes a line the P-Chain has converted the ledger.
Worked == 1 .. Workers
CountType == [subnets : Nat, chains : Nat, converted : Nat]

PlanSound ==
  /\ plan # <<>> => plan \in Placement /\ Hosts * PerNode >= Ledgers
  /\ plan = <<>> => todo = {} /\ lines = <<>>

RunType ==
  /\ chain \in [Ledger -> CountType] /\ lines \in Seq(Ledger \cup {Torn})
  /\ todo \subseteq Ledger /\ at \in [Worked -> Nat] /\ step \in [Worked -> Steps \cup {"stopped"}] /\ firstErr \in BOOLEAN
  /\ todo = {} => \A w \in Worked : step[w] = "stopped"
  /\ todo # {} => Ledger \ todo \subseteq OnRecord /\ \A w \in Worked : at[w] \in Dealt(w)

LinesSound ==
  /\ \A i, j \in DOMAIN lines : lines[i] = lines[j] /\ lines[i] # Torn => i = j
  /\ \A l \in OnRecord : chain[l].converted > 0

AheadUnrecorded ==
  \A w \in Worked, l \in todo :
    step[w] # "stopped" /\ Place(todo, l) \in Dealt(w) /\ Place(todo, l) >= at[w] => l \notin OnRecord

WrittenConverted ==
  \A w \in Worked, l \in todo : step[w] = "write" /\ Place(todo, l) = at[w] => chain[l].converted > 0

BehindRecorded ==
  ~firstErr =>
    \A w \in Worked :
      /\ \A l \in todo : Place(todo, l) \in Dealt(w) /\ Place(todo, l) < at[w] => l \in OnRecord
      /\ todo # {} /\ step[w] = "stopped" => at[w] > Cardinality(todo)

BatchInv == PlanSound /\ RunType /\ LinesSound /\ AheadUnrecorded /\ WrittenConverted /\ BehindRecorded

\* What appending to the lines does to the record.
LEMMA LinesGrow ==
  ASSUME lines \in Seq(Ledger \cup {Torn}), NEW x \in Ledger \cup {Torn}, lines' = Append(lines, x)
  PROVE  /\ lines' \in Seq(Ledger \cup {Torn}) /\ OnRecord' = OnRecord \cup ({x} \ {Torn}) /\ lines' # <<>>
         /\ \A i \in DOMAIN lines' : (i \in DOMAIN lines /\ lines'[i] = lines[i]) \/ (i = Len(lines) + 1 /\ lines'[i] = x)
<1> DEFINE L == Ledger \cup {Torn}
<1>1. lines \in Seq(L) /\ x \in L
  OBVIOUS
<1> HIDE DEF L
<1>2. /\ lines' \in Seq(L) /\ Len(lines') = Len(lines) + 1 /\ lines'[Len(lines) + 1] = x /\ lines' # <<>>
      /\ DOMAIN lines = 1 .. Len(lines) /\ DOMAIN lines' = 1 .. Len(lines) + 1 /\ Len(lines) \in Nat
      /\ \A i \in 1 .. Len(lines) : lines'[i] = lines[i]
  BY <1>1
<1>3. \A i \in DOMAIN lines' : (i \in DOMAIN lines /\ lines'[i] = lines[i]) \/ (i = Len(lines) + 1 /\ lines'[i] = x)
  BY <1>2
<1>4. {lines'[i] : i \in DOMAIN lines'} = {lines[i] : i \in DOMAIN lines} \cup {x}
  <2>1. \A i \in DOMAIN lines : i \in DOMAIN lines' /\ lines'[i] = lines[i]
    BY <1>2
  <2>2. Len(lines) + 1 \in DOMAIN lines'
    BY <1>2
  <2> QED
    BY <1>2, <1>3, <2>1, <2>2
<1> QED
  BY <1>2, <1>3, <1>4 DEF OnRecord, L

LEMMA RecordInLedger == ASSUME lines \in Seq(Ledger \cup {Torn}) PROVE OnRecord \subseteq Ledger
<1>1. \A i \in DOMAIN lines : lines[i] \in Ledger \cup {Torn}
  OBVIOUS
<1> QED
  BY <1>1 DEF OnRecord

LEMMA ApplyKeeps == ASSUME BatchInv, Apply PROVE BatchInv'
<1>1. /\ plan # <<>> /\ todo' = Ledger \ OnRecord /\ todo' # {} /\ at' = [w \in Worked |-> w] /\ firstErr' = FALSE
      /\ step' = [w \in Worked |-> IF w <= Cardinality(todo') THEN "subnet" ELSE "stopped"]
      /\ UNCHANGED <<plan, chain, lines>>
  BY DEF Apply, WorkList, Worked
<1>2. OnRecord' = OnRecord
  BY <1>1 DEF OnRecord
<1>3. PlanSound'
  BY <1>1 DEF BatchInv, PlanSound
<1>4. \A w \in Worked : w \in Dealt(w) /\ w \in Nat
  <2> SUFFICES ASSUME NEW w \in Worked PROVE w \in Dealt(w) /\ w \in Nat
    OBVIOUS
  <2>1. w \in Nat /\ w = w + 0 * Workers
    BY WorkersPositive DEF Worked
  <2> QED
    BY <2>1 DEF Dealt
<1>5. RunType'
  <2>1. at' \in [Worked -> Nat] /\ step' \in [Worked -> Steps \cup {"stopped"}] /\ todo' \subseteq Ledger
    BY <1>1, <1>4 DEF Steps
  <2>2. Ledger \ todo' \subseteq OnRecord' /\ \A w \in Worked : at'[w] \in Dealt(w)
    BY <1>1, <1>2, <1>4
  <2> QED
    BY <1>1, <2>1, <2>2 DEF BatchInv, RunType
<1>6. LinesSound'
  BY <1>1, <1>2 DEF BatchInv, LinesSound
<1>7. AheadUnrecorded' /\ WrittenConverted'
  BY <1>1, <1>2 DEF AheadUnrecorded, WrittenConverted
<1>8. BehindRecorded'
  <2> SUFFICES ASSUME NEW w \in Worked
               PROVE  /\ \A l \in todo' : Place(todo', l) \in Dealt(w) /\ Place(todo', l) < at'[w] => l \in OnRecord'
                      /\ step'[w] = "stopped" => at'[w] > Cardinality(todo')
    BY DEF BehindRecorded
  <2>1. todo' \in SUBSET Ledger /\ at'[w] = w /\ w \in Nat
    BY <1>1, <1>4
  <2>2. ASSUME NEW l \in todo', Place(todo', l) \in Dealt(w) PROVE ~(Place(todo', l) < at'[w])
    <3>1. w \in 1 .. Workers /\ w \in Dealt(w)
      BY <1>4 DEF Worked
    <3>2. Place(todo', l) >= w /\ Place(todo', l) \in Nat
      BY <2>2, <3>1, DealtNext
    <3> QED
      BY <2>1, <3>2
  <2>3. step'[w] = "stopped" => at'[w] > Cardinality(todo')
    BY <1>1, <2>1, Places
  <2> QED
    BY <2>2, <2>3
<1> QED
  BY <1>3, <1>5, <1>6, <1>7, <1>8 DEF BatchInv

\* A worker's transaction: it only adds to what the P-Chain has.
LEMMA IssueKeeps ==
  ASSUME BatchInv, NEW w \in Worked, NEW after \in Steps, NEW l \in todo,
         step[w] # "stopped", UNCHANGED <<plan, lines, todo, at>>, Place(todo, l) = at[w],
         chain' \in [Ledger -> CountType], \A m \in Ledger : chain'[m].converted >= chain[m].converted,
         step'[w] = "write" => chain'[l].converted > 0,
         \/ step' = [step EXCEPT ![w] = after] /\ firstErr' = firstErr
         \/ step' = [step EXCEPT ![w] = "stopped"] /\ firstErr' = TRUE
  PROVE  BatchInv'
<1>1. /\ todo \in SUBSET Ledger /\ step \in [Worked -> Steps \cup {"stopped"}] /\ firstErr \in BOOLEAN /\ todo # {}
      /\ chain \in [Ledger -> CountType] /\ after # "stopped" /\ OnRecord \subseteq Ledger
  BY RecordInLedger DEF BatchInv, RunType, Steps
<1>2. OnRecord' = OnRecord
  BY DEF OnRecord
<1>3. /\ step' \in [Worked -> Steps \cup {"stopped"}] /\ firstErr' \in BOOLEAN
      /\ \A v \in Worked : v # w => step'[v] = step[v]
      /\ (step'[w] = after /\ firstErr' = firstErr) \/ (step'[w] = "stopped" /\ firstErr' = TRUE)
  <2>1. CASE step' = [step EXCEPT ![w] = after] /\ firstErr' = firstErr
    BY <1>1, <2>1
  <2>2. CASE step' = [step EXCEPT ![w] = "stopped"] /\ firstErr' = TRUE
    BY <1>1, <2>2
  <2> QED
    BY <2>1, <2>2
<1>4. PlanSound'
  BY DEF BatchInv, PlanSound
<1>5. RunType'
  BY <1>1, <1>2, <1>3 DEF BatchInv, RunType
<1>6. \A m \in Ledger : chain[m].converted > 0 => chain'[m].converted > 0
  <2> SUFFICES ASSUME NEW m \in Ledger, chain[m].converted > 0 PROVE chain'[m].converted > 0
    OBVIOUS
  <2>1. chain[m].converted \in Nat /\ chain'[m].converted \in Nat
    BY <1>1 DEF CountType
  <2> QED
    BY <2>1
<1>7. LinesSound'
  BY <1>1, <1>2, <1>6 DEF BatchInv, LinesSound
<1>8. AheadUnrecorded'
  BY <1>1, <1>2, <1>3 DEF BatchInv, AheadUnrecorded
<1>9. WrittenConverted'
  <2> SUFFICES ASSUME NEW v \in Worked, NEW m \in todo, step'[v] = "write", Place(todo, m) = at[v]
               PROVE  chain'[m].converted > 0
    BY DEF WrittenConverted
  <2>1. CASE v # w
    <3>1. chain[m].converted > 0
      BY <1>3, <2>1 DEF BatchInv, WrittenConverted
    <3> QED
      BY <1>1, <1>6, <3>1
  <2>2. CASE v = w
    <3>1. Place(todo, m) = Place(todo, l)
      BY <2>2
    <3>2. m = l
      BY <1>1, <3>1, Places
    <3> QED
      BY <2>2, <3>2
  <2> QED
    BY <2>1, <2>2
<1>10. BehindRecorded'
  BY <1>1, <1>2, <1>3 DEF BatchInv, BehindRecorded
<1> QED
  BY <1>4, <1>5, <1>7, <1>8, <1>9, <1>10 DEF BatchInv

LEMMA TransactionKeeps ==
  ASSUME BatchInv, NEW w \in Worked, CreateSubnet(w) \/ CreateChain(w) \/ Convert(w)
  PROVE  BatchInv'
<1>0. chain \in [Ledger -> CountType] /\ todo \subseteq Ledger /\ step \in [Worked -> Steps \cup {"stopped"}]
  BY DEF BatchInv, RunType
<1>1. CASE CreateSubnet(w)
  <2>1. PICK l \in todo :
          /\ step[w] = "subnet" /\ Place(todo, l) = at[w] /\ UNCHANGED <<plan, lines, todo, at>>
          /\ chain' = chain \/ chain' = [chain EXCEPT ![l].subnets = chain[l].subnets + 1]
          /\ \/ step' = [step EXCEPT ![w] = "chain"] /\ firstErr' = firstErr
             \/ step' = [step EXCEPT ![w] = "stopped"] /\ firstErr' = TRUE
    BY <1>1 DEF CreateSubnet, Issue, Fail
  <2>2. chain' \in [Ledger -> CountType] /\ \A m \in Ledger : chain'[m].converted >= chain[m].converted
    BY <1>0, <2>1 DEF CountType
  <2>3. step[w] # "stopped" /\ "chain" \in Steps /\ step'[w] # "write"
    BY <1>0, <2>1 DEF Steps
  <2> QED
    BY <2>1, <2>2, <2>3, IssueKeeps
<1>2. CASE CreateChain(w)
  <2>1. PICK l \in todo :
          /\ step[w] = "chain" /\ Place(todo, l) = at[w] /\ UNCHANGED <<plan, lines, todo, at>>
          /\ chain' = chain \/ chain' = [chain EXCEPT ![l].chains = chain[l].chains + 1]
          /\ \/ step' = [step EXCEPT ![w] = "convert"] /\ firstErr' = firstErr
             \/ step' = [step EXCEPT ![w] = "stopped"] /\ firstErr' = TRUE
    BY <1>2 DEF CreateChain, Issue, Fail
  <2>2. chain' \in [Ledger -> CountType] /\ \A m \in Ledger : chain'[m].converted >= chain[m].converted
    BY <1>0, <2>1 DEF CountType
  <2>3. step[w] # "stopped" /\ "convert" \in Steps /\ step'[w] # "write"
    BY <1>0, <2>1 DEF Steps
  <2> QED
    BY <2>1, <2>2, <2>3, IssueKeeps
<1>3. CASE Convert(w)
  <2>1. PICK l \in todo :
          /\ step[w] = "convert" /\ Place(todo, l) = at[w] /\ UNCHANGED <<plan, lines, todo, at>>
          /\ \/ chain' = chain /\ step' = [step EXCEPT ![w] = "stopped"] /\ firstErr' = TRUE
             \/ /\ chain' = [chain EXCEPT ![l].converted = chain[l].converted + 1]
                /\ \/ step' = [step EXCEPT ![w] = "write"] /\ firstErr' = firstErr
                   \/ step' = [step EXCEPT ![w] = "stopped"] /\ firstErr' = TRUE
    BY <1>3 DEF Convert, Issue, Fail
  <2>2. /\ chain' \in [Ledger -> CountType] /\ \A m \in Ledger : chain'[m].converted >= chain[m].converted
        /\ step'[w] = "write" => chain'[l].converted > 0
    <3>1. CASE chain' = chain /\ step' = [step EXCEPT ![w] = "stopped"]
      <4>1. step'[w] = "stopped"
        BY <1>0, <3>1
      <4> QED
        BY <1>0, <3>1, <4>1 DEF CountType
    <3>2. CASE chain' = [chain EXCEPT ![l].converted = chain[l].converted + 1]
      BY <1>0, <3>2 DEF CountType
    <3> QED
      BY <2>1, <3>1, <3>2
  <2>3. step[w] # "stopped" /\ "write" \in Steps
    BY <2>1 DEF Steps
  <2> QED
    BY <2>1, <2>2, <2>3, IssueKeeps
<1> QED
  BY <1>1, <1>2, <1>3

LEMMA RecordKeeps == ASSUME BatchInv, NEW w \in Worked, Record(w) PROVE BatchInv'
<1> DEFINE GoesOn(x) ==
      /\ lines' = Append(lines, x)
      /\ at' = [at EXCEPT ![w] = at[w] + Workers]
      /\ step' = [step EXCEPT ![w] = IF at[w] + Workers <= Cardinality(todo) THEN "subnet" ELSE "stopped"]
      /\ UNCHANGED <<plan, chain, todo>>
<1>1. /\ step[w] = "write" /\ todo \in SUBSET Ledger /\ at \in [Worked -> Nat] /\ todo # {} /\ plan # <<>>
      /\ step \in [Worked -> Steps \cup {"stopped"}] /\ firstErr \in BOOLEAN /\ chain \in [Ledger -> CountType]
      /\ lines \in Seq(Ledger \cup {Torn}) /\ Ledger \ todo \subseteq OnRecord /\ \A v \in Worked : at[v] \in Dealt(v)
      /\ OnRecord \subseteq Ledger /\ Cardinality(todo) \in Nat /\ Torn \notin Ledger /\ Workers \in Nat
  <2>1. step[w] = "write"
    BY DEF Record
  <2>2. todo # {}
    BY <2>1 DEF BatchInv, RunType
  <2> QED
    BY <2>1, <2>2, RecordInLedger, Places, WorkersPositive DEF BatchInv, RunType, PlanSound, Torn, Ledger
<1>2. \/ \E l \in todo : Place(todo, l) = at[w] /\ GoesOn(l) /\ firstErr' = firstErr
      \/ GoesOn(Torn) /\ firstErr' = TRUE
  BY DEF Record, NextFor
<1>3. ASSUME NEW x \in Ledger \cup {Torn}, GoesOn(x)
      PROVE  /\ lines' \in Seq(Ledger \cup {Torn}) /\ OnRecord' = OnRecord \cup ({x} \ {Torn})
             /\ \A i \in DOMAIN lines' : (i \in DOMAIN lines /\ lines'[i] = lines[i]) \/ (i = Len(lines) + 1 /\ lines'[i] = x)
             /\ PlanSound'
             /\ at' \in [Worked -> Nat] /\ step' \in [Worked -> Steps \cup {"stopped"}]
             /\ at'[w] = at[w] + Workers /\ \A v \in Worked : v # w => at'[v] = at[v] /\ step'[v] = step[v]
             /\ step'[w] # "write" /\ (step'[w] = "stopped" => at'[w] > Cardinality(todo))
             /\ \A v \in Worked : at'[v] \in Dealt(v)
             /\ UNCHANGED <<plan, chain, todo>>
  <2>1. /\ lines' \in Seq(Ledger \cup {Torn}) /\ OnRecord' = OnRecord \cup ({x} \ {Torn})
        /\ \A i \in DOMAIN lines' : (i \in DOMAIN lines /\ lines'[i] = lines[i]) \/ (i = Len(lines) + 1 /\ lines'[i] = x)
    BY <1>1, <1>3, LinesGrow
  <2>2. PlanSound'
    BY <1>1, <1>3 DEF BatchInv, PlanSound
  <2>3. /\ at' \in [Worked -> Nat] /\ at'[w] = at[w] + Workers /\ \A v \in Worked : v # w => at'[v] = at[v]
    BY <1>1, <1>3
  <2>4. /\ step' \in [Worked -> Steps \cup {"stopped"}] /\ \A v \in Worked : v # w => step'[v] = step[v]
        /\ step'[w] = IF at[w] + Workers <= Cardinality(todo) THEN "subnet" ELSE "stopped"
    BY <1>1, <1>3 DEF Steps
  <2>5. at'[w] \in Dealt(w)
    BY <1>1, <2>3, DealtNext DEF Worked
  <2>6. at[w] \in Nat
    BY <1>1
  <2> HIDE DEF GoesOn
  <2>7. step'[w] # "write" /\ (step'[w] = "stopped" => at'[w] > Cardinality(todo))
    BY <1>1, <2>3, <2>4, <2>6
  <2> QED
    BY <1>1, <1>3, <2>1, <2>2, <2>3, <2>4, <2>5, <2>7 DEF GoesOn
<1> HIDE DEF GoesOn
<1>4. ASSUME NEW l \in todo, Place(todo, l) = at[w], GoesOn(l), firstErr' = firstErr PROVE BatchInv'
  <2>1. l \in Ledger /\ l # Torn /\ l \notin OnRecord /\ at[w] \in Nat /\ chain[l].converted > 0
    BY <1>1, <1>4 DEF BatchInv, AheadUnrecorded, WrittenConverted
  <2>2. /\ lines' \in Seq(Ledger \cup {Torn}) /\ OnRecord' = OnRecord \cup {l} /\ PlanSound'
        /\ \A i \in DOMAIN lines' : (i \in DOMAIN lines /\ lines'[i] = lines[i]) \/ (i = Len(lines) + 1 /\ lines'[i] = l)
        /\ at' \in [Worked -> Nat] /\ step' \in [Worked -> Steps \cup {"stopped"}]
        /\ at'[w] = at[w] + Workers /\ \A v \in Worked : v # w => at'[v] = at[v] /\ step'[v] = step[v]
        /\ step'[w] # "write" /\ (step'[w] = "stopped" => at'[w] > Cardinality(todo))
        /\ \A v \in Worked : at'[v] \in Dealt(v)
        /\ UNCHANGED <<plan, chain, todo>>
    BY <1>3, <1>4, <2>1
  <2>3. RunType'
    BY <1>1, <1>4, <2>2 DEF RunType
  <2>4. LinesSound'
    <3>1. \A i, j \in DOMAIN lines' : lines'[i] = lines'[j] /\ lines'[i] # Torn => i = j
      <4> SUFFICES ASSUME NEW i \in DOMAIN lines', NEW j \in DOMAIN lines', lines'[i] = lines'[j], lines'[i] # Torn
                   PROVE  i = j
        OBVIOUS
      <4>1. \A k \in DOMAIN lines : lines[k] # l
        BY <2>1 DEF OnRecord
      <4> QED
        BY <2>2, <4>1 DEF BatchInv, LinesSound
    <3>2. \A m \in OnRecord' : chain'[m].converted > 0
      BY <2>1, <2>2 DEF BatchInv, LinesSound
    <3> QED
      BY <3>1, <3>2 DEF LinesSound
  <2>5. AheadUnrecorded'
    <3> SUFFICES ASSUME NEW v \in Worked, NEW m \in todo, step'[v] # "stopped", Place(todo, m) \in Dealt(v),
                        Place(todo, m) >= at'[v]
                 PROVE  m \notin OnRecord \cup {l}
      BY <2>2 DEF AheadUnrecorded
    <3>1. CASE v # w
      <4>1. m \notin OnRecord
        BY <2>2, <3>1 DEF BatchInv, AheadUnrecorded
      <4>2. m # l
        BY <1>1, <1>4, <3>1, DealtApart DEF Worked
      <4> QED
        BY <4>1, <4>2
    <3>2. CASE v = w
      <4>1. Place(todo, m) \in Nat /\ Place(todo, m) >= at[w] + Workers /\ Workers >= 1
        BY <1>1, <2>2, <3>2, Places, WorkersPositive
      <4>2. Place(todo, m) >= at[w] /\ Place(todo, m) # at[w]
        BY <1>1, <2>1, <4>1
      <4> QED
        BY <1>1, <1>4, <3>2, <4>2 DEF BatchInv, AheadUnrecorded
    <3> QED
      BY <3>1, <3>2
  <2>6. WrittenConverted'
    BY <2>2 DEF BatchInv, WrittenConverted
  <2>7. BehindRecorded'
    <3> SUFFICES ASSUME ~firstErr, NEW v \in Worked
                 PROVE  /\ \A m \in todo : Place(todo, m) \in Dealt(v) /\ Place(todo, m) < at'[v] => m \in OnRecord \cup {l}
                        /\ step'[v] = "stopped" => at'[v] > Cardinality(todo)
      BY <1>4, <2>2 DEF BehindRecorded
    <3>1. CASE v # w
      BY <1>1, <2>2, <3>1 DEF BatchInv, BehindRecorded
    <3>2. CASE v = w
      <4>1. ASSUME NEW m \in todo, Place(todo, m) \in Dealt(w), Place(todo, m) < at[w] + Workers PROVE m \in OnRecord \cup {l}
        <5>1. Place(todo, m) <= at[w] /\ Place(todo, m) \in Nat
          BY <1>1, <4>1, DealtNext DEF Worked
        <5>2. CASE Place(todo, m) = at[w]
          BY <1>1, <1>4, <5>2, Places
        <5>3. CASE Place(todo, m) < at[w]
          BY <4>1, <5>3 DEF BatchInv, BehindRecorded
        <5> QED
          BY <2>1, <5>1, <5>2, <5>3
      <4> QED
        BY <2>2, <3>2, <4>1
    <3> QED
      BY <3>1, <3>2
  <2> QED
    BY <2>2, <2>3, <2>4, <2>5, <2>6, <2>7 DEF BatchInv
<1>5. ASSUME GoesOn(Torn), firstErr' = TRUE PROVE BatchInv'
  <2>2. /\ lines' \in Seq(Ledger \cup {Torn}) /\ OnRecord' = OnRecord /\ PlanSound'
        /\ \A i \in DOMAIN lines' : (i \in DOMAIN lines /\ lines'[i] = lines[i]) \/ (i = Len(lines) + 1 /\ lines'[i] = Torn)
        /\ at' \in [Worked -> Nat] /\ step' \in [Worked -> Steps \cup {"stopped"}]
        /\ at'[w] = at[w] + Workers /\ \A v \in Worked : v # w => at'[v] = at[v] /\ step'[v] = step[v]
        /\ step'[w] # "write" /\ \A v \in Worked : at'[v] \in Dealt(v)
        /\ UNCHANGED <<plan, chain, todo>>
    BY <1>3, <1>5
  <2>3. RunType'
    BY <1>1, <1>5, <2>2 DEF RunType
  <2>4. LinesSound'
    <3>1. \A i, j \in DOMAIN lines' : lines'[i] = lines'[j] /\ lines'[i] # Torn => i = j
      BY <2>2 DEF BatchInv, LinesSound
    <3> QED
      BY <2>2, <3>1 DEF BatchInv, LinesSound
  <2>5. AheadUnrecorded'
    <3> SUFFICES ASSUME NEW v \in Worked, NEW m \in todo, step'[v] # "stopped", Place(todo, m) \in Dealt(v),
                        Place(todo, m) >= at'[v]
                 PROVE  m \notin OnRecord
      BY <2>2 DEF AheadUnrecorded
    <3>1. CASE v # w
      BY <2>2, <3>1 DEF BatchInv, AheadUnrecorded
    <3>2. CASE v = w
      <4>1. Place(todo, m) \in Nat /\ Place(todo, m) >= at[w] + Workers /\ at[w] \in Nat
        BY <1>1, <2>2, <3>2, Places
      <4>2. Place(todo, m) >= at[w]
        BY <1>1, <4>1
      <4> QED
        BY <1>1, <3>2, <4>2 DEF BatchInv, AheadUnrecorded
    <3> QED
      BY <3>1, <3>2
  <2>6. WrittenConverted'
    BY <2>2 DEF BatchInv, WrittenConverted
  <2>7. BehindRecorded'
    BY <1>5 DEF BehindRecorded
  <2> QED
    BY <2>2, <2>3, <2>4, <2>5, <2>6, <2>7 DEF BatchInv
<1> QED
  BY <1>2, <1>4, <1>5

LEMMA BatchStep == BatchInv /\ [BatchNext]_batchVars => BatchInv'
<1> SUFFICES ASSUME BatchInv, [BatchNext]_batchVars PROVE BatchInv'
  OBVIOUS
<1>1. CASE UNCHANGED <<plan, chain, lines, todo, at, step, firstErr>>
  <2>1. OnRecord' = OnRecord
    BY <1>1 DEF OnRecord
  <2> QED
    BY <1>1, <2>1 DEF BatchInv, PlanSound, RunType, LinesSound, AheadUnrecorded, WrittenConverted, BehindRecorded
<1>2. CASE Plan
  <2>1. /\ plan = <<>> /\ plan' \in Placement /\ Hosts * PerNode >= Ledgers
        /\ UNCHANGED <<chain, lines, todo, at, step, firstErr>>
    BY <1>2 DEF Plan, PlanAllowed, applyVars
  <2>2. OnRecord' = OnRecord
    BY <2>1 DEF OnRecord
  <2>3. PlanSound'
    BY <2>1 DEF BatchInv, PlanSound
  <2> QED
    BY <2>1, <2>2, <2>3 DEF BatchInv, RunType, LinesSound, AheadUnrecorded, WrittenConverted, BehindRecorded
<1>3. CASE Crash
  <2>1. /\ step' = [w \in Worked |-> "stopped"] /\ firstErr' = TRUE /\ UNCHANGED <<plan, chain, lines, todo, at>>
    BY <1>3 DEF Crash, NoSteps, Worked
  <2>2. OnRecord' = OnRecord
    BY <2>1 DEF OnRecord
  <2>3. RunType'
    BY <2>1, <2>2 DEF BatchInv, RunType
  <2> QED
    BY <2>1, <2>2, <2>3 DEF BatchInv, PlanSound, LinesSound, AheadUnrecorded, WrittenConverted, BehindRecorded
<1>4. CASE Render \/ Router \/ UNCHANGED batchVars
  <2>1. UNCHANGED <<plan, chain, lines, todo, at, step, firstErr>>
    BY <1>4 DEF Render, Router, batchVars, applyVars
  <2> QED
    BY <1>1, <2>1
<1>5. CASE \E w \in 1 .. Workers : Worker(w)
  BY <1>5, TransactionKeeps, RecordKeeps DEF Worker, Worked
<1> QED
  BY <1>2, <1>3, <1>4, <1>5, ApplyKeeps DEF BatchNext

THEOREM BatchInvariance == BatchSpec => []BatchInv
<1>1. BatchInit => BatchInv
  <2> SUFFICES ASSUME BatchInit PROVE BatchInv
    OBVIOUS
  <2>1. /\ plan = <<>> /\ lines = <<>> /\ todo = {} /\ at = [w \in Worked |-> 0] /\ firstErr = FALSE
        /\ step = [w \in Worked |-> "stopped"]
        /\ chain = [l \in Ledger |-> [subnets |-> 0, chains |-> 0, converted |-> 0]]
    BY DEF BatchInit, NoSteps, Worked
  <2>2. OnRecord = {} /\ lines \in Seq(Ledger \cup {Torn}) /\ DOMAIN lines = {}
    BY <2>1 DEF OnRecord
  <2>3. chain \in [Ledger -> CountType] /\ at \in [Worked -> Nat] /\ step \in [Worked -> Steps \cup {"stopped"}]
    BY <2>1 DEF CountType
  <2>4. PlanSound /\ AheadUnrecorded /\ WrittenConverted /\ BehindRecorded
    BY <2>1 DEF PlanSound, AheadUnrecorded, WrittenConverted, BehindRecorded
  <2>5. RunType
    BY <2>1, <2>2, <2>3 DEF RunType
  <2>6. LinesSound
    BY <2>2 DEF LinesSound
  <2> QED
    BY <2>4, <2>5, <2>6 DEF BatchInv
<1>2. BatchInv /\ [BatchNext]_batchVars => BatchInv'
  BY BatchStep
<1> QED
  BY <1>1, <1>2, PTL DEF BatchSpec

\* Whatever workers and crashes wrote the file: one line for a ledger, only of what was converted, no node above its
\* slots, and a run without an error leaves none out; for every number of ledgers, nodes, slots and workers.
THEOREM RecordsAreTrue == BatchSpec => []RecordIsTrue
<1>1. BatchInv => RecordIsTrue
  <2> SUFFICES ASSUME BatchInv PROVE RecordIsTrue
    OBVIOUS
  <2>0. lines \in Seq(Ledger \cup {Torn}) /\ todo \in SUBSET Ledger /\ OnRecord \subseteq Ledger /\ at \in [Worked -> Nat]
    BY RecordInLedger DEF BatchInv, RunType
  <2>1. ASSUME NEW h \in Host PROVE Cardinality({l \in OnRecord : plan[l] = h}) <= PerNode
    <3>1. CASE plan = <<>>
      <4>1. {l \in OnRecord : plan[l] = h} = {}
        BY <3>1 DEF BatchInv, PlanSound, OnRecord
      <4> QED
        BY <4>1, FS_EmptySet, WorkersPositive
    <3>2. CASE plan # <<>>
      <4> DEFINE All == {l \in Ledger : plan[l] = h}
      <4>1. Cardinality(All) <= PerNode
        BY <3>2, SlotsSuffice DEF BatchInv, PlanSound
      <4>2. IsFiniteSet(All)
        <5>1. IsFiniteSet(Ledger) /\ All \in SUBSET Ledger
          BY FS_Interval, WorkersPositive DEF Ledger
        <5> HIDE DEF All
        <5> QED
          BY <5>1, FS_Subset
      <4>3. {l \in OnRecord : plan[l] = h} \in SUBSET All
        BY <2>0
      <4> HIDE DEF All
      <4>4. /\ IsFiniteSet({l \in OnRecord : plan[l] = h})
            /\ Cardinality({l \in OnRecord : plan[l] = h}) <= Cardinality(All)
        BY <4>2, <4>3, FS_Subset
      <4>5. Cardinality({l \in OnRecord : plan[l] = h}) \in Nat /\ Cardinality(All) \in Nat
        BY <4>2, <4>4, FS_CardinalityType
      <4> QED
        BY <4>1, <4>4, <4>5, WorkersPositive
    <3> QED
      BY <3>1, <3>2
  <2>2. ASSUME todo # {}, Stopped, ~firstErr, NEW l \in Ledger PROVE l \in OnRecord
    <3>1. CASE l \notin todo
      BY <2>2, <3>1 DEF BatchInv, RunType
    <3>2. CASE l \in todo
      <4>1. Place(todo, l) \in Nat /\ Place(todo, l) >= 1 /\ Place(todo, l) <= Cardinality(todo) /\ Cardinality(todo) \in Nat
        BY <2>0, <3>2, Places
      <4>2. PICK w \in 1 .. Workers : Place(todo, l) \in Dealt(w)
        BY <4>1, DealtAll
      <4>3. w \in Worked /\ step[w] = "stopped"
        BY <2>2 DEF Stopped, Worked
      <4>4. at[w] > Cardinality(todo) /\ at[w] \in Nat
        BY <2>0, <2>2, <4>3 DEF BatchInv, BehindRecorded
      <4>5. Place(todo, l) < at[w]
        BY <4>1, <4>4
      <4> QED
        BY <2>2, <3>2, <4>2, <4>3, <4>5 DEF BatchInv, BehindRecorded
    <3> QED
      BY <3>1, <3>2
  <2> QED
    BY <2>0, <2>1, <2>2 DEF BatchInv, LinesSound, RecordIsTrue
<1> QED
  BY <1>1, BatchInvariance, PTL

-----------------------------------------------------------------------------
\* The plan of a chain.  An accepted plan is of a chain that builds blocks and that its owner governs and can pay
\* gas on: for every request and every state of the books.
THEOREM AcceptedIsBornAlive == ASSUME NEW r, NEW b PROVE BornAlive(r, b)
<1> SUFFICES ASSUME Accepts(r, b)
             PROVE  LET g == Genesis(r, b) IN
                    /\ g.gasLimit = g.fees.gasLimit /\ g.fees.targetGas = 5 * g.fees.gasLimit
                    /\ g.fees.minBaseFee >= 1 /\ g.fees.minBlockCost <= g.fees.maxBlockCost
                    /\ \A p \in DOMAIN g.admins : g.admins[p] = Owner(r)
                    /\ Owner(r) \in DOMAIN g.balance /\ g.balance[Owner(r)] >= 1
  BY DEF BornAlive
<1> DEFINE base == PresetFees(Default(r.preset, "standard"))
           fc == ApplyFees(base, r.fees)
           list == Allocation(r, Owner(r))
           entries == {list[i] : i \in DOMAIN list}
           addresses == {list[i].address : i \in DOMAIN list}
           balance == [a \in addresses |-> (CHOOSE e \in entries : e.address = a).tokens]
           g == Genesis(r, b)
<1>1. g.fees = fc /\ g.gasLimit = fc.gasLimit /\ g.admins = Admins(r, Owner(r)) /\ g.balance = balance
  BY DEF Genesis, RootGasLimit
<1>2. base \in {Template, PresetFees("zero-fee"), PresetFees("high-throughput")}
  BY DEF PresetFees
<1>3. /\ base.targetGas = 5 * base.gasLimit /\ base.minBaseFee \in 1 .. 1000
      /\ DOMAIN base = {"gasLimit", "targetGas", "rate", "minBaseFee", "denominator", "minBlockCost", "maxBlockCost", "costStep"}
  BY <1>2 DEF PresetFees, Template
<1>4. fc.targetGas = 5 * fc.gasLimit /\ fc.minBaseFee \in 1 .. 1000
  <2>1. CASE r.fees = NoFees
    BY <1>3, <2>1 DEF ApplyFees
  <2>2. CASE r.fees # NoFees
    <3> DEFINE typed == [f \in DOMAIN base |-> IF f \in DOMAIN r.fees THEN r.fees[f] ELSE base[f]]
    <3>1. fc = [typed EXCEPT !["targetGas"] = 5 * typed["gasLimit"]]
      BY <2>2 DEF ApplyFees
    <3>2. DOMAIN typed = DOMAIN base
      OBVIOUS
    <3>3. typed["minBaseFee"] \in 1 .. 1000
      <4>0. "minBaseFee" \in DOMAIN base
        BY <1>3
      <4>1. CASE "minBaseFee" \in DOMAIN r.fees
        <5>1. r.fees["minBaseFee"] \in Rails["minBaseFee"] /\ Rails["minBaseFee"] = 1 .. 1000
          BY <4>1 DEF Accepts, FeesInRails, Rails
        <5>2. typed["minBaseFee"] = r.fees["minBaseFee"]
          BY <4>0, <4>1
        <5> HIDE DEF typed
        <5> QED
          BY <5>1, <5>2
      <4>2. CASE "minBaseFee" \notin DOMAIN r.fees
        <5>1. base["minBaseFee"] \in 1 .. 1000
          BY <1>3
        <5>2. typed["minBaseFee"] = base["minBaseFee"]
          BY <4>0, <4>2
        <5> HIDE DEF typed, base
        <5> QED
          BY <5>1, <5>2
      <4> QED
        BY <4>1, <4>2
    <3> HIDE DEF typed
    <3>4. fc["targetGas"] = 5 * typed["gasLimit"] /\ fc["gasLimit"] = typed["gasLimit"] /\ fc["minBaseFee"] = typed["minBaseFee"]
      BY <1>3, <3>1, <3>2
    <3> QED
      BY <3>3, <3>4
  <2> QED
    BY <2>1, <2>2
<1>5. fc.minBlockCost <= fc.maxBlockCost
  BY DEF Accepts, VerifyFeeConfig
<1>6. \A p \in DOMAIN Admins(r, Owner(r)) : Admins(r, Owner(r))[p] = Owner(r)
  BY DEF Admins
<1>7. Owner(r) \in DOMAIN balance /\ balance[Owner(r)] >= 1
  <2>1. AllocationLegal(list, Owner(r))
    BY DEF Accepts
  <2>2. PICK i \in DOMAIN list : list[i].address = Owner(r)
    BY <2>1 DEF AllocationLegal
  <2>3. \A e \in entries : e.tokens >= 1
    BY <2>1 DEF AllocationLegal
  <2>4. Owner(r) \in addresses /\ list[i] \in entries
    BY <2>2
  <2> DEFINE e == CHOOSE e \in entries : e.address = Owner(r)
  <2>5. e \in entries
    <3> HIDE DEF entries, list
    <3> QED
      BY <2>2, <2>4
  <2>6. balance[Owner(r)] = e.tokens
    BY <2>4
  <2> QED
    BY <2>3, <2>4, <2>5, <2>6
<1> HIDE DEF g, fc, balance
<1> QED
  BY <1>1, <1>4, <1>5, <1>6, <1>7 DEF g

\* The books as the console keeps them; and that no node holds more chains than the cap it is placed under.
IsBook(b) ==
  /\ b = [live |-> b.live, retired |-> b.retired, issued |-> b.issued, issuedNames |-> b.issuedNames, taken |-> b.taken,
          nodes |-> b.nodes, perChain |-> b.perChain, cap |-> b.cap, drill |-> b.drill]
  /\ IsFiniteSet(b.live) /\ IsFiniteSet(b.nodes) /\ b.nodes \subseteq Nat
  /\ {b.perChain, b.cap} \subseteq Nat

WithinCap(b) == b.perChain > 0 => \A n \in b.nodes : NodeLoad(n, b) <= b.cap

LEMMA LoadType == ASSUME NEW b, IsBook(b), NEW n PROVE NodeLoad(n, b) \in Nat /\ NodeLoad(n, b) <= Cardinality(b.live)
<1>1. IsFiniteSet(b.live)
  BY DEF IsBook
<1>2. {c \in b.live : n \in ValidatorsOf(c, b)} \in SUBSET b.live
  OBVIOUS
<1> QED
  BY <1>1, <1>2, FS_Subset, FS_CardinalityType DEF NodeLoad

\* Of any nodes one comes before all others.
LEMMA FirstNode ==
  ASSUME NEW b, IsBook(b), NEW left \in SUBSET b.nodes, left # {}
  PROVE  \E x \in left : \A n \in left \ {x} : Sooner(x, n, b)
<1> DEFINE Loads == {NodeLoad(n, b) : n \in left}
<1>1. Loads \in SUBSET Nat /\ Loads # {}
  BY LoadType
<1>2. PICK least \in Loads : \A k \in Loads : least <= k
  <2> HIDE DEF Loads
  <2> QED
    BY <1>1, LeastNatural
<1> DEFINE Light == {n \in left : NodeLoad(n, b) = least}
<1>3. Light \in SUBSET Nat /\ Light # {}
  BY DEF IsBook
<1>4. PICK x \in Light : \A n \in Light : x <= n
  <2> HIDE DEF Light
  <2> QED
    BY <1>3, LeastNatural
<1>5. ASSUME NEW n \in left \ {x} PROVE Sooner(x, n, b)
  <2>1. NodeLoad(x, b) = least /\ NodeLoad(n, b) \in Nat /\ least \in Nat /\ least <= NodeLoad(n, b)
    BY <1>1, <1>2, LoadType
  <2>2. n \in Nat /\ x \in Nat /\ n # x
    BY DEF IsBook
  <2>3. NodeLoad(n, b) = least => x < n
    BY <1>4, <2>2
  <2> QED
    BY <2>1, <2>3 DEF Sooner
<1> QED
  BY <1>5

\* Of enough nodes any number may be taken so that those taken come before those left.
LEMMA Takes ==
  ASSUME NEW b, IsBook(b), NEW free \in SUBSET b.nodes, NEW k \in Nat, k <= Cardinality(free)
  PROVE  \E s \in kSubset(k, free) : \A m \in s, n \in free \ s : Sooner(m, n, b)
<1> DEFINE Chosen(j) == \E s \in kSubset(j, free) : \A m \in s, n \in free \ s : Sooner(m, n, b)
           Bad == {j \in Nat : j <= Cardinality(free) /\ ~Chosen(j)}
<1>1. IsFiniteSet(free) /\ Cardinality(free) \in Nat
  <2>1. IsFiniteSet(b.nodes)
    BY DEF IsBook
  <2> QED
    BY <2>1, FS_Subset, FS_CardinalityType
<1>2. Bad = {}
  <2> SUFFICES ASSUME Bad # {} PROVE FALSE
    OBVIOUS
  <2>1. PICK j \in Bad : \A i \in Bad : j <= i
    <3> HIDE DEF Bad
    <3>1. Bad \in SUBSET Nat
      BY DEF Bad
    <3> QED
      BY <3>1, LeastNatural
  <2>2. j \in Nat /\ j <= Cardinality(free) /\ ~Chosen(j)
    OBVIOUS
  <2>3. j # 0
    <3>1. {} \in kSubset(0, free)
      BY FS_EmptySet DEF kSubset
    <3>2. Chosen(0)
      BY <3>1
    <3> QED
      BY <2>2, <3>2
  <2>4. j - 1 \in Nat /\ Chosen(j - 1)
    <3>1. j - 1 \in Nat /\ j - 1 <= Cardinality(free) /\ ~(j <= j - 1)
      BY <1>1, <2>2, <2>3
    <3>2. j - 1 \notin Bad
      <4> HIDE DEF Bad
      <4> QED
        BY <2>1, <3>1
    <3> HIDE DEF Chosen
    <3> QED
      BY <3>1, <3>2
  <2>5. PICK s \in kSubset(j - 1, free) : \A m \in s, n \in free \ s : Sooner(m, n, b)
    BY <2>4
  <2>6. s \in SUBSET free /\ Cardinality(s) = j - 1
    BY DEF kSubset
  <2>7. free \ s # {}
    <3>1. s # free
      BY <1>1, <2>2, <2>6
    <3> QED
      BY <2>6, <3>1
  <2>8. PICK x \in free \ s : \A n \in (free \ s) \ {x} : Sooner(x, n, b)
    <3>1. free \ s \in SUBSET b.nodes
      OBVIOUS
    <3> QED
      BY <2>7, <3>1, FirstNode
  <2>9. s \cup {x} \in kSubset(j, free)
    <3>1. IsFiniteSet(s) /\ x \notin s
      BY <1>1, <2>6, FS_Subset
    <3>2. Cardinality(s \cup {x}) = j
      <4>1. Cardinality(s \cup {x}) = Cardinality(s) + 1
        BY <3>1, FS_AddElement
      <4> QED
        BY <2>2, <2>6, <4>1
    <3> QED
      BY <2>6, <2>8, <3>2 DEF kSubset
  <2>10. \A m \in s \cup {x}, n \in free \ (s \cup {x}) : Sooner(m, n, b)
    BY <2>5, <2>8
  <2>11. Chosen(j)
    BY <2>9, <2>10
  <2> QED
    BY <2>2, <2>11
<1>3. k \notin Bad
  BY <1>2
<1> HIDE DEF Chosen
<1>4. Chosen(k)
  BY <1>1, <1>3
<1> QED
  BY <1>4 DEF Chosen

\* The nodes a chain is put on: as many as asked for, each with room.
LEMMA AssignedFits ==
  ASSUME NEW b, IsBook(b), b.perChain > 0, Placeable(b)
  PROVE  Assigned(b) \subseteq FreeNodes(b) /\ Cardinality(Assigned(b)) = b.perChain
<1>1. FreeNodes(b) \in SUBSET b.nodes /\ b.perChain \in Nat /\ b.perChain # 0
  BY DEF FreeNodes, IsBook
<1>2. b.perChain <= Cardinality(FreeNodes(b))
  BY <1>1 DEF Placeable
<1>3. \E s \in kSubset(b.perChain, FreeNodes(b)) : \A m \in s, n \in FreeNodes(b) \ s : Sooner(m, n, b)
  BY <1>1, <1>2, Takes
<1>4. Assigned(b) \in kSubset(b.perChain, FreeNodes(b))
  BY <1>1, <1>3 DEF Assigned
<1> QED
  BY <1>4 DEF kSubset

LEMMA LoadAfter ==
  ASSUME NEW b, IsBook(b), NEW c, NEW n \in b.nodes
  PROVE  LET after == [b EXCEPT !.live = b.live \cup {c}] IN
         /\ NodeLoad(n, after) \in Nat /\ NodeLoad(n, after) <= NodeLoad(n, b) + 1
         /\ n \notin ValidatorsOf(c, b) => NodeLoad(n, after) = NodeLoad(n, b)
<1> DEFINE after == [b EXCEPT !.live = b.live \cup {c}]
           On == {k \in b.live : n \in ValidatorsOf(k, b)}
<1>1. after.live = b.live \cup {c} /\ after.nodes = b.nodes
  BY DEF IsBook
<1>2. \A k : ValidatorsOf(k, after) = ValidatorsOf(k, b)
  BY <1>1 DEF ValidatorsOf
<1>3. {k \in after.live : n \in ValidatorsOf(k, after)} = IF n \in ValidatorsOf(c, b) THEN On \cup {c} ELSE On
  BY <1>1, <1>2
<1>4. IsFiniteSet(On) /\ Cardinality(On) \in Nat
  <2>1. IsFiniteSet(b.live)
    BY DEF IsBook
  <2> QED
    BY <2>1, FS_Subset, FS_CardinalityType
<1>5. NodeLoad(n, b) = Cardinality(On)
  BY DEF NodeLoad
<1>6. NodeLoad(n, after) = IF n \in ValidatorsOf(c, b) THEN Cardinality(On \cup {c}) ELSE Cardinality(On)
  <2>1. NodeLoad(n, after) = Cardinality({k \in after.live : n \in ValidatorsOf(k, after)})
    BY DEF NodeLoad
  <2> HIDE DEF On, after
  <2> QED
    BY <1>3, <2>1
<1> HIDE DEF On, after
<1>7. Cardinality(On \cup {c}) \in Nat /\ Cardinality(On \cup {c}) <= Cardinality(On) + 1
  <2>1. Cardinality(On \cup {c}) = IF c \in On THEN Cardinality(On) ELSE Cardinality(On) + 1
    BY <1>4, FS_AddElement
  <2> QED
    BY <1>4, <2>1
<1>8. /\ NodeLoad(n, after) \in Nat /\ NodeLoad(n, after) <= NodeLoad(n, b) + 1
      /\ n \notin ValidatorsOf(c, b) => NodeLoad(n, after) = NodeLoad(n, b)
  BY <1>4, <1>5, <1>6, <1>7
<1> QED
  BY <1>8 DEF after

\* The number the console draws is one of the block that no book has.
LEMMA DrawnIsFree == ASSUME NEW b, FreeIds(b) # {} PROVE Min(FreeIds(b)) \in FreeIds(b)
<1>1. FreeIds(b) \in SUBSET Nat
  BY DEF FreeIds, Band
<1>2. \E x \in FreeIds(b) : \A y \in FreeIds(b) : x <= y
  BY <1>1, LeastNatural
<1> QED
  BY <1>2 DEF Min

\* The identity of an accepted plan is in none of the console's books, a drawn number is one of the running block and
\* not the C-chain's, and with the chain no node is over the cap that was not before: for every request, every number
\* of nodes and of chains, and every cap.
THEOREM AcceptedIsFreshAndPlaced == ASSUME NEW r, NEW b, IsBook(b), WithinCap(b) PROVE FreshAndPlaced(r, b)
<1> DEFINE c == Recorded(r, b)
           after == [b EXCEPT !.live = b.live \cup {c}]
<1>1. SUFFICES ASSUME Accepts(r, b)
               PROVE  /\ c.id \notin {k.id : k \in Known(b)} \cup b.issued \cup b.taken
                      /\ c.id \notin (IF b.drill THEN RealSpace ELSE DrillSpace)
                      /\ r.id = NoId => c.id \in Band(b.drill) \ {ParentId}
                      /\ \A k \in Known(b) : k.name.text # c.name.text
                      /\ c.symbol # Absent => \A k \in Known(b) : SymbolOf(k) # c.symbol
                      /\ \A n \in b.nodes : NodeLoad(n, after) <= b.cap
                      /\ b.perChain > 0 => Cardinality(c.on) = b.perChain
  BY DEF FreshAndPlaced
<1>2. c.id = ChainId(r, b) /\ c.name = r.name /\ c.symbol = r.symbol /\ c.on = Assigned(b)
  BY DEF Recorded
<1>3. /\ ChainId(r, b) \notin Ours(b) \cup b.issued \cup b.taken
      /\ ChainId(r, b) \notin (IF b.drill THEN RealSpace ELSE DrillSpace)
      /\ r.id = NoId => ChainId(r, b) \in Band(b.drill) \ {ParentId}
  <2>1. CASE r.id = NoId
    <3>1. Min(FreeIds(b)) \in FreeIds(b)
      BY <1>1, <2>1, DrawnIsFree DEF Accepts, HasId
    <3>2. ChainId(r, b) \in FreeIds(b)
      BY <2>1, <3>1 DEF ChainId
    <3> QED
      BY <2>1, <3>2 DEF FreeIds, Band, RealSpace, DrillSpace, ParentId
  <2>2. CASE r.id # NoId
    BY <1>1, <2>2 DEF Accepts, HasId, TypedIdFree, WrongBand, ChainId
  <2> QED
    BY <2>1, <2>2
<1>4. \A k \in Known(b) : k.name.text # c.name.text
  BY <1>1, <1>2 DEF Accepts, NameFree
<1>5. c.symbol # Absent => \A k \in Known(b) : SymbolOf(k) # c.symbol
  BY <1>1, <1>2 DEF Accepts, SymbolFree
<1>6. Placeable(b) /\ b.perChain \in Nat /\ b.cap \in Nat
  BY <1>1 DEF Accepts, IsBook
<1>7. b.perChain > 0 => Cardinality(c.on) = b.perChain
  BY <1>2, <1>6, AssignedFits
<1>8. ASSUME NEW n \in b.nodes PROVE NodeLoad(n, after) <= b.cap
  <2> HIDE DEF c
  <2>1. /\ NodeLoad(n, after) \in Nat /\ NodeLoad(n, after) <= NodeLoad(n, b) + 1
        /\ n \notin ValidatorsOf(c, b) => NodeLoad(n, after) = NodeLoad(n, b)
    BY LoadAfter
  <2> HIDE DEF after
  <2>2. NodeLoad(n, b) \in Nat /\ NodeLoad(n, b) <= Cardinality(b.live)
    BY LoadType
  <2>3. CASE b.perChain = 0
    <3>1. Cardinality(b.live) < b.cap /\ Cardinality(b.live) \in Nat
      BY <1>6, <2>3, FS_CardinalityType DEF Placeable, IsBook
    <3> QED
      BY <1>6, <2>1, <2>2, <3>1
  <2>4. CASE b.perChain # 0
    <3>1. c.on = Assigned(b) /\ Assigned(b) \subseteq FreeNodes(b) /\ Cardinality(Assigned(b)) = b.perChain
      BY <1>2, <1>6, <2>4, AssignedFits
    <3>2. c.on # {}
      BY <2>4, <3>1, FS_EmptySet
    <3>3. ValidatorsOf(c, b) = c.on
      BY <3>2 DEF ValidatorsOf
    <3>4. CASE n \in c.on
      <4>1. NodeLoad(n, b) < b.cap
        BY <3>1, <3>4 DEF FreeNodes
      <4> QED
        BY <1>6, <2>1, <2>2, <4>1
    <3>5. CASE n \notin c.on
      BY <1>6, <2>1, <2>4, <3>3, <3>5 DEF WithinCap
    <3> QED
      BY <3>4, <3>5
  <2> QED
    BY <2>3, <2>4
<1> HIDE DEF after, c
<1> QED
  BY <1>2, <1>3, <1>4, <1>5, <1>7, <1>8 DEF Ours

\* A request that types a number may type the C-chain's instead: only a book that has it makes the console refuse it.
THEOREM ParentMayBeTyped ==
  ASSUME NEW r, NEW b, Accepts(r, b), r.id # NoId,
         NEW typed, typed.id = ParentId,
         \A f \in {"name", "admin", "preset", "symbol", "fees", "precompiles", "allocations", "contracts"} : typed[f] = r[f],
         ParentId \notin Ours(b) \cup b.taken \cup b.issued
  PROVE  Accepts(typed, b) /\ ~ApartFromParent(typed, b)
<1>1. /\ typed.name = r.name /\ typed.symbol = r.symbol /\ typed.preset = r.preset /\ typed.fees = r.fees
      /\ typed.precompiles = r.precompiles /\ typed.allocations = r.allocations
      /\ typed.contracts = r.contracts /\ typed.admin = r.admin
  OBVIOUS
<1>2. HasId(typed, b) /\ ChainId(typed, b) = ParentId
  BY DEF HasId, ChainId, TypedIdFree, WrongBand, RealSpace, DrillSpace, ParentId, NoId
<1>3. /\ Owner(typed) = Owner(r) /\ Allocation(typed, Owner(r)) = Allocation(r, Owner(r))
      /\ PresetCompatible(typed) = PresetCompatible(r)
  BY <1>1 DEF Owner, Allocation, PresetCompatible
<1>4. Accepts(typed, b)
  BY <1>1, <1>2, <1>3 DEF Accepts
<1> QED
  BY <1>2, <1>4 DEF ApartFromParent

-----------------------------------------------------------------------------
\* The placement of the K1 inventory: a function of it.
\* No machine has ten mothers or ten hosts: the tenth host would listen for its peers on the
\* port the second one serves its API on.
Inventory == Seq([mothers : 0 .. 9, hosts : 0 .. 9])

LEMMA MachineType ==
  ASSUME NEW inv \in Inventory, NEW mi \in DOMAIN inv
  PROVE  inv[mi].mothers \in 0 .. 9 /\ inv[mi].hosts \in 0 .. 9
<1>1. ASSUME NEW M, NEW s \in Seq(M), NEW i \in DOMAIN s PROVE s[i] \in M
  OBVIOUS
<1>2. inv[mi] \in [mothers : 0 .. 9, hosts : 0 .. 9]
  BY ONLY <1>1, inv \in Inventory, mi \in DOMAIN inv DEF Inventory
<1> QED
  BY <1>2

LEMMA CountBound ==
  ASSUME NEW inv \in Inventory, NEW mi \in DOMAIN inv, NEW mother \in BOOLEAN
  PROVE  Count(inv, mi, mother) \in 0 .. 9
BY MachineType DEF Count

LEMMA DomainOf == ASSUME NEW inv \in Inventory PROVE Len(inv) \in Nat /\ DOMAIN inv = 1 .. Len(inv)
BY DEF Inventory

LEMMA BeforeFinite ==
  ASSUME NEW inv \in Inventory, NEW mi \in DOMAIN inv, NEW mother \in BOOLEAN
  PROVE  IsFiniteSet(Before(inv, mi, mother)) /\ Cardinality(Before(inv, mi, mother)) \in Nat
<1>1. mi \in Nat /\ \A m \in 1 .. mi - 1 : m \in DOMAIN inv
  BY DomainOf
<1>2. ASSUME NEW m \in 1 .. mi - 1 PROVE Count(inv, m, mother) \in 0 .. 9
  BY <1>1, CountBound
<1>3. IsFiniteSet((1 .. mi - 1) \X (1 .. 9))
  <2>1. IsFiniteSet(1 .. mi - 1) /\ IsFiniteSet(1 .. 9)
    <3>1. 1 \in Int /\ 9 \in Int /\ mi - 1 \in Int
      BY <1>1
    <3> QED
      BY <3>1, FS_Interval
  <2> QED
    BY <2>1, FS_Product
<1>4. ASSUME NEW p \in Before(inv, mi, mother) PROVE p \in (1 .. mi - 1) \X (1 .. 9)
  <2>1. PICK m \in 1 .. mi - 1 : p \in {m} \X (1 .. Count(inv, m, mother))
    BY DEF Before
  <2>2. 1 .. Count(inv, m, mother) \subseteq 1 .. 9
    BY <1>2
  <2> QED
    BY <2>1, <2>2
<1>5. IsFiniteSet(Before(inv, mi, mother))
  BY <1>3, <1>4, FS_Subset
<1> QED
  BY <1>5, FS_CardinalityType

\* The numbers of a later machine come after those of an earlier one.
LEMMA NumbersAscend ==
  ASSUME NEW inv \in Inventory, NEW mother \in BOOLEAN, NEW m \in DOMAIN inv, NEW n \in DOMAIN inv, m < n,
         NEW i \in 1 .. Count(inv, m, mother), NEW j \in 1 .. Count(inv, n, mother)
  PROVE  Number(inv, m, mother, i) < Number(inv, n, mother, j)
<1> DEFINE B == Before(inv, m, mother)
           C == {m} \X (1 .. Count(inv, m, mother))
           D == Before(inv, n, mother)
<1>1. m \in Nat /\ n \in Nat
  BY DomainOf
<1>2. Count(inv, m, mother) \in Nat
  BY CountBound
<1>3. IsFiniteSet(B) /\ Cardinality(B) \in Nat /\ IsFiniteSet(D) /\ Cardinality(D) \in Nat
  BY BeforeFinite
<1>4. IsFiniteSet(C) /\ Cardinality(C) = Count(inv, m, mother)
  <2>1. IsFiniteSet({m}) /\ Cardinality({m}) = 1
    BY FS_Singleton
  <2>2. IsFiniteSet(1 .. Count(inv, m, mother)) /\ Cardinality(1 .. Count(inv, m, mother)) = Count(inv, m, mother)
    BY <1>2, FS_Interval
  <2> QED
    BY <1>2, <2>1, <2>2, FS_Product
<1>5. B \cap C = {}
  BY <1>1 DEF Before
<1>6. B \cup C \subseteq D
  <2>1. m \in 1 .. n - 1 /\ 1 .. m - 1 \subseteq 1 .. n - 1
    <3>1. m \in Nat /\ n \in Nat /\ m >= 1 /\ m < n
      BY DomainOf
    <3> QED
      BY <3>1
  <2>2. C \subseteq D
    BY <2>1 DEF Before
  <2>3. B \subseteq D
    BY <2>1 DEF Before
  <2> QED
    BY <2>2, <2>3
<1>7. Cardinality(B \cup C) <= Cardinality(D)
  BY <1>3, <1>6, FS_Subset
<1>8. Cardinality(B \cup C) = Cardinality(B) + Cardinality(C) - Cardinality(B \cap C)
  BY <1>3, <1>4, FS_Union
<1>9. Cardinality(B \cap C) = 0
  BY <1>5, FS_EmptySet
<1>10. Number(inv, m, mother, i) = i + Cardinality(B) /\ Number(inv, n, mother, j) = j + Cardinality(D)
  BY DEF Number
<1>11. Count(inv, n, mother) \in Nat
  BY CountBound
<1> HIDE DEF B, C, D
<1> QED
  BY <1>2, <1>3, <1>4, <1>7, <1>8, <1>9, <1>10, <1>11

\* What a placed node is.
LEMMA NodePlaced ==
  ASSUME NEW inv \in Inventory, NEW n \in PlaceNodes(inv)
  PROVE  \E mi \in DOMAIN inv, mother \in BOOLEAN, i \in 1 .. 9 :
           i \in 1 .. Count(inv, mi, mother) /\ n = NodeAt(inv, mi, mother, i)
<1>1. PICK mi \in DOMAIN inv, mother \in BOOLEAN : \E i \in 1 .. Count(inv, mi, mother) : n = NodeAt(inv, mi, mother, i)
  BY DEF PlaceNodes
<1>3. PICK i \in 1 .. Count(inv, mi, mother) : n = NodeAt(inv, mi, mother, i)
  BY <1>1
<1>2. i \in 1 .. 9
  BY CountBound
<1> QED
  BY <1>2, <1>3

LEMMA ListedIsPlaced ==
  ASSUME NEW inv, NEW mi \in DOMAIN inv, NEW mother \in BOOLEAN, NEW i \in 1 .. Count(inv, mi, mother)
  PROVE  NodeAt(inv, mi, mother, i) \in PlaceNodes(inv)
<1> DEFINE of(m, k) == {NodeAt(inv, m, k, j) : j \in 1 .. Count(inv, m, k)}
           on(m) == UNION {of(m, k) : k \in BOOLEAN}
<1>1. NodeAt(inv, mi, mother, i) \in of(mi, mother)
  OBVIOUS
<1> HIDE DEF of
<1>2. NodeAt(inv, mi, mother, i) \in on(mi)
  BY <1>1
<1>3. PlaceNodes(inv) = UNION {on(m) : m \in DOMAIN inv}
  BY DEF PlaceNodes, of
<1> HIDE DEF on
<1> QED
  BY <1>2, <1>3

LEMMA NodeFields ==
  ASSUME NEW inv \in Inventory, NEW mi \in DOMAIN inv, NEW mother \in BOOLEAN, NEW i \in 1 .. 9
  PROVE  LET n == NodeAt(inv, mi, mother, i)
         IN /\ n.mother = mother /\ n.machine = mi /\ n.number = Number(inv, mi, mother, i)
            /\ n.address = (IF mother THEN 10 ELSE 20) + i
            /\ n.staking = (IF mother THEN 11 ELSE 1) + i - 1
            /\ n.api = (IF mother THEN 150 ELSE 0) + 10 * (i - 1)
BY DEF NodeAt, Address, StakingPort, APIPort, MotherStakingBase, HostStakingBase, MotherAPIBase, HostAPIBase, ApiStep

LEMMA BeaconsAreFinite == ASSUME NEW inv \in Inventory PROVE IsFiniteSet(Beacons(inv))
<1> DEFINE S == (DOMAIN inv) \X (1 .. 9)
           nodeOf == [p \in S |-> NodeAt(inv, p[1], TRUE, p[2])]
           T == {nodeOf[p] : p \in S}
<1>1. IsFiniteSet(S)
  <2>1. IsFiniteSet(1 .. 9) /\ IsFiniteSet(DOMAIN inv)
    <3>1. 1 \in Int /\ 9 \in Int /\ Len(inv) \in Int /\ DOMAIN inv = 1 .. Len(inv)
      BY DomainOf
    <3> QED
      BY <3>1, FS_Interval
  <2>2. IsFiniteSet((DOMAIN inv) \X (1 .. 9))
    BY <2>1, FS_Product
  <2> QED
    BY <2>2
<1>2. nodeOf \in Surjection(S, T)
  BY DEF Surjection
<1>3. ASSUME NEW n \in Beacons(inv) PROVE n \in T
  <2>1. PICK mi \in DOMAIN inv, mother \in BOOLEAN, i \in 1 .. 9 : n = NodeAt(inv, mi, mother, i)
    BY NodePlaced DEF Beacons
  <2>2. mother = TRUE
    BY <2>1, NodeFields DEF Beacons
  <2>3. <<mi, i>> \in S
    OBVIOUS
  <2>4. nodeOf[<<mi, i>>] = n
    BY <2>1, <2>2, <2>3
  <2> QED
    BY <2>3, <2>4
<1>4. IsFiniteSet(T)
  BY <1>1, <1>2, FS_Surjection
<1> HIDE DEF T
<1> QED
  BY <1>3, <1>4, FS_Subset

\* Two nodes of one machine share no port and no address, two of a kind share no number.
LEMMA NodesApart ==
  ASSUME NEW inv \in Inventory, NEW m \in PlaceNodes(inv), NEW n \in PlaceNodes(inv), m # n
  PROVE  /\ <<m.mother, m.number>> # <<n.mother, n.number>>
         /\ m.machine = n.machine => {m.staking, m.api} \cap {n.staking, n.api} = {} /\ m.address # n.address
<1>1. PICK a \in DOMAIN inv, k \in BOOLEAN, i \in 1 .. 9 :
             i \in 1 .. Count(inv, a, k) /\ m = NodeAt(inv, a, k, i)
  BY NodePlaced
<1>2. PICK b \in DOMAIN inv, l \in BOOLEAN, j \in 1 .. 9 :
             j \in 1 .. Count(inv, b, l) /\ n = NodeAt(inv, b, l, j)
  BY NodePlaced
<1>3. /\ m.mother = k /\ m.machine = a /\ m.number = Number(inv, a, k, i)
      /\ m.address = (IF k THEN 10 ELSE 20) + i
      /\ m.staking = (IF k THEN 11 ELSE 1) + i - 1
      /\ m.api = (IF k THEN 150 ELSE 0) + 10 * (i - 1)
  BY <1>1, NodeFields
<1>4. /\ n.mother = l /\ n.machine = b /\ n.number = Number(inv, b, l, j)
      /\ n.address = (IF l THEN 10 ELSE 20) + j
      /\ n.staking = (IF l THEN 11 ELSE 1) + j - 1
      /\ n.api = (IF l THEN 150 ELSE 0) + 10 * (j - 1)
  BY <1>2, NodeFields
<1>5. ~ (a = b /\ k = l /\ i = j)
  BY <1>1, <1>2
<1>6. ASSUME k = l PROVE m.number # n.number
  <2>1. a \in Nat /\ b \in Nat
    BY DomainOf
  <2>2. CASE a = b
    <3>1. Cardinality(Before(inv, a, k)) \in Nat
      BY BeforeFinite
    <3>2. m.number = i + Cardinality(Before(inv, a, k)) /\ n.number = j + Cardinality(Before(inv, a, k))
      BY <1>3, <1>4, <1>6, <2>2 DEF Number
    <3> QED
      BY <1>5, <1>6, <2>2, <3>1, <3>2
  <2>3. Number(inv, a, k, i) \in Nat /\ Number(inv, b, k, j) \in Nat
    BY BeforeFinite DEF Number
  <2>4. CASE a < b
    <3>1. Number(inv, a, k, i) < Number(inv, b, k, j)
      BY <1>1, <1>2, <1>6, <2>4, NumbersAscend
    <3> QED
      BY <1>3, <1>4, <1>6, <2>3, <3>1
  <2>5. CASE b < a
    <3>1. Number(inv, b, k, j) < Number(inv, a, k, i)
      BY <1>1, <1>2, <1>6, <2>5, NumbersAscend
    <3> QED
      BY <1>3, <1>4, <1>6, <2>3, <3>1
  <2> QED
    BY <2>1, <2>2, <2>4, <2>5
<1>7. ASSUME a = b PROVE /\ m.staking # n.staking /\ m.api # n.api /\ m.staking # n.api /\ m.api # n.staking
                         /\ m.address # n.address
  <2>1. CASE k /\ l
    BY <1>3, <1>4, <1>5, <1>7, <2>1
  <2>2. CASE ~k /\ ~l
    BY <1>3, <1>4, <1>5, <1>7, <2>2
  <2>3. CASE k /\ ~l
    BY <1>3, <1>4, <2>3
  <2>4. CASE ~k /\ l
    BY <1>3, <1>4, <2>4
  <2> QED
    BY <2>1, <2>2, <2>3, <2>4
<1> QED
  BY <1>3, <1>4, <1>6, <1>7

LEMMA PortsOfANode == ASSUME NEW inv \in Inventory, NEW n \in PlaceNodes(inv) PROVE n.staking # n.api
<1>1. PICK mi \in DOMAIN inv, mother \in BOOLEAN, i \in 1 .. 9 : n = NodeAt(inv, mi, mother, i)
  BY NodePlaced
<1> QED
  BY <1>1, NodeFields

\* A node that starts from the mothers has an entry for each: the port tells two of one
\* machine apart.
LEMMA EveryMotherOnce ==
  ASSUME NEW inv \in Inventory, NEW n \in PlaceNodes(inv), ~ (n.mother /\ n.number = 1)
  PROVE  Cardinality(BootstrapOf(inv, n)) = Cardinality(Beacons(inv))
<1> DEFINE entry == [b \in Beacons(inv) |-> [machine |-> b.machine, inside |-> b.machine = n.machine, staking |-> b.staking]]
<1>1. BootstrapOf(inv, n) = {entry[b] : b \in Beacons(inv)}
  BY DEF BootstrapOf
<1>2. entry \in Surjection(Beacons(inv), BootstrapOf(inv, n))
  <2>1. entry \in [Beacons(inv) -> BootstrapOf(inv, n)]
    BY <1>1
  <2>2. \A t \in BootstrapOf(inv, n) : \E b \in Beacons(inv) : entry[b] = t
    BY <1>1
  <2> QED
    BY <2>1, <2>2 DEF Surjection
<1>3. ASSUME NEW b \in Beacons(inv), NEW c \in Beacons(inv), entry[b] = entry[c] PROVE b = c
  <2>1. b \in PlaceNodes(inv) /\ c \in PlaceNodes(inv)
    BY DEF Beacons
  <2>2. b.machine = c.machine /\ b.staking = c.staking
    <3>1. entry[b].machine = b.machine /\ entry[b].staking = b.staking
      OBVIOUS
    <3>2. entry[c].machine = c.machine /\ entry[c].staking = c.staking
      OBVIOUS
    <3> QED
      BY <1>3, <3>1, <3>2
  <2> QED
    BY <2>1, <2>2, NodesApart
<1>4. entry \in Injection(Beacons(inv), BootstrapOf(inv, n))
  BY <1>2, <1>3 DEF Injection, IsInjective, Surjection
<1>5. IsFiniteSet(Beacons(inv))
  BY BeaconsAreFinite
<1> HIDE DEF entry
<1> QED
  BY <1>2, <1>4, <1>5, FS_Surjection

\* An inventory of any number of machines, none with ten mothers or ten hosts, is placed so
\* that no two nodes of a machine share a port or an address, no two of a kind a name, and
\* every node but the first mother starts from every mother (placeNodesWith and compose).
THEOREM InventoriesFit == \A inv \in Inventory : PlacementFits(inv)
<1> SUFFICES ASSUME NEW inv \in Inventory PROVE PlacementFits(inv)
  OBVIOUS
<1>1. ASSUME NEW n \in PlaceNodes(inv) \ {b \in Beacons(inv) : b.number = 1}
      PROVE  Cardinality(BootstrapOf(inv, n)) = Cardinality(Beacons(inv))
  BY EveryMotherOnce DEF Beacons
<1> QED
  BY <1>1, NodesApart, PortsOfANode DEF PlacementFits

\* Nine is the most: whatever else an inventory holds, a machine of ten hosts is composed with
\* two nodes on one port, the staking port of the tenth and the API port of the second.  The
\* room for fifteen of the port plan's comment is room below the mothers' API ports only.
THEOREM TenHostsClash ==
  \A inv \in Seq([mothers : Nat, hosts : Nat]) :
    (\E mi \in DOMAIN inv : inv[mi].hosts >= 10) => ~PlacementFits(inv)
<1> SUFFICES ASSUME NEW inv \in Seq([mothers : Nat, hosts : Nat]), NEW mi \in DOMAIN inv, inv[mi].hosts >= 10
             PROVE  ~PlacementFits(inv)
  OBVIOUS
<1> DEFINE second == NodeAt(inv, mi, FALSE, 2)
           tenth == NodeAt(inv, mi, FALSE, 10)
<1>1. inv[mi].hosts \in Nat
  <2>1. ASSUME NEW M, NEW s \in Seq(M), NEW i \in DOMAIN s PROVE s[i] \in M
    OBVIOUS
  <2>2. inv[mi] \in [mothers : Nat, hosts : Nat]
    BY <2>1
  <2> QED
    BY <2>2
<1>2. {2, 10} \subseteq 1 .. Count(inv, mi, FALSE)
  BY <1>1 DEF Count
<1>3. second \in PlaceNodes(inv) /\ tenth \in PlaceNodes(inv)
  BY <1>2, ListedIsPlaced
<1>4. /\ second.machine = mi /\ second.api = 10 /\ second.staking = 2
      /\ tenth.machine = mi /\ tenth.staking = 10
  BY DEF NodeAt, StakingPort, APIPort, HostStakingBase, HostAPIBase, ApiStep
<1> HIDE DEF second, tenth
<1>5. second # tenth
  BY <1>4
<1>6. {second.staking, second.api} \cap {tenth.staking, tenth.api} # {}
  BY <1>4
<1> QED
  BY <1>3, <1>4, <1>5, <1>6 DEF PlacementFits

-----------------------------------------------------------------------------
\* What MCTools evaluates on its small sets of inputs, of every input.

\* An accepted plan is alive, fresh and placed, whatever request meets whatever finite books in
\* which no node is over the cap.
THEOREM PlansAreSound ==
  ASSUME which = "plan" => IsBook(input[2]) /\ WithinCap(input[2])
  PROVE  PlanIsSound
BY AcceptedIsBornAlive, AcceptedIsFreshAndPlaced DEF PlanIsSound

\* Every node of an inventory fits, whatever the machines are, none with ten mothers or ten hosts.
THEOREM NodesAreFit ==
  ASSUME which = "placement" => input \in Inventory
  PROVE  NodesFit
BY InventoriesFit DEF NodesFit

=============================================================================
