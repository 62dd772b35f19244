----------------------------- MODULE AssetBridge -----------------------------
(***************************************************************************)
(* The asset bridge (local-net/contracts/AssetBridge.sol): one contract on *)
(* each of two chains, which locks what is sent and pays, out of its own   *)
(* liquidity, what a message of its pinned source says was locked there.   *)
(*                                                                         *)
(* A transaction is a stack of calls.  A call that pays hands control to   *)
(* the recipient, which may call any bridge of its chain again, and may    *)
(* refuse: then everything since the call began is undone.  Warp is        *)
(* external: what a finished transaction sent is signed for ever, may be   *)
(* submitted any number of times in any order, and other contracts send    *)
(* messages of any content.                                                *)
(***************************************************************************)
EXTENDS Naturals, Sequences

CONSTANTS ChainOf,    \* each bridge, and the chain it is deployed on
          SourceOf,   \* the other end of each, which its deployer pins
          Foreign,    \* messages of contracts that are no bridge of this pair
          Amounts, Recipients,
          MaxLocks, MaxDeposits, MaxCalls \* bounds

Bridges == DOMAIN ChainOf
NotPinned == <<>>

ASSUME BridgeConstants ==
  /\ SourceOf \in [Bridges -> Bridges]
  /\ \A b \in Bridges : SourceOf[SourceOf[b]] = b /\ ChainOf[b] # ChainOf[SourceOf[b]]
  /\ \A m \in Foreign : \A b \in Bridges : <<m.chain, m.contract>> # <<ChainOf[b], b>>
  /\ Amounts \subseteq Nat \ {0} /\ {MaxLocks, MaxDeposits, MaxCalls} \subseteq Nat

VARIABLES world,    \* the contracts: pinned, locks (soLuotGui of them), daTra, balance, and
                    \* the payments that stand
          calls     \* the payments under way, outermost first, each with the world it began in

bridgeVars == <<world, calls>>

BridgeInit ==
  /\ world = [pinned   |-> [b \in Bridges |-> NotPinned],
              locks    |-> [b \in Bridges |-> <<>>],
              daTra    |-> [b \in Bridges |-> {}],
              balance  |-> [b \in Bridges |-> 0],
              deposits |-> 0,
              payments |-> [b \in Bridges |-> <<>>]]
  /\ calls = <<>>

AtRest == calls = <<>>
\* A transaction is on one chain.
Here(b) == \A i \in DOMAIN calls : ChainOf[calls[i].bridge] = ChainOf[b]

\* What the validators of a chain have signed: what finished transactions sent.
Signed ==
  LET done == IF AtRest THEN world ELSE calls[1].before
  IN Foreign \cup UNION {{[chain |-> ChainOf[b], contract |-> b, to |-> done.locks[b][i].to,
                           amount |-> done.locks[b][i].amount, seq |-> i] : i \in DOMAIN done.locks[b]} :
                           b \in Bridges}

\* ghimNguon: the deployer pins the other end, once.
Pin(b) ==
  /\ AtRest /\ world.pinned[b] = NotPinned
  /\ world' = [world EXCEPT !.pinned[b] = <<ChainOf[SourceOf[b]], SourceOf[b]>>]
  /\ UNCHANGED calls

\* receive(): anybody may add liquidity.
Receive(b, n) ==
  /\ Here(b) /\ world.deposits < MaxDeposits
  /\ world' = [world EXCEPT !.balance[b] = @ + n, !.deposits = @ + 1]
  /\ UNCHANGED calls

\* khoaVaGui.
LockAndSend(b, to, n) ==
  /\ Here(b) /\ Len(world.locks[b]) < MaxLocks
  /\ world' = [world EXCEPT !.locks[b] = Append(@, [to |-> to, amount |-> n]), !.balance[b] = @ + n]
  /\ UNCHANGED calls

\* Mutant, the first version: the message is compared with what the caller passed along.
FromSource_Caller(b, m) == TRUE

FromSource(b, m) == world.pinned[b] = <<m.chain, m.contract>>

\* daTra is written, of the pinned source and the message's number, before the money moves.
Marked(b, m) ==
  [world EXCEPT !.daTra[b] = @ \cup {m.seq},
                !.balance[b] = @ - m.amount, !.payments[b] = Append(@, m)]

\* nhanVaTra, up to the call of the recipient; a call that fails a check leaves nothing.
ReceiveAndPay(b, m) ==
  /\ Here(b) /\ Len(calls) < MaxCalls
  /\ world.pinned[b] # NotPinned /\ m \in Signed /\ FromSource(b, m)
  /\ m.seq \notin world.daTra[b] /\ world.balance[b] >= m.amount
  /\ world' = Marked(b, m)
  /\ calls' = Append(calls, [bridge |-> b, before |-> world])

Innermost == calls[Len(calls)]
Popped == SubSeq(calls, 1, Len(calls) - 1)

\* The recipient returned.
Paid ==
  /\ ~AtRest
  /\ calls' = Popped
  /\ UNCHANGED world

\* The recipient, or a call around it, failed: what the call did is undone.
Reverted ==
  /\ ~AtRest
  /\ world' = Innermost.before
  /\ calls' = Popped

BridgeNext ==
  \/ \E b \in Bridges :
       \/ Pin(b)
       \/ \E n \in Amounts : Receive(b, n) \/ \E to \in Recipients : LockAndSend(b, to, n)
       \/ \E m \in Signed : ReceiveAndPay(b, m)
  \/ Paid \/ Reverted

BridgeSpec == BridgeInit /\ [][BridgeNext]_bridgeVars

-----------------------------------------------------------------------------
\* Everything a bridge has paid was locked at its other end, for that recipient and that
\* amount, and is paid once, whatever order, repetition, re-entered call or refused payment
\* the messages meet (AssetBridge.sol: "THỨ KHÔNG ĐƯỢC BỎ", replay and the pinned source).
PaidWasLocked ==
  \A b \in Bridges :
    LET paid == world.payments[b]  source == SourceOf[b] IN
    /\ \A i \in DOMAIN paid :
         /\ paid[i].chain = ChainOf[source] /\ paid[i].seq \in DOMAIN world.locks[source]
         /\ world.locks[source][paid[i].seq] = [to |-> paid[i].to, amount |-> paid[i].amount]
    /\ \A i, j \in DOMAIN paid : paid[i].seq = paid[j].seq => i = j
=============================================================================
