------------------------------- MODULE Faucet -------------------------------
(***************************************************************************)
(* The faucet (local-net/faucet/server.mjs): POST /api/drip with its       *)
(* cooldown per address, its limits per IP and for everybody, the serial   *)
(* queue of sends, and the nonces of its wallet.                           *)
(*                                                                         *)
(* The node and the library that counts the nonces are external.  The node *)
(* mines the lowest nonce when it holds it, keeps what follows a hole, and *)
(* may refuse a send or lose its answer.  The library reads the account's  *)
(* nonce once, counts every send from there, and is never told that one    *)
(* failed.  A request is its number in order of arrival.                   *)
(***************************************************************************)
EXTENDS RateLimit, Functions

CONSTANTS Addresses, IPs,
          Cooldown, Hour,          \* FAUCET_COOLDOWN_MS, the window of both limits
          MaxPerIp, MaxPerHour,    \* FAUCET_MAX_PER_IP_HOUR, FAUCET_MAX_PER_HOUR
          QueuePlaces,             \* maxPending of the queue
          MaxDrips, FaucetTime, MaxReboots \* bounds

ASSUME FaucetConstants ==
  /\ {Cooldown, Hour, MaxPerIp, MaxPerHour, QueuePlaces, MaxDrips, FaucetTime, MaxReboots} \subseteq Nat
  /\ "everybody" \notin IPs

VARIABLES time, reboots,
          lastDrip,   \* address -> time of its last drip
          spentBy,    \* key -> the times the two limits hold
          drips,      \* every request: who asked, from where, when, and how far it is
          waiting,    \* the queue of sends, the running one first
          counter,    \* the library: the nonce it read, if it did, and the sends since
          mined,      \* the node: the account's nonce
          pool        \* nonce -> request, of the transactions it holds

faucetVars == <<time, reboots, lastDrip, spentBy, drips, waiting, counter, mined, pool>>

Everybody == "everybody"
Keys == IPs \cup {Everybody}
MaxOf(key) == IF key = Everybody THEN MaxPerHour ELSE MaxPerIp
NoNonce == -1
With(f, x, v) == [y \in DOMAIN f \cup {x} |-> IF y = x THEN v ELSE f[y]]

FaucetInit ==
  /\ time = 0 /\ reboots = 0
  /\ lastDrip = <<>> /\ spentBy = [k \in Keys |-> <<>>]
  /\ drips = <<>> /\ waiting = <<>>
  /\ counter = [base |-> NoNonce, sent |-> 0]
  /\ mined = 0 /\ pool = <<>>

-----------------------------------------------------------------------------
\* The handler, up to its first await.
OnCooldown(a) == a \in DOMAIN lastDrip /\ time - lastDrip[a] < Cooldown

Exhausted(key) == OverLimit(spentBy[key], time, Hour, MaxOf(key))
Spend(keys) == [k \in Keys |-> IF k \in keys THEN LetIn(spentBy[k], time, Hour) ELSE spentBy[k]]

Arrives(a, ip, stage) ==
  /\ drips' = Append(drips, [address |-> a, ip |-> ip, at |-> time, stage |-> stage, life |-> reboots])

\* Mutant: the drip is noted when it was sent, not before.
Noted_WhenSent(a) == lastDrip
Noted(a) == With(lastDrip, a, time)

Drip(a, ip) ==
  /\ Len(drips) < MaxDrips
  /\ \/ /\ OnCooldown(a)
        /\ Arrives(a, ip, "refused") /\ UNCHANGED <<lastDrip, spentBy, waiting>>
     \/ /\ ~OnCooldown(a) /\ Exhausted(ip)
        /\ Arrives(a, ip, "refused") /\ UNCHANGED <<lastDrip, spentBy, waiting>>
     \/ /\ ~OnCooldown(a) /\ ~Exhausted(ip) /\ Exhausted(Everybody)
        /\ Arrives(a, ip, "refused") /\ spentBy' = Spend({ip}) /\ UNCHANGED <<lastDrip, waiting>>
     \/ /\ ~OnCooldown(a) /\ ~Exhausted(ip) /\ ~Exhausted(Everybody)
        /\ spentBy' = Spend({ip, Everybody}) /\ lastDrip' = Noted(a)
        /\ IF Len(waiting) >= QueuePlaces
             THEN Arrives(a, ip, "full") /\ UNCHANGED waiting
             ELSE Arrives(a, ip, "queued") /\ waiting' = Append(waiting, Len(drips) + 1)
  /\ UNCHANGED <<time, reboots, counter, mined, pool>>

\* The timers that forget what no longer counts.
DripSweep ==
  /\ lastDrip' = Restrict(lastDrip, {a \in DOMAIN lastDrip : OnCooldown(a)})
  /\ spentBy' = [k \in Keys |-> Recent(spentBy[k], time, Hour)]
  /\ <<lastDrip, spentBy>>' # <<lastDrip, spentBy>>
  /\ UNCHANGED <<time, reboots, drips, waiting, counter, mined, pool>>

-----------------------------------------------------------------------------
\* The send at the head of the queue.  A node that holds a nonce refuses another of it.
Taken == (0 .. mined - 1) \cup DOMAIN pool
Following == CHOOSE n \in mined .. mined + MaxDrips :
               n \notin Taken /\ \A k \in mined .. n - 1 : k \in Taken
Base == IF counter.base = NoNonce THEN Following ELSE counter.base
Nonce == Base + counter.sent

Send(accepted, answered) ==
  /\ waiting # <<>>
  /\ answered => accepted
  /\ accepted => Nonce \notin Taken
  /\ waiting' = Tail(waiting)
  /\ drips' = [drips EXCEPT ![Head(waiting)].stage = IF accepted /\ answered THEN "sent" ELSE "failed"]
  /\ pool' = IF accepted THEN With(pool, Nonce, Head(waiting)) ELSE pool
  /\ counter' = [base |-> Base, sent |-> counter.sent + 1]
  /\ UNCHANGED <<time, reboots, lastDrip, spentBy, mined>>

\* tx.wait() sees it in a block.
Wait(r) ==
  /\ drips[r].stage = "sent" /\ \A n \in DOMAIN pool : pool[n] # r \/ n < mined
  /\ drips' = [drips EXCEPT ![r].stage = "paid"]
  /\ UNCHANGED <<time, reboots, lastDrip, spentBy, waiting, counter, mined, pool>>

Mine ==
  /\ mined \in DOMAIN pool /\ mined' = mined + 1
  /\ UNCHANGED <<time, reboots, lastDrip, spentBy, drips, waiting, counter, pool>>

FaucetTick ==
  /\ time < FaucetTime /\ time' = time + 1
  /\ UNCHANGED <<reboots, lastDrip, spentBy, drips, waiting, counter, mined, pool>>

\* The process starts again: its limits, its queue and its counter are gone, the pool is not.
Reboot ==
  /\ reboots < MaxReboots /\ reboots' = reboots + 1
  /\ lastDrip' = <<>> /\ spentBy' = [k \in Keys |-> <<>>] /\ waiting' = <<>>
  /\ counter' = [base |-> NoNonce, sent |-> 0]
  /\ drips' = [r \in DOMAIN drips |->
                 IF drips[r].stage \in {"queued", "sent"} THEN [drips[r] EXCEPT !.stage = "cut"] ELSE drips[r]]
  /\ UNCHANGED <<time, mined, pool>>

FaucetNext ==
  \/ \E a \in Addresses, ip \in IPs : Drip(a, ip)
  \/ DripSweep \/ Mine \/ FaucetTick \/ Reboot
  \/ \E accepted, answered \in BOOLEAN : Send(accepted, answered)
  \/ \E r \in DOMAIN drips : Wait(r)

FaucetSpec == FaucetInit /\ [][FaucetNext]_faucetVars

\* The node mines what it can, and every call ends.
FairFaucet ==
  /\ FaucetSpec /\ WF_faucetVars(Mine)
  /\ WF_faucetVars(\E accepted, answered \in BOOLEAN : Send(accepted, answered))
  /\ \A r \in 1 .. MaxDrips : WF_faucetVars(r \in DOMAIN drips /\ Wait(r))

-----------------------------------------------------------------------------
\* The transactions the wallet signed since the process started are within every limit, whatever
\* waits in the queue and whenever the timers sweep: of one address a cooldown apart, of one IP
\* and of everybody no more than the limit in any hour, by the time they were asked for
\* (server.mjs, the three checks before lastDrip.set).
DripsWithinLimits ==
  LET ours == {r \in DOMAIN drips : drips[r].life = reboots /\ drips[r].stage \in {"queued", "sent", "paid", "failed"}}
      InHour(r) == {q \in ours : drips[q].at \in drips[r].at - Hour + 1 .. drips[r].at} IN
  /\ \A q, r \in ours : q < r /\ drips[q].address = drips[r].address => drips[r].at - drips[q].at >= Cooldown
  /\ \A r \in ours :
       /\ Cardinality({q \in InHour(r) : drips[q].ip = drips[r].ip}) <= MaxPerIp
       /\ Cardinality(InHour(r)) <= MaxPerHour

\* "EVERY CHECK THAT CAN REFUSE RUNS BEFORE ANY BUDGET IS SPENT" (server.mjs:276): a request that
\* is refused costs its address no cooldown and its IP no place.
RefusedSpendsNothing ==
  [][\A r \in DOMAIN drips' \ DOMAIN drips : drips'[r].stage \in {"refused", "full"} =>
       lastDrip' = lastDrip /\ spentBy' = spentBy]_faucetVars

\* What was sent is paid, unless the process stops first.
Unpaid(r) == r \in DOMAIN drips /\ drips[r].stage = "sent"
SentIsPaid == \A r \in 1 .. MaxDrips : Unpaid(r) ~> ~Unpaid(r)
=============================================================================
