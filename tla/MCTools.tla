------------------------------ MODULE MCTools ------------------------------
(* The operators' tools, each checked on its own: the batch of ledgers, the     *)
(* tools that spend, the snapshot of a node, the asset bridge, the ceremony,    *)
(* the faucet.  which says which one runs; the pure modules are evaluated on    *)
(* one input of a small set, in a state of its own.                            *)
EXTENDS L1Batch, SpendTools, ChainSnapshot, AssetBridge, Ceremony, Faucet, ChainPlan, K1Placement

VARIABLES which, input

vars == <<batchVars, spendVars, snapVars, bridgeVars, ceremonyVars, faucetVars, which, input>>

-----------------------------------------------------------------------------
\* Requests of a chain and the books they meet.
Titled(t, k) == [text |-> t, ticker |-> k]
Chained(t, k, id, symbol, on) == [name |-> Titled(t, k), id |-> id, symbol |-> symbol, on |-> on]
Plain == [name |-> Titled("new", "NEW"), admin |-> Absent, id |-> NoId, preset |-> Absent, symbol |-> Absent,
          fees |-> NoFees, precompiles |-> NoSwitches, allocations |-> <<>>, contracts |-> FALSE]
Blank == [live |-> {}, retired |-> {}, issued |-> {}, issuedNames |-> {}, taken |-> {}, nodes |-> 1 .. 3,
          perChain |-> 0, cap |-> 2, drill |-> FALSE]

\* Fees at both sides of each rail under every preset.
Field(f, values) == {NoFees} \cup {f :> v : v \in values}
FeeRequests ==
  {[Plain EXCEPT !.preset = p, !.fees = g @@ t @@ m @@ d] :
     p \in Presets \cup {Absent, "other"},
     g \in Field("gasLimit", {11, 12, 60, 61}), t \in Field("rate", {0, 1, 10}),
     m \in Field("minBaseFee", {0, 1, 1001}), d \in Field("denominator", {7, 8})}

\* Every combination of switches and rewards, with and without an owner.
Rewards == {NoReward} \cup [mode : {"burn", "allowFeeRecipients", "rewardAddress", "other"}, address : {Absent, "zero", "w"}]
PrecompileRequests ==
  {[Plain EXCEPT !.preset = p, !.admin = a, !.precompiles = [on |-> on, reward |-> w]] :
    p \in Presets, a \in {Absent, "w"}, on \in SUBSET Switches, w \in Rewards}

\* Lists of up to two recipients, a library contract among the addresses.
Shares == [address : {"w", "foundation", "erc20"}, tokens : {0, 1, 4500, 9000}]
AllocationRequests ==
  {[Plain EXCEPT !.admin = a, !.allocations = l, !.contracts = c] :
    a \in {Absent, "w"}, c \in BOOLEAN, l \in {<<>>} \cup [1 .. 1 -> Shares] \cup [1 .. 2 -> Shares]}

\* Names, numbers and symbols that meet each of the books.
IdentityRequests ==
  {[Plain EXCEPT !.name = n, !.id = i, !.symbol = k] :
    n \in {Titled("new", "NEW"), Titled("old", "OLD"), Titled("gone", "GONE"), Titled("new2", "OLD")},
    i \in {NoId, 0, 5, 12, 20, 21, 23, 24, 25}, k \in {Absent, "ABC", "OLD", "LOVE9"}}
Books ==
  {[Blank EXCEPT !.live = l, !.retired = r, !.issued = i, !.issuedNames = {"gone"}, !.taken = k,
                 !.perChain = v, !.cap = c, !.drill = d] :
    l \in {{}, {Chained("old", "OLD", 23, Absent, {})},
           {Chained("old", "OLD", 24, "ABC", {1, 2}), Chained("two", "TWO", 25, Absent, {2, 3})}},
    r \in {{}, {Chained("ret", "RET", 24, Absent, {})}}, i \in {{}, {24}}, k \in {{}, {23, 12}, {25}},
    v \in {0, 2}, c \in {1, 2}, d \in BOOLEAN}

PlanInputs ==
  {<<r, Blank>> : r \in FeeRequests \cup PrecompileRequests \cup AllocationRequests}
    \cup IdentityRequests \X Books

\* Inventories of one to three machines: up to nine mothers and nine hosts on a machine, and
\* smaller ones side by side.
Machine(m) == [mothers : 0 .. m, hosts : 0 .. m]
Inventories == [1 .. 1 -> Machine(9)] \cup [1 .. 2 -> Machine(4)] \cup [1 .. 3 -> Machine(2)]

NoInput == <<>>
NoCeremony == blocks = <<>> /\ sent = None /\ run = [at |-> "absent"]

\* Two bridges that pin each other, and what other contracts send: one of the same chain, one
\* of the same address on a chain of its own, and a copy beside the other end.
BridgeChains == [left |-> "A", right |-> "B"]
BridgeSources == [left |-> "right", right |-> "left"]
Claim(c, from, n, i) == [chain |-> c, contract |-> from, to |-> "w", amount |-> n, seq |-> i]
Forged == {Claim("A", "other", 2, 1), Claim("C", "left", 2, 1), Claim("B", "copy", 1, 2)}

\* The faucet tells no two addresses and no two callers apart.
FaucetSymmetry == Permutations(Addresses) \cup Permutations(IPs)

-----------------------------------------------------------------------------
Init ==
  /\ BatchInit /\ SpendInit /\ SnapInit /\ BridgeInit /\ FaucetInit
  /\ \/ which \in {"batch", "spend", "snapshot", "bridge", "faucet"} /\ input = NoInput /\ NoCeremony
     \/ which = "ceremony" /\ input = NoInput /\ CeremonyInit
     \/ which = "plan" /\ input \in PlanInputs /\ NoCeremony
     \/ which = "placement" /\ input \in Inventories /\ NoCeremony

Next ==
  \/ which = "batch" /\ BatchNext /\ UNCHANGED <<spendVars, snapVars, bridgeVars, ceremonyVars, faucetVars, which, input>>
  \/ which = "spend" /\ SpendNext /\ UNCHANGED <<batchVars, snapVars, bridgeVars, ceremonyVars, faucetVars, which, input>>
  \/ which = "snapshot" /\ SnapNext /\ UNCHANGED <<batchVars, spendVars, bridgeVars, ceremonyVars, faucetVars, which, input>>
  \/ which = "bridge" /\ BridgeNext /\ UNCHANGED <<batchVars, spendVars, snapVars, ceremonyVars, faucetVars, which, input>>
  \/ which = "ceremony" /\ CeremonyNext /\ UNCHANGED <<batchVars, spendVars, snapVars, bridgeVars, faucetVars, which, input>>
  \/ which = "faucet" /\ FaucetNext /\ UNCHANGED <<batchVars, spendVars, snapVars, bridgeVars, ceremonyVars, which, input>>

Spec == Init /\ [][Next]_vars

-----------------------------------------------------------------------------
\* BornAlive and FreshAndPlaced of ChainPlan, on every input: an accepted plan is a chain that
\* builds blocks and that its owner can govern, with an identity in none of the console's books
\* (a drawn number in the running block) and a placement within the caps (planChain and the
\* libraries it calls).
PlanIsSound == which = "plan" => BornAlive(input[1], input[2]) /\ FreshAndPlaced(input[1], input[2])

\* ApartFromParent of ChainPlan, on every input: no chain takes the number of the C-chain.
PlansApartFromParent == which = "plan" => ApartFromParent(input[1], input[2])

\* PlacementFits of K1Placement, on every inventory compose can start: nodes of one machine
\* share no port and no address, and every node finds every beacon (placeNodesWith, compose).
NodesFit == which = "placement" /\ Composed(input, 1 .. 9) => PlacementFits(input)
=============================================================================
