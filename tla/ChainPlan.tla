----------------------------- MODULE ChainPlan -----------------------------
(***************************************************************************)
(* What the console decides before it spends anything on a new chain:      *)
(* planChain with the libraries it calls (identity, symbol, placement on   *)
(* the validators, fees, precompiles, allocation), and what                *)
(* judgeLedgerShape, the check of the public directory, then says of the   *)
(* chain.  Pure operators.                                                 *)
(*                                                                         *)
(* A request r has a field per option, with Absent, NoId, NoFees,          *)
(* NoSwitches and <<>> where the visitor left it out; fees has the fields  *)
(* that were typed. The books b hold what the console knows: live and      *)
(* retired chains, the numbers and names of earlier generations, the       *)
(* public registry's numbers, the nodes and the two settings perChain (0   *)
(* for the every-node model) and drill.  A name is [text, ticker]:         *)
(* spelling without case, and the symbol symbolFromName derives from it.   *)
(* Chain ids are scaled down: 10..19 is the drill space, 21..30 the real   *)
(* one, 20 the network's own C-chain.  Gas is in millions; base fees keep  *)
(* their order: 0, then 1 for the least legal one.                         *)
(***************************************************************************)
EXTENDS Integers, Sequences, FiniteSets, FiniteSetsExt

Absent == "absent"
NoId == -1
NoFees == <<>>
NoReward == [mode |-> "off", address |-> Absent]
NoSwitches == [on |-> {}, reward |-> NoReward]
Default(v, d) == IF v = Absent THEN d ELSE v

ParentId == 20
RealSpace == 21 .. 30
DrillSpace == 10 .. 19
Band(drill) == IF drill THEN 12 .. 14 ELSE 23 .. 25
WrongBand(n, drill) == n \in (IF drill THEN RealSpace ELSE DrillSpace)

-----------------------------------------------------------------------------
\* Names and symbols.
Reserved == {"LOVE9", "ETH"}
Known(b) == b.live \cup b.retired
SymbolOf(c) == Default(c.symbol, c.name.ticker)

NameFree(name, b) ==
  /\ \A c \in Known(b) : c.name.text # name.text
  /\ name.text \notin b.issuedNames

SymbolFree(symbol, b) ==
  symbol # Absent => symbol \notin Reserved /\ \A c \in Known(b) : SymbolOf(c) # symbol

-----------------------------------------------------------------------------
\* Numbers.  A typed number passes every book; an automatic one is the lowest of the block in
\* none of them, and there may be none left.
Ours(b) == {c.id : c \in Known(b)}
TypedIdFree(n, b) ==
  n > 0 /\ ~WrongBand(n, b.drill) /\ n \notin Ours(b) /\ n \notin b.taken /\ n \notin b.issued

\* Mutant: the first draft looked at this generation's book only.
FreeIds_HomeOnly(b) == Band(b.drill) \ Ours(b)
FreeIds(b) == Band(b.drill) \ (Ours(b) \cup b.issued \cup b.taken)

HasId(r, b) == IF r.id = NoId THEN FreeIds(b) # {} ELSE TypedIdFree(r.id, b)
ChainId(r, b) == IF r.id = NoId THEN Min(FreeIds(b)) ELSE r.id

-----------------------------------------------------------------------------
\* Placement: without perChain a ceiling on the network, with it one on each node and the
\* least loaded nodes, the lower name first.
ValidatorsOf(c, b) == IF c.on = {} THEN b.nodes ELSE c.on
NodeLoad(n, b) == Cardinality({c \in b.live : n \in ValidatorsOf(c, b)})
FreeNodes(b) == {n \in b.nodes : NodeLoad(n, b) < b.cap}
Placeable(b) ==
  IF b.perChain = 0 THEN Cardinality(b.live) < b.cap ELSE b.perChain <= Cardinality(FreeNodes(b))

Sooner(m, n, b) == NodeLoad(m, b) < NodeLoad(n, b) \/ (NodeLoad(m, b) = NodeLoad(n, b) /\ m < n)
Assigned(b) ==
  IF b.perChain = 0 THEN {}
  ELSE CHOOSE s \in kSubset(b.perChain, FreeNodes(b)) : \A m \in s, n \in FreeNodes(b) \ s : Sooner(m, n, b)

-----------------------------------------------------------------------------
\* Fees: the template, then the preset, then what was typed, within the rails.
Template == [gasLimit |-> 12, targetGas |-> 60, rate |-> 2, minBaseFee |-> 25, denominator |-> 36,
             minBlockCost |-> 0, maxBlockCost |-> 1000000, costStep |-> 200000]
PresetFees(preset) ==
  CASE preset = "zero-fee" -> [Template EXCEPT !.minBaseFee = 1, !.minBlockCost = 0, !.maxBlockCost = 0, !.costStep = 0]
    [] preset = "high-throughput" -> [Template EXCEPT !.gasLimit = 60, !.targetGas = 300]
    [] OTHER -> Template

Rails == [gasLimit |-> 12 .. 60, rate |-> 1 .. 10, minBaseFee |-> 1 .. 1000, denominator |-> 8 .. 1000]
FeesInRails(fees) == \A f \in DOMAIN fees : fees[f] \in Rails[f]

\* Mutant: a typed gas limit leaves the target of the template.
ApplyFees_KeepTarget(base, fees) == [f \in DOMAIN base |-> IF f \in DOMAIN fees THEN fees[f] ELSE base[f]]
ApplyFees(base, fees) ==
  LET typed == [f \in DOMAIN base |-> IF f \in DOMAIN fees THEN fees[f] ELSE base[f]]
  IN IF fees = NoFees THEN base ELSE [typed EXCEPT !.targetGas = 5 * typed.gasLimit]

VerifyFeeConfig(fc) ==
  /\ \A f \in {"gasLimit", "rate", "targetGas", "denominator", "minBaseFee"} : fc[f] > 0
  /\ 0 <= fc.minBlockCost /\ fc.minBlockCost <= fc.maxBlockCost /\ fc.costStep >= 0

-----------------------------------------------------------------------------
\* Precompiles: a preset turns one on, a request each of four; every one of them has the owner
\* as its admin.  FeeManager is always on, warp is the template's and has no admin.
Switches == {"nativeMinter", "deployerAllowList", "txAllowList"}
PresetSwitch(preset) ==
  CASE preset = "mintable" -> {"nativeMinter"}
    [] preset = "owner-deploy-only" -> {"deployerAllowList"}
    [] preset = "permissioned" -> {"txAllowList"}
    [] OTHER -> {}
Presets == {"standard", "zero-fee", "high-throughput", "mintable", "owner-deploy-only", "permissioned"}
PresetCompatible(r) == Default(r.preset, "standard") = "standard" \/ (r.fees = NoFees /\ r.precompiles = NoSwitches)

\* The reward manager: off, or a mode with or without an address ("zero" is the zero address).
RewardLegal(reward) ==
  \/ reward.mode \in {"off", "burn"}
  \/ reward.mode = "allowFeeRecipients" /\ reward.address = Absent
  \/ reward.mode = "rewardAddress" /\ reward.address \notin {Absent, "zero"}

TurnedOn(r) ==
  {"feeManager"} \cup r.precompiles.on \cup PresetSwitch(Default(r.preset, "standard"))
    \cup (IF r.precompiles.reward = NoReward THEN {} ELSE {"rewardManager"})

Admins(r, owner) == [p \in TurnedOn(r) |-> owner]

-----------------------------------------------------------------------------
\* Allocation: nothing typed is fifty million to the owner; a list is taken as it is when its
\* addresses differ, each gets something, and the owner is one of them.
Supply == 9000
DefaultAllocation(owner) == <<[address |-> owner, tokens |-> 50]>>
Allocation(r, owner) ==
  IF r.allocations = <<>> THEN DefaultAllocation(owner) ELSE r.allocations
MaxRecipients == 50
Library == {"multicall3", "erc20", "tokenFactory"}
AllocationLegal(list, owner) ==
  /\ Len(list) <= MaxRecipients
  /\ \A i, j \in DOMAIN list : i # j => list[i].address # list[j].address
  /\ \A i \in DOMAIN list : list[i].tokens >= 1
  /\ MapThenSumSet(LAMBDA i : list[i].tokens, DOMAIN list) <= Supply
  /\ \E i \in DOMAIN list : list[i].address = owner

-----------------------------------------------------------------------------
Owner(r) == Default(r.admin, "foundation")

\* planChain: whether it answers with a plan, and the plan.
Accepts(r, b) ==
  /\ NameFree(r.name, b)
  /\ SymbolFree(r.symbol, b)
  /\ Placeable(b)
  /\ HasId(r, b)
  /\ PresetCompatible(r)
  /\ Default(r.preset, "standard") \in Presets
  /\ FeesInRails(r.fees)
  /\ RewardLegal(r.precompiles.reward)
  /\ VerifyFeeConfig(ApplyFees(PresetFees(Default(r.preset, "standard")), r.fees))
  /\ AllocationLegal(Allocation(r, Owner(r)), Owner(r))
  /\ r.contracts => \A i \in DOMAIN Allocation(r, Owner(r)) : Allocation(r, Owner(r))[i].address \notin Library

RootGasLimit(fc) == fc.gasLimit

Genesis(r, b) ==
  LET fc == ApplyFees(PresetFees(Default(r.preset, "standard")), r.fees)
      list == Allocation(r, Owner(r))
  IN [id |-> ChainId(r, b), fees |-> fc, gasLimit |-> RootGasLimit(fc), admins |-> Admins(r, Owner(r)),
      balance |-> [a \in {list[i].address : i \in DOMAIN list} |-> (CHOOSE e \in {list[i] : i \in DOMAIN list} : e.address = a).tokens],
      installed |-> IF r.contracts THEN Library ELSE {}]

\* The record the creation will write.
Recorded(r, b) == [name |-> r.name, id |-> ChainId(r, b), symbol |-> r.symbol, on |-> Assigned(b)]

\* judgeLedgerShape of the public directory: every live number in the running block, none of
\* them retired.
Listed(b) ==
  /\ \A c \in b.live : c.id \in Band(b.drill)
  /\ {c.id : c \in b.live} \cap {c.id : c \in b.retired} = {}

-----------------------------------------------------------------------------
\* What subnet-evm and an owner need of an accepted plan: Genesis.Verify (both gas limits the
\* same), a base fee above zero or no block is ever built, a fee algorithm that aims at the
\* limit in force (the ratio of the template); the owner is the admin of every precompile
\* turned on and has something to pay gas with.
BornAlive(r, b) ==
  Accepts(r, b) =>
    LET g == Genesis(r, b) IN
    /\ g.gasLimit = g.fees.gasLimit /\ g.fees.targetGas = 5 * g.fees.gasLimit
    /\ g.fees.minBaseFee >= 1 /\ g.fees.minBlockCost <= g.fees.maxBlockCost
    /\ \A p \in DOMAIN g.admins : g.admins[p] = Owner(r)
    /\ Owner(r) \in DOMAIN g.balance /\ g.balance[Owner(r)] >= 1

\* The identity of an accepted plan is in none of the console's books: not a live or retired
\* chain's, not one of an earlier generation, not one of the public registry, not one of the
\* other band; a number the console draws is one of the running block and so not the C-chain's
\* (a typed one may be, see ApartFromParent); and its placement keeps every node, or the
\* network, within the cap.
FreshAndPlaced(r, b) ==
  Accepts(r, b) =>
    LET c == Recorded(r, b)
        after == [b EXCEPT !.live = @ \cup {c}]
    IN /\ c.id \notin {k.id : k \in Known(b)} \cup b.issued \cup b.taken
       /\ c.id \notin (IF b.drill THEN RealSpace ELSE DrillSpace)
       /\ r.id = NoId => c.id \in Band(b.drill) \ {ParentId}
       /\ \A k \in Known(b) : k.name.text # c.name.text
       /\ c.symbol # Absent => \A k \in Known(b) : SymbolOf(k) # c.symbol
       /\ \A n \in b.nodes : NodeLoad(n, after) <= b.cap
       /\ b.perChain > 0 => Cardinality(c.on) = b.perChain

\* chainid-test.mjs: the blocks "leave the parent chainId 9000000009 plus nine spare": no chain
\* has the number of the network's own C-chain.
ApartFromParent(r, b) == Accepts(r, b) => ChainId(r, b) # ParentId

\* The directory check accepts what the console has created.
PlannedIsListed(r, b) ==
  Accepts(r, b) /\ Listed(b) => Listed([b EXCEPT !.live = @ \cup {Recorded(r, b)}])

\* "Two chains with one ticker cannot be told apart in a wallet": no two chains show one symbol.
TickersDiffer(r, b) ==
  Accepts(r, b) => \A k \in Known(b) : SymbolOf(k) # SymbolOf(Recorded(r, b))
=============================================================================
