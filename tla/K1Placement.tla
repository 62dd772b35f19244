---------------------------- MODULE K1Placement ----------------------------
(***************************************************************************)
(* Where the nodes of the K1 inventory go (placeNodesWith,                 *)
(* nodesFromInventory and compose of local-net/tools/k1/l1-batch/k1.go):   *)
(* names, addresses and ports, the beacons a node starts from, the         *)
(* identity it needs.                                                      *)
(*                                                                         *)
(* An inventory is a sequence of machines [mothers, hosts].  A port is its *)
(* distance from 9650, an address the last part of the machine's bridge.   *)
(***************************************************************************)
EXTENDS Naturals, Sequences, FiniteSets

HostAPIBase == 0
HostStakingBase == 1
MotherStakingBase == 11
MotherAPIBase == 150
ApiStep == 10

\* Mutant: the API ports of the mothers start at 9700, as in the first draft.
APIPort_FirstDraft(mother, index) == (IF mother THEN 50 ELSE HostAPIBase) + ApiStep * (index - 1)

APIPort(mother, index) == (IF mother THEN MotherAPIBase ELSE HostAPIBase) + ApiStep * (index - 1)
StakingPort(mother, index) == (IF mother THEN MotherStakingBase ELSE HostStakingBase) + index - 1
Address(mother, index) == (IF mother THEN 10 ELSE 20) + index

\* How many mothers, or hosts, a machine has.
Count(inv, mi, mother) == IF mother THEN inv[mi].mothers ELSE inv[mi].hosts

\* Names are numbered over the whole inventory: M1..., h01...
Before(inv, mi, mother) == UNION {{m} \X (1 .. Count(inv, m, mother)) : m \in 1 .. mi - 1}
Number(inv, mi, mother, index) == index + Cardinality(Before(inv, mi, mother))

NodeAt(inv, mi, mother, index) ==
  [mother |-> mother, machine |-> mi, number |-> Number(inv, mi, mother, index),
   address |-> Address(mother, index), staking |-> StakingPort(mother, index), api |-> APIPort(mother, index)]
PlaceNodes(inv) ==
  UNION {UNION {{NodeAt(inv, mi, mother, i) : i \in 1 .. Count(inv, mi, mother)}
                  : mother \in BOOLEAN} : mi \in DOMAIN inv}

\* plan takes the hosts only, by the machine and the API port.
NodesFromInventory(inv) == {n \in PlaceNodes(inv) : ~n.mother}

\* compose: refused without an identity for every host or without a beacon; the first
\* mother starts from nothing, a node reaches a mother of its own machine inside, others
\* by the machine's address.
Beacons(inv) == {n \in PlaceNodes(inv) : n.mother}
Composed(inv, identities) ==
  /\ {n.number : n \in NodesFromInventory(inv)} \subseteq identities
  /\ Beacons(inv) # {}

BootstrapOf(inv, n) ==
  IF n.mother /\ n.number = 1 THEN {}
  ELSE {[machine |-> b.machine, inside |-> b.machine = n.machine, staking |-> b.staking] : b \in Beacons(inv)}

-----------------------------------------------------------------------------
\* What docker needs of a machine: no two of its nodes on one port or one address.  What
\* the network needs: every node but the first starts from every mother, and plan gives
\* each host a URI of its own.
PlacementFits(inv) ==
  LET nodes == PlaceNodes(inv)
      ports(n) == {n.staking, n.api}
  IN /\ \A m, n \in nodes : m # n =>
          /\ <<m.mother, m.number>> # <<n.mother, n.number>>
          /\ m.machine = n.machine => ports(m) \cap ports(n) = {} /\ m.address # n.address
     /\ \A n \in nodes : n.staking # n.api
     /\ \A n \in nodes \ {b \in Beacons(inv) : b.number = 1} : Cardinality(BootstrapOf(inv, n)) = Cardinality(Beacons(inv))
=============================================================================
