------------------------------ MODULE MCFleet ------------------------------
(* The machines around a running chain, each checked on its own: the rollout   *)
(* of a list over the nodes, the upgrades of a chain, the door of the console, *)
(* the deployment of the console's release and the identities of chains over   *)
(* the generations of the network.  which says which one runs.                 *)
EXTENDS MCNodeRollout, ChainUpgrades, WalletDoor, ConsoleDeploy, Generations

VARIABLE which

vars == <<rolloutVars, governVars, doorVars, deployVars, genVars, which>>

\* The same rollouts where the limit of subnets per node stops some of them.
Walled == INSTANCE NodeRollout WITH Wall <- 1

Init ==
  /\ RolloutInit /\ GovernInit /\ DoorInit /\ DeployInit /\ GenInit
  /\ which \in {"rollout", "walled", "upgrades", "door", "deploy", "generations"}

Next ==
  \/ which = "rollout" /\ RolloutNext /\ UNCHANGED <<governVars, doorVars, deployVars, genVars, which>>
  \/ which = "walled" /\ Walled!RolloutNext /\ UNCHANGED <<governVars, doorVars, deployVars, genVars, which>>
  \/ which = "upgrades" /\ GovernNext /\ UNCHANGED <<rolloutVars, doorVars, deployVars, genVars, which>>
  \/ which = "door" /\ DoorNext /\ UNCHANGED <<rolloutVars, governVars, deployVars, genVars, which>>
  \/ which = "deploy" /\ DeployNext /\ UNCHANGED <<rolloutVars, governVars, doorVars, genVars, which>>
  \/ which = "generations" /\ GenNext /\ UNCHANGED <<rolloutVars, governVars, doorVars, deployVars, which>>

Spec == Init /\ [][Next]_vars
=============================================================================
