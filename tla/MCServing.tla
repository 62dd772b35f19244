------------------------------ MODULE MCServing ------------------------------
(* What a mutation request passes on its way, each part checked on its own: the *)
(* maintenance gate with two handlers and two operators, and the serial queue   *)
(* with the operation journal.  which says which one runs; both have liveness,  *)
(* so no symmetry.                                                             *)
EXTENDS MaintenanceGate, OperationQueue

CONSTANTS node1, node2

VARIABLE which

OneNode == <<node1>>
TwoNodes == <<node1, node2>>

Init == GateInit /\ QueueInit /\ which \in {"gate", "queue"}

Next ==
  \/ which = "gate" /\ GateNext /\ UNCHANGED <<queueVars, which>>
  \/ which = "queue" /\ QueueNext /\ UNCHANGED <<gateVars, which>>

Spec == Init /\ [][Next]_<<gateVars, queueVars, which>>

\* The fairness of the part that runs: a handler finishes, a task settles.
FairSpec ==
  /\ Spec
  /\ \A h \in Handler : WF_gateVars(which = "gate" /\ Release(h))
  /\ \A r \in Request : WF_queueVars(which = "queue" /\ \E f \in BOOLEAN : Settle(r, f))
=============================================================================
