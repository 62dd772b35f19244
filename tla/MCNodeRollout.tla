---------------------------- MODULE MCNodeRollout ----------------------------
(* The order in which the instances roll a list out: the public node is last. *)
EXTENDS NodeRollout

Order3 == <<"n1", "n2", "pub">>
=============================================================================
