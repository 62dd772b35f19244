-------------------------- MODULE DurableRegister --------------------------
(***************************************************************************)
(* What writing the chain ledger promises its callers: a register whose    *)
(* reader finds, whatever happens, a whole value no older than the last    *)
(* one confirmed.  Between a write and its confirmation a loss of power    *)
(* may take the reader back to an earlier of the values still possible.    *)
(***************************************************************************)
EXTENDS Naturals

VARIABLES seen,   \* the value a reader finds now
          maybe,  \* the values a reader may find after a loss of power
          acked   \* the value last confirmed to a caller

RegisterInit == maybe = {seen} /\ acked = seen

\* A newer value becomes visible.
Try == /\ seen' \in Nat /\ (seen \in Nat => seen' > seen)
       /\ maybe' = maybe \cup {seen'}
       /\ UNCHANGED acked

\* The visible value is on the disk; only then may it be confirmed.
Settle == maybe' = {seen} /\ UNCHANGED seen /\ acked' \in {acked, seen}

Lose == seen' \in maybe /\ maybe' = {seen'} /\ UNCHANGED acked

RegisterNext == Try \/ Settle \/ Lose
RegisterSpec == RegisterInit /\ [][RegisterNext]_<<seen, maybe, acked>>
=============================================================================
