--------------------------- MODULE ChainRegistry ---------------------------
(***************************************************************************)
(* What the console promises about the identity of a chain, and nothing    *)
(* else: a job reserves a name and an EVM chain ID that no other chain     *)
(* holds, it is then recorded as live, or retired, or given back before it *)
(* ever reached the P-chain, and a recorded or retired chain keeps its     *)
(* identity for ever.  ConsoleOps is shown to implement it.                *)
(***************************************************************************)

CONSTANTS Job,      \* creation jobs, one per reservation
          Name,     \* names, up to letter case
          ChainId   \* EVM chain IDs

VARIABLES status,   \* [Job -> Status]
          ident     \* [Job -> identity]; Unnamed before the reservation

regvars == <<status, ident>>

Status   == {"free", "reserved", "void", "live", "retired"}
Unnamed  == [named |-> FALSE]
Identity == [named : {TRUE}, name : Name, cid : ChainId]

Holding == {j \in Job : status[j] \in {"reserved", "live", "retired"}}

RegistryInit == /\ status = [j \in Job |-> "free"]
                /\ ident = [j \in Job |-> Unnamed]

Reserve(j, n, c) ==
  /\ status[j] = "free"
  /\ \A k \in Holding : ident[k].name # n /\ ident[k].cid # c
  /\ status' = [status EXCEPT ![j] = "reserved"]
  /\ ident' = [ident EXCEPT ![j] = [named |-> TRUE, name |-> n, cid |-> c]]

GiveBack(j) ==
  /\ status[j] = "reserved"
  /\ status' = [status EXCEPT ![j] = "void"]
  /\ UNCHANGED ident

Admit(j) ==
  /\ status[j] = "reserved"
  /\ status' = [status EXCEPT ![j] = "live"]
  /\ UNCHANGED ident

Retire(j) ==
  /\ status[j] \in {"reserved", "live"}
  /\ status' = [status EXCEPT ![j] = "retired"]
  /\ UNCHANGED ident

RegistryNext == \E j \in Job : \/ \E n \in Name, c \in ChainId : Reserve(j, n, c)
                               \/ GiveBack(j)
                               \/ Admit(j)
                               \/ Retire(j)

RegistrySpec == RegistryInit /\ [][RegistryNext]_regvars
=============================================================================
