------------------------------ MODULE L1Batch ------------------------------
(***************************************************************************)
(* The batch tool of K1 (local-net/tools/k1/l1-batch): a plan of ledgers   *)
(* and the nodes that host them, `apply` that converts them on the P-Chain *)
(* with several workers and resumes from the lines of chains.jsonl,        *)
(* `render` and `router` that write what nodes track and where calls go.   *)
(*                                                                         *)
(* The P-Chain is external: a transaction may be accepted and its answer   *)
(* lost (the wallet times out), which the tool takes for a failure.        *)
(***************************************************************************)
EXTENDS Naturals, Sequences, FiniteSets

CONSTANTS Ledgers,     \* number of ledgers asked for (-count)
          Hosts,       \* number of host nodes
          PerNode,     \* -per-node
          ChainIdBase, ForbidLo, ForbidHi,
          Workers,     \* -workers
          MaxTries     \* bound: P-Chain attempts at one ledger

ASSUME BatchConstants ==
  /\ {Ledgers, Hosts, PerNode, Workers, MaxTries} \subseteq Nat \ {0}
  /\ {ChainIdBase, ForbidLo, ForbidHi} \subseteq Nat

VARIABLES plan,        \* <<>> or the node of each ledger, in order
          chain,       \* P-Chain: [ledger -> [subnets, chains, converted]] counts
          lines,       \* chains.jsonl: ledgers in the order of their lines; 0 is a torn line
          todo, at, step, firstErr,   \* apply: the ledgers of the work list, in the plan's order, each worker's
                                     \* place in it and its step, and whether the run has failed
          assignment, routes                \* what render gives the nodes, and router the callers

applyVars == <<todo, at, step, firstErr>>
servingVars == <<assignment, routes>>
batchVars == <<plan, chain, lines, applyVars, servingVars>>

Ledger == 1 .. Ledgers
Host == 1 .. Hosts
Steps == {"subnet", "chain", "convert", "write"}
NoSteps == [w \in 1 .. Workers |-> "stopped"]
Torn == 0

BatchInit ==
  /\ plan = <<>>
  /\ chain = [l \in Ledger |-> [subnets |-> 0, chains |-> 0, converted |-> 0]]
  /\ lines = <<>>
  /\ todo = {} /\ at = [w \in 1 .. Workers |-> 0] /\ step = NoSteps /\ firstErr = FALSE
  /\ assignment = [h \in Host |-> {}] /\ routes = {}

-----------------------------------------------------------------------------
\* plan: ledger by ledger, to the node with the least ledgers so far, the first of them.
Load(placed, l, h) == Cardinality({k \in 1 .. l - 1 : placed[k] = h})

LeastLoaded(placed, l, h) ==
  \A g \in Host : \/ Load(placed, l, h) < Load(placed, l, g)
                  \/ Load(placed, l, h) = Load(placed, l, g) /\ h <= g

Placement == {placed \in [Ledger -> Host] : \A l \in Ledger : LeastLoaded(placed, l, placed[l])}

IdOf(l) == ChainIdBase + l - 1
PlanAllowed ==
  /\ Hosts * PerNode >= Ledgers
  /\ \A l \in Ledger : ~(ForbidLo <= IdOf(l) /\ IdOf(l) <= ForbidHi)

Plan ==
  /\ plan = <<>> /\ PlanAllowed
  /\ plan' \in Placement
  /\ UNCHANGED <<chain, lines, applyVars, servingVars>>

-----------------------------------------------------------------------------
\* apply: what chains.jsonl holds is skipped, the rest is dealt round-robin.
OnRecord == {lines[i] : i \in DOMAIN lines} \ {Torn}
Readable == Torn \notin {lines[i] : i \in DOMAIN lines}          \* readChains
Stopped == \A w \in 1 .. Workers : step[w] = "stopped"

\* Mutant: the record of earlier runs is not read.
WorkList_All == Ledger

WorkList == Ledger \ OnRecord
Place(list, l) == Cardinality({k \in list : k <= l})

NextFor(w) == at[w] + Workers

Apply ==
  /\ plan # <<>> /\ Stopped /\ Readable /\ WorkList # {}
  /\ todo' = WorkList
  /\ at' = [w \in 1 .. Workers |-> w]
  /\ step' = [w \in 1 .. Workers |-> IF w <= Cardinality(WorkList) THEN "subnet" ELSE "stopped"]
  /\ firstErr' = FALSE
  /\ UNCHANGED <<plan, chain, lines, servingVars>>

\* One P-Chain transaction of convertLedger.  An error, a lost answer included, stops the worker.
Fail(w) == step' = [step EXCEPT ![w] = "stopped"] /\ firstErr' = TRUE

Issue(w, now, field, after) ==
  /\ step[w] = now
  /\ \E l \in todo : Place(todo, l) = at[w] /\
     \/ /\ chain[l][field] < MaxTries
        /\ chain' = [chain EXCEPT ![l][field] = @ + 1]
        /\ (step' = [step EXCEPT ![w] = after] /\ UNCHANGED firstErr) \/ Fail(w)
     \/ chain' = chain /\ Fail(w)
  /\ UNCHANGED <<plan, lines, todo, at, servingVars>>

CreateSubnet(w) == Issue(w, "subnet", "subnets", "chain")
CreateChain(w) == Issue(w, "chain", "chains", "convert")
Convert(w) == Issue(w, "convert", "converted", "write")

\* The line of the ledger, under the mutex; a write that fails leaves part of a line and
\* the worker goes on.
Record(w) ==
  /\ step[w] = "write"
  /\ \/ \E l \in todo : Place(todo, l) = at[w] /\ lines' = Append(lines, l) /\ UNCHANGED firstErr
     \/ lines' = Append(lines, Torn) /\ firstErr' = TRUE
  /\ at' = [at EXCEPT ![w] = NextFor(w)]
  /\ step' = [step EXCEPT ![w] = IF NextFor(w) <= Cardinality(todo) THEN "subnet" ELSE "stopped"]
  /\ UNCHANGED <<plan, chain, todo, servingVars>>

\* The process dies: nothing of the run is left but the file and the P-Chain.
Crash ==
  /\ ~Stopped
  /\ step' = NoSteps /\ firstErr' = TRUE
  /\ UNCHANGED <<plan, chain, lines, todo, at, servingVars>>

-----------------------------------------------------------------------------
\* render: the track list of every node and the assignment, from the lines; router: one
\* route per entry of the assignment.
Render ==
  /\ Stopped /\ Readable /\ OnRecord # {}
  /\ assignment' = [h \in Host |-> {l \in OnRecord : plan[l] = h}]
  /\ UNCHANGED <<plan, chain, lines, applyVars, routes>>

Router ==
  /\ routes' = UNION {assignment[h] : h \in Host}
  /\ UNCHANGED <<plan, chain, lines, applyVars, assignment>>

Worker(w) == CreateSubnet(w) \/ CreateChain(w) \/ Convert(w) \/ Record(w)

BatchNext ==
  \/ Plan \/ Apply \/ Crash \/ Render \/ Router
  \/ \E w \in 1 .. Workers : Worker(w)

BatchSpec == BatchInit /\ [][BatchNext]_batchVars

-----------------------------------------------------------------------------
\* Whatever runs, workers and crashes wrote the file: a ledger has one line, and only when
\* the P-Chain converted it; no node is given more than its slots; and a run of apply that
\* reports no error has left a line for every ledger of the plan.
RecordIsTrue ==
  /\ \A i, j \in DOMAIN lines : lines[i] = lines[j] /\ lines[i] # Torn => i = j
  /\ \A l \in OnRecord : chain[l].converted > 0
  /\ \A h \in Host : Cardinality({l \in OnRecord : plan[l] = h}) <= PerNode
  /\ todo # {} /\ Stopped /\ ~firstErr => OnRecord = Ledger

\* What chains.jsonl is for: the P-Chain converts no ledger twice.
ConvertedOnce == \A l \in Ledger : chain[l].converted <= 1
=============================================================================
