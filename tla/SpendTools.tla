----------------------------- MODULE SpendTools -----------------------------
(***************************************************************************)
(* The Go tools that spend: `l1-batch create` (a subnet, its validators,   *)
(* its chain), `c-to-x` (an export and an import) and `stake-validator`    *)
(* (one transaction).  Each makes its refusals first and then issues       *)
(* transactions one after another; nothing is kept between runs.           *)
(*                                                                         *)
(* The chains are external: a transaction is refused, accepted, or         *)
(* accepted with its answer lost, which a tool takes for an error.         *)
(***************************************************************************)
EXTENDS Naturals, FiniteSets, Sequences

CONSTANTS Nodes,       \* node identifiers an operator may name
          Amount,      \* what c-to-x and stake-validator are asked to move
          MaxRuns      \* bound: runs of the tools

ASSUME SpendConstants == IsFiniteSet(Nodes) /\ {Amount, MaxRuns} \subseteq Nat \ {0}

VARIABLES term,        \* node -> what is left of its term on the primary network
          subnets,     \* sequence of [asked, validators, chain]
          funds,       \* [C, shared, X, P]: the fund's balances
          staked,      \* the stake-validator transaction is on the chain
          spender      \* the run under way: [tool, step, issue, nodes], or step "none"

spendVars == <<term, subnets, funds, staked, spender>>
NoRun == [tool |-> "none", step |-> "none", issue |-> FALSE, nodes |-> {}, left |-> {}, runs |-> 0]

SpendInit ==
  /\ term = [n \in Nodes |-> "long"]
  /\ subnets = <<>>
  /\ funds = [C |-> 2 * Amount, shared |-> 0, X |-> 0, P |-> Amount]
  /\ staked = FALSE
  /\ spender = NoRun

Start(tool, step, issue, nodes) ==
  /\ spender.step = "none" /\ spender.runs < MaxRuns
  /\ spender' = [tool |-> tool, step |-> step, issue |-> issue, nodes |-> nodes, left |-> nodes,
                 runs |-> spender.runs + 1]
  /\ UNCHANGED <<term, subnets, funds, staked>>

Ended == [NoRun EXCEPT !.runs = spender.runs]
Goes(step) == spender' = [spender EXCEPT !.step = step]
At(tool, step) == spender.tool = tool /\ spender.step = step

\* A node's term runs down while tools run.
TermRuns(n) ==
  /\ term[n] # "none"
  /\ term' = [term EXCEPT ![n] = IF @ = "long" THEN "short" ELSE "none"]
  /\ UNCHANGED <<subnets, funds, staked, spender>>

-----------------------------------------------------------------------------
\* create: the refusals.  Every named node must be a current validator with more than 24 h.
MayValidate(n) == term[n] = "long"

StartCreate == \E nodes \in SUBSET Nodes : Start("create", "check", TRUE, nodes)

CreateChecks ==
  /\ At("create", "check")
  /\ IF spender.nodes # {} /\ \A n \in spender.nodes : MayValidate(n)
       THEN Goes("subnet") ELSE spender' = Ended
  /\ UNCHANGED <<term, subnets, funds, staked>>

IssueSubnet ==
  /\ At("create", "subnet")
  /\ \/ /\ subnets' = Append(subnets, [asked |-> spender.nodes, validators |-> {}, chain |-> FALSE])
        /\ Goes("validators") \/ spender' = Ended
     \/ subnets' = subnets /\ spender' = Ended
  /\ UNCHANGED <<term, funds, staked>>

\* The nodes are registered one by one; the first error ends the run.
\* Mutant: a node that is refused is passed over.
AfterRefusal_Next(n) == spender' = [spender EXCEPT !.left = @ \ {n}]
AfterRefusal(n) == spender' = Ended

IssueValidator(n) ==
  /\ At("create", "validators") /\ n \in spender.left
  /\ LET last == Len(subnets) IN
     \/ /\ term[n] # "none"
        /\ subnets' = [subnets EXCEPT ![last].validators = @ \cup {n}]
        /\ spender' = [spender EXCEPT !.left = @ \ {n}] \/ AfterRefusal(n)
     \/ subnets' = subnets /\ AfterRefusal(n)
  /\ UNCHANGED <<term, funds, staked>>

IssueChain ==
  /\ At("create", "validators") /\ spender.left = {}
  /\ \/ subnets' = [subnets EXCEPT ![Len(subnets)].chain = TRUE]
     \/ subnets' = subnets
  /\ spender' = Ended
  /\ UNCHANGED <<term, funds, staked>>

-----------------------------------------------------------------------------
\* c-to-x: a dry run reports; --issue always exports, waits and imports what is waiting.
StartMove == \E issue \in BOOLEAN : Start("move", "check", issue, {})

\* A balance that cannot be read does not stop it, one that is read short does.
MoveChecks ==
  /\ At("move", "check")
  /\ (spender.issue /\ Goes("export")) \/ spender' = Ended
  /\ UNCHANGED <<term, subnets, funds, staked>>

Export ==
  /\ At("move", "export")
  /\ \/ /\ funds.C >= Amount
        /\ funds' = [funds EXCEPT !.C = @ - Amount, !.shared = @ + Amount]
        /\ Goes("import") \/ spender' = Ended
     \/ funds' = funds /\ spender' = Ended
  /\ UNCHANGED <<term, subnets, staked>>

Import ==
  /\ At("move", "import")
  /\ \/ funds' = [funds EXCEPT !.X = @ + funds.shared, !.shared = 0]
     \/ funds' = funds
  /\ spender' = Ended
  /\ UNCHANGED <<term, subnets, staked>>

-----------------------------------------------------------------------------
\* stake-validator: the node's identity is checked and the balance on P is read; a balance
\* that cannot be read does not stop it.
StartStake == \E issue \in BOOLEAN : Start("stake", "check", issue, {})

StakeChecks ==
  /\ At("stake", "check")
  /\ (spender.issue /\ Goes("issue")) \/ spender' = Ended
  /\ UNCHANGED <<term, subnets, funds, staked>>

IssueStake ==
  /\ At("stake", "issue")
  /\ \/ ~staked /\ funds.P >= Amount /\ staked' = TRUE /\ funds' = [funds EXCEPT !.P = @ - Amount]
     \/ UNCHANGED <<staked, funds>>
  /\ spender' = Ended
  /\ UNCHANGED <<term, subnets>>

SpendNext ==
  \/ StartCreate \/ CreateChecks \/ IssueSubnet \/ IssueChain
  \/ StartMove \/ MoveChecks \/ Export \/ Import
  \/ StartStake \/ StakeChecks \/ IssueStake
  \/ \E n \in Nodes : TermRuns(n) \/ IssueValidator(n)

SpendSpec == SpendInit /\ [][SpendNext]_spendVars

-----------------------------------------------------------------------------
\* A chain that exists has exactly the validators its run was asked for, whatever answers
\* were lost and whatever terms ran down on the way; and no stake is taken twice.
ExactlyThese ==
  /\ \A i \in DOMAIN subnets : subnets[i].chain => subnets[i].validators = subnets[i].asked /\ subnets[i].asked # {}
  /\ staked <=> funds.P < Amount

\* What c-to-x says of an import that failed: run again, and the export is not made again.
ExportedOnce == [][funds'.shared > funds.shared => funds.shared = 0]_spendVars
=============================================================================
