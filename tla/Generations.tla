----------------------------- MODULE Generations -----------------------------
(***************************************************************************)
(* Identities across the generations of the network: the ledger of the     *)
(* console on its machine, the ledgers kept in the repository, the list of *)
(* every number and name ever issued, and the tools around a re-genesis    *)
(* (close-ledger-before-regenesis.mjs, gen-chainid-issued.mjs,             *)
(* reopen-chain-creation.mjs, generation-gate.mjs).                        *)
(*                                                                         *)
(* The operator is external and follows the runbook only in this: he pulls *)
(* with the door closed and a green --check before he erases the network,  *)
(* and opens the door when the tool reports its first steps ready.         *)
(* Everything else is free: which file is lost, which tool runs when and   *)
(* how often, what of the compacted ledger reaches the machine.  A chain   *)
(* is its folded name and its number, the number the generation of its     *)
(* block and its place in it.                                              *)
(***************************************************************************)
EXTENDS Naturals, FiniteSets

CONSTANTS Names, MaxGen, MaxCreates,   \* bounds
          BlockSize,                   \* numbers of a generation's block
          Files                        \* bound: names of archived ledgers (one a day)

ASSUME GenerationConstants ==
  /\ {MaxGen, MaxCreates, BlockSize} \subseteq Nat /\ IsFiniteSet(Names) /\ IsFiniteSet(Files)

Ids == (0 .. MaxGen) \X (1 .. BlockSize)
Empty == [live |-> {}, retired |-> {}]
NoIssued == [ids |-> {}, names |-> {}]

VARIABLES machine,   \* its ledger, its files, the network it runs
          console,   \* the process: what it read when it started
          repo,      \* the checkout: archived ledgers, chainid-issued.json and -released.json
          pulled,    \* the ledger pulled since the door was closed, and whether one was
          created    \* every chain there ever was, in the order of its creation

genVars == <<machine, console, repo, pulled, created>>

Records(ledger) == ledger.live \cup ledger.retired
IdsOf(records) == {c.id : c \in records}
NamesOf(records) == {c.name : c \in records}

GenInit ==
  /\ machine = [ledger |-> Empty, issued |-> NoIssued, build |-> 0, gen |-> 0]
  /\ console = [open |-> TRUE, issued |-> NoIssued, build |-> 0]
  /\ repo = [archive |-> [f \in Files |-> {}], issued |-> NoIssued, released |-> NoIssued, build |-> 0]
  /\ pulled = [ledger |-> Empty, fresh |-> FALSE]
  /\ created = {}

-----------------------------------------------------------------------------
\* The console.  A typed number may be of any block, an automatic one is a free one of its own
\* block: both are free numbers.
JudgeGeneration == console.build = machine.gen

Free(id) == id \notin IdsOf(Records(machine.ledger)) \cup console.issued.ids

Create(name, id) ==
  /\ console.open /\ JudgeGeneration /\ Cardinality(created) < MaxCreates
  /\ name \notin NamesOf(Records(machine.ledger)) \cup console.issued.names
  /\ Free(id)
  /\ machine' = [machine EXCEPT !.ledger.live = @ \cup {[name |-> name, id |-> id]}]
  /\ created' = created \cup {[name |-> name, id |-> id, nth |-> Cardinality(created) + 1]}
  /\ UNCHANGED <<console, repo, pulled>>

Revoke(c) ==
  /\ c \in machine.ledger.live
  /\ machine' = [machine EXCEPT !.ledger = [live |-> @.live \ {c}, retired |-> @.retired \cup {c}]]
  /\ UNCHANGED <<console, repo, pulled, created>>

\* A restart reads the door, the list and the code again.
Booted(open) == console' = [open |-> open, issued |-> machine.issued, build |-> machine.build]

CloseDoor ==
  /\ console.open /\ Booted(FALSE)
  /\ pulled' = [pulled EXCEPT !.fresh = FALSE]
  /\ UNCHANGED <<machine, repo, created>>

-----------------------------------------------------------------------------
\* close-ledger-before-regenesis.mjs.  --pull keeps a ledger with records the repository has
\* not seen, in a file named for the day.
Known == UNION {repo.archive[f] : f \in Files}

Pull(f) ==
  /\ repo' = IF Records(machine.ledger) \subseteq Known THEN repo
             ELSE [repo EXCEPT !.archive[f] = Records(machine.ledger)]
  /\ pulled' = [ledger |-> machine.ledger, fresh |-> ~console.open]
  /\ UNCHANGED <<machine, console, created>>

\* --compact: nothing live, nothing lost.
Compacted(ledger) == [live |-> {}, retired |-> Records(ledger)]

-----------------------------------------------------------------------------
\* gen-chainid-issued.mjs.
Rebuilt == [ids |-> IdsOf(Known) \ repo.released.ids, names |-> NamesOf(Known) \ repo.released.names]

\* Mutant: no ratchet, --write writes what it managed to build.
Unaccounted_None(before, after) == NoIssued

Unaccounted(before, after) ==
  [ids   |-> before.ids \ (after.ids \cup repo.released.ids),
   names |-> before.names \ (after.names \cup repo.released.names)]

Write ==
  /\ Unaccounted(repo.issued, Rebuilt) = NoIssued
  /\ repo' = [repo EXCEPT !.issued = Rebuilt]
  /\ UNCHANGED <<machine, console, pulled, created>>

Checked == repo.issued = Rebuilt

\* A person declares a chain released, in the file.
Release(c) ==
  /\ c \in Known
  /\ repo' = [repo EXCEPT !.released = [ids |-> @.ids \cup {c.id}, names |-> @.names \cup {c.name}]]
  /\ UNCHANGED <<machine, console, pulled, created>>

\* A ledger under docs/archive goes missing, after the list was once written of it.
Listed(records) ==
  /\ IdsOf(records) \subseteq repo.issued.ids \cup repo.released.ids
  /\ NamesOf(records) \subseteq repo.issued.names \cup repo.released.names

Lose(f) ==
  /\ repo.archive[f] # {} /\ Listed(repo.archive[f])
  /\ repo' = [repo EXCEPT !.archive[f] = {}]
  /\ UNCHANGED <<machine, console, pulled, created>>

-----------------------------------------------------------------------------
\* Files go to the machine one by one, whenever somebody copies them.
ShipIssued ==
  /\ machine' = [machine EXCEPT !.issued = repo.issued]
  /\ UNCHANGED <<console, repo, pulled, created>>

ShipBuild ==
  /\ machine' = [machine EXCEPT !.build = repo.build]
  /\ UNCHANGED <<console, repo, pulled, created>>

Upload ==
  /\ ~console.open /\ pulled.fresh
  /\ machine' = [machine EXCEPT !.ledger = Compacted(pulled.ledger)]
  /\ UNCHANGED <<console, repo, pulled, created>>

\* The network is erased and born again, the ledger with it or not.
Regenesis ==
  /\ ~console.open /\ pulled.fresh /\ Checked /\ machine.gen < MaxGen
  /\ \E ledger \in {machine.ledger, Empty} : machine' = [machine EXCEPT !.gen = @ + 1, !.ledger = ledger]
  /\ repo' = [repo EXCEPT !.build = machine.gen + 1]
  /\ UNCHANGED <<console, pulled, created>>

\* reopen-chain-creation.mjs: the files on the machine are those of the checkout, and the public
\* directory lists no chain of another block; then a person opens the door.
Shipped == machine.issued = repo.issued /\ machine.build = repo.build
DirectoryClean == \A c \in machine.ledger.live : c.id[1] = machine.gen
Ready == Shipped /\ DirectoryClean

OpenDoor ==
  /\ ~console.open /\ Ready /\ Booted(TRUE)
  /\ pulled' = [pulled EXCEPT !.fresh = FALSE]
  /\ UNCHANGED <<machine, repo, created>>

GenNext ==
  \/ \E n \in Names, id \in Ids : Create(n, id)
  \/ \E c \in machine.ledger.live : Revoke(c)
  \/ CloseDoor \/ OpenDoor \/ Write \/ ShipIssued \/ ShipBuild \/ Upload \/ Regenesis
  \/ \E f \in Files : Pull(f) \/ Lose(f)
  \/ \E c \in Known : Release(c)

GenSpec == GenInit /\ [][GenNext]_genVars

-----------------------------------------------------------------------------
\* A number or a name is given to one chain, of whatever generation, unless somebody released
\* it: a wallet of a network that is gone still holds it, and signatures replay ("THIS LIST MAY
\* ONLY GROW", gen-chainid-issued.mjs).
NeverReissued ==
  \A c, d \in created :
    c # d => /\ c.id # d.id \/ c.id \in repo.released.ids
             /\ c.name # d.name \/ c.name \in repo.released.names
=============================================================================
