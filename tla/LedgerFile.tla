----------------------------- MODULE LedgerFile -----------------------------
(***************************************************************************)
(* Writing the chain ledger (local-net/lib/ledger-write.mjs): the previous *)
(* bytes to .bak, then the new bytes over the ledger, each through a .tmp  *)
(* that is written, flushed, renamed and followed by a flush of the        *)
(* directory.  The process may die and a call may throw at any step, and   *)
(* power may fail: then the directory is any of the states that the calls  *)
(* since its last flush can have left, and a file that was not flushed may *)
(* be torn.  One console writes; on Windows, where a directory cannot be   *)
(* flushed, the code itself makes no claim about power loss.               *)
(***************************************************************************)
EXTENDS Integers

CONSTANTS NoLedger, TornLedger,
          MaxSaves, MaxLosses, MaxThrows  \* bounds: writes, deaths and losses, throwing calls

ASSUME LedgerFileConstants ==
  /\ NoLedger # TornLedger /\ NoLedger \notin Nat /\ TornLedger \notin Nat
  /\ MaxSaves \in Nat /\ MaxLosses \in Nat /\ MaxThrows \in Nat

Version == 0..MaxSaves         \* 0: a ledger that was there before
Names   == {"file", "bak", "tmp", "baktmp"}
Content == Version \cup {NoLedger, TornLedger}
Steps   == {"idle", "open", "write", "flush", "rename", "sync"}

VARIABLES disk,     \* the directory as processes see it
          possible, \* what it may be after a loss of power
          at, dst,  \* the step writeLedger is in, and the file it replaces
          saves,    \* versions attempted
          previous, \* the ledger each version found when it began
          acked,    \* the version last confirmed to a caller
          losses, throws

fileVars == <<disk, possible, at, dst, saves, previous, acked, losses, throws>>

Tmp == [file |-> "tmp", bak |-> "baktmp"]
Bytes == IF dst = "bak" THEN previous[saves] ELSE saves

LedgerFileInit ==
  /\ \E v \in {NoLedger, 0} : /\ disk = [[n \in Names |-> NoLedger] EXCEPT !["file"] = v]
                            /\ acked = v
  /\ possible = {disk}
  /\ at = "idle" /\ dst = "file"
  /\ saves = 0 /\ previous = [v \in Version |-> NoLedger]
  /\ losses = 0 /\ throws = 0

\* Mutant: the ledger is replaced without its backup.
FirstTarget_LedgerOnly == "file"

NoPendingLedgerWrite == disk["tmp"] = NoLedger /\ disk["baktmp"] = NoLedger

\* A first write has nothing to back up.
FirstTarget == IF disk["file"] = NoLedger THEN "file" ELSE "bak"

Begin ==
  /\ at = "idle" /\ saves < MaxSaves
  /\ NoPendingLedgerWrite
  /\ disk["file"] = NoLedger => disk["bak"] = NoLedger
  /\ saves' = saves + 1
  /\ previous' = [previous EXCEPT ![saves + 1] = disk["file"]]
  /\ at' = "open" /\ dst' = FirstTarget
  /\ UNCHANGED <<disk, possible, acked, losses, throws>>

Open ==
  /\ at = "open" /\ disk[Tmp[dst]] = NoLedger
  /\ disk' = [disk EXCEPT ![Tmp[dst]] = TornLedger]
  /\ possible' = possible \cup {disk'}
  /\ at' = "write"
  /\ UNCHANGED <<dst, saves, previous, acked, losses, throws>>

Write ==
  /\ at = "write"
  /\ disk' = [disk EXCEPT ![Tmp[dst]] = Bytes]
  /\ possible' = possible \cup {disk'}
  /\ at' = "flush"
  /\ UNCHANGED <<dst, saves, previous, acked, losses, throws>>

\* Mutant: the bytes are not flushed before the rename.
Flush_Skipped ==
  /\ at = "flush" /\ at' = "rename"
  /\ UNCHANGED <<disk, possible, dst, saves, previous, acked, losses, throws>>

\* fsync of the .tmp: its bytes are safe wherever its name is.
Flush ==
  /\ at = "flush"
  /\ possible' = {IF d[Tmp[dst]] = TornLedger THEN [d EXCEPT ![Tmp[dst]] = Bytes] ELSE d : d \in possible}
  /\ at' = "rename"
  /\ UNCHANGED <<disk, dst, saves, previous, acked, losses, throws>>

\* Mutant: the old file is unlinked, and the new one does not take its place.
Renamed_Unlinked(d) == [d EXCEPT ![dst] = NoLedger]

Renamed(d) == [d EXCEPT ![dst] = d[Tmp[dst]], ![Tmp[dst]] = NoLedger]

Rename ==
  /\ at = "rename"
  /\ disk' = Renamed(disk)
  /\ possible' = possible \cup {Renamed(d) : d \in {e \in possible : e[Tmp[dst]] # NoLedger}}
  /\ at' = "sync"
  /\ UNCHANGED <<dst, saves, previous, acked, losses, throws>>

\* What remains possible once the names are safe: only unflushed bytes may be torn.
Synced(d) == \A n \in Names : d[n] = disk[n] \/ (d[n] = TornLedger /\ disk[n] # NoLedger)

\* Mutant: the directory is not flushed.
SyncDirectory_Skipped ==
  /\ at = "sync"
  /\ IF dst = "bak" THEN at' = "open" /\ dst' = "file" /\ UNCHANGED acked
                    ELSE at' = "idle" /\ acked' = saves /\ UNCHANGED dst
  /\ UNCHANGED <<disk, possible, saves, previous, losses, throws>>

\* The directory is flushed; after the ledger's own flush writeLedger returns.
SyncDirectory ==
  /\ at = "sync"
  /\ possible' = {d \in possible : Synced(d)}
  /\ IF dst = "bak" THEN at' = "open" /\ dst' = "file" /\ UNCHANGED acked
                    ELSE at' = "idle" /\ acked' = saves /\ UNCHANGED dst
  /\ UNCHANGED <<disk, saves, previous, losses, throws>>

\* A call throws, and writeLedger with it: the files stay as they are.
Throw ==
  /\ at # "idle" /\ throws < MaxThrows
  /\ throws' = throws + 1 /\ at' = "idle"
  /\ UNCHANGED <<disk, possible, dst, saves, previous, acked, losses>>

Kill ==
  /\ at # "idle" /\ losses < MaxLosses
  /\ losses' = losses + 1 /\ at' = "idle"
  /\ UNCHANGED <<disk, possible, dst, saves, previous, acked, throws>>

PowerLoss ==
  /\ losses < MaxLosses /\ losses' = losses + 1
  /\ disk' \in possible /\ possible' = {disk'}
  /\ at' = "idle"
  /\ UNCHANGED <<dst, saves, previous, acked, throws>>

\* The operator removes what an unfinished write left behind.
Cleared(d) == [d EXCEPT !["tmp"] = NoLedger, !["baktmp"] = NoLedger]

Reconcile ==
  /\ at = "idle" /\ ~NoPendingLedgerWrite
  /\ disk' = Cleared(disk) /\ possible' = {Cleared(d) : d \in possible}
  /\ UNCHANGED <<at, dst, saves, previous, acked, losses, throws>>

LedgerFileNext == \/ Begin \/ Open \/ Write \/ Flush \/ Rename \/ SyncDirectory
                  \/ Throw \/ Kill \/ PowerLoss \/ Reconcile

LedgerFileSpec == LedgerFileInit /\ [][LedgerFileNext]_fileVars

-----------------------------------------------------------------------------
LedgerFileTypeOK ==
  /\ disk \in [Names -> Content] /\ possible \subseteq [Names -> Content]
  /\ at \in Steps /\ dst \in {"file", "bak"}
  /\ saves \in Version
  /\ previous \in [Version -> Content]
  /\ acked \in Version \cup {NoLedger}
  /\ losses \in 0..MaxLosses /\ throws \in 0..MaxThrows

\* A ledger the console answered for is never lost, to a death or to a loss of power:
\* what is found afterwards is that version or one attempted after it.
AckedSurvives ==
  acked # NoLedger => \A d \in possible \cup {disk} : d["file"] \in acked..saves

\* Neither the ledger nor its backup is ever found half-written.
NeverTorn == \A d \in possible \cup {disk} : d["file"] # TornLedger /\ d["bak"] # TornLedger

\* The backup is never further behind than the ledger the visible one replaced, so
\* one damaged file never costs more than one step of the ledger.
BackupNeverBehind ==
  \A d \in possible \cup {disk} :
    d["file"] \in Version => d["bak"] \in {d["file"], previous[d["file"]]}

\* To its callers the ledger is a register that only moves forward.
Register == INSTANCE DurableRegister WITH
  seen <- disk["file"], maybe <- {d["file"] : d \in possible}, acked <- acked

ImplementsRegister == Register!RegisterSpec
=============================================================================
