-------------------------- MODULE LedgerFile_proofs --------------------------
(***************************************************************************)
(* Proofs about LedgerFile, for every value of its constants: FileInv is   *)
(* inductive, and with it the types, AckedSurvives, NeverTorn and          *)
(* BackupNeverBehind hold of every behaviour, and the ledger implements    *)
(* DurableRegister.                                                        *)
(***************************************************************************)
EXTENDS LedgerFile, TLAPS

\* What holds of every directory that a loss of power can leave.
Sound(d) ==
  /\ d["file"] # TornLedger /\ d["bak"] # TornLedger
  /\ d["file"] \in Version => d["file"] <= saves /\ d["bak"] \in {d["file"], previous[d["file"]]}
  /\ d["file"] = NoLedger => d["bak"] = NoLedger /\ d["baktmp"] = NoLedger
  /\ acked # NoLedger => d["file"] \in acked..saves
  /\ d["baktmp"] \in {NoLedger, TornLedger, d["file"]}
  /\ d["baktmp"] # NoLedger => d["file"] = disk["file"]
  /\ disk["file"] = NoLedger =>
       d["file"] = NoLedger /\ (disk["tmp"] = NoLedger => d["tmp"] = NoLedger)

\* What the step that replaces the backup, and the one that replaces the ledger, rely on.
BackingUp ==
  at # "idle" /\ dst = "bak" =>
    /\ disk["file"] # NoLedger /\ previous[saves] = disk["file"] /\ disk["tmp"] = NoLedger
    /\ at \in {"flush", "rename"} => disk["baktmp"] = previous[saves]
    /\ at = "rename" => \A d \in possible : d["baktmp"] # TornLedger
    /\ at = "sync" => disk["bak"] = previous[saves] /\ disk["baktmp"] = NoLedger

Replacing ==
  at # "idle" /\ dst = "file" =>
    /\ \A d \in possible : d["bak"] = previous[saves] /\ d["baktmp"] = NoLedger
    /\ at = "open" => \A d \in possible : d["tmp"] = NoLedger
    /\ at \in {"write", "flush"} => \A d \in possible : d["tmp"] \in {NoLedger, TornLedger, saves}
    /\ at = "rename" => \A d \in possible : d["tmp"] \in {NoLedger, saves}
    /\ at \in {"flush", "rename"} => disk["tmp"] = saves
    /\ at = "sync" => disk["file"] = saves

\* The version being written is newer than the one it replaces.
Newer == at \notin {"idle", "sync"} \/ (at = "sync" /\ dst = "bak") =>
           (disk["file"] # NoLedger => disk["file"] < saves)

FileInv == /\ LedgerFileTypeOK
           /\ disk \in possible /\ \A d \in possible : Sound(d)
           /\ BackingUp /\ Replacing /\ Newer

-----------------------------------------------------------------------------
LEMMA TmpFacts == Tmp["file"] = "tmp" /\ Tmp["bak"] = "baktmp"
  BY DEF Tmp

\* A step that leaves the files and what they may become alone.
LEMMA Untouched ==
  ASSUME FileInv, UNCHANGED <<disk, possible, acked, saves, previous>>
  PROVE  disk' \in possible' /\ \A d \in possible' : Sound(d)'
  BY DEF FileInv, Sound

LEMMA BeginInv == ASSUME FileInv, Begin PROVE FileInv'
  <1> USE DEF Begin, FileInv, LedgerFileTypeOK
  <1>1. saves + 1 \in Version /\ saves + 1 \in Nat /\ saves \in Nat
    BY LedgerFileConstants DEF Version
  <1>2. LedgerFileTypeOK'
    <2>1. disk["file"] \in Content
      BY DEF Names
    <2> QED BY <1>1, <2>1 DEF FirstTarget, Steps
  <1>3. previous'[saves'] = disk["file"] /\ \A v \in Version : v <= saves => previous'[v] = previous[v]
    BY <1>1 DEF Version
  <1>4. ASSUME NEW d \in possible PROVE Sound(d)'
    BY <1>1, <1>3 DEF Sound, Version
  <1>5. BackingUp'
    BY <1>3 DEF BackingUp, FirstTarget, NoPendingLedgerWrite
  <1>6. Replacing'
    BY <1>3 DEF Replacing, FirstTarget, NoPendingLedgerWrite, Sound
  <1>7. Newer'
    BY <1>1, LedgerFileConstants DEF Newer, Sound, Version, Content, Names
  <1> QED BY <1>2, <1>4, <1>5, <1>6, <1>7

\* A new .tmp: the directory may be left with it or without it.
LEMMA OpenInv == ASSUME FileInv, Open PROVE FileInv'
  <1> USE DEF Open, FileInv, LedgerFileTypeOK
  <1>1. LedgerFileTypeOK'
    BY TmpFacts DEF Steps, Names, Content
  <1>2. disk'["file"] = disk["file"] /\ disk'["bak"] = disk["bak"]
    BY TmpFacts DEF Names
  <1>3. disk' \in possible' /\ \A d \in possible' : Sound(d)'
    <2>1. ASSUME NEW d \in possible PROVE Sound(d)'
      BY <1>2, TmpFacts, LedgerFileConstants DEF Sound, Names
    <2>2. ASSUME NEW d, d = disk' PROVE Sound(d)'
      BY <2>2, <1>2, TmpFacts, LedgerFileConstants DEF Sound, Names, BackingUp, Replacing
    <2> QED BY <2>1, <2>2
  <1>4. BackingUp'
    BY <1>2, TmpFacts DEF BackingUp, Names
  <1>5. Replacing'
    BY <1>2, TmpFacts DEF Replacing, Names
  <1>6. Newer'
    BY <1>2 DEF Newer
  <1> QED BY <1>1, <1>3, <1>4, <1>5, <1>6

LEMMA WriteInv == ASSUME FileInv, Write PROVE FileInv'
  <1> USE DEF Write, FileInv, LedgerFileTypeOK
  <1>1. Bytes \in Content /\ Bytes # TornLedger
    BY LedgerFileConstants DEF Bytes, Content, Version, BackingUp, Sound
  <1>2. LedgerFileTypeOK'
    BY <1>1, TmpFacts DEF Steps, Names
  <1>3. disk'["file"] = disk["file"] /\ disk'["bak"] = disk["bak"] /\ disk'[Tmp[dst]] = Bytes
    BY TmpFacts DEF Names
  <1>4. disk' \in possible' /\ \A d \in possible' : Sound(d)'
    <2>1. ASSUME NEW d \in possible PROVE Sound(d)'
      BY <1>3, TmpFacts, LedgerFileConstants DEF Sound, Names, Bytes, Version
    <2>2. ASSUME NEW d, d = disk' PROVE Sound(d)'
      BY <2>2, <1>3, TmpFacts, LedgerFileConstants DEF Sound, Names, BackingUp, Replacing, Bytes, Version
    <2> QED BY <2>1, <2>2
  <1>5. BackingUp'
    BY <1>3, TmpFacts DEF BackingUp, Names, Bytes
  <1>6. Replacing'
    BY <1>3, TmpFacts DEF Replacing, Names, Bytes
  <1>7. Newer'
    BY <1>3 DEF Newer
  <1> QED BY <1>2, <1>4, <1>5, <1>6, <1>7

LEMMA FlushInv == ASSUME FileInv, Flush PROVE FileInv'
  <1> USE DEF Flush, FileInv, LedgerFileTypeOK
  <1> DEFINE Flushed(d) == IF d[Tmp[dst]] = TornLedger THEN [d EXCEPT ![Tmp[dst]] = Bytes] ELSE d
  <1>1. Bytes \in Content /\ Bytes # TornLedger
    BY LedgerFileConstants DEF Bytes, Content, Version, BackingUp, Sound
  <1>2. ASSUME NEW d \in possible
        PROVE  /\ Flushed(d) \in [Names -> Content]
               /\ \A n \in Names \ {Tmp[dst]} : Flushed(d)[n] = d[n]
               /\ Flushed(d)[Tmp[dst]] = IF d[Tmp[dst]] = TornLedger THEN Bytes ELSE d[Tmp[dst]]
    BY <1>1, TmpFacts DEF Names
  <1>3. possible' = {Flushed(d) : d \in possible}
    OBVIOUS
  <1>4. Flushed(disk) = disk
    BY <1>1, TmpFacts DEF BackingUp, Replacing, Bytes
  <1> HIDE DEF Flushed
  <1>5. LedgerFileTypeOK'
    BY <1>2, <1>3 DEF Steps
  <1>6. disk' \in possible' /\ \A d \in possible' : Sound(d)'
    <2>1. ASSUME NEW d \in possible, NEW e, e = Flushed(d) PROVE Sound(e)'
      BY <1>2, <2>1, TmpFacts, LedgerFileConstants DEF Sound, Names, Bytes, BackingUp, Replacing, Version
    <2> QED BY <1>3, <1>4, <2>1
  <1>7. BackingUp'
    BY <1>1, <1>2, <1>3, TmpFacts DEF BackingUp, Names, Bytes
  <1>8. Replacing'
    BY <1>2, <1>3, TmpFacts, LedgerFileConstants DEF Replacing, Names, Bytes, Version
  <1>9. Newer'
    BY DEF Newer
  <1> QED BY <1>5, <1>6, <1>7, <1>8, <1>9

LEMMA RenamedFacts ==
  ASSUME NEW d \in [Names -> Content], dst \in {"file", "bak"}
  PROVE  /\ Renamed(d) \in [Names -> Content]
         /\ Renamed(d)[dst] = d[Tmp[dst]] /\ Renamed(d)[Tmp[dst]] = NoLedger
         /\ \A n \in Names \ {dst, Tmp[dst]} : Renamed(d)[n] = d[n]
  BY TmpFacts DEF Renamed, Names, Content

LEMMA RenameInv == ASSUME FileInv, Rename PROVE FileInv'
  <1> USE DEF Rename, FileInv, LedgerFileTypeOK
  <1>1. \A d \in possible \cup {disk} :
          /\ Renamed(d) \in [Names -> Content]
          /\ Renamed(d)[dst] = d[Tmp[dst]] /\ Renamed(d)[Tmp[dst]] = NoLedger
          /\ \A n \in Names \ {dst, Tmp[dst]} : Renamed(d)[n] = d[n]
    BY RenamedFacts
  <1>2. LedgerFileTypeOK'
    BY <1>1 DEF Steps
  <1>3. disk[Tmp[dst]] = Bytes /\ Bytes # NoLedger
    BY TmpFacts, LedgerFileConstants DEF BackingUp, Replacing, Bytes, Version
  <1>4. disk' \in possible'
    BY <1>3
  <1>5. \A d \in possible' : Sound(d)'
    <2>1. ASSUME NEW d \in possible PROVE Sound(d)'
      BY <1>1, <1>3, TmpFacts, LedgerFileConstants
      DEF Sound, Names, Bytes, BackingUp, Replacing, Newer, Version
    <2>2. ASSUME NEW d \in possible, d[Tmp[dst]] # NoLedger, NEW e, e = Renamed(d) PROVE Sound(e)'
      <3>1. CASE dst = "bak"
        BY <1>1, <1>3, <2>2, <3>1, TmpFacts, LedgerFileConstants
        DEF Sound, Names, Bytes, BackingUp, Version
      <3>2. CASE dst = "file"
        BY <1>1, <1>3, <2>2, <3>2, TmpFacts, LedgerFileConstants
        DEF Sound, Names, Bytes, Replacing, Version
      <3> QED BY <3>1, <3>2
    <2> QED BY <2>1, <2>2
  <1>6. BackingUp'
    BY <1>1, <1>3, TmpFacts DEF BackingUp, Names, Bytes
  <1>7. Replacing'
    BY <1>1, <1>3, TmpFacts DEF Replacing, Names, Bytes
  <1>8. Newer'
    BY <1>1, TmpFacts DEF Newer, Names
  <1> QED BY <1>2, <1>4, <1>5, <1>6, <1>7, <1>8

\* Once the directory is flushed the ledger and its backup are what everybody sees.
LEMMA SyncedFacts ==
  ASSUME FileInv, at = "sync", NEW d \in possible, Synced(d)
  PROVE  /\ d["file"] = disk["file"] /\ d["bak"] = disk["bak"]
         /\ dst = "bak" => d["tmp"] = NoLedger /\ d["baktmp"] = NoLedger
  BY DEF FileInv, LedgerFileTypeOK, Synced, Names, Sound, BackingUp

LEMMA SyncDirectoryInv == ASSUME FileInv, SyncDirectory PROVE FileInv'
  <1> USE DEF SyncDirectory, FileInv, LedgerFileTypeOK
  <1>1. LedgerFileTypeOK'
    BY DEF Steps
  <1>2. disk \in possible'
    BY DEF Synced
  <1>3. ASSUME NEW d \in possible, Synced(d) PROVE Sound(d)'
    BY <1>3, SyncedFacts, LedgerFileConstants DEF Sound, Replacing, Version
  <1>4. BackingUp'
    BY DEF BackingUp
  <1>5. Replacing'
    BY SyncedFacts DEF Replacing, BackingUp
  <1>6. Newer'
    BY DEF Newer
  <1> QED BY <1>1, <1>2, <1>3, <1>4, <1>5, <1>6

LEMMA StopInv == ASSUME FileInv, Throw \/ Kill PROVE FileInv'
  <1> USE DEF Throw, Kill, FileInv, LedgerFileTypeOK
  <1>1. LedgerFileTypeOK'
    BY LedgerFileConstants DEF Steps
  <1>2. BackingUp' /\ Replacing' /\ Newer'
    BY DEF BackingUp, Replacing, Newer
  <1> QED BY <1>1, <1>2, Untouched

LEMMA PowerLossInv == ASSUME FileInv, PowerLoss PROVE FileInv'
  <1> USE DEF PowerLoss, FileInv, LedgerFileTypeOK
  <1>1. LedgerFileTypeOK'
    BY LedgerFileConstants DEF Steps
  <1>2. ASSUME NEW d, d = disk' PROVE Sound(d)'
    BY <1>2 DEF Sound
  <1>3. BackingUp' /\ Replacing' /\ Newer'
    BY DEF BackingUp, Replacing, Newer
  <1> QED BY <1>1, <1>2, <1>3

LEMMA ReconcileInv == ASSUME FileInv, Reconcile PROVE FileInv'
  <1> USE DEF Reconcile, FileInv, LedgerFileTypeOK
  <1>1. ASSUME NEW d \in possible
        PROVE  /\ Cleared(d) \in [Names -> Content]
               /\ Cleared(d)["file"] = d["file"] /\ Cleared(d)["bak"] = d["bak"]
               /\ Cleared(d)["tmp"] = NoLedger /\ Cleared(d)["baktmp"] = NoLedger
    BY DEF Cleared, Names, Content
  <1>2. LedgerFileTypeOK'
    BY <1>1
  <1>3. ASSUME NEW d \in possible PROVE Sound(Cleared(d))'
    BY <1>1 DEF Sound
  <1>4. BackingUp' /\ Replacing' /\ Newer'
    BY DEF BackingUp, Replacing, Newer
  <1> QED BY <1>2, <1>3, <1>4

LEMMA InitInv == ASSUME LedgerFileInit PROVE FileInv
  <1> USE DEF LedgerFileInit, FileInv
  <1>1. PICK v \in {NoLedger, 0} : /\ disk = [[n \in Names |-> NoLedger] EXCEPT !["file"] = v]
                                   /\ acked = v
    OBVIOUS
  <1>2. 0 \in Version /\ v \in Content
    BY LedgerFileConstants DEF Version, Content
  <1>3. /\ disk \in [Names -> Content]
        /\ disk["file"] = v /\ disk["bak"] = NoLedger /\ disk["tmp"] = NoLedger /\ disk["baktmp"] = NoLedger
    BY <1>1, <1>2 DEF Names, Content
  <1>4. LedgerFileTypeOK
    BY <1>1, <1>2, <1>3, LedgerFileConstants DEF LedgerFileTypeOK, Steps, Content
  <1>5. Sound(disk)
    BY <1>1, <1>2, <1>3, LedgerFileConstants DEF Sound, Version
  <1>6. BackingUp /\ Replacing /\ Newer
    BY DEF BackingUp, Replacing, Newer
  <1> QED BY <1>4, <1>5, <1>6

LEMMA NextInv == FileInv /\ [LedgerFileNext]_fileVars => FileInv'
  <1> SUFFICES ASSUME FileInv, [LedgerFileNext]_fileVars PROVE FileInv'
    OBVIOUS
  <1>1. CASE UNCHANGED fileVars
    BY <1>1 DEF fileVars, FileInv, LedgerFileTypeOK, Sound, BackingUp, Replacing, Newer
  <1> QED BY <1>1, BeginInv, OpenInv, WriteInv, FlushInv, RenameInv, SyncDirectoryInv, StopInv,
             PowerLossInv, ReconcileInv DEF LedgerFileNext

LEMMA FileInvariant == LedgerFileSpec => []FileInv
  BY InitInv, NextInv, PTL DEF LedgerFileSpec

-----------------------------------------------------------------------------
\* The variables of a ledger's writer keep their types.
THEOREM LedgerFileTypes == LedgerFileSpec => []LedgerFileTypeOK
  <1>1. FileInv => LedgerFileTypeOK
    BY DEF FileInv
  <1> QED BY <1>1, FileInvariant, PTL

\* AckedSurvives (writeLedger, ledger-write.mjs): a ledger the console answered for is
\* never lost, however often a write is begun, broken off or overtaken by a loss of power.
THEOREM AckedLedgerSurvives == LedgerFileSpec => []AckedSurvives
  <1>1. FileInv => AckedSurvives
    BY DEF FileInv, AckedSurvives, Sound
  <1> QED BY <1>1, FileInvariant, PTL

\* NeverTorn: neither the ledger nor its backup is ever found half-written.
THEOREM LedgerNeverTorn == LedgerFileSpec => []NeverTorn
  <1>1. FileInv => NeverTorn
    BY DEF FileInv, NeverTorn, Sound
  <1> QED BY <1>1, FileInvariant, PTL

\* BackupNeverBehind: the backup is the visible ledger or the one it replaced.
THEOREM BackupIsClose == LedgerFileSpec => []BackupNeverBehind
  <1>1. FileInv => BackupNeverBehind
    BY DEF FileInv, BackupNeverBehind, Sound
  <1> QED BY <1>1, FileInvariant, PTL

-----------------------------------------------------------------------------
(* The refinement of DurableRegister. *)

Maybe == {d["file"] : d \in possible}

\* What a step that leaves every possible ledger alone is to the register.
LEMMA RegisterStutters ==
  ASSUME disk'["file"] = disk["file"], acked' = acked,
         \A d \in possible : \E e \in possible' : e["file"] = d["file"],
         \A e \in possible' : \E d \in possible : e["file"] = d["file"]
  PROVE  UNCHANGED <<disk["file"], Maybe, acked>>
  BY DEF Maybe

\* The ledger is replaced: a newer value can be found.
LEMMA RenameTries ==
  ASSUME FileInv, Rename, dst = "file" PROVE Register!Try
  <1> USE DEF Rename, FileInv, LedgerFileTypeOK
  <1>1. \A d \in possible : Renamed(d)["file"] = d["tmp"]
    BY RenamedFacts, TmpFacts
  <1>2. disk["tmp"] = saves /\ saves \in Nat /\ saves # NoLedger
    BY LedgerFileConstants DEF Replacing, Version
  <1>3. disk'["file"] = saves
    BY <1>1, <1>2
  <1>4. disk["file"] \in Nat => saves > disk["file"]
    BY LedgerFileConstants DEF Newer, Version
  <1>5. Maybe' = Maybe \cup {saves}
    <2>1. \A d \in possible : d["tmp"] # NoLedger => d["tmp"] = saves
      BY DEF Replacing
    <2> QED BY <1>1, <1>2, <2>1, TmpFacts DEF Maybe
  <1> QED BY <1>2, <1>3, <1>4, <1>5 DEF Register!Try, Maybe

LEMMA StepRefines ==
  FileInv /\ [LedgerFileNext]_fileVars => [Register!RegisterNext]_<<disk["file"], Maybe, acked>>
  <1> SUFFICES ASSUME FileInv, [LedgerFileNext]_fileVars
               PROVE  Register!RegisterNext \/ UNCHANGED <<disk["file"], Maybe, acked>>
    OBVIOUS
  <1> USE DEF FileInv, LedgerFileTypeOK
  <1>1. CASE UNCHANGED fileVars \/ Begin \/ Throw \/ Kill
    BY <1>1 DEF fileVars, Begin, Throw, Kill, Maybe
  <1>2. CASE Open \/ Write
    BY <1>2, RegisterStutters, TmpFacts DEF Open, Write, Names
  <1>3. CASE Flush
    <2> DEFINE Flushed(d) == IF d[Tmp[dst]] = TornLedger THEN [d EXCEPT ![Tmp[dst]] = Bytes] ELSE d
    <2>1. \A d \in possible : Flushed(d)["file"] = d["file"]
      BY TmpFacts DEF Names
    <2>2. possible' = {Flushed(d) : d \in possible}
      BY <1>3 DEF Flush
    <2> HIDE DEF Flushed
    <2> QED BY <1>3, <2>1, <2>2, RegisterStutters DEF Flush
  <1>4. CASE Rename /\ dst = "bak"
    <2>1. \A d \in possible : Renamed(d)["file"] = d["file"]
      BY <1>4, RenamedFacts, TmpFacts DEF Names
    <2> QED BY <1>4, <2>1, RegisterStutters DEF Rename
  <1>5. CASE Rename /\ dst = "file"
    BY <1>5, RenameTries DEF Register!RegisterNext
  <1>6. CASE SyncDirectory
    <2>1. Maybe' = {disk["file"]}
      BY <1>6, SyncedFacts DEF SyncDirectory, Synced, Maybe
    <2>2. acked' \in {acked, disk["file"]}
      BY <1>6 DEF SyncDirectory, Replacing
    <2> QED BY <1>6, <2>1, <2>2 DEF SyncDirectory, Register!RegisterNext, Register!Settle, Maybe
  <1>7. CASE PowerLoss
    <2>1. disk'["file"] \in Maybe /\ Maybe' = {disk'["file"]} /\ UNCHANGED acked
      BY <1>7 DEF PowerLoss, Maybe
    <2> QED BY <2>1 DEF Register!RegisterNext, Register!Lose, Maybe
  <1>8. CASE Reconcile
    <2>1. \A d \in possible : Cleared(d)["file"] = d["file"]
      BY DEF Cleared, Names
    <2> QED BY <1>8, <2>1, RegisterStutters DEF Reconcile
  <1> QED BY <1>1, <1>2, <1>3, <1>4, <1>5, <1>6, <1>7, <1>8 DEF LedgerFileNext

\* ImplementsRegister: to those who read and write it the ledger is DurableRegister, a
\* value that only moves forward and of which a loss of power takes back at most what was
\* never confirmed.
THEOREM LedgerIsARegister == LedgerFileSpec => ImplementsRegister
  <1>1. LedgerFileInit => Register!RegisterInit
    BY InitInv DEF LedgerFileInit, FileInv, Register!RegisterInit, Names
  <1> QED BY <1>1, StepRefines, FileInvariant, PTL
          DEF LedgerFileSpec, ImplementsRegister, Register!RegisterSpec, Maybe
=============================================================================
