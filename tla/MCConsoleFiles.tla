--------------------------- MODULE MCConsoleFiles ---------------------------
(* The console's two durable parts, each on its own: the creation journal    *)
(* with one console and with two, and the chain ledger.                       *)
EXTENDS MCCreationJournal, LedgerFile

FilesInit ==
  /\ JournalInit /\ LedgerFileInit
  /\ setting \in {"alone", "two consoles", "ledger"}

FilesNext ==
  \/ TwoNext /\ UNCHANGED fileVars
  \/ setting = "ledger" /\ LedgerFileNext /\ UNCHANGED <<vars, setting>>

FilesSpec == FilesInit /\ [][FilesNext]_<<vars, setting, fileVars>>
=============================================================================
