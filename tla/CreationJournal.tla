--------------------------- MODULE CreationJournal ---------------------------
(***************************************************************************)
(* The creation journal on disk (local-net/lib/creation-journal.mjs): the  *)
(* one reservation, pending.json, its phase updates through a .tmp file,   *)
(* and the history that records how each creation ended.                   *)
(*                                                                         *)
(* A step is one call that changes the directory, so that the process may  *)
(* die, or the call may throw, between any two of them, and a second       *)
(* console on the same directory may run in between.  A file that was      *)
(* opened but not yet written is Torn.  Losing power, which may also lose  *)
(* a rename, is not modelled here.                                         *)
(***************************************************************************)
EXTENDS Naturals

CONSTANTS Process,    \* console processes on this directory
          Operator,   \* those of them at which the operator resolves a creation
          Job, NoJob,
          NoFile, Torn,
          MaxCrashes, \* bound: deaths of a process
          MaxFailures \* bound: writes that throw

Phases      == {"prepared", "submitting", "created", "complete"}
Resolutions == {"discarded", "retired"}
Record == [job : Job, phase : Phases, resolution : Resolutions \cup {"none"}]

ASSUME JournalConstants ==
  /\ NoJob \notin Job /\ NoFile # Torn /\ {NoFile, Torn} \cap Record = {}
  /\ Operator \subseteq Process
  /\ MaxCrashes \in Nat /\ MaxFailures \in Nat

VARIABLES pendingFile, \* pending.json
          tmpFile,     \* pending.json.tmp
          history,     \* history/<job>.json
          pc,          \* the call each process is in the middle of
          owned,       \* the creation each process is carrying out
          begun,       \* jobs whose reservation was written
          crashes, failures

files == <<pendingFile, tmpFile, history>>
vars  == <<files, pc, owned, begun, crashes, failures>>

Idle == [at |-> "idle", job |-> NoJob, next |-> "none"]
Points == {"idle", "open", "write", "tmpopen", "tmpwrite", "rename", "archive",
           "histopen", "histwrite", "unlink", "failed"}
Requests == {"none"} \cup Phases \cup Resolutions

Whole(f) == f \in Record

\* read(): nothing pending, a pending job, or an error.
Read == CASE Whole(pendingFile)                        -> "job"
          [] pendingFile = NoFile /\ tmpFile = NoFile  -> "clear"
          [] OTHER                                     -> "unreadable"

JournalInit ==
  /\ pendingFile = NoFile /\ tmpFile = NoFile
  /\ history = [j \in Job |-> NoFile]
  /\ pc = [p \in Process |-> Idle]
  /\ owned = [p \in Process |-> NoJob]
  /\ begun = {}
  /\ crashes = 0 /\ failures = 0

Ready(p) == pc[p] = Idle
At(p, point) == pc[p].at = point
Go(p, point) == pc' = [pc EXCEPT ![p].at = point]
Return(p) == pc' = [pc EXCEPT ![p] = Idle]

\* What each call does to the directory.
WritePending(p) ==
  /\ At(p, "write")
  /\ pendingFile' = [job |-> pc[p].job, phase |-> "prepared", resolution |-> "none"]
  /\ begun' = begun \cup {pc[p].job}
  /\ UNCHANGED <<tmpFile, history>>

WriteTmp(p) ==
  /\ At(p, "tmpwrite")
  /\ tmpFile' = [job |-> pc[p].job, phase |-> pc[p].next, resolution |-> "none"]
  /\ UNCHANGED <<pendingFile, history, begun>>

RenameTmp(p) ==
  /\ At(p, "rename")
  /\ pendingFile' = tmpFile /\ tmpFile' = NoFile
  /\ UNCHANGED <<history, begun>>

MoveToHistory(p) ==
  /\ At(p, "archive") /\ history[pc[p].job] = NoFile
  /\ history' = [history EXCEPT ![pc[p].job] = pendingFile]
  /\ pendingFile' = NoFile
  /\ UNCHANGED <<tmpFile, begun>>

\* The record as it was read, with the resolution added.
WriteHistory(p) ==
  /\ At(p, "histwrite")
  /\ history' = [history EXCEPT ![pc[p].job] = [job |-> pc[p].job, phase |-> pendingFile.phase,
                                               resolution |-> pc[p].next]]
  /\ UNCHANGED <<pendingFile, tmpFile, begun>>

RemovePending(p) ==
  /\ At(p, "unlink")
  /\ pendingFile' = NoFile
  /\ UNCHANGED <<tmpFile, history, begun>>

-----------------------------------------------------------------------------
(* begin: assertClear, then an exclusive write. *)

BeginCheck(p, j) ==
  /\ Ready(p) /\ owned[p] = NoJob
  /\ Read = "clear"
  /\ j \notin begun /\ \A q \in Process : pc[q].job # j  \* a fresh UUID
  /\ pc' = [pc EXCEPT ![p] = [at |-> "open", job |-> j, next |-> "prepared"]]
  /\ UNCHANGED <<files, owned, begun, crashes, failures>>

\* Mutant: the write is not exclusive.
BeginOpen_Overwrites(p) ==
  /\ At(p, "open")
  /\ pendingFile' = Torn /\ Go(p, "write")
  /\ UNCHANGED <<tmpFile, history, owned, begun, crashes, failures>>

BeginOpen(p) ==
  /\ At(p, "open")
  /\ \/ pendingFile = NoFile /\ pendingFile' = Torn /\ Go(p, "write")
     \/ pendingFile # NoFile /\ UNCHANGED pendingFile /\ Return(p)
  /\ UNCHANGED <<tmpFile, history, owned, begun, crashes, failures>>

BeginWrite(p) ==
  /\ WritePending(p)
  /\ owned' = [owned EXCEPT ![p] = pc[p].job]
  /\ Return(p)
  /\ UNCHANGED <<crashes, failures>>

-----------------------------------------------------------------------------
(* update, and complete, which archives after its update. *)

NextPhase == [prepared |-> "submitting", submitting |-> "created", created |-> "complete"]

\* The carrier of a creation advances it.
UpdateCheck(p) ==
  /\ Ready(p) /\ owned[p] # NoJob
  /\ Read = "job" /\ pendingFile.job = owned[p] /\ pendingFile.phase # "complete"
  /\ pc' = [pc EXCEPT ![p] = [at |-> "tmpopen", job |-> owned[p],
                              next |-> NextPhase[pendingFile.phase]]]
  /\ UNCHANGED <<files, owned, begun, crashes, failures>>

UpdateOpen(p) ==
  /\ At(p, "tmpopen")
  /\ tmpFile' = Torn /\ Go(p, "tmpwrite")
  /\ UNCHANGED <<pendingFile, history, owned, begun, crashes, failures>>

UpdateWrite(p) ==
  /\ WriteTmp(p) /\ Go(p, "rename")
  /\ UNCHANGED <<owned, crashes, failures>>

UpdateRename(p) ==
  /\ RenameTmp(p)
  /\ IF pc[p].next = "complete" THEN Go(p, "archive") ELSE Return(p)
  /\ UNCHANGED <<owned, crashes, failures>>

Archive(p) ==
  /\ \/ MoveToHistory(p)
     \/ /\ At(p, "archive") /\ history[pc[p].job] # NoFile
        /\ UNCHANGED <<files, begun>>
  /\ owned' = [owned EXCEPT ![p] = NoJob]
  /\ Return(p)
  /\ UNCHANGED <<crashes, failures>>

\* The handler gives the creation up (the CLI, the rollout or the readiness gate
\* failed): the journal stays as it is, unless the job was only prepared.
GiveUp(p) ==
  /\ Ready(p) \/ At(p, "failed")
  /\ owned[p] # NoJob
  /\ IF Read = "job" /\ pendingFile.job = owned[p] /\ pendingFile.phase = "prepared"
     THEN pc' = [pc EXCEPT ![p] = [at |-> "histopen", job |-> owned[p], next |-> "discarded"]]
     ELSE Return(p)
  /\ owned' = [owned EXCEPT ![p] = NoJob]
  /\ UNCHANGED <<files, begun, crashes, failures>>

-----------------------------------------------------------------------------
(* resolve, and adopt, which carries the creation on. *)

Allowed(phase, r) ==
  \/ r = "discarded" /\ phase # "created"
  \/ r = "retired" /\ phase # "prepared"

ResolveCheck(p, r) ==
  /\ p \in Operator /\ Ready(p) /\ owned[p] = NoJob
  /\ Read = "job" /\ Allowed(pendingFile.phase, r)
  /\ pc' = [pc EXCEPT ![p] = [at |-> "histopen", job |-> pendingFile.job, next |-> r]]
  /\ UNCHANGED <<files, owned, begun, crashes, failures>>

\* Mutants: history is overwritten; the reservation goes first.
HistoryOpen_Overwrites(p) ==
  /\ At(p, "histopen")
  /\ history' = [history EXCEPT ![pc[p].job] = Torn] /\ Go(p, "histwrite")
  /\ UNCHANGED <<pendingFile, tmpFile, owned, begun, crashes, failures>>
HistoryOpen_UnlinkFirst(p) ==
  /\ At(p, "histopen")
  /\ history[pc[p].job] = NoFile
  /\ history' = [history EXCEPT ![pc[p].job] = Torn] /\ pendingFile' = NoFile
  /\ Go(p, "histwrite")
  /\ UNCHANGED <<tmpFile, owned, begun, crashes, failures>>

HistoryOpen(p) ==
  /\ At(p, "histopen")
  /\ \/ /\ history[pc[p].job] = NoFile
        /\ history' = [history EXCEPT ![pc[p].job] = Torn] /\ Go(p, "histwrite")
     \/ /\ history[pc[p].job] # NoFile
        /\ UNCHANGED history /\ Return(p)
  /\ UNCHANGED <<pendingFile, tmpFile, owned, begun, crashes, failures>>

HistoryWrite(p) ==
  /\ WriteHistory(p) /\ Go(p, "unlink")
  /\ UNCHANGED <<owned, crashes, failures>>

Unlink(p) ==
  /\ RemovePending(p) /\ Return(p)
  /\ UNCHANGED <<owned, crashes, failures>>

Adopt(p) ==
  /\ p \in Operator /\ Ready(p) /\ owned[p] = NoJob
  /\ Read = "job" /\ pendingFile.phase # "prepared"
  /\ owned' = [owned EXCEPT ![p] = pendingFile.job]
  /\ UNCHANGED <<files, pc, begun, crashes, failures>>

-----------------------------------------------------------------------------
\* The write, the flush or the rename throws, before or after it took effect; a
\* handler that carries a creation then fails.
CallThrows(p) ==
  /\ failures < MaxFailures /\ failures' = failures + 1
  /\ \/ /\ pc[p].at \in {"write", "tmpwrite", "rename", "archive", "histwrite", "unlink"}
        /\ UNCHANGED <<files, begun>>
     \/ WritePending(p) \/ WriteTmp(p) \/ RenameTmp(p) \/ MoveToHistory(p)
     \/ WriteHistory(p) \/ RemovePending(p)
  /\ pc' = [pc EXCEPT ![p] = IF owned[p] = NoJob THEN Idle ELSE [Idle EXCEPT !.at = "failed"]]
  /\ UNCHANGED <<owned, crashes>>

\* The process dies and starts again.
Crash(p) ==
  /\ crashes < MaxCrashes /\ crashes' = crashes + 1
  /\ Return(p)
  /\ owned' = [owned EXCEPT ![p] = NoJob]
  /\ UNCHANGED <<files, begun, failures>>

JournalNext ==
  \E p \in Process :
    \/ \E j \in Job : BeginCheck(p, j)
    \/ BeginOpen(p) \/ BeginWrite(p)
    \/ UpdateCheck(p) \/ UpdateOpen(p) \/ UpdateWrite(p) \/ UpdateRename(p) \/ Archive(p)
    \/ GiveUp(p)
    \/ \E r \in Resolutions : ResolveCheck(p, r)
    \/ HistoryOpen(p) \/ HistoryWrite(p) \/ Unlink(p)
    \/ Adopt(p)
    \/ CallThrows(p) \/ Crash(p)

JournalSpec == JournalInit /\ [][JournalNext]_vars

-----------------------------------------------------------------------------
JournalTypeOK ==
  /\ {pendingFile, tmpFile} \subseteq Record \cup {NoFile, Torn}
  /\ history \in [Job -> Record \cup {NoFile, Torn}]
  /\ pc \in [Process -> [at : Points, job : Job \cup {NoJob}, next : Requests]]
  /\ owned \in [Process -> Job \cup {NoJob}]
  /\ begun \subseteq Job
  /\ crashes \in 0..MaxCrashes /\ failures \in 0..MaxFailures

\* A reservation never just disappears, whichever call is cut short: each creation
\* ever reserved is still pending, or its whole record is in the history.
NoReservationLost ==
  \A j \in begun : Whole(history[j]) \/ (Whole(pendingFile) /\ pendingFile.job = j)

\* A history record, once written, is never written again: the evidence of how a
\* creation ended survives every retry of its resolution.
HistoryNeverRewritten ==
  [][\A j \in Job : Whole(history[j]) => history'[j] = history[j]]_vars

\* Of two consoles that both found the journal clear, one carries an unfinished
\* creation ("prevents two console processes from both submitting").
OneCarrier ==
  LET Carries(p) == owned[p] # NoJob /\ ~Whole(history[owned[p]])
  IN \A p, q \in Process : Carries(p) /\ Carries(q) => p = q

\* The reservation book the directory stands for: a record of the history closes its
\* creation, the pending one is open, and a creation that is in neither is free.
PhaseOf(j) == CASE Whole(history[j])                          -> history[j].phase
                [] ~Whole(history[j]) /\ Whole(pendingFile)
                     /\ pendingFile.job = j                   -> pendingFile.phase
                [] OTHER                                      -> "free"
VerdictOf(j) == CASE ~Whole(history[j])                                           -> "open"
                  [] Whole(history[j]) /\ history[j].resolution = "none"          -> "completed"
                  [] OTHER                                                        -> history[j].resolution

Book == INSTANCE ReservationBook WITH phase   <- [j \in Job |-> PhaseOf(j)],
                                      verdict <- [j \in Job |-> VerdictOf(j)]

\* However its calls are cut short, the directory does to the book what the interface of
\* CreationJournal says: begin opens one creation when none is open, update takes it one
\* phase on, complete and resolve close it once and as its phase permits.
ImplementsBook == Book!BookSpec

\* The journal is at rest: no call is running and no handler carries a creation.
AtRest == \A p \in Process : Ready(p) /\ owned[p] = NoJob

\* docs/CREATION-RECOVERY.md: "the only exit is the operator endpoint below": at rest,
\* that exit is open, so a pending creation has no history record in its way.
ExitStaysOpen ==
  AtRest /\ Whole(pendingFile) => history[pendingFile.job] = NoFile

\* lib/creation-journal-test.mjs: "a discarded reservation no longer blocks".
ClosedNoLongerBlocks ==
  AtRest /\ (\A j \in begun : Whole(history[j])) /\ pendingFile = NoFile => Read = "clear"
=============================================================================
