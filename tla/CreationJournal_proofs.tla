----------------------- MODULE CreationJournal_proofs -----------------------
(***************************************************************************)
(* Proofs about CreationJournal, for every number of consoles, jobs,       *)
(* crashes and failing writes: JournalInv is inductive, and with it        *)
(* NoReservationLost, HistoryNeverRewritten, OneCarrier and ImplementsBook *)
(* hold of every behaviour in which no operator takes a creation over      *)
(* while another console has it in hand.                                   *)
(***************************************************************************)
EXTENDS CreationJournal, TLAPS

Inside == {"write", "tmpopen", "tmpwrite", "rename", "archive", "histopen", "histwrite", "unlink"}

\* p carries the creation that is pending; p is the process that may change the directory.
Carrying(p) == owned[p] # NoJob /\ Whole(pendingFile) /\ pendingFile.job = owned[p]
Holds(p) == pc[p].at \in Inside \/ Carrying(p)

\* What docs/CREATION-RECOVERY.md asks of the operator ("A pending job may still be running;
\* consult progress before treating it as interrupted"): he takes a creation over, to resolve
\* or to adopt it, while no other console carries it or is inside a call that writes the
\* directory.  (If he does not wait, an update of the other console may land on the next
\* reservation: the two processes share no lock.)
TakesOver(p) == Adopt(p) \/ \E r \in Resolutions : ResolveCheck(p, r)
Waits == \A p \in Process : TakesOver(p) => \A q \in Process \ {p} : ~Holds(q)
OperatorWaits == [][Waits]_vars

\* Two deployments in which nothing is left to wait for: creations are resolved and adopted
\* at a console that has its directory to itself, and consoles that share one have no operator.
Attended == Operator = {} \/ \A p, q \in Process : p = q

OneHolder == \A p, q \in Process : Holds(p) /\ Holds(q) => p = q

\* The identifiers of reservations that are not written yet differ.
FreshJobs ==
  \A p, q \in Process : /\ pc[p].at \in {"open", "write"} /\ pc[q].at \in {"open", "write"}
                        /\ pc[p].job = pc[q].job
                        => p = q

\* What a process relies on, call by call.
Beginning(p) ==
  /\ pc[p].at \in {"open", "write"} => owned[p] = NoJob /\ pc[p].job \in Job \ begun
  /\ pc[p].at = "write" => pendingFile = Torn

Updating(p) ==
  /\ pc[p].at \in {"tmpopen", "tmpwrite", "rename", "archive"} => pc[p].job = owned[p] /\ Carrying(p)
  /\ pc[p].at \in {"tmpopen", "tmpwrite"} => pc[p].next \in Phases
  /\ pc[p].at = "rename" => Whole(tmpFile) /\ tmpFile.job = owned[p]

Resolving(p) ==
  /\ pc[p].at \in {"histopen", "histwrite", "unlink"} =>
       owned[p] = NoJob /\ Whole(pendingFile) /\ pendingFile.job = pc[p].job /\ pc[p].next \in Resolutions
  /\ pc[p].at = "histwrite" => history[pc[p].job] = Torn
  /\ pc[p].at = "unlink" => Whole(history[pc[p].job])

Owning(p) ==
  /\ owned[p] \in begun \cup {NoJob}
  /\ pc[p].at = "idle" /\ owned[p] # NoJob => Carrying(p)
  /\ pc[p].at = "failed" => owned[p] # NoJob /\ (Carrying(p) \/ Whole(history[owned[p]]))

InCall(p) == Beginning(p) /\ Updating(p) /\ Resolving(p) /\ Owning(p)

JournalInv ==
  /\ JournalTypeOK /\ OneHolder /\ FreshJobs /\ (\A p \in Process : InCall(p))
  /\ Whole(pendingFile) => pendingFile.job \in begun
  /\ NoReservationLost

-----------------------------------------------------------------------------
(* What a step of one console leaves of the others. *)

PcType == [at : Points, job : Job \cup {NoJob}, next : Requests]

\* While p holds the directory another console is idle without a creation, is about to
\* open, or has failed on a creation that is already in the history.
LEMMA OthersOutside ==
  ASSUME JournalInv, NEW p \in Process, Holds(p), NEW q \in Process, q # p
  PROVE  /\ ~Holds(q) /\ pc[q].at \in {"idle", "open", "failed"}
         /\ pc[q].at = "idle" => owned[q] = NoJob
         /\ pc[q].at = "failed" => owned[q] # NoJob /\ Whole(history[owned[q]])
  <1>1. ~Holds(q)
    BY DEF JournalInv, OneHolder
  <1>2. pc[q].at \in Points
    BY DEF JournalInv, JournalTypeOK
  <1> QED BY <1>1, <1>2 DEF JournalInv, InCall, Owning, Holds, Inside, Points

\* A step of p, the holder, that keeps the history and puts no other console's job into
\* the reservation, keeps what the other consoles rely on and lets none of them in.
LEMMA OthersKeep ==
  ASSUME JournalInv, NEW p \in Process, Holds(p),
         \A q \in Process \ {p} : pc'[q] = pc[q] /\ owned'[q] = owned[q],
         \A j \in Job : Whole(history[j]) => Whole(history'[j]),
         begun' = begun \/ (pc[p].at = "write" /\ begun' = begun \cup {pc[p].job}),
         Whole(pendingFile') =>
           \/ Whole(pendingFile) /\ pendingFile'.job = pendingFile.job
           \/ pc[p].at = "write" /\ pendingFile'.job = pc[p].job,
         NEW q \in Process, q # p
  PROVE  InCall(q)' /\ ~Holds(q)'
  <1> USE DEF JournalInv, JournalTypeOK
  <1>1. pc'[q] = pc[q] /\ owned'[q] = owned[q]
    OBVIOUS
  <1>2. /\ ~Holds(q) /\ pc[q].at \in {"idle", "open", "failed"}
        /\ pc[q].at = "idle" => owned[q] = NoJob
        /\ pc[q].at = "failed" => owned[q] # NoJob /\ Whole(history[owned[q]])
    BY OthersOutside
  <1>3. InCall(q) /\ owned[q] \in Job \cup {NoJob} /\ owned[q] \in begun \cup {NoJob}
    BY DEF InCall, Owning
  <1>4. pc[p].at = "write" => pc[p].job \in Job \ begun
    BY DEF InCall, Beginning
  <1>5. ~Carrying(q)'
    BY <1>1, <1>2, <1>3, <1>4 DEF Holds, Carrying
  <1>6. pc[q].at = "open" => pc[q].job \in Job \ begun'
    <2>1. pc[p].at = "write" /\ pc[q].at = "open" => pc[p].job # pc[q].job
      BY DEF FreshJobs
    <2>2. pc[q].at = "open" => pc[q].job \in Job \ begun
      BY <1>3 DEF InCall, Beginning
    <2> QED BY <2>1, <2>2
  <1>7. Beginning(q)'
    BY <1>1, <1>2, <1>3, <1>6 DEF InCall, Beginning
  <1>8. Updating(q)' /\ Resolving(q)'
    BY <1>1, <1>2 DEF Updating, Resolving
  <1>9. Owning(q)'
    BY <1>1, <1>2, <1>3 DEF Owning
  <1> QED BY <1>1, <1>2, <1>5, <1>7, <1>8, <1>9 DEF InCall, Holds, Inside

\* When only p could hold the directory, it is the only one that does.
LEMMA StillOneHolder ==
  ASSUME NEW p \in Process, \A q \in Process : q # p => ~Holds(q)'
  PROVE  OneHolder'
  BY DEF OneHolder

\* No new identifier is drawn.
LEMMA StillFresh ==
  ASSUME JournalInv, NEW p \in Process, \A q \in Process \ {p} : pc'[q] = pc[q],
         pc'[p].at \in {"open", "write"} => pc[p].at \in {"open", "write"} /\ pc'[p].job = pc[p].job
  PROVE  FreshJobs'
  BY DEF JournalInv, FreshJobs

\* A step that changes no file and lets no console in.
LEMMA FilesKept ==
  ASSUME JournalInv, UNCHANGED <<files, begun>>, NEW p \in Process,
         \A q \in Process \ {p} : pc'[q] = pc[q] /\ owned'[q] = owned[q],
         InCall(p)', Holds(p)' => Holds(p) \/ \A q \in Process \ {p} : ~Holds(q), FreshJobs', JournalTypeOK'
  PROVE  JournalInv'
  <1> USE DEF JournalInv, files
  <1>1. ASSUME NEW q \in Process, q # p PROVE InCall(q)' /\ (Holds(q)' => Holds(q))
    BY <1>1 DEF InCall, Beginning, Updating, Resolving, Owning, Holds, Carrying
  <1>2. OneHolder'
    BY <1>1 DEF OneHolder
  <1> QED BY <1>1, <1>2 DEF NoReservationLost

-----------------------------------------------------------------------------
(* Calls that change no file. *)

LEMMA BeginCheckInv == ASSUME JournalInv, NEW p \in Process, NEW j \in Job, BeginCheck(p, j) PROVE JournalInv'
  <1> USE DEF BeginCheck, Ready
  <1>1. pc'[p] = [at |-> "open", job |-> j, next |-> "prepared"] /\ pc[p] = Idle /\ owned'[p] = NoJob
    BY DEF JournalInv, JournalTypeOK
  <1>2. JournalTypeOK'
    BY DEF JournalInv, JournalTypeOK, Points, Requests, Phases, files
  <1>3. FreshJobs'
    BY <1>1 DEF JournalInv, JournalTypeOK, FreshJobs
  <1>4. InCall(p)'
    BY <1>1 DEF InCall, Beginning, Updating, Resolving, Owning
  <1>5. ~Holds(p)'
    BY <1>1 DEF Holds, Inside, Carrying
  <1>6. \A q \in Process \ {p} : pc'[q] = pc[q] /\ owned'[q] = owned[q]
    BY DEF JournalInv, JournalTypeOK
  <1> QED BY <1>1, <1>2, <1>3, <1>4, <1>5, <1>6, FilesKept

LEMMA UpdateCheckInv == ASSUME JournalInv, NEW p \in Process, UpdateCheck(p) PROVE JournalInv'
  <1> USE DEF UpdateCheck, Ready
  <1>1. /\ pc[p] = Idle /\ owned'[p] = owned[p] /\ pendingFile.phase \in Phases \ {"complete"}
        /\ pc'[p] = [at |-> "tmpopen", job |-> owned[p], next |-> NextPhase[pendingFile.phase]]
        /\ Whole(pendingFile) /\ pendingFile.job = owned[p]
    BY DEF JournalInv, JournalTypeOK, Read, Whole, Record
  <1>2. NextPhase[pendingFile.phase] \in Phases
    BY <1>1 DEF NextPhase, Phases
  <1>3. JournalTypeOK'
    BY <1>1, <1>2 DEF JournalInv, JournalTypeOK, Points, Requests, files
  <1>4. InCall(p)' /\ Holds(p)
    BY <1>1, <1>2 DEF JournalInv, InCall, Beginning, Updating, Resolving, Owning, Carrying, Holds, files
  <1>5. FreshJobs'
    BY <1>1, StillFresh DEF JournalInv, JournalTypeOK
  <1>6. \A q \in Process \ {p} : pc'[q] = pc[q] /\ owned'[q] = owned[q]
    BY DEF JournalInv, JournalTypeOK
  <1> QED BY <1>3, <1>4, <1>5, <1>6, FilesKept

LEMMA GiveUpInv == ASSUME JournalInv, NEW p \in Process, GiveUp(p) PROVE JournalInv'
  <1> USE DEF GiveUp, Ready, At, Return
  <1> DEFINE mine == Read = "job" /\ pendingFile.job = owned[p] /\ pendingFile.phase = "prepared"
  <1>1. /\ owned'[p] = NoJob /\ owned[p] \in Job
        /\ mine => pc'[p] = [at |-> "histopen", job |-> owned[p], next |-> "discarded"]
        /\ ~mine => pc'[p] = Idle
    BY DEF JournalInv, JournalTypeOK
  <1>2. mine => Whole(pendingFile) /\ pendingFile.job = owned[p]
    BY DEF Read
  <1> HIDE DEF mine
  <1>3. JournalTypeOK'
    <2>1. pc' = [pc EXCEPT ![p] = pc'[p]]
      BY DEF JournalInv, JournalTypeOK
    <2> QED BY <1>1, <2>1 DEF JournalInv, JournalTypeOK, Points, Requests, Resolutions, Idle, files
  <1>4. InCall(p)'
    BY <1>1, <1>2 DEF InCall, Beginning, Updating, Resolving, Owning, Idle, files, Resolutions
  <1>5. Holds(p)' => Holds(p)
    BY <1>1, <1>2 DEF Holds, Carrying, Inside, Idle
  <1>6. FreshJobs'
    BY <1>1, StillFresh DEF JournalInv, JournalTypeOK, Idle
  <1>7. \A q \in Process \ {p} : pc'[q] = pc[q] /\ owned'[q] = owned[q]
    BY DEF JournalInv, JournalTypeOK
  <1> QED BY <1>3, <1>4, <1>5, <1>6, <1>7, FilesKept

LEMMA ResolveCheckInv ==
  ASSUME JournalInv, NEW p \in Process, NEW r \in Resolutions, ResolveCheck(p, r),
         \A q \in Process \ {p} : ~Holds(q)
  PROVE  JournalInv'
  <1> USE DEF ResolveCheck, Ready
  <1>1. /\ owned'[p] = NoJob /\ Whole(pendingFile) /\ pendingFile.job \in Job
        /\ pc'[p] = [at |-> "histopen", job |-> pendingFile.job, next |-> r]
    BY DEF JournalInv, JournalTypeOK, Read, Whole, Record
  <1>2. JournalTypeOK'
    BY <1>1 DEF JournalInv, JournalTypeOK, Points, Requests, files
  <1>3. InCall(p)'
    BY <1>1 DEF InCall, Beginning, Updating, Resolving, Owning, files
  <1>4. FreshJobs'
    BY <1>1, StillFresh DEF JournalInv, JournalTypeOK
  <1>5. \A q \in Process \ {p} : pc'[q] = pc[q] /\ owned'[q] = owned[q]
    BY DEF JournalInv, JournalTypeOK
  <1> QED BY <1>2, <1>3, <1>4, <1>5, FilesKept

LEMMA AdoptInv == ASSUME JournalInv, NEW p \in Process, Adopt(p), \A q \in Process \ {p} : ~Holds(q) PROVE JournalInv'
  <1> USE DEF Adopt, Ready
  <1>1. /\ owned'[p] = pendingFile.job /\ Whole(pendingFile) /\ pendingFile.job \in Job
        /\ pc[p] = Idle
    BY DEF JournalInv, JournalTypeOK, Read, Whole, Record
  <1>2. JournalTypeOK'
    BY <1>1 DEF JournalInv, JournalTypeOK, files
  <1>3. InCall(p)'
    BY <1>1 DEF JournalInv, InCall, Beginning, Updating, Resolving, Owning, Carrying, Idle, files
  <1>4. FreshJobs'
    BY StillFresh
  <1>5. \A q \in Process \ {p} : pc'[q] = pc[q] /\ owned'[q] = owned[q]
    BY DEF JournalInv, JournalTypeOK
  <1> QED BY <1>2, <1>3, <1>4, <1>5, FilesKept

\* A console that is back at rest without a creation, and one that failed on its own.
LEMMA AtRestInv ==
  ASSUME JournalInv, NEW p \in Process, UNCHANGED <<files, begun>>,
         pc' = [pc EXCEPT ![p] = Idle], owned' = [owned EXCEPT ![p] = NoJob],
         crashes' \in 0..MaxCrashes, failures' \in 0..MaxFailures
  PROVE  JournalInv'
  <1>1. pc'[p] = Idle /\ owned'[p] = NoJob
    BY DEF JournalInv, JournalTypeOK
  <1>2. JournalTypeOK'
    BY DEF JournalInv, JournalTypeOK, Points, Requests, Idle, files
  <1>3. InCall(p)' /\ ~Holds(p)'
    BY <1>1 DEF InCall, Beginning, Updating, Resolving, Owning, Idle, Holds, Carrying, Inside
  <1>4. FreshJobs'
    BY <1>1, StillFresh DEF JournalInv, JournalTypeOK, Idle
  <1>5. \A q \in Process \ {p} : pc'[q] = pc[q] /\ owned'[q] = owned[q]
    BY DEF JournalInv, JournalTypeOK
  <1> QED BY <1>2, <1>3, <1>4, <1>5, FilesKept

LEMMA CrashInv == ASSUME JournalInv, NEW p \in Process, Crash(p) PROVE JournalInv'
  <1>1. crashes' \in 0..MaxCrashes /\ failures' \in 0..MaxFailures
    BY JournalConstants DEF Crash, JournalInv, JournalTypeOK
  <1> QED BY <1>1, AtRestInv DEF Crash, Return

-----------------------------------------------------------------------------
(* Calls that change the directory. *)

\* What such a call of p does to the files: no record of the history changes, the
\* reservation stays one of the same job, and no creation is lost.
Moves(p) ==
  /\ Holds(p)
  /\ \A j \in Job : Whole(history[j]) => history'[j] = history[j]
  /\ begun' = begun \/ (pc[p].at = "write" /\ begun' = begun \cup {pc[p].job})
  /\ Whole(pendingFile') =>
       \/ Whole(pendingFile) /\ pendingFile'.job = pendingFile.job
       \/ pc[p].at = "write" /\ pendingFile'.job = pc[p].job
  /\ {pendingFile', tmpFile'} \subseteq Record \cup {NoFile, Torn}
  /\ history' \in [Job -> Record \cup {NoFile, Torn}] /\ begun' \subseteq Job
  /\ Whole(pendingFile') => pendingFile'.job \in begun'
  /\ NoReservationLost'

LEMMA WholeFacts ==
  /\ ~Whole(NoFile) /\ ~Whole(Torn) /\ NoFile # Torn
  /\ \A f : Whole(f) => f.job \in Job /\ f.phase \in Phases
  /\ \A j \in Job, ph \in Phases, r \in Resolutions \cup {"none"} :
       Whole([job |-> j, phase |-> ph, resolution |-> r])
  BY JournalConstants DEF Whole, Record

LEMMA WritePendingMoves == ASSUME JournalInv, NEW p \in Process, WritePending(p)
                           PROVE  Moves(p) /\ Whole(pendingFile') /\ pendingFile'.job = pc[p].job
  <1> USE DEF WritePending, At, JournalInv
  <1>1. pc[p].job \in Job \ begun /\ pendingFile = Torn
    BY DEF InCall, Beginning
  <1>2. Whole(pendingFile') /\ pendingFile'.job = pc[p].job
    BY <1>1, WholeFacts DEF Phases
  <1>3. NoReservationLost'
    BY <1>1, <1>2, WholeFacts DEF NoReservationLost
  <1> QED BY <1>1, <1>2, <1>3 DEF Moves, Holds, Inside, JournalTypeOK, Whole

LEMMA WriteTmpMoves == ASSUME JournalInv, NEW p \in Process, WriteTmp(p)
                       PROVE  Moves(p) /\ Whole(tmpFile') /\ tmpFile'.job = pc[p].job
  <1> USE DEF WriteTmp, At, JournalInv
  <1>1. pc[p].job \in Job /\ pc[p].next \in Phases
    BY WholeFacts DEF InCall, Updating, Carrying
  <1>2. Whole(tmpFile') /\ tmpFile'.job = pc[p].job
    BY <1>1, WholeFacts
  <1>3. NoReservationLost'
    BY DEF NoReservationLost
  <1> QED BY <1>1, <1>2, <1>3 DEF Moves, Holds, Inside, JournalTypeOK, Whole

LEMMA RenameTmpMoves == ASSUME JournalInv, NEW p \in Process, RenameTmp(p)
                        PROVE  Moves(p) /\ Whole(pendingFile') /\ pendingFile'.job = owned[p]
  <1> USE DEF RenameTmp, At, JournalInv
  <1>1. Whole(pendingFile) /\ pendingFile.job = owned[p] /\ Whole(tmpFile) /\ tmpFile.job = owned[p]
    BY DEF InCall, Updating, Carrying
  <1>2. NoReservationLost'
    BY <1>1 DEF NoReservationLost
  <1> QED BY <1>1, <1>2 DEF Moves, Holds, Inside, JournalTypeOK, Whole

LEMMA MoveToHistoryMoves == ASSUME JournalInv, NEW p \in Process, MoveToHistory(p)
                            PROVE  Moves(p) /\ Whole(history'[pc[p].job]) /\ pendingFile' = NoFile
  <1> USE DEF MoveToHistory, At, JournalInv
  <1>1. Whole(pendingFile) /\ pendingFile.job = pc[p].job /\ pc[p].job \in Job
    BY WholeFacts DEF InCall, Updating, Carrying
  <1>2. /\ history'[pc[p].job] = pendingFile /\ ~Whole(history[pc[p].job])
        /\ \A j \in Job \ {pc[p].job} : history'[j] = history[j]
    BY <1>1, WholeFacts DEF JournalTypeOK
  <1>3. NoReservationLost'
    BY <1>1, <1>2, WholeFacts DEF NoReservationLost, JournalTypeOK
  <1> QED BY <1>1, <1>2, <1>3, WholeFacts DEF Moves, Holds, Inside, JournalTypeOK

LEMMA WriteHistoryMoves == ASSUME JournalInv, NEW p \in Process, WriteHistory(p)
                           PROVE  Moves(p) /\ Whole(history'[pc[p].job])
  <1> USE DEF WriteHistory, At, JournalInv
  <1>1. /\ Whole(pendingFile) /\ pendingFile.job = pc[p].job /\ pc[p].job \in Job
        /\ pc[p].next \in Resolutions /\ pendingFile.phase \in Phases /\ history[pc[p].job] = Torn
    BY WholeFacts DEF InCall, Resolving
  <1> DEFINE entry == [job |-> pc[p].job, phase |-> pendingFile.phase, resolution |-> pc[p].next]
  <1>2. Whole(entry)
    BY <1>1, WholeFacts
  <1>3. history' = [history EXCEPT ![pc[p].job] = entry]
    OBVIOUS
  <1> HIDE DEF entry, WriteHistory
  <1>4. UNCHANGED <<pendingFile, tmpFile, begun>>
    BY DEF WriteHistory
  <1>5. /\ history'[pc[p].job] = entry /\ ~Whole(history[pc[p].job])
        /\ \A j \in Job \ {pc[p].job} : history'[j] = history[j]
    BY <1>1, <1>3, WholeFacts DEF JournalTypeOK
  <1>6. NoReservationLost'
    BY <1>1, <1>2, <1>4, <1>5 DEF NoReservationLost, JournalTypeOK
  <1>7. history' \in [Job -> Record \cup {NoFile, Torn}]
    BY <1>2, <1>3 DEF JournalTypeOK, Whole
  <1>8. Holds(p)
    BY DEF WriteHistory, Holds, Inside
  <1> QED BY <1>2, <1>4, <1>5, <1>6, <1>7, <1>8 DEF Moves, JournalTypeOK

LEMMA RemovePendingMoves == ASSUME JournalInv, NEW p \in Process, RemovePending(p)
                            PROVE  Moves(p) /\ pendingFile' = NoFile
  <1> USE DEF RemovePending, At, JournalInv
  <1>1. Whole(pendingFile) /\ pendingFile.job = pc[p].job /\ Whole(history[pc[p].job])
    BY DEF InCall, Resolving
  <1>2. NoReservationLost'
    BY <1>1 DEF NoReservationLost
  <1> QED BY <1>1, <1>2, WholeFacts DEF Moves, Holds, Inside, JournalTypeOK

\* The invariant after a call of the holder, once what it then relies on is shown.
LEMMA HolderStep ==
  ASSUME JournalInv, NEW p \in Process, Moves(p), NEW point \in PcType, NEW job \in Job \cup {NoJob},
         pc' = [pc EXCEPT ![p] = point], owned' = [owned EXCEPT ![p] = job],
         point.at \notin {"open", "write"}, InCall(p)',
         crashes' \in 0..MaxCrashes, failures' \in 0..MaxFailures
  PROVE  JournalInv'
  <1>1. \A q \in Process \ {p} : pc'[q] = pc[q] /\ owned'[q] = owned[q]
    BY DEF JournalInv, JournalTypeOK
  <1>2. pc'[p] = point
    BY DEF JournalInv, JournalTypeOK
  <1>3. JournalTypeOK'
    BY DEF JournalInv, JournalTypeOK, Moves, PcType
  <1>4. \A q \in Process : q # p => InCall(q)' /\ ~Holds(q)'
    <2> SUFFICES ASSUME NEW q \in Process, q # p PROVE InCall(q)' /\ ~Holds(q)'
      OBVIOUS
    <2>1. \A j \in Job : Whole(history[j]) => Whole(history'[j])
      BY DEF Moves
    <2> QED BY <1>1, <2>1, OthersKeep DEF Moves
  <1>5. OneHolder'
    BY <1>4, StillOneHolder
  <1>6. FreshJobs'
    BY <1>1, <1>2, StillFresh
  <1> QED BY <1>3, <1>4, <1>5, <1>6 DEF JournalInv, Moves

\* p goes on to another point of the same call.
LEMMA GoFacts ==
  ASSUME JournalInv, NEW p \in Process, NEW at \in Points, Go(p, at)
  PROVE  /\ [pc[p] EXCEPT !.at = at] \in PcType
         /\ pc' = [pc EXCEPT ![p] = [pc[p] EXCEPT !.at = at]]
         /\ pc'[p].at = at /\ pc'[p].job = pc[p].job /\ pc'[p].next = pc[p].next
  BY DEF JournalInv, JournalTypeOK, Go, PcType

LEMMA ReturnFacts ==
  ASSUME JournalInv, NEW p \in Process, Return(p)
  PROVE  Idle \in PcType /\ pc'[p] = Idle /\ pc' = [pc EXCEPT ![p] = Idle] /\ Idle.at = "idle"
  BY DEF JournalInv, JournalTypeOK, Return, PcType, Idle, Points, Requests

\* What p owns when its step leaves that alone.
LEMMA OwnedFacts ==
  ASSUME JournalInv, NEW p \in Process, UNCHANGED <<owned, crashes, failures>>
  PROVE  /\ owned[p] \in Job \cup {NoJob} /\ owned' = [owned EXCEPT ![p] = owned[p]]
         /\ crashes' \in 0..MaxCrashes /\ failures' \in 0..MaxFailures
  BY DEF JournalInv, JournalTypeOK

\* The holder's step, when it goes on and when its call returns.
LEMMA GoStep ==
  ASSUME JournalInv, NEW p \in Process, Moves(p), NEW at \in Points \ {"open", "write"}, Go(p, at),
         UNCHANGED <<owned, crashes, failures>>, InCall(p)'
  PROVE  JournalInv'
  <1> DEFINE point == [pc[p] EXCEPT !.at = at]
  <1>1. point \in PcType /\ pc' = [pc EXCEPT ![p] = point] /\ point.at = at
    BY GoFacts DEF JournalInv, JournalTypeOK
  <1> HIDE DEF point
  <1> QED BY <1>1, OwnedFacts, HolderStep

LEMMA ReturnStep ==
  ASSUME JournalInv, NEW p \in Process, Moves(p), Return(p), NEW job \in Job \cup {NoJob},
         owned' = [owned EXCEPT ![p] = job], UNCHANGED <<crashes, failures>>, InCall(p)'
  PROVE  JournalInv'
  <1>1. crashes' \in 0..MaxCrashes /\ failures' \in 0..MaxFailures
    BY DEF JournalInv, JournalTypeOK
  <1> QED BY <1>1, ReturnFacts, HolderStep

LEMMA BeginOpenInv == ASSUME JournalInv, NEW p \in Process, BeginOpen(p) PROVE JournalInv'
  <1>1. pc[p].at = "open" /\ owned[p] = NoJob /\ pc[p].job \in Job \ begun
    BY DEF BeginOpen, At, JournalInv, InCall, Beginning
  <1>2. CASE pendingFile # NoFile
    <2>1. /\ Return(p) /\ UNCHANGED <<files, begun, crashes, failures>>
          /\ owned' = [owned EXCEPT ![p] = NoJob]
      BY <1>1, <1>2, WholeFacts DEF BeginOpen, files, JournalInv, JournalTypeOK
    <2> QED BY <2>1, AtRestInv DEF Return, JournalInv, JournalTypeOK
  <1>3. CASE pendingFile = NoFile
    <2>1. pendingFile' = Torn /\ Go(p, "write") /\ UNCHANGED <<tmpFile, history, owned, begun, crashes, failures>>
      BY <1>3, WholeFacts DEF BeginOpen
    <2>2. "write" \in Points
      BY DEF Points
    <2>3. /\ pc' = [pc EXCEPT ![p] = [pc[p] EXCEPT !.at = "write"]]
          /\ pc'[p].at = "write" /\ pc'[p].job = pc[p].job
      BY <2>1, <2>2, GoFacts
    <2>4. \A q \in Process : ~Holds(q)
      BY <1>3, WholeFacts DEF JournalInv, InCall, Beginning, Updating, Resolving, Holds, Inside, Carrying
    <2>5. \A q \in Process \ {p} : pc'[q] = pc[q]
      BY <2>3 DEF JournalInv, JournalTypeOK
    <2>6. JournalTypeOK'
      BY <2>1, <2>2, <2>3, GoFacts DEF JournalInv, JournalTypeOK, PcType
    <2>7. ASSUME NEW q \in Process, q # p PROVE InCall(q)' /\ ~Holds(q)'
      BY <2>1, <2>4, <2>5, <2>7, WholeFacts
      DEF JournalInv, InCall, Beginning, Updating, Resolving, Owning, Holds, Inside, Carrying
    <2>8. InCall(p)'
      BY <1>1, <2>1, <2>3 DEF InCall, Beginning, Updating, Resolving, Owning
    <2>9. OneHolder'
      BY <2>7, StillOneHolder
    <2>10. FreshJobs'
      BY <1>1, <2>3, <2>5, StillFresh
    <2>11. NoReservationLost' /\ ~Whole(pendingFile')
      BY <1>3, <2>1, WholeFacts DEF JournalInv, NoReservationLost
    <2> QED BY <2>6, <2>7, <2>8, <2>9, <2>10, <2>11 DEF JournalInv
  <1> QED BY <1>2, <1>3

LEMMA BeginWriteInv == ASSUME JournalInv, NEW p \in Process, BeginWrite(p) PROVE JournalInv'
  <1>1. Moves(p) /\ Whole(pendingFile') /\ pendingFile'.job = pc[p].job /\ Return(p)
    BY WritePendingMoves DEF BeginWrite
  <1>2. pc[p].job \in Job /\ begun' = begun \cup {pc[p].job} /\ owned' = [owned EXCEPT ![p] = pc[p].job]
    BY DEF BeginWrite, WritePending, At, JournalInv, InCall, Beginning
  <1>3. InCall(p)'
    BY <1>1, <1>2, ReturnFacts DEF InCall, Beginning, Updating, Resolving, Owning, Carrying, JournalInv, JournalTypeOK
  <1>4. UNCHANGED <<crashes, failures>>
    BY DEF BeginWrite
  <1> QED BY <1>1, <1>2, <1>3, <1>4, ReturnStep

LEMMA UpdateOpenInv == ASSUME JournalInv, NEW p \in Process, UpdateOpen(p) PROVE JournalInv'
  <1> USE DEF UpdateOpen, At
  <1>1. Go(p, "tmpwrite") /\ "tmpwrite" \in Points /\ UNCHANGED <<owned, crashes, failures>>
    BY DEF Points
  <1>2. Moves(p)
    BY WholeFacts DEF Moves, Holds, Inside, JournalInv, JournalTypeOK, NoReservationLost
  <1>3. InCall(p)'
    BY <1>1, GoFacts DEF JournalInv, InCall, Beginning, Updating, Resolving, Owning, Carrying
  <1> QED BY <1>1, <1>2, <1>3, GoStep

LEMMA UpdateWriteInv == ASSUME JournalInv, NEW p \in Process, UpdateWrite(p) PROVE JournalInv'
  <1>1. /\ WriteTmp(p) /\ Go(p, "rename") /\ "rename" \in Points /\ UNCHANGED <<owned, crashes, failures>>
        /\ pc[p].at = "tmpwrite"
    BY DEF UpdateWrite, WriteTmp, At, Points
  <1>2. Moves(p) /\ Whole(tmpFile') /\ tmpFile'.job = pc[p].job
    BY <1>1, WriteTmpMoves
  <1>3. InCall(p)'
    BY <1>1, <1>2, GoFacts DEF WriteTmp, JournalInv, InCall, Beginning, Updating, Resolving, Owning, Carrying
  <1> QED BY <1>1, <1>2, <1>3, GoStep

LEMMA UpdateRenameInv == ASSUME JournalInv, NEW p \in Process, UpdateRename(p) PROVE JournalInv'
  <1>1. RenameTmp(p) /\ pc[p].at = "rename" /\ UNCHANGED <<owned, crashes, failures>>
    BY DEF UpdateRename, RenameTmp, At
  <1>2. Moves(p) /\ Whole(pendingFile') /\ pendingFile'.job = owned[p]
    BY <1>1, RenameTmpMoves
  <1>3. UNCHANGED begun /\ owned[p] \in begun /\ owned[p] = pc[p].job /\ owned[p] # NoJob
    BY <1>1 DEF RenameTmp, JournalInv, JournalTypeOK, InCall, Updating, Owning, Carrying
  <1>4. CASE Go(p, "archive")
    <2>1. "archive" \in Points
      BY DEF Points
    <2>2. InCall(p)'
      BY <1>1, <1>2, <1>3, <1>4, <2>1, GoFacts DEF InCall, Beginning, Updating, Resolving, Owning, Carrying
    <2> QED BY <1>1, <1>2, <1>4, <2>1, <2>2, GoStep
  <1>5. CASE Return(p)
    <2>1. InCall(p)'
      BY <1>1, <1>2, <1>3, <1>5, ReturnFacts DEF InCall, Beginning, Updating, Resolving, Owning, Carrying
    <2> QED BY <1>1, <1>2, <1>5, <2>1, OwnedFacts, ReturnStep
  <1> QED BY <1>4, <1>5 DEF UpdateRename

LEMMA ArchiveInv == ASSUME JournalInv, NEW p \in Process, Archive(p) PROVE JournalInv'
  <1>1. Return(p) /\ owned' = [owned EXCEPT ![p] = NoJob] /\ UNCHANGED <<crashes, failures>>
    BY DEF Archive
  <1>2. crashes' \in 0..MaxCrashes /\ failures' \in 0..MaxFailures
    BY <1>1 DEF JournalInv, JournalTypeOK
  <1>3. CASE UNCHANGED <<files, begun>>
    BY <1>1, <1>2, <1>3, AtRestInv DEF Return
  <1>4. CASE MoveToHistory(p)
    <2>1. Moves(p)
      BY <1>4, MoveToHistoryMoves
    <2>2. InCall(p)'
      BY <1>1, ReturnFacts DEF InCall, Beginning, Updating, Resolving, Owning, JournalInv, JournalTypeOK
    <2> QED BY <1>1, <2>1, <2>2, ReturnStep
  <1> QED BY <1>3, <1>4 DEF Archive

LEMMA HistoryOpenInv == ASSUME JournalInv, NEW p \in Process, HistoryOpen(p) PROVE JournalInv'
  <1>1. /\ pc[p].at = "histopen" /\ owned[p] = NoJob /\ UNCHANGED <<owned, crashes, failures>>
        /\ Whole(pendingFile) /\ pendingFile.job = pc[p].job /\ pc[p].next \in Resolutions /\ pc[p].job \in Job
    BY WholeFacts DEF HistoryOpen, At, JournalInv, InCall, Resolving
  <1>2. CASE UNCHANGED history /\ Return(p)
    <2>1. UNCHANGED <<files, begun>> /\ owned' = [owned EXCEPT ![p] = NoJob]
      BY <1>1, <1>2 DEF HistoryOpen, files, JournalInv, JournalTypeOK
    <2> QED BY <1>1, <1>2, <2>1, AtRestInv, OwnedFacts DEF Return
  <1>3. CASE history[pc[p].job] = NoFile /\ history' = [history EXCEPT ![pc[p].job] = Torn] /\ Go(p, "histwrite")
    <2>1. UNCHANGED <<pendingFile, tmpFile, begun>> /\ "histwrite" \in Points
      BY <1>3 DEF HistoryOpen, Points
    <2>2. history'[pc[p].job] = Torn
      BY <1>1, <1>3 DEF JournalInv, JournalTypeOK
    <2>3. Moves(p)
      BY <1>1, <1>3, <2>1, WholeFacts DEF Moves, Holds, Inside, JournalInv, JournalTypeOK, NoReservationLost
    <2>4. InCall(p)'
      BY <1>1, <1>3, <2>1, <2>2, GoFacts DEF InCall, Beginning, Updating, Resolving, Owning
    <2> QED BY <1>1, <1>3, <2>1, <2>3, <2>4, GoStep
  <1> QED BY <1>2, <1>3 DEF HistoryOpen

LEMMA HistoryWriteInv == ASSUME JournalInv, NEW p \in Process, HistoryWrite(p) PROVE JournalInv'
  <1>1. /\ WriteHistory(p) /\ Go(p, "unlink") /\ "unlink" \in Points /\ UNCHANGED <<owned, crashes, failures>>
        /\ pc[p].at = "histwrite"
    BY DEF HistoryWrite, WriteHistory, At, Points
  <1>2. Moves(p) /\ Whole(history'[pc[p].job])
    BY <1>1, WriteHistoryMoves
  <1>3. UNCHANGED pendingFile
    BY <1>1 DEF WriteHistory
  <1>4. InCall(p)'
    BY <1>1, <1>2, <1>3, GoFacts DEF JournalInv, InCall, Beginning, Updating, Resolving, Owning
  <1> QED BY <1>1, <1>2, <1>4, GoStep

LEMMA UnlinkInv == ASSUME JournalInv, NEW p \in Process, Unlink(p) PROVE JournalInv'
  <1>1. RemovePending(p) /\ Return(p) /\ UNCHANGED <<owned, crashes, failures>> /\ owned[p] = NoJob
    BY DEF Unlink, RemovePending, At, JournalInv, InCall, Resolving
  <1>2. Moves(p)
    BY <1>1, RemovePendingMoves
  <1>3. InCall(p)'
    BY <1>1, ReturnFacts DEF InCall, Beginning, Updating, Resolving, Owning
  <1> QED BY <1>1, <1>2, <1>3, OwnedFacts, ReturnStep

\* A call that throws: p is at rest, or its handler has to give the creation up.
LEMMA CallThrowsInv == ASSUME JournalInv, NEW p \in Process, CallThrows(p) PROVE JournalInv'
  <1> DEFINE point == IF owned[p] = NoJob THEN Idle ELSE [Idle EXCEPT !.at = "failed"]
  <1>1. /\ pc' = [pc EXCEPT ![p] = point] /\ pc'[p] = point /\ UNCHANGED owned
        /\ owned' = [owned EXCEPT ![p] = owned[p]] /\ owned[p] \in Job \cup {NoJob}
    BY DEF CallThrows, JournalInv, JournalTypeOK
  <1>2. crashes' \in 0..MaxCrashes /\ failures' \in 0..MaxFailures
    BY JournalConstants DEF CallThrows, JournalInv, JournalTypeOK
  <1>3. point \in PcType /\ point.at = IF owned[p] = NoJob THEN "idle" ELSE "failed"
    BY DEF PcType, Idle, Points, Requests
  <1> HIDE DEF point
  <1>4. ASSUME owned[p] \in begun' \cup {NoJob}, owned[p] # NoJob => Carrying(p)' \/ Whole(history'[owned[p]])
        PROVE  InCall(p)'
    BY <1>1, <1>3, <1>4 DEF InCall, Beginning, Updating, Resolving, Owning
  <1>5. InCall(p) /\ owned[p] \in begun \cup {NoJob}
    BY DEF JournalInv, InCall, Owning
  <1>6. ASSUME Moves(p), owned[p] # NoJob => Carrying(p)' \/ Whole(history'[owned[p]]) PROVE JournalInv'
    <2>1. InCall(p)'
      BY <1>4, <1>5, <1>6 DEF Moves
    <2> QED BY <1>1, <1>2, <1>3, <1>6, <2>1, HolderStep
  <1>7. CASE /\ pc[p].at \in {"write", "tmpwrite", "rename", "archive", "histwrite", "unlink"}
             /\ UNCHANGED <<files, begun>>
    <2>1. owned[p] # NoJob => Carrying(p)
      BY <1>5, <1>7 DEF InCall, Beginning, Updating, Resolving
    <2>2. InCall(p)' /\ Holds(p)
      BY <1>1, <1>4, <1>5, <1>7, <2>1 DEF files, Carrying, Holds, Inside
    <2>3. JournalTypeOK'
      BY <1>1, <1>2, <1>3, <1>7 DEF JournalInv, JournalTypeOK, PcType, files
    <2>4. \A q \in Process \ {p} : pc'[q] = pc[q] /\ owned'[q] = owned[q]
      BY <1>1 DEF JournalInv, JournalTypeOK
    <2>5. FreshJobs'
      BY <1>1, <1>3, <2>4, StillFresh
    <2> QED BY <1>7, <2>2, <2>3, <2>4, <2>5, FilesKept
  <1>8. CASE WritePending(p)
    <2>1. owned[p] = NoJob
      BY <1>5, <1>8 DEF WritePending, At, InCall, Beginning
    <2> QED BY <1>6, <1>8, <2>1, WritePendingMoves
  <1>9. CASE WriteTmp(p)
    <2>1. Carrying(p)'
      BY <1>1, <1>5, <1>9 DEF WriteTmp, At, InCall, Updating, Carrying
    <2> QED BY <1>6, <1>9, <2>1, WriteTmpMoves
  <1>10. CASE RenameTmp(p)
    <2>1. Carrying(p)'
      BY <1>1, <1>5, <1>10, RenameTmpMoves DEF RenameTmp, At, InCall, Updating, Carrying
    <2> QED BY <1>6, <1>10, <2>1, RenameTmpMoves
  <1>11. CASE MoveToHistory(p)
    <2>1. pc[p].job = owned[p]
      BY <1>5, <1>11 DEF MoveToHistory, At, InCall, Updating
    <2> QED BY <1>6, <1>11, <2>1, MoveToHistoryMoves
  <1>12. CASE WriteHistory(p) \/ RemovePending(p)
    <2>1. owned[p] = NoJob
      BY <1>5, <1>12 DEF WriteHistory, RemovePending, At, InCall, Resolving
    <2> QED BY <1>6, <1>12, <2>1, WriteHistoryMoves, RemovePendingMoves
  <1> QED BY <1>7, <1>8, <1>9, <1>10, <1>11, <1>12 DEF CallThrows

-----------------------------------------------------------------------------
LEMMA JournalInitInv == JournalInit => JournalInv
  <1> SUFFICES ASSUME JournalInit PROVE JournalInv
    OBVIOUS
  <1>1. JournalTypeOK
    BY JournalConstants DEF JournalInit, JournalTypeOK, Points, Requests, Idle
  <1>2. \A p \in Process : InCall(p) /\ ~Holds(p)
    BY WholeFacts DEF JournalInit, InCall, Beginning, Updating, Resolving, Owning, Holds, Inside, Carrying, Idle
  <1>3. FreshJobs
    BY DEF JournalInit, FreshJobs, Idle
  <1> QED BY <1>1, <1>2, <1>3, WholeFacts DEF JournalInit, JournalInv, OneHolder, NoReservationLost

LEMMA JournalNextInv == JournalInv /\ [JournalNext]_vars /\ [Waits]_vars => JournalInv'
  <1> SUFFICES ASSUME JournalInv, [JournalNext]_vars, [Waits]_vars PROVE JournalInv'
    OBVIOUS
  <1>1. CASE UNCHANGED vars
    BY <1>1 DEF vars, files, JournalInv, JournalTypeOK, OneHolder, FreshJobs, InCall, Beginning, Updating,
                Resolving, Owning, Holds, Carrying, NoReservationLost
  <1>2. CASE JournalNext /\ Waits
    <2>1. ASSUME NEW p \in Process, TakesOver(p) PROVE JournalInv'
      BY <1>2, <2>1, ResolveCheckInv, AdoptInv DEF Waits, TakesOver
    <2> QED BY <1>2, <2>1, BeginCheckInv, BeginOpenInv, BeginWriteInv, UpdateCheckInv, UpdateOpenInv, UpdateWriteInv,
            UpdateRenameInv, ArchiveInv, GiveUpInv, HistoryOpenInv, HistoryWriteInv, UnlinkInv,
            CallThrowsInv, CrashInv DEF JournalNext, TakesOver
  <1> QED BY <1>1, <1>2

LEMMA JournalInvariant == JournalSpec /\ OperatorWaits => []JournalInv
  <1> QED BY JournalInitInv, JournalNextInv, PTL DEF JournalSpec, OperatorWaits

\* Where there is nobody to take a creation over, or no other console, there is no one to wait for.
LEMMA AttendedWaits == ASSUME Attended PROVE JournalSpec => OperatorWaits
  <1>1. [JournalNext]_vars => [Waits]_vars
    BY DEF Attended, Waits, TakesOver, Adopt, ResolveCheck
  <1> QED BY <1>1, PTL DEF JournalSpec, OperatorWaits

-----------------------------------------------------------------------------
\* The journal's files, and the call every console is in, keep their types.
THEOREM JournalTypes == JournalSpec /\ OperatorWaits => []JournalTypeOK
  <1>1. JournalInv => JournalTypeOK
    BY DEF JournalInv
  <1> QED BY <1>1, JournalInvariant, PTL

\* NoReservationLost (creation-journal.mjs): whichever call of begin, update, complete or
\* resolve is cut short, a creation ever reserved is pending or wholly in the history.
THEOREM ReservationsKept == JournalSpec /\ OperatorWaits => []NoReservationLost
  <1>1. JournalInv => NoReservationLost
    BY DEF JournalInv
  <1> QED BY <1>1, JournalInvariant, PTL

\* OneCarrier: however many consoles found the journal clear at the same time, one of
\* them carries an unfinished creation (the exclusive open of begin).
THEOREM OneCarries == JournalSpec /\ OperatorWaits => []OneCarrier
  <1>1. JournalInv => OneCarrier
    <2> SUFFICES ASSUME JournalInv, NEW p \in Process, NEW q \in Process,
                        owned[p] # NoJob, ~Whole(history[owned[p]]),
                        owned[q] # NoJob, ~Whole(history[owned[q]])
                 PROVE  p = q
      BY DEF OneCarrier
    <2>1. owned[p] \in begun /\ owned[q] \in begun
      BY DEF JournalInv, InCall, Owning
    <2>2. Carrying(p) /\ Carrying(q)
      BY <2>1 DEF JournalInv, NoReservationLost, Carrying
    <2> QED BY <2>2 DEF JournalInv, OneHolder, Holds
  <1> QED BY <1>1, JournalInvariant, PTL

-----------------------------------------------------------------------------
(* History. *)

LEMMA HistoryKept ==
  ASSUME JournalInv, [JournalNext]_vars
  PROVE  \A j \in Job : Whole(history[j]) => history'[j] = history[j]
  <1>1. CASE UNCHANGED history
    BY <1>1
  <1>2. ASSUME NEW p \in Process,
               MoveToHistory(p) \/ WriteHistory(p) \/ WritePending(p) \/ WriteTmp(p) \/ RenameTmp(p) \/ RemovePending(p)
        PROVE  \A j \in Job : Whole(history[j]) => history'[j] = history[j]
    BY <1>2, MoveToHistoryMoves, WriteHistoryMoves, WritePendingMoves, WriteTmpMoves, RenameTmpMoves,
       RemovePendingMoves DEF Moves
  <1>3. ASSUME NEW p \in Process, HistoryOpen(p) PROVE \A j \in Job : Whole(history[j]) => history'[j] = history[j]
    BY <1>3, WholeFacts DEF HistoryOpen, JournalInv, JournalTypeOK
  <1> QED BY <1>1, <1>2, <1>3
          DEF JournalNext, vars, files, BeginCheck, BeginOpen, BeginWrite, UpdateCheck, UpdateOpen, UpdateWrite,
              UpdateRename, Archive, GiveUp, ResolveCheck, HistoryWrite, Unlink, Adopt, CallThrows, Crash

\* HistoryNeverRewritten: no step, also of a retried resolution, changes a record that is
\* whole (the history file is opened exclusively, and archived by rename to a free name).
THEOREM HistoryStays == JournalSpec /\ OperatorWaits => HistoryNeverRewritten
  <1>1. JournalInv /\ [JournalNext]_vars => [\A j \in Job : Whole(history[j]) => history'[j] = history[j]]_vars
    BY HistoryKept
  <1> QED BY <1>1, JournalInvariant, PTL DEF JournalSpec, HistoryNeverRewritten

-----------------------------------------------------------------------------
(* The directory implements the reservation book. *)

\* What the records say: the phase that an update carries is the next one, a resolution is
\* one that the phase of the pending record permits, and history is of reserved creations.
Steady(p) ==
  /\ pc[p].at \in {"tmpopen", "tmpwrite", "rename"} =>
       pendingFile.phase \in DOMAIN NextPhase /\ pc[p].next = NextPhase[pendingFile.phase]
  /\ pc[p].at = "rename" => tmpFile.phase = pc[p].next /\ tmpFile.resolution = "none"
  /\ pc[p].at = "archive" => pendingFile.phase = "complete"
  /\ pc[p].at \in {"histopen", "histwrite", "unlink"} => Allowed(pendingFile.phase, pc[p].next)

RecordsInv ==
  /\ Whole(pendingFile) => pendingFile.resolution = "none"
  /\ \A p \in Process : Steady(p)
  /\ \A j \in Job : Whole(history[j]) => j \in begun

\* A step of p, by which the files that the other consoles are about to use stay as they are.
LEMMA RecordsKept ==
  ASSUME RecordsInv, NEW p \in Process, \A q \in Process \ {p} : pc'[q] = pc[q],
         UNCHANGED <<pendingFile, tmpFile>> \/ \A q \in Process \ {p} : pc[q].at \notin Inside,
         Steady(p)', Whole(pendingFile') => pendingFile'.resolution = "none",
         \A j \in Job : Whole(history'[j]) => j \in begun'
  PROVE  RecordsInv'
  <1>1. ASSUME NEW q \in Process, q # p PROVE Steady(q)'
    BY <1>1 DEF RecordsInv, Steady, Inside
  <1> QED BY <1>1 DEF RecordsInv

\* One that changes no file.
LEMMA RecordsStay ==
  ASSUME RecordsInv, NEW p \in Process, \A q \in Process \ {p} : pc'[q] = pc[q], UNCHANGED <<files, begun>>, Steady(p)'
  PROVE  RecordsInv'
  BY RecordsKept DEF RecordsInv, files

\* A call of the holder that leaves good records; what the calls that write do.
Recording(p) ==
  /\ Holds(p)
  /\ Whole(pendingFile') => pendingFile'.resolution = "none"
  /\ \A j \in Job : Whole(history'[j]) => j \in begun'

LEMMA RecordsMoved ==
  ASSUME JournalInv, RecordsInv, NEW p \in Process, Recording(p), \A q \in Process \ {p} : pc'[q] = pc[q], Steady(p)'
  PROVE  RecordsInv'
  <1>1. \A q \in Process \ {p} : pc[q].at \notin Inside
    BY OthersOutside DEF Inside, Recording
  <1> QED BY <1>1, RecordsKept DEF Recording

LEMMA RecordsOfMoves ==
  ASSUME JournalInv, RecordsInv, NEW p \in Process
  PROVE  /\ WritePending(p) => Recording(p)
         /\ WriteTmp(p) => /\ Recording(p) /\ UNCHANGED pendingFile
                           /\ tmpFile'.phase = pc[p].next /\ tmpFile'.resolution = "none"
         /\ RenameTmp(p) => Recording(p) /\ pendingFile'.phase = pc[p].next
         /\ MoveToHistory(p) => Recording(p)
         /\ WriteHistory(p) => Recording(p) /\ UNCHANGED pendingFile
         /\ RemovePending(p) => Recording(p)
  <1> USE DEF JournalInv, At
  <1>1. InCall(p) /\ Steady(p)
    BY DEF RecordsInv
  <1>2. /\ Whole(pendingFile) => pendingFile.resolution = "none" /\ pendingFile.job \in begun
        /\ \A j \in Job : Whole(history[j]) => j \in begun
    BY DEF RecordsInv
  <1>3. ASSUME WritePending(p) PROVE Recording(p)
    BY <1>2, <1>3 DEF WritePending, Recording, Holds, Inside
  <1>4. ASSUME WriteTmp(p) \/ RenameTmp(p)
        PROVE  Holds(p) /\ UNCHANGED <<history, begun>>
    BY <1>4 DEF WriteTmp, RenameTmp, Holds, Inside
  <1>5. ASSUME RenameTmp(p) PROVE pendingFile'.phase = pc[p].next /\ pendingFile'.resolution = "none"
    BY <1>1, <1>5 DEF RenameTmp, Steady
  <1>6. ASSUME WriteTmp(p)
        PROVE  tmpFile'.phase = pc[p].next /\ tmpFile'.resolution = "none" /\ UNCHANGED pendingFile
    BY <1>6 DEF WriteTmp
  <1>7. ASSUME MoveToHistory(p) \/ WriteHistory(p)
        PROVE  /\ Holds(p) /\ UNCHANGED begun /\ pc[p].job \in begun
               /\ \A j \in Job \ {pc[p].job} : history'[j] = history[j]
    <2>1. Whole(pendingFile) /\ pendingFile.job = pc[p].job
      BY <1>1, <1>7 DEF MoveToHistory, WriteHistory, InCall, Updating, Resolving, Carrying
    <2> QED BY <1>2, <1>7, <2>1 DEF MoveToHistory, WriteHistory, Holds, Inside, JournalTypeOK
  <1>8. ASSUME RemovePending(p) PROVE Holds(p) /\ UNCHANGED <<history, begun>> /\ ~Whole(pendingFile')
    BY <1>8, WholeFacts DEF RemovePending, Holds, Inside
  <1>9. /\ MoveToHistory(p) => ~Whole(pendingFile')
        /\ WriteHistory(p) => UNCHANGED pendingFile
    BY WholeFacts DEF MoveToHistory, WriteHistory
  <1>10. RenameTmp(p) \/ WriteTmp(p) => Recording(p)
    BY <1>2, <1>4, <1>5, <1>6 DEF Recording
  <1>11. MoveToHistory(p) \/ WriteHistory(p) => Recording(p)
    BY <1>2, <1>7, <1>9 DEF Recording
  <1>12. RemovePending(p) => Recording(p)
    BY <1>2, <1>8 DEF Recording
  <1> QED BY <1>3, <1>5, <1>6, <1>9, <1>10, <1>11, <1>12

LEMMA RecordsStep ==
  ASSUME JournalInv, RecordsInv, [JournalNext]_vars PROVE RecordsInv'
  <1>1. CASE UNCHANGED vars
    BY <1>1 DEF vars, files, RecordsInv, Steady
  <1>2. ASSUME NEW p \in Process,
               \/ \E j \in Job : BeginCheck(p, j)
               \/ UpdateCheck(p) \/ GiveUp(p) \/ (\E r \in Resolutions : ResolveCheck(p, r)) \/ Adopt(p) \/ Crash(p)
        PROVE  RecordsInv'
    <2>1. UNCHANGED <<files, begun>> /\ \A q \in Process \ {p} : pc'[q] = pc[q]
      BY <1>2 DEF JournalInv, JournalTypeOK, BeginCheck, UpdateCheck, GiveUp, ResolveCheck, Adopt, Crash, Return
    <2>2. Steady(p)
      BY DEF RecordsInv
    <2>3. pc \in [Process -> PcType] /\ (Read = "job" => Whole(pendingFile))
      BY DEF JournalInv, JournalTypeOK, PcType, Read
    <2>4. CASE \E j \in Job : BeginCheck(p, j)
      <3>1. pc'[p].at = "open"
        BY <2>3, <2>4 DEF BeginCheck
      <3>2. Steady(p)'
        BY <3>1 DEF Steady
      <3> QED BY <2>1, <3>2, RecordsStay
    <2>5. CASE UpdateCheck(p)
      <3>1. /\ pc'[p].at = "tmpopen" /\ pc'[p].next = NextPhase[pendingFile.phase]
            /\ pendingFile.phase \in Phases \ {"complete"}
        BY <2>3, <2>5, WholeFacts DEF UpdateCheck
      <3>2. Steady(p)'
        BY <2>1, <3>1 DEF Steady, files, NextPhase, Phases
      <3> QED BY <2>1, <3>2, RecordsStay
    <2>6. CASE GiveUp(p)
      <3>1. \/ pc'[p] = Idle
            \/ pc'[p].at = "histopen" /\ pc'[p].next = "discarded" /\ pendingFile.phase = "prepared"
        BY <2>3, <2>6 DEF GiveUp, Return
      <3>2. Steady(p)'
        BY <2>1, <3>1 DEF Steady, files, Allowed, Idle
      <3> QED BY <2>1, <3>2, RecordsStay
    <2>7. ASSUME NEW r \in Resolutions, ResolveCheck(p, r) PROVE RecordsInv'
      <3>1. pc'[p].at = "histopen" /\ pc'[p].next = r /\ Allowed(pendingFile.phase, r)
        BY <2>3, <2>7 DEF ResolveCheck
      <3>2. Steady(p)'
        BY <2>1, <3>1 DEF Steady, files, Allowed
      <3> QED BY <2>1, <3>2, RecordsStay
    <2>8. CASE Adopt(p) \/ Crash(p)
      <3>1. pc'[p] = pc[p] \/ pc'[p] = Idle
        BY <2>3, <2>8 DEF Adopt, Crash, Return
      <3>2. Steady(p)'
        BY <2>1, <2>2, <3>1 DEF Steady, files, Idle, Allowed
      <3> QED BY <2>1, <3>2, RecordsStay
    <2> QED BY <1>2, <2>4, <2>5, <2>6, <2>7, <2>8
  <1>3. ASSUME NEW p \in Process,
               BeginOpen(p) \/ UpdateOpen(p) \/ HistoryOpen(p) \/ (Archive(p) /\ UNCHANGED files)
        PROVE  RecordsInv'
    <2>1. Steady(p) /\ pc \in [Process -> PcType]
      BY DEF RecordsInv, JournalInv, JournalTypeOK, PcType
    <2>2. \A q \in Process \ {p} : pc'[q] = pc[q]
      BY <1>3, <2>1 DEF BeginOpen, UpdateOpen, HistoryOpen, Archive, Go, Return
    <2>3. CASE BeginOpen(p)
      <3>1. pc'[p].at \in {"write", "idle"} /\ UNCHANGED <<history, begun, tmpFile>>
        BY <2>1, <2>3 DEF BeginOpen, Go, Return, Idle, PcType
      <3>2. Steady(p)'
        BY <3>1 DEF Steady
      <3>3. UNCHANGED pendingFile \/ (pendingFile = NoFile /\ pendingFile' = Torn)
        BY <2>3 DEF BeginOpen
      <3>4. pendingFile = NoFile => \A q \in Process : pc[q].at \notin Inside
        <4> SUFFICES ASSUME pendingFile = NoFile, NEW q \in Process, pc[q].at \in Inside PROVE FALSE
          OBVIOUS
        <4> QED BY WholeFacts DEF JournalInv, InCall, Beginning, Updating, Resolving, Carrying, Inside
      <3> QED BY <2>2, <3>1, <3>2, <3>3, <3>4, WholeFacts, RecordsKept DEF RecordsInv
    <2>4. CASE UpdateOpen(p)
      <3>1. pc'[p].at = "tmpwrite" /\ pc'[p].next = pc[p].next /\ UNCHANGED <<pendingFile, history, begun>>
            /\ pc[p].at = "tmpopen"
        BY <2>1, <2>4 DEF UpdateOpen, Go, At, PcType
      <3>2. Steady(p)' /\ Holds(p)
        BY <2>1, <3>1 DEF Steady, Holds, Inside
      <3> QED BY <2>2, <3>1, <3>2, RecordsMoved DEF RecordsInv, Recording
    <2>5. CASE HistoryOpen(p)
      <3>1. pc'[p].at \in {"histwrite", "idle"} /\ UNCHANGED <<pendingFile, tmpFile, begun>> /\ pc[p].at = "histopen"
            /\ (pc'[p].at = "histwrite" => pc'[p].next = pc[p].next)
        BY <2>1, <2>5 DEF HistoryOpen, Go, Return, Idle, At, PcType
      <3>2. \A j \in Job : Whole(history'[j]) => Whole(history[j])
        BY <2>5, WholeFacts DEF HistoryOpen, JournalInv, JournalTypeOK
      <3>3. Steady(p)'
        BY <2>1, <3>1 DEF Steady, Allowed
      <3> QED BY <2>2, <3>1, <3>2, <3>3, RecordsKept DEF RecordsInv
    <2>6. CASE Archive(p) /\ UNCHANGED files
      <3>1. pc'[p] = Idle /\ UNCHANGED <<files, begun>>
        BY <2>1, <2>6 DEF Archive, Return, MoveToHistory
      <3>2. Steady(p)'
        BY <3>1 DEF Steady, Idle
      <3> QED BY <2>2, <3>1, <3>2, RecordsStay
    <2> QED BY <1>3, <2>3, <2>4, <2>5, <2>6
  <1>4. ASSUME NEW p \in Process,
               BeginWrite(p) \/ UpdateWrite(p) \/ UpdateRename(p) \/ (Archive(p) /\ MoveToHistory(p))
                 \/ HistoryWrite(p) \/ Unlink(p)
        PROVE  RecordsInv'
    <2>1. Steady(p) /\ pc \in [Process -> PcType]
      BY DEF RecordsInv, JournalInv, JournalTypeOK, PcType
    <2>2. \A q \in Process \ {p} : pc'[q] = pc[q]
      BY <1>4, <2>1 DEF BeginWrite, UpdateWrite, UpdateRename, Archive, HistoryWrite, Unlink, Go, Return
    <2>3. CASE BeginWrite(p) \/ (Archive(p) /\ MoveToHistory(p)) \/ Unlink(p)
      <3>1. pc'[p] = Idle
        BY <2>1, <2>3 DEF BeginWrite, Archive, Unlink, Return
      <3>2. Steady(p)'
        BY <3>1 DEF Steady, Idle
      <3> QED BY <2>2, <2>3, <3>2, RecordsOfMoves, RecordsMoved DEF BeginWrite, Unlink
    <2>4. CASE UpdateWrite(p)
      <3>1. pc'[p].at = "rename" /\ pc'[p].next = pc[p].next /\ WriteTmp(p) /\ pc[p].at = "tmpwrite"
        BY <2>1, <2>4 DEF UpdateWrite, WriteTmp, At, Go, PcType
      <3>2. Steady(p)'
        BY <2>1, <3>1, RecordsOfMoves DEF Steady
      <3> QED BY <2>2, <3>1, <3>2, RecordsOfMoves, RecordsMoved
    <2>5. CASE UpdateRename(p)
      <3>1. RenameTmp(p) /\ (pc'[p] = Idle \/ (pc'[p].at = "archive" /\ pc[p].next = "complete"))
        BY <2>1, <2>5 DEF UpdateRename, Go, Return, PcType
      <3>2. Steady(p)'
        BY <3>1, RecordsOfMoves DEF Steady, Idle
      <3> QED BY <2>2, <3>1, <3>2, RecordsOfMoves, RecordsMoved
    <2>6. CASE HistoryWrite(p)
      <3>1. pc'[p].at = "unlink" /\ pc'[p].next = pc[p].next /\ WriteHistory(p) /\ pc[p].at = "histwrite"
        BY <2>1, <2>6 DEF HistoryWrite, WriteHistory, At, Go, PcType
      <3>2. Steady(p)'
        BY <2>1, <3>1, RecordsOfMoves DEF Steady, Allowed
      <3> QED BY <2>2, <3>1, <3>2, RecordsOfMoves, RecordsMoved
    <2> QED BY <1>4, <2>3, <2>4, <2>5, <2>6
  <1>5. ASSUME NEW p \in Process, CallThrows(p) PROVE RecordsInv'
    <2>1. /\ pc'[p].at \in {"idle", "failed"} /\ \A q \in Process \ {p} : pc'[q] = pc[q]
      BY <1>5 DEF CallThrows, JournalInv, JournalTypeOK, Idle
    <2>2. Steady(p)'
      BY <2>1 DEF Steady
    <2>3. CASE UNCHANGED <<files, begun>>
      BY <2>1, <2>2, <2>3, RecordsStay
    <2>4. CASE WritePending(p) \/ WriteTmp(p) \/ RenameTmp(p) \/ MoveToHistory(p) \/ WriteHistory(p) \/ RemovePending(p)
      BY <2>1, <2>2, <2>4, RecordsOfMoves, RecordsMoved
    <2> QED BY <1>5, <2>3, <2>4 DEF CallThrows
  <1> QED BY <1>1, <1>2, <1>3, <1>4, <1>5 DEF JournalNext, Archive, files
\* The two functions the book's variables stand for.
Phased   == [j \in Job |-> PhaseOf(j)]
Verdicts == [j \in Job |-> VerdictOf(j)]

BookIs(j) ==
  /\ Whole(history[j]) => PhaseOf(j) = history[j].phase /\ VerdictOf(j) \in Book!Verdicts
  /\ ~Whole(history[j]) => VerdictOf(j) = "open"
  /\ ~Whole(history[j]) /\ Whole(pendingFile) /\ pendingFile.job = j => PhaseOf(j) = pendingFile.phase
  /\ ~Whole(history[j]) /\ ~(Whole(pendingFile) /\ pendingFile.job = j) => PhaseOf(j) = "free"

LEMMA BookFacts == ASSUME NEW j \in Job PROVE BookIs(j)
  <1>1. Whole(history[j]) => history[j].resolution \in Resolutions \cup {"none"}
    BY DEF Whole, Record
  <1> QED BY <1>1 DEF BookIs, PhaseOf, VerdictOf, Book!Verdicts, Resolutions

\* A creation that neither the history nor the pending record is about keeps its entry.
LEMMA EntryKept ==
  ASSUME NEW j \in Job, history'[j] = history[j] \/ (~Whole(history[j]) /\ ~Whole(history'[j])),
         \/ UNCHANGED pendingFile \/ Whole(history[j])
         \/ /\ ~(Whole(pendingFile) /\ pendingFile.job = j)
            /\ ~(Whole(pendingFile') /\ pendingFile'.job = j)
  PROVE  PhaseOf(j)' = PhaseOf(j) /\ VerdictOf(j)' = VerdictOf(j)
  BY DEF PhaseOf, VerdictOf

\* A step that changes one entry of the book.
LEMMA OneEntry ==
  ASSUME NEW j \in Job, \A k \in Job \ {j} : PhaseOf(k)' = PhaseOf(k) /\ VerdictOf(k)' = VerdictOf(k)
  PROVE  /\ Phased' = [Phased EXCEPT ![j] = PhaseOf(j)'] /\ Verdicts' = [Verdicts EXCEPT ![j] = VerdictOf(j)']
         /\ Phased[j] = PhaseOf(j) /\ Verdicts[j] = VerdictOf(j)
         /\ PhaseOf(j)' = PhaseOf(j) => Phased' = Phased
         /\ VerdictOf(j)' = VerdictOf(j) => Verdicts' = Verdicts
  BY DEF Phased, Verdicts

Booked == [Book!BookNext]_(Book!bookVars)

LEMMA Unbooked ==
  ASSUME \A k \in Job : PhaseOf(k)' = PhaseOf(k) /\ VerdictOf(k)' = VerdictOf(k)
  PROVE  Booked
  BY DEF Booked, Book!bookVars

LEMMA WritePendingBooked ==
  ASSUME JournalInv, RecordsInv, NEW p \in Process, WritePending(p) PROVE Booked
  <1>0. PICK j \in Job : j = pc[p].job
    BY WritePendingMoves, WholeFacts
  <1>1. /\ j \notin begun /\ pendingFile = Torn /\ ~Whole(pendingFile)
        /\ Whole(pendingFile') /\ pendingFile'.job = j /\ pendingFile'.phase = "prepared" /\ UNCHANGED history
    BY <1>0, WritePendingMoves, WholeFacts DEF WritePending, At, JournalInv, InCall, Beginning
  <1>2. ~Whole(history[j]) /\ ~Whole(history'[j])
    BY <1>1 DEF RecordsInv
  <1>3. ASSUME NEW k \in Job, k # j PROVE PhaseOf(k)' = PhaseOf(k) /\ VerdictOf(k)' = VerdictOf(k)
    BY <1>1, <1>3, EntryKept
  <1>4. PhaseOf(j) = "free" /\ VerdictOf(j) = "open" /\ VerdictOf(j)' = "open"
    BY <1>1, <1>2 DEF PhaseOf, VerdictOf
  <1>5. PhaseOf(j)' = "prepared"
    BY <1>1, <1>2 DEF PhaseOf
  <1>6. \A k \in Job : ~(Phased[k] # "free" /\ Verdicts[k] = "open")
    <2> SUFFICES ASSUME NEW k \in Job, PhaseOf(k) # "free", VerdictOf(k) = "open" PROVE FALSE
      BY DEF Phased, Verdicts
    <2>1. BookIs(k)
      BY BookFacts
    <2>2. Whole(history[k])
      BY <1>1, <2>1 DEF BookIs
    <2> QED BY <2>1, <2>2 DEF BookIs, Book!Verdicts
  <1>7. /\ Phased' = [Phased EXCEPT ![j] = "prepared"] /\ Verdicts' = Verdicts /\ Phased[j] = "free"
    BY <1>1, <1>3, <1>4, <1>5, OneEntry
  <1>8. Book!Reserve(j)
    BY <1>6, <1>7 DEF Book!Reserve, Book!Open, Phased, Verdicts
  <1> QED BY <1>1, <1>8 DEF Booked, Book!BookNext

LEMMA RenameTmpBooked ==
  ASSUME JournalInv, RecordsInv, NEW p \in Process, RenameTmp(p) PROVE Booked
  <1>0. PICK j \in Job : j = pendingFile.job
    BY WholeFacts DEF RenameTmp, At, JournalInv, InCall, Updating, Carrying
  <1>1. /\ Whole(pendingFile) /\ pendingFile.job = j /\ Whole(pendingFile') /\ pendingFile'.job = j
        /\ UNCHANGED history /\ pc[p].at = "rename"
    BY <1>0, RenameTmpMoves, WholeFacts DEF RenameTmp, At, JournalInv, InCall, Updating, Carrying
  <1>2. pendingFile.phase \in DOMAIN NextPhase /\ pendingFile'.phase = NextPhase[pendingFile.phase]
    BY <1>1, RecordsOfMoves DEF RecordsInv, Steady
  <1>3. ASSUME NEW k \in Job, k # j PROVE PhaseOf(k)' = PhaseOf(k) /\ VerdictOf(k)' = VerdictOf(k)
    BY <1>1, <1>3, EntryKept
  <1>4. CASE Whole(history[j])
    <2>1. PhaseOf(j)' = PhaseOf(j) /\ VerdictOf(j)' = VerdictOf(j)
      BY <1>1, <1>4, EntryKept
    <2> QED BY <1>3, <2>1, Unbooked
  <1>5. CASE ~Whole(history[j])
    <2>1. /\ VerdictOf(j) = "open" /\ VerdictOf(j)' = "open" /\ PhaseOf(j) = pendingFile.phase
      BY <1>1, <1>5 DEF PhaseOf, VerdictOf
    <2>2. PhaseOf(j)' = pendingFile'.phase
      BY <1>1, <1>5 DEF PhaseOf
    <2>3. Book!Following = NextPhase /\ "free" \notin DOMAIN NextPhase
      BY DEF Book!Following, NextPhase
    <2>4. /\ Phased' = [Phased EXCEPT ![j] = Book!Following[Phased[j]]] /\ Verdicts' = Verdicts
          /\ Phased[j] \in DOMAIN Book!Following /\ Phased[j] # "free" /\ Verdicts[j] = "open"
      BY <1>1, <1>2, <1>3, <2>1, <2>2, <2>3, OneEntry
    <2>5. Book!Advance(j)
      BY <2>4 DEF Book!Advance, Book!Open, Phased, Verdicts
    <2> QED BY <1>1, <2>5 DEF Booked, Book!BookNext
  <1> QED BY <1>4, <1>5

\* The record that closes a creation: it is pending, and its phase permits the verdict.
LEMMA CloseBooked ==
  ASSUME JournalInv, NEW j \in Job, Whole(pendingFile), pendingFile.job = j, ~Whole(history[j]),
         Whole(history'[j]), history'[j].phase = pendingFile.phase,
         \A k \in Job \ {j} : history'[k] = history[k], UNCHANGED pendingFile \/ pendingFile' = NoFile,
         NEW v \in Book!Verdicts, VerdictOf(j)' = v, Book!Permits(pendingFile.phase, v)
  PROVE  Booked
  <1>1. ASSUME NEW k \in Job, k # j PROVE PhaseOf(k)' = PhaseOf(k) /\ VerdictOf(k)' = VerdictOf(k)
    BY <1>1, EntryKept, WholeFacts
  <1>2. PhaseOf(j) = pendingFile.phase /\ VerdictOf(j) = "open"
    BY DEF PhaseOf, VerdictOf
  <1>3. PhaseOf(j)' = PhaseOf(j)
    BY <1>2 DEF PhaseOf
  <1>4. pendingFile.phase # "free"
    BY WholeFacts DEF Phases
  <1>5. /\ Verdicts' = [Verdicts EXCEPT ![j] = v] /\ Phased' = Phased /\ Verdicts[j] = "open"
        /\ Phased[j] = pendingFile.phase
    BY <1>1, <1>2, <1>3, OneEntry
  <1>6. Book!Close(j, v)
    BY <1>4, <1>5 DEF Book!Close, Book!Open, Phased, Verdicts
  <1> QED BY <1>6 DEF Booked, Book!BookNext

LEMMA MoveToHistoryBooked ==
  ASSUME JournalInv, RecordsInv, NEW p \in Process, MoveToHistory(p) PROVE Booked
  <1>0. PICK j \in Job : j = pc[p].job
    BY WholeFacts DEF MoveToHistory, At, JournalInv, InCall, Updating, Carrying
  <1>1. /\ Whole(pendingFile) /\ pendingFile.job = j /\ pendingFile' = NoFile
        /\ history[j] = NoFile /\ history' = [history EXCEPT ![j] = pendingFile]
        /\ history \in [Job -> Record \cup {NoFile, Torn}]
    BY <1>0 DEF MoveToHistory, At, JournalInv, JournalTypeOK, InCall, Updating, Carrying
  <1>2. pendingFile.phase = "complete" /\ pendingFile.resolution = "none"
    BY <1>1 DEF MoveToHistory, At, RecordsInv, Steady
  <1>3. history'[j] = pendingFile /\ ~Whole(history[j]) /\ \A k \in Job \ {j} : history'[k] = history[k]
    BY <1>1, WholeFacts
  <1>4. VerdictOf(j)' = "completed"
    BY <1>1, <1>2, <1>3 DEF VerdictOf
  <1>5. "completed" \in Book!Verdicts /\ Book!Permits(pendingFile.phase, "completed")
    BY <1>2 DEF Book!Verdicts, Book!Permits
  <1> QED BY <1>1, <1>3, <1>4, <1>5, CloseBooked

LEMMA WriteHistoryBooked ==
  ASSUME JournalInv, RecordsInv, NEW p \in Process, WriteHistory(p) PROVE Booked
  <1>0. PICK j \in Job : j = pc[p].job
    BY WholeFacts DEF WriteHistory, At, JournalInv, InCall, Resolving
  <1>1. /\ Whole(pendingFile) /\ pendingFile.job = j /\ UNCHANGED pendingFile
        /\ history[j] = Torn /\ pc[p].next \in Resolutions /\ history \in [Job -> Record \cup {NoFile, Torn}]
    BY <1>0 DEF WriteHistory, At, JournalInv, JournalTypeOK, InCall, Resolving
  <1>2. /\ history'[j].phase = pendingFile.phase /\ history'[j].resolution = pc[p].next /\ ~Whole(history[j])
        /\ \A k \in Job \ {j} : history'[k] = history[k]
    BY <1>0, <1>1, WholeFacts DEF WriteHistory
  <1>3. Whole(history'[j])
    BY <1>0, WriteHistoryMoves
  <1>4. VerdictOf(j)' = pc[p].next
    BY <1>1, <1>2, <1>3 DEF VerdictOf, Resolutions
  <1>5. Allowed(pendingFile.phase, pc[p].next)
    BY DEF WriteHistory, At, RecordsInv, Steady
  <1>6. pc[p].next \in Book!Verdicts /\ Book!Permits(pendingFile.phase, pc[p].next)
    BY <1>1, <1>5 DEF Book!Verdicts, Book!Permits, Allowed, Resolutions
  <1> QED BY <1>1, <1>2, <1>3, <1>4, <1>6, CloseBooked

\* Calls that write nothing the book speaks of.
LEMMA OtherFilesUnbooked ==
  ASSUME JournalInv, NEW p \in Process,
         \/ UNCHANGED <<pendingFile, history>> \/ RemovePending(p) \/ BeginOpen(p) \/ HistoryOpen(p)
  PROVE  Booked
  <1>1. CASE UNCHANGED <<pendingFile, history>>
    BY <1>1, EntryKept, Unbooked
  <1>2. CASE RemovePending(p)
    <2>1. /\ UNCHANGED history /\ Whole(history[pendingFile.job]) /\ pendingFile' = NoFile
      BY <1>2 DEF RemovePending, At, JournalInv, InCall, Resolving
    <2>2. ASSUME NEW k \in Job PROVE PhaseOf(k)' = PhaseOf(k) /\ VerdictOf(k)' = VerdictOf(k)
      BY <2>1, <2>2, EntryKept, WholeFacts
    <2> QED BY <2>2, Unbooked
  <1>3. CASE BeginOpen(p)
    <2>1. UNCHANGED history /\ (UNCHANGED pendingFile \/ (~Whole(pendingFile) /\ ~Whole(pendingFile')))
      BY <1>3, WholeFacts DEF BeginOpen
    <2>2. ASSUME NEW k \in Job PROVE PhaseOf(k)' = PhaseOf(k) /\ VerdictOf(k)' = VerdictOf(k)
      BY <2>1, <2>2, EntryKept
    <2> QED BY <2>2, Unbooked
  <1>4. CASE HistoryOpen(p)
    <2>1. UNCHANGED pendingFile
      BY <1>4 DEF HistoryOpen
    <2>2. ASSUME NEW k \in Job PROVE history'[k] = history[k] \/ (~Whole(history[k]) /\ ~Whole(history'[k]))
      BY <1>4, WholeFacts DEF HistoryOpen, JournalInv, JournalTypeOK
    <2>3. ASSUME NEW k \in Job PROVE PhaseOf(k)' = PhaseOf(k) /\ VerdictOf(k)' = VerdictOf(k)
      BY <2>1, <2>2, EntryKept
    <2> QED BY <2>3, Unbooked
  <1> QED BY <1>1, <1>2, <1>3, <1>4

LEMMA JournalStepBooked == ASSUME JournalInv, RecordsInv, [JournalNext]_vars PROVE Booked
  <1>1. CASE UNCHANGED <<pendingFile, history>>
    BY <1>1, EntryKept, Unbooked
  <1>2. ASSUME NEW p \in Process,
               WritePending(p) \/ RenameTmp(p) \/ MoveToHistory(p) \/ WriteHistory(p) \/ RemovePending(p)
                 \/ BeginOpen(p) \/ HistoryOpen(p)
        PROVE  Booked
    BY <1>2, WritePendingBooked, RenameTmpBooked, MoveToHistoryBooked, WriteHistoryBooked, OtherFilesUnbooked
  <1> QED BY <1>1, <1>2
          DEF JournalNext, vars, files, BeginCheck, BeginWrite, UpdateCheck, UpdateOpen, UpdateWrite, UpdateRename,
              Archive, GiveUp, ResolveCheck, HistoryWrite, Unlink, Adopt, CallThrows, Crash, WriteTmp

\* ImplementsBook: seen through its records, the directory does what the journal promises, one
\* open creation at a time, its phases in order, one verdict that its phase permits, although
\* every call is several writes that a death or an error may part (creation-journal.mjs).
THEOREM JournalIsABook == JournalSpec /\ OperatorWaits => ImplementsBook
  <1>1. JournalInit => Book!BookInit
    BY WholeFacts DEF JournalInit, Book!BookInit, PhaseOf, VerdictOf
  <1>2. JournalInit => RecordsInv
    BY WholeFacts DEF JournalInit, RecordsInv, Steady, Idle
  <1>3. RecordsInv /\ JournalInv /\ [JournalNext]_vars => RecordsInv'
    BY RecordsStep
  <1>4. JournalInv /\ RecordsInv /\ [JournalNext]_vars => [Book!BookNext]_(Book!bookVars)
    BY JournalStepBooked DEF Booked
  <1> QED BY <1>1, <1>2, <1>3, <1>4, JournalInvariant, PTL DEF JournalSpec, ImplementsBook, Book!BookSpec

\* So all of them hold wherever creations are resolved and adopted at a console that has its
\* directory to itself, and of any number of consoles without an operator.
THEOREM AttendedJournal ==
  ASSUME Attended
  PROVE  JournalSpec => /\ [](JournalTypeOK /\ NoReservationLost /\ OneCarrier)
                        /\ HistoryNeverRewritten /\ ImplementsBook
  BY AttendedWaits, JournalTypes, ReservationsKept, OneCarries, HistoryStays, JournalIsABook, PTL
=============================================================================
