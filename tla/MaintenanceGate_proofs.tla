----------------------- MODULE MaintenanceGate_proofs -----------------------
(***************************************************************************)
(* Proofs about MaintenanceGate, for every value of its constants: the     *)
(* invariant GateInv is inductive, and with it the gate's type             *)
(* correctness, ReadyMeansDrained, AnsweredPausePersists and               *)
(* OpensOnlyToItsReader hold of every behaviour.                           *)
(***************************************************************************)
EXTENDS MaintenanceGate, FiniteSetTheorems, TLAPS

\* Nobody has read a process or a pause that is still to come: the identifiers a step
\* draws are new to every operator.
ReadsArePast ==
  /\ maintenanceId <= lastId
  /\ \A o \in Operator : obs[o].instance <= instanceId /\ obs[o].id <= lastId

GateInv == /\ GateTypeOK /\ ReadsArePast
           /\ ReadyMeansDrained /\ AnsweredPausePersists

-----------------------------------------------------------------------------
(* The count of admissions. *)

\* The handlers inside are finitely many, and an empty count means that none is.
LEMMA InsideFacts ==
  ASSUME GateTypeOK
  PROVE  /\ IsFiniteSet(inside) /\ activeOperations \in Nat
         /\ activeOperations = 0 => inside = {}
  <1>1. IsFiniteSet(inside)
    BY GateConstants, FS_Subset DEF GateTypeOK
  <1>2. Cardinality(inside) \in Nat
    BY <1>1, FS_CardinalityType
  <1>3. Cardinality(inside) = 0 => inside = {}
    BY <1>1, FS_EmptySet
  <1> QED BY <1>1, <1>2, <1>3 DEF GateTypeOK

\* refresh draws a fresh identifier whenever it pauses.
LEMMA RefreshFacts ==
  ASSUME GateTypeOK, ReadsArePast, Refresh
  PROVE  /\ paused' \in BOOLEAN /\ maintenanceId' \in 0..MaxIds /\ lastId' \in 0..MaxIds
         /\ lastId <= lastId' /\ maintenanceId' <= lastId'
         /\ paused => paused' /\ maintenanceId' = maintenanceId
         /\ ~paused /\ paused' => maintenanceId' = lastId + 1
  <1>1. MaxIds \in Nat
    BY GateConstants
  <1> QED BY <1>1 DEF Refresh, GateTypeOK, MarkerExists, ReadsArePast

\* So does the first step of pause.
LEMMA StopFacts ==
  ASSUME GateTypeOK, ReadsArePast, Stop
  PROVE  /\ paused' = TRUE /\ maintenanceId' \in 0..MaxIds /\ lastId' \in 0..MaxIds
         /\ lastId <= lastId' /\ maintenanceId' <= lastId'
         /\ paused => maintenanceId' = maintenanceId
         /\ ~paused => maintenanceId' = lastId + 1
  <1>1. MaxIds \in Nat
    BY GateConstants
  <1> QED BY <1>1 DEF Stop, GateTypeOK, ReadsArePast

\* A step that admits nobody while the gate is paused, and that pauses under a fresh
\* identifier only, keeps what the operators read as ready.
LEMMA StillReady ==
  ASSUME GateInv, UNCHANGED <<running, obs, instanceId>>,
         paused' => inside' \subseteq inside,
         paused /\ paused' => maintenanceId' = maintenanceId,
         ~paused /\ paused' => maintenanceId' = lastId + 1
  PROVE  ReadyMeansDrained'
  <1> SUFFICES ASSUME NEW o \in Operator, running, paused', obs[o].ready,
                      obs[o].instance = instanceId, obs[o].id = maintenanceId'
               PROVE  inside' = {}
    BY DEF ReadyMeansDrained, Current
  <1>1. obs[o].id <= lastId /\ obs[o].id \in Nat /\ lastId \in Nat
    BY DEF GateInv, GateTypeOK, ReadsArePast
  <1>2. paused
    BY <1>1
  <1>3. inside = {}
    BY <1>2 DEF GateInv, ReadyMeansDrained, Current
  <1> QED BY <1>3

\* A process that is not running, or not paused, says nothing.
LEMMA NothingToRead ==
  ASSUME ~running' \/ ~paused' PROVE ReadyMeansDrained'
  BY DEF ReadyMeansDrained

\* A pause that stays, with its marker, stays pinned.
LEMMA StillPinned ==
  ASSUME GateInv, pinned' => pinned, UNCHANGED <<marker, onDisk>>,
         running' /\ pinned => paused'
  PROVE  AnsweredPausePersists'
  BY DEF GateInv, AnsweredPausePersists

-----------------------------------------------------------------------------
(* One lemma per action. *)

LEMMA EnterInv == ASSUME GateInv, NEW h \in Handler, Enter(h) PROVE GateInv'
  <1>1. GateTypeOK /\ ReadsArePast /\ AnsweredPausePersists
    BY DEF GateInv
  <1>2. /\ paused' \in BOOLEAN /\ maintenanceId' \in 0..MaxIds /\ lastId' \in 0..MaxIds
        /\ lastId <= lastId' /\ maintenanceId' <= lastId' /\ (paused => paused' /\ maintenanceId' = maintenanceId)
        /\ (~paused /\ paused' => maintenanceId' = lastId + 1)
    BY <1>1, RefreshFacts DEF Enter
  <1>3. inside' \subseteq Handler /\ activeOperations' = Cardinality(inside')
    <2>1. CASE paused'
      BY <1>1, <2>1 DEF Enter, GateTypeOK
    <2>2. CASE ~paused'
      <3>1. Cardinality(inside \cup {h}) = Cardinality(inside) + 1
        BY <1>1, InsideFacts, FS_AddElement DEF Enter
      <3> QED BY <1>1, <2>2, <3>1 DEF Enter, GateTypeOK
    <2> QED BY <2>1, <2>2
  <1>4. GateTypeOK'
    BY <1>1, <1>2, <1>3 DEF Enter, GateTypeOK
  <1>5. ReadsArePast'
    BY <1>1, <1>2 DEF Enter, ReadsArePast, GateTypeOK
  <1>6. ReadyMeansDrained'
    BY <1>1, <1>2, StillReady DEF Enter
  <1>7. AnsweredPausePersists'
    BY <1>1, <1>2, StillPinned DEF Enter, AnsweredPausePersists
  <1> QED BY <1>4, <1>5, <1>6, <1>7 DEF GateInv

LEMMA ReleaseInv == ASSUME GateInv, NEW h \in Handler, Release(h) PROVE GateInv'
  <1>1. GateTypeOK /\ ReadsArePast /\ AnsweredPausePersists
    BY DEF GateInv
  <1>2. Cardinality(inside \ {h}) = Cardinality(inside) - 1
    BY <1>1, InsideFacts, FS_RemoveElement DEF Release
  <1>3. GateTypeOK'
    BY <1>1, <1>2 DEF Release, GateTypeOK
  <1>4. ReadsArePast'
    BY <1>1 DEF Release, ReadsArePast
  <1>5. ReadyMeansDrained'
    BY StillReady DEF Release
  <1>6. AnsweredPausePersists'
    BY <1>1 DEF Release, AnsweredPausePersists
  <1> QED BY <1>3, <1>4, <1>5, <1>6 DEF GateInv

LEMMA SnapshotInv == ASSUME GateInv, NEW o \in Operator, Snapshot(o) PROVE GateInv'
  <1>1. GateTypeOK /\ ReadsArePast /\ AnsweredPausePersists
    BY DEF GateInv
  <1>2. /\ paused' \in BOOLEAN /\ maintenanceId' \in 0..MaxIds /\ lastId' \in 0..MaxIds
        /\ lastId <= lastId' /\ maintenanceId' <= lastId' /\ (paused => paused' /\ maintenanceId' = maintenanceId)
        /\ (~paused /\ paused' => maintenanceId' = lastId + 1)
    BY <1>1, RefreshFacts DEF Snapshot
  <1> DEFINE read == [instance |-> instanceId, id |-> maintenanceId',
                      ready |-> Persistent /\ activeOperations = 0]
  <1>3. obs' = [obs EXCEPT ![o] = read]
    BY DEF Snapshot
  <1>4. read \in [instance : 0..MaxRestarts + 1, id : 0..MaxIds, ready : BOOLEAN]
    BY <1>1, <1>2, GateConstants DEF GateTypeOK, Persistent
  <1>5. read.instance = instanceId /\ read.id = maintenanceId'
    OBVIOUS
  <1>6. read.ready => inside = {}
    BY <1>1, InsideFacts
  <1> HIDE DEF read
  <1>7. GateTypeOK'
    BY <1>1, <1>2, <1>3, <1>4 DEF Snapshot, GateTypeOK
  <1>8. ReadsArePast'
    BY <1>1, <1>2, <1>3, <1>5 DEF Snapshot, ReadsArePast, GateTypeOK
  <1>9. ReadyMeansDrained'
    <2> SUFFICES ASSUME NEW q \in Operator, paused', obs'[q].ready,
                        obs'[q].instance = instanceId, obs'[q].id = maintenanceId'
                 PROVE  inside = {}
      BY DEF ReadyMeansDrained, Current, Snapshot
    <2>1. CASE q = o
      BY <1>1, <1>3, <1>6, <2>1 DEF GateTypeOK
    <2>2. CASE q # o
      <3>1. obs[q].ready /\ obs[q].instance = instanceId /\ obs[q].id = maintenanceId'
        BY <1>1, <1>3, <2>2 DEF GateTypeOK
      <3>2. obs[q].id <= lastId /\ obs[q].id \in Nat /\ lastId \in Nat
        BY <1>1 DEF GateTypeOK, ReadsArePast
      <3>3. paused /\ obs[q].id = maintenanceId
        BY <1>2, <3>1, <3>2
      <3> QED BY <3>1, <3>3 DEF GateInv, ReadyMeansDrained, Current, Snapshot, Readable
    <2> QED BY <2>1, <2>2
  <1>10. AnsweredPausePersists'
    BY <1>1, <1>2, StillPinned DEF Snapshot, AnsweredPausePersists
  <1> QED BY <1>7, <1>8, <1>9, <1>10 DEF GateInv

LEMMA PauseInv == ASSUME GateInv, Pause \/ PauseFails PROVE GateInv'
  <1>1. GateTypeOK /\ ReadsArePast /\ AnsweredPausePersists
    BY DEF GateInv
  <1>2. /\ paused' = TRUE /\ maintenanceId' \in 0..MaxIds /\ lastId' \in 0..MaxIds
        /\ lastId <= lastId' /\ maintenanceId' <= lastId'
        /\ (paused => maintenanceId' = maintenanceId)
        /\ (~paused => maintenanceId' = lastId + 1)
    BY <1>1, StopFacts DEF Pause, PauseFails
  <1>3. failures' \in 0..MaxFailures
    BY <1>1, GateConstants DEF Pause, PauseFails, GateTypeOK
  <1>4. GateTypeOK'
    BY <1>1, <1>2, <1>3 DEF Pause, PauseFails, GateTypeOK, Markers
  <1>5. ReadsArePast'
    BY <1>1, <1>2 DEF Pause, PauseFails, ReadsArePast, GateTypeOK
  <1>6. ReadyMeansDrained'
    BY <1>2, StillReady DEF Pause, PauseFails
  <1>7. AnsweredPausePersists'
    BY <1>1, <1>2 DEF Pause, PauseFails, AnsweredPausePersists
  <1> QED BY <1>4, <1>5, <1>6, <1>7 DEF GateInv

LEMMA ResumeInv ==
  ASSUME GateInv, NEW o \in Operator, Resume(o) \/ ResumeFails(o) PROVE GateInv'
  <1>1. GateTypeOK /\ ReadsArePast /\ AnsweredPausePersists
    BY DEF GateInv
  <1>2. GateTypeOK'
    <2>1. failures' \in 0..MaxFailures
      BY <1>1, GateConstants DEF Resume, ResumeFails, GateTypeOK
    <2>2. marker' \in Markers /\ onDisk' \subseteq Markers
      BY <1>1 DEF Resume, ResumeFails, GateTypeOK, Markers
    <2> QED BY <1>1, <2>1, <2>2 DEF Resume, ResumeFails, GateTypeOK
  <1>3. ReadsArePast'
    BY <1>1 DEF Resume, ResumeFails, ReadsArePast
  <1>4. ReadyMeansDrained'
    <2>1. CASE Resume(o)
      BY <2>1, NothingToRead DEF Resume
    <2>2. CASE ResumeFails(o)
      BY <2>2, StillReady DEF ResumeFails, MayResume
    <2> QED BY <2>1, <2>2
  <1>5. AnsweredPausePersists'
    BY <1>1 DEF Resume, ResumeFails, AnsweredPausePersists
  <1> QED BY <1>2, <1>3, <1>4, <1>5 DEF GateInv

\* A restart or a loss of power takes the handlers with it; the marker found then is
\* one its flushes left possible.
LEMMA StopsInv == ASSUME GateInv, Die \/ PowerLoss PROVE GateInv'
  <1>1. GateTypeOK /\ ReadsArePast /\ AnsweredPausePersists
    BY DEF GateInv
  <1>2. Cardinality({}) = 0
    BY FS_EmptySet
  <1>3. marker' \in Markers /\ onDisk' \subseteq Markers
    BY <1>1 DEF Die, PowerLoss, GateTypeOK
  <1>4. GateTypeOK'
    BY <1>1, <1>2, <1>3 DEF Die, PowerLoss, Stops, GateTypeOK
  <1>5. ReadsArePast'
    BY <1>1 DEF Die, PowerLoss, Stops, ReadsArePast
  <1>6. ReadyMeansDrained'
    BY NothingToRead DEF Die, PowerLoss, Stops
  <1>7. AnsweredPausePersists'
    BY <1>1 DEF Die, PowerLoss, Stops, AnsweredPausePersists
  <1> QED BY <1>4, <1>5, <1>6, <1>7 DEF GateInv

LEMMA StartInv == ASSUME GateInv, Start PROVE GateInv'
  <1>1. GateTypeOK /\ ReadsArePast /\ AnsweredPausePersists
    BY DEF GateInv
  <1>2. instanceId' = instanceId + 1 /\ instanceId' \in 1..MaxRestarts + 1
    BY <1>1, GateConstants DEF Start, GateTypeOK
  <1>3. /\ maintenanceId' \in 0..MaxIds /\ lastId' \in 0..MaxIds
        /\ lastId <= lastId' /\ maintenanceId' <= lastId'
    BY <1>1, GateConstants DEF Start, GateTypeOK
  <1>4. GateTypeOK'
    BY <1>1, <1>2, <1>3 DEF Start, GateTypeOK, MarkerExists
  <1>5. ReadsArePast'
    BY <1>1, <1>2, <1>3 DEF Start, ReadsArePast, GateTypeOK
  <1>6. ReadyMeansDrained'
    <2> SUFFICES ASSUME NEW o \in Operator, obs[o].instance = instanceId' PROVE FALSE
      BY DEF ReadyMeansDrained, Current, Start
    <2> QED BY <1>1, <1>2 DEF ReadsArePast, GateTypeOK
  <1>7. AnsweredPausePersists'
    BY <1>1 DEF Start, AnsweredPausePersists, MarkerExists
  <1> QED BY <1>4, <1>5, <1>6, <1>7 DEF GateInv

LEMMA ByHandInv == ASSUME GateInv, ByHand PROVE GateInv'
  <1>1. GateTypeOK /\ ReadsArePast
    BY DEF GateInv
  <1>2. GateTypeOK'
    <2>1. byHand' \in 0..MaxByHand
      BY <1>1, GateConstants DEF ByHand, GateTypeOK
    <2>2. marker' \in Markers /\ onDisk' \subseteq Markers
      BY <1>1 DEF ByHand, GateTypeOK
    <2> QED BY <1>1, <2>1, <2>2 DEF ByHand, memory, GateTypeOK
  <1>3. ReadsArePast'
    BY <1>1 DEF ByHand, memory, ReadsArePast
  <1>4. ReadyMeansDrained'
    BY StillReady DEF ByHand, memory
  <1>5. AnsweredPausePersists'
    BY DEF ByHand, AnsweredPausePersists
  <1> QED BY <1>2, <1>3, <1>4, <1>5 DEF GateInv

LEMMA InitInv == GateInit => GateInv
  <1> SUFFICES ASSUME GateInit PROVE GateInv
    OBVIOUS
  <1>1. Cardinality({}) = 0
    BY FS_EmptySet
  <1>2. NoObs \in [instance : 0..MaxRestarts + 1, id : 0..MaxIds, ready : BOOLEAN]
    BY GateConstants DEF NoObs
  <1>3. GateTypeOK
    <2>1. 0 \in 0..MaxIds /\ 0 \in 0..MaxFailures /\ 0 \in 0..MaxByHand
          /\ 1 \in 1..MaxRestarts + 1
      BY GateConstants
    <2>2. "none" \in Markers /\ {"none"} \subseteq Markers
      BY DEF Markers
    <2>3. obs \in [Operator -> [instance : 0..MaxRestarts + 1, id : 0..MaxIds,
                               ready : BOOLEAN]]
      BY <1>2 DEF GateInit
    <2> QED BY <1>1, <2>1, <2>2, <2>3 DEF GateInit, GateTypeOK
  <1>4. ReadsArePast
    BY DEF GateInit, ReadsArePast, NoObs
  <1>5. ReadyMeansDrained /\ AnsweredPausePersists
    BY DEF GateInit, ReadyMeansDrained, AnsweredPausePersists
  <1> QED BY <1>3, <1>4, <1>5 DEF GateInv

LEMMA NextInv == GateInv /\ [GateNext]_gateVars => GateInv'
  <1> SUFFICES ASSUME GateInv, [GateNext]_gateVars PROVE GateInv'
    OBVIOUS
  <1>1. ASSUME NEW h \in Handler, Enter(h) PROVE GateInv'
    BY <1>1, EnterInv
  <1>2. ASSUME NEW h \in Handler, Release(h) PROVE GateInv'
    BY <1>2, ReleaseInv
  <1>3. ASSUME NEW o \in Operator, Snapshot(o) PROVE GateInv'
    BY <1>3, SnapshotInv
  <1>4. ASSUME NEW o \in Operator, Resume(o) \/ ResumeFails(o) PROVE GateInv'
    BY <1>4, ResumeInv
  <1>5. CASE Pause \/ PauseFails
    BY <1>5, PauseInv
  <1>6. CASE Die \/ PowerLoss
    BY <1>6, StopsInv
  <1>7. CASE Start
    BY <1>7, StartInv
  <1>8. CASE ByHand
    BY <1>8, ByHandInv
  <1>9. CASE UNCHANGED gateVars
    BY <1>9 DEF gateVars, memory, GateInv, GateTypeOK, ReadsArePast, ReadyMeansDrained, Current,
                AnsweredPausePersists
  <1> QED BY <1>1, <1>2, <1>3, <1>4, <1>5, <1>6, <1>7, <1>8, <1>9 DEF GateNext

-----------------------------------------------------------------------------
\* The gate keeps its invariant, whatever its handlers, operators and bounds.
THEOREM GateInvariance == GateSpec => []GateInv
  <1> QED BY InitInv, NextInv, PTL DEF GateSpec

\* Type correctness: the admissions counted are always the handlers inside.
THEOREM GateTypes == GateSpec => []GateTypeOK
  <1>1. GateInv => GateTypeOK
    BY DEF GateInv
  <1> QED BY <1>1, GateInvariance, PTL

\* "Ready for a restart", once read, is true for as long as that pause of that process
\* lasts.
THEOREM ReadyIsDrained == GateSpec => []ReadyMeansDrained
  <1>1. GateInv => ReadyMeansDrained
    BY DEF GateInv
  <1> QED BY <1>1, GateInvariance, PTL

\* An answered pause survives restarts, deaths and losses of power.
THEOREM PausePersists == GateSpec => []AnsweredPausePersists
  <1>1. GateInv => AnsweredPausePersists
    BY DEF GateInv
  <1> QED BY <1>1, GateInvariance, PTL

\* Only an operator who read this very pause reopens a running process.
THEOREM OpensToItsReader == GateSpec => OpensOnlyToItsReader
  <1> DEFINE Opens == running /\ running' /\ paused /\ ~paused'
                        => \E o \in Operator : Current(o)
  <1>1. GateInv /\ [GateNext]_gateVars => [Opens]_gateVars
    <2> SUFFICES ASSUME GateInv, GateNext, running, running', paused, ~paused'
                 PROVE  \E o \in Operator : Current(o)
      OBVIOUS
    <2>1. PICK o \in Operator : Resume(o)
      BY DEF GateNext, Enter, Release, Snapshot, ResumeFails, Refresh, Pause, PauseFails, Stop,
             Die, PowerLoss, Stops, Start, ByHand, memory
    <2> QED BY <2>1 DEF Resume, MayResume
  <1> QED BY <1>1, GateInvariance, PTL DEF GateSpec, OpensOnlyToItsReader
=============================================================================
