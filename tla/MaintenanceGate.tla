--------------------------- MODULE MaintenanceGate ---------------------------
(***************************************************************************)
(* The console's maintenance gate (local-net/lib/maintenance.mjs):         *)
(* mutation handlers are counted in and out, an operator pauses admissions *)
(* behind a marker directory, waits for the count to fall to zero,         *)
(* restarts the process and resumes with the identifiers he read.          *)
(*                                                                         *)
(* Every method runs to its end without an await, so each is one step; its *)
(* outcomes cover the file operations that throw, and a death in the       *)
(* middle of one leaves what the throw leaves, followed by Restart.  The   *)
(* marker may also be made, removed or spoilt by hand, and power may fail: *)
(* it then is any of the states its last directory flush left possible.    *)
(***************************************************************************)
EXTENDS Naturals, FiniteSets

CONSTANTS Handler,     \* mutation requests in flight
          Operator,    \* holders of a snapshot
          MaxIds,      \* bound: pauses (fresh maintenance ids)
          MaxRestarts, \* bound: processes after the first
          MaxFailures, \* bound: file operations that throw
          MaxByHand    \* bound: changes of the marker by hand

ASSUME GateConstants ==
  /\ IsFiniteSet(Handler)
  /\ {MaxIds, MaxRestarts, MaxFailures, MaxByHand} \subseteq Nat

VARIABLES marker,   \* the marker directory: none, empty, or bad (not an empty directory)
          onDisk,   \* the states of it a loss of power may leave
          running,  \* the console process is up
          instanceId, maintenanceId, paused, activeOperations, persistenceConfirmed,
          inside,   \* the handlers admitted and not finished
          obs,      \* the last snapshot each operator read
          lastId,   \* the last maintenance id drawn
          pinned,   \* a pause() was answered, and nothing has undone it since
          failures, byHand

memory == <<instanceId, maintenanceId, paused, activeOperations, persistenceConfirmed>>
gateVars == <<marker, onDisk, running, memory, inside, obs, lastId, pinned, failures, byHand>>

Markers == {"none", "empty", "bad"}
NoObs == [instance |-> 0, id |-> 0, ready |-> FALSE]

\* markerExists throws unless the marker is absent or an empty directory.
Readable == running /\ marker # "bad"
MarkerExists == marker = "empty"

\* Mutant: without the marker the process reopens.
Refresh_Follows == /\ paused' = MarkerExists
                   /\ IF MarkerExists /\ ~paused
                      THEN lastId < MaxIds /\ lastId' = lastId + 1 /\ maintenanceId' = lastId'
                      ELSE UNCHANGED <<lastId, maintenanceId>>

\* refresh: a marker found pauses the process; a marker lost never reopens it.
Refresh == /\ paused' = (paused \/ MarkerExists)
           /\ IF MarkerExists /\ ~paused
              THEN lastId < MaxIds /\ lastId' = lastId + 1 /\ maintenanceId' = lastId'
              ELSE UNCHANGED <<lastId, maintenanceId>>

Persistent == paused' /\ MarkerExists /\ persistenceConfirmed

GateInit ==
  /\ marker = "none" /\ onDisk = {"none"} /\ running = TRUE
  /\ instanceId = 1 /\ maintenanceId = 0 /\ paused = FALSE
  /\ activeOperations = 0 /\ persistenceConfirmed = TRUE
  /\ inside = {}
  /\ obs = [o \in Operator |-> NoObs]
  /\ lastId = 0 /\ pinned = FALSE /\ failures = 0 /\ byHand = 0

-----------------------------------------------------------------------------
\* Mutant: a request is admitted during maintenance.
Enter_Always(h) ==
  /\ Readable /\ h \notin inside
  /\ Refresh
  /\ activeOperations' = activeOperations + 1 /\ inside' = inside \cup {h}
  /\ UNCHANGED <<marker, onDisk, running, instanceId, persistenceConfirmed, obs, pinned,
                 failures, byHand>>

\* enter: before the body is read, in the routes that create, revoke, upgrade, hand
\* over and resolve.
Enter(h) ==
  /\ Readable /\ h \notin inside
  /\ Refresh
  /\ IF paused' THEN UNCHANGED <<activeOperations, inside>>
                ELSE activeOperations' = activeOperations + 1 /\ inside' = inside \cup {h}
  /\ UNCHANGED <<marker, onDisk, running, instanceId, persistenceConfirmed, obs, pinned,
                 failures, byHand>>

\* The handler's finally: whatever happened, the admission is given back once.
Release(h) ==
  /\ running /\ h \in inside
  /\ activeOperations' = activeOperations - 1 /\ inside' = inside \ {h}
  /\ UNCHANGED <<marker, onDisk, running, instanceId, maintenanceId, paused,
                 persistenceConfirmed, obs, lastId, pinned, failures, byHand>>

Snapshot(o) ==
  /\ Readable
  /\ Refresh
  /\ obs' = [obs EXCEPT ![o] = [instance |-> instanceId, id |-> maintenanceId',
                                ready |-> Persistent /\ activeOperations = 0]]
  /\ UNCHANGED <<marker, onDisk, running, instanceId, activeOperations, persistenceConfirmed,
                 inside, pinned, failures, byHand>>

-----------------------------------------------------------------------------
\* pause: admissions stop first, and stay stopped when the marker cannot be made or
\* flushed.
Stop == /\ paused' = TRUE
        /\ IF paused THEN UNCHANGED <<lastId, maintenanceId>>
                     ELSE lastId < MaxIds /\ lastId' = lastId + 1 /\ maintenanceId' = lastId'

\* Mutant: the directories are not flushed.
Pause_NotFlushed ==
  /\ running /\ marker # "bad"
  /\ Stop
  /\ marker' = "empty" /\ onDisk' = onDisk \cup {"empty"}
  /\ persistenceConfirmed' = TRUE /\ pinned' = TRUE
  /\ UNCHANGED <<running, instanceId, activeOperations, inside, obs, failures, byHand>>

Pause ==
  /\ running /\ marker # "bad"
  /\ Stop
  /\ marker' = "empty" /\ onDisk' = {"empty"}
  /\ persistenceConfirmed' = TRUE /\ pinned' = TRUE
  /\ UNCHANGED <<running, instanceId, activeOperations, inside, obs, failures, byHand>>

PauseFails ==
  /\ running
  /\ marker # "bad" => failures < MaxFailures
  /\ failures' = IF marker = "bad" THEN failures ELSE failures + 1
  /\ Stop /\ persistenceConfirmed' = FALSE
  /\ \/ UNCHANGED <<marker, onDisk>>
     \/ marker = "none" /\ marker' = "empty" /\ onDisk' = onDisk \cup {"empty"}
  /\ UNCHANGED <<running, instanceId, activeOperations, inside, obs, pinned, byHand>>

-----------------------------------------------------------------------------
\* resume, for a snapshot of this process and of this pause.  A refused resume
\* leaves what a refused request leaves, the refresh.
Current(o) == obs[o].instance = instanceId /\ obs[o].id = maintenanceId

MayResume(o) ==
  /\ Readable /\ paused /\ Current(o)
  /\ activeOperations = 0
  /\ MarkerExists /\ persistenceConfirmed

Resume(o) ==
  /\ MayResume(o)
  /\ marker' = "none" /\ onDisk' = {"none"}
  /\ paused' = FALSE /\ pinned' = FALSE
  /\ UNCHANGED <<running, instanceId, maintenanceId, activeOperations, persistenceConfirmed,
                 inside, obs, lastId, failures, byHand>>

\* The marker cannot be removed, or is removed and the flush fails.
ResumeFails(o) ==
  /\ MayResume(o)
  /\ failures < MaxFailures /\ failures' = failures + 1
  /\ persistenceConfirmed' = FALSE
  /\ \/ UNCHANGED <<marker, onDisk, pinned>>
     \/ marker' = "none" /\ onDisk' = onDisk \cup {"none"} /\ pinned' = FALSE
  /\ UNCHANGED <<running, instanceId, maintenanceId, paused, activeOperations, inside, obs,
                 lastId, byHand>>

-----------------------------------------------------------------------------
\* The process goes, with the handlers it was running: a restart, a death, or a loss
\* of power.
Stops ==
  /\ running' = FALSE /\ inside' = {} /\ activeOperations' = 0
  /\ UNCHANGED <<instanceId, maintenanceId, paused, persistenceConfirmed, obs, lastId, pinned,
                 failures, byHand>>

Die == running /\ Stops /\ UNCHANGED <<marker, onDisk>>

PowerLoss == /\ running /\ Stops
             /\ marker' \in onDisk /\ onDisk' = {marker'}

\* The constructor: a fresh identity, paused if the marker is there; it throws on a
\* marker it cannot read.
Start ==
  /\ ~running /\ instanceId <= MaxRestarts /\ marker # "bad"
  /\ running' = TRUE /\ instanceId' = instanceId + 1
  /\ paused' = MarkerExists /\ persistenceConfirmed' = TRUE
  /\ IF MarkerExists THEN lastId < MaxIds /\ lastId' = lastId + 1 /\ maintenanceId' = lastId'
                     ELSE maintenanceId' = 0 /\ UNCHANGED lastId
  /\ UNCHANGED <<marker, onDisk, activeOperations, inside, obs, pinned, failures, byHand>>

\* Somebody makes, removes or spoils the marker.
ByHand ==
  /\ byHand < MaxByHand /\ byHand' = byHand + 1
  /\ marker' \in Markers \ {marker} /\ onDisk' = onDisk \cup {marker'}
  /\ pinned' = FALSE
  /\ UNCHANGED <<running, memory, inside, obs, lastId, failures>>

GateNext ==
  \/ \E h \in Handler : Enter(h) \/ Release(h)
  \/ \E o \in Operator : Snapshot(o) \/ Resume(o) \/ ResumeFails(o)
  \/ Pause \/ PauseFails
  \/ Die \/ PowerLoss \/ Start \/ ByHand

GateSpec == GateInit /\ [][GateNext]_gateVars

\* A handler finishes: its calls return or time out, and its finally runs.
FairGateSpec == GateSpec /\ \A h \in Handler : WF_gateVars(Release(h))

-----------------------------------------------------------------------------
\* Types, and the admissions counted are the handlers inside.
GateTypeOK ==
  /\ marker \in Markers /\ onDisk \subseteq Markers /\ running \in BOOLEAN
  /\ instanceId \in 1..MaxRestarts + 1 /\ maintenanceId \in 0..MaxIds
  /\ paused \in BOOLEAN /\ persistenceConfirmed \in BOOLEAN
  /\ inside \subseteq Handler /\ activeOperations = Cardinality(inside)
  /\ obs \in [Operator -> [instance : 0..MaxRestarts + 1, id : 0..MaxIds, ready : BOOLEAN]]
  /\ lastId \in 0..MaxIds /\ pinned \in BOOLEAN
  /\ failures \in 0..MaxFailures /\ byHand \in 0..MaxByHand

\* What an operator read as ready for a restart stays so for as long as that pause of
\* that process lasts: the restart he then asks for interrupts no mutation.
ReadyMeansDrained ==
  \A o \in Operator : running /\ paused /\ obs[o].ready /\ Current(o) => inside = {}

\* A pause the gate has answered for outlives deaths, restarts and losses of power,
\* until an operator resumes or somebody touches the marker.
AnsweredPausePersists ==
  pinned => (running => paused) /\ marker = "empty" /\ onDisk = {"empty"}

\* A running process that is paused reopens only for an operator who read this very
\* pause: neither a lost marker nor a snapshot from before a later pause reopens it.
OpensOnlyToItsReader ==
  [][running /\ running' /\ paused /\ ~paused' => \E o \in Operator : Current(o)]_gateVars

\* Once admissions are stopped the admitted mutations drain, so that the wait of a
\* pause-and-wait ends.
Drains == paused ~> inside = {}

\* docs/CONSOLE-MAINTENANCE.md: "this single console process has persisted its pause".
PersistentIsDurable ==
  running /\ paused /\ MarkerExists /\ persistenceConfirmed => onDisk = {"empty"}
=============================================================================
