--------------------------- MODULE OperationQueue ---------------------------
(***************************************************************************)
(* The serial queue of the console (serialQueue in                         *)
(* local-net/lib/guard.mjs) with the journal /api/progress shows           *)
(* (console/operation-journal.mjs), as the create, revoke, upgrade and     *)
(* resolve handlers of console/server.mjs drive them.                      *)
(*                                                                         *)
(* One action is one turn of the event loop.  When a task settles, the     *)
(* task chained to it starts before the settled request's handler wakes    *)
(* up: the queue's own reaction to the promise is registered before the    *)
(* one behind finally(), and that one takes more microtasks to reach the   *)
(* handler.  A task that opens the journal before its first await          *)
(* therefore opens it before the handler of the request ahead of it closes *)
(* the journal.                                                            *)
(***************************************************************************)
EXTENDS Naturals, Sequences, FiniteSets, Functions

CONSTANTS Request,     \* requests that reach the queue
          NoRequest,
          Nodes,       \* the node services a rollout goes through, in order
          MaxPending

ASSUME QueueConstants ==
  /\ IsFiniteSet(Request) /\ NoRequest \notin Request
  /\ Nodes \in Seq(Range(Nodes))  \* a sequence
  /\ MaxPending \in Nat \ {0}

VARIABLES status, kind, opened,
          progress,  \* steps the operation of a request has begun and ended
          prev,      \* the task whose promise a task is chained to
          tail, pending,
          journal,
          accepted   \* history: the requests the queue took, in order

queue == <<status, kind, prev, tail, pending, accepted>>
queueVars == <<queue, opened, progress, journal>>

Kinds == {"create", "upgrade", "revoke", "adopt", "discard"}
Given == "own"                       \* the steps named when an operation opens
Steps == {Given} \cup Range(Nodes)

\* The steps in the order they run: an adoption rolls out first.
Script(k) == CASE k \in {"create", "upgrade"} -> <<Given>> \o Nodes
               [] k = "revoke" -> Nodes
               [] k = "adopt" -> Nodes \o <<Given>>
               [] k = "discard" -> <<>>

\* A revocation and an adoption open the journal before they await anything; a
\* creation and an upgrade first ask the network.
OpensAtOnce == {"revoke", "adopt"}
OpensLater == {"create", "upgrade"}

-----------------------------------------------------------------------------
\* The journal's methods.
Fresh(r, k) ==
  [running |-> TRUE, owner |-> r, error |-> NoRequest,
   steps |-> [s \in Steps |-> IF s = Given /\ k # "revoke" THEN "pending" ELSE "absent"]]

\* The steps of a rollout are added together, in the turn that starts the first node.
AddSteps(steps, s) == [t \in Steps |-> IF s # Given /\ steps[t] = "absent" THEN "pending"
                                                                          ELSE steps[t]]

StepRunning(j, s) ==
  IF j.running THEN [j EXCEPT !.steps = [AddSteps(j.steps, s) EXCEPT ![s] = "running"]] ELSE j

StepDone(j, s) == IF j.running THEN [j EXCEPT !.steps[s] = "done"] ELSE j

\* close(error) for the error of request r, close(null) when r did not fail.
Close(j, r, failed) ==
  [j EXCEPT !.running = FALSE,
            !.error = IF failed THEN r ELSE NoRequest,
            !.steps = [s \in Steps |-> IF failed /\ @[s] = "running" THEN "failed" ELSE @[s]]]

\* Mutant: the error path forgets to close.
HandlerEnds_SuccessOnly(j, r, k, failed) == IF failed THEN j ELSE Close(j, r, failed)

\* The handler's end; the resolve route leaves a closed journal alone.
HandlerEnds(j, r, k, failed) ==
  IF k \in {"adopt", "discard"} /\ ~j.running THEN j ELSE Close(j, r, failed)

-----------------------------------------------------------------------------
\* Mutant: the new task is not made the tail.
Chain_TailKept(r) == prev' = [prev EXCEPT ![r] = tail] /\ UNCHANGED tail

\* tail.then(fn, fn), tail = p.
Chain(r) == prev' = [prev EXCEPT ![r] = tail] /\ tail' = r

\* Mutant: tail.then(fn): the task is skipped when the one before it failed.
Successors_OnSuccess(r, failed) == {n \in Request : ~failed /\ status[n] = "queued" /\ prev[n] = r}

\* The task chained to r, whatever became of r.
Successors(r, failed) == {n \in Request : status[n] = "queued" /\ prev[n] = r}

\* The journal j after a task started: opens has the task if it opened the journal at
\* once, and is empty if it opens later or its first checks failed.
Started(j, opens, kinds) == IF opens = {} THEN j
                            ELSE LET n == CHOOSE x \in opens : TRUE IN Fresh(n, kinds[n])

\* The queue's finally.
Leave(failed) == pending' = pending - 1

\* queue.run on a queue with room.
Accept(r, k) ==
  /\ status[r] = "new" /\ pending < MaxPending
  /\ kind' = [kind EXCEPT ![r] = k] /\ pending' = pending + 1
  /\ accepted' = Append(accepted, r)
  /\ Chain(r)
  /\ IF tail = NoRequest \/ status[tail] = "settled"
     THEN \E opens \in SUBSET (IF k \in OpensAtOnce THEN {r} ELSE {}) :
             /\ status' = [status EXCEPT ![r] = "running"]
             /\ opened' = [opened EXCEPT ![r] = opens # {}]
             /\ journal' = Started(journal, opens, kind')
     ELSE status' = [status EXCEPT ![r] = "queued"] /\ UNCHANGED <<opened, journal>>
  /\ UNCHANGED progress

\* queue.run on a full queue rejects, and the handler takes the rejection for the
\* failure of an operation.
Refuse(r, k) ==
  /\ status[r] = "new" /\ pending >= MaxPending
  /\ status' = [status EXCEPT ![r] = "refused"] /\ kind' = [kind EXCEPT ![r] = k]
  /\ journal' = HandlerEnds(journal, r, k, TRUE)
  /\ UNCHANGED <<prev, tail, pending, accepted, opened, progress>>

\* A creation or an upgrade has passed its checks.
Open(r) ==
  /\ status[r] = "running" /\ ~opened[r] /\ kind[r] \in OpensLater
  /\ opened' = [opened EXCEPT ![r] = TRUE]
  /\ journal' = Fresh(r, kind[r])
  /\ UNCHANGED <<queue, progress>>

Begin(r) ==
  /\ status[r] = "running" /\ opened[r]
  /\ progress[r].begun = progress[r].ended /\ progress[r].begun < Len(Script(kind[r]))
  /\ progress' = [progress EXCEPT ![r].begun = @ + 1]
  /\ journal' = StepRunning(journal, Script(kind[r])[progress[r].begun + 1])
  /\ UNCHANGED <<queue, opened>>

End(r) ==
  /\ status[r] = "running" /\ progress[r].begun > progress[r].ended
  /\ progress' = [progress EXCEPT ![r].ended = @ + 1]
  /\ journal' = StepDone(journal, Script(kind[r])[progress[r].begun])
  /\ UNCHANGED <<queue, opened>>

Complete(r) == /\ kind[r] # "discard" => opened[r]
               /\ progress[r].ended = Len(Script(kind[r]))

\* A task settles: any step of it may throw.  The next one starts, then the handler
\* of this one closes the journal.
Settle(r, failed) ==
  /\ status[r] = "running" /\ (failed \/ Complete(r))
  /\ Leave(failed)
  /\ status' = [n \in Request |-> IF n = r THEN "settled"
                                  ELSE IF n \in Successors(r, failed) THEN "running" ELSE status[n]]
  /\ \E opens \in SUBSET {n \in Successors(r, failed) : kind[n] \in OpensAtOnce} :
        /\ opened' = [n \in Request |-> opened[n] \/ n \in opens]
        /\ journal' = HandlerEnds(Started(journal, opens, kind), r, kind[r], failed)
  /\ UNCHANGED <<kind, prev, tail, accepted, progress>>

QueueInit ==
  /\ status = [r \in Request |-> "new"] /\ kind = [r \in Request |-> "discard"]
  /\ opened = [r \in Request |-> FALSE]
  /\ progress = [r \in Request |-> [begun |-> 0, ended |-> 0]]
  /\ prev = [r \in Request |-> NoRequest] /\ tail = NoRequest /\ pending = 0
  /\ journal = [running |-> FALSE, owner |-> NoRequest, error |-> NoRequest,
                steps |-> [s \in Steps |-> "absent"]]
  /\ accepted = <<>>

QueueNext ==
  \E r \in Request :
    \/ \E k \in Kinds : Accept(r, k) \/ Refuse(r, k)
    \/ Open(r) \/ Begin(r) \/ End(r)
    \/ \E failed \in BOOLEAN : Settle(r, failed)

QueueSpec == QueueInit /\ [][QueueNext]_queueVars

\* Every task settles: its waits are bounded and its calls come back.
FairQueueSpec == QueueSpec /\ \A r \in Request : WF_queueVars(\E f \in BOOLEAN : Settle(r, f))

-----------------------------------------------------------------------------
StepStatuses == {"absent", "pending", "running", "done", "failed"}

\* Types, and the number of requests that hold a place of the queue.
QueueTypeOK ==
  /\ status \in [Request -> {"new", "queued", "running", "settled", "refused"}]
  /\ kind \in [Request -> Kinds] /\ opened \in [Request -> BOOLEAN]
  /\ \A r \in Request : /\ progress[r].ended \in 0..Len(Script(kind[r]))
                        /\ progress[r].begun - progress[r].ended \in {0, 1}
  /\ prev \in [Request -> Request \cup {NoRequest}] /\ tail \in Request \cup {NoRequest}
  /\ pending = Cardinality({r \in Request : status[r] \in {"queued", "running"}})
  /\ pending <= MaxPending
  /\ journal \in [running : BOOLEAN, owner : Request \cup {NoRequest},
                  error : Request \cup {NoRequest}, steps : [Steps -> StepStatuses]]
  /\ accepted \in Seq(Request)

\* Operations run one at a time, in the order they were accepted: none starts before
\* every earlier one has settled.
OneAtATimeInOrder ==
  \A i, j \in DOMAIN accepted :
    i < j /\ status[accepted[j]] # "queued" => status[accepted[i]] = "settled"

\* A progress page that says "running" tells of the operation that runs: no path, the
\* failing ones included, leaves the journal of a settled operation open.
RunningIsTrue == journal.running => status[journal.owner] = "running"

\* A request the queue took is served, whatever became of the ones before it.
AcceptedIsServed == \A r \in Request : status[r] = "queued" ~> status[r] = "settled"

\* operation-journal.mjs: "what the console is doing right now, for `/api/progress`".
RunningIsShown ==
  \A r \in Request : status[r] = "running" /\ opened[r] => journal.running /\ journal.owner = r

\* operation-journal.mjs: "The finished operation is KEPT rather than cleared, so someone
\* reloading the page a few seconds later still sees the result".
FinishedIsKept ==
  [][journal.owner # NoRequest /\ status[journal.owner] = "settled"
     /\ journal'.owner = journal.owner => journal' = journal]_queueVars
=============================================================================
