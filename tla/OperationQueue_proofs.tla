------------------------ MODULE OperationQueue_proofs ------------------------
(***************************************************************************)
(* Proofs about OperationQueue, for every number of requests and nodes and *)
(* every size of the queue: QueueInv is inductive, and with it the types,  *)
(* OneAtATimeInOrder and RunningIsTrue hold of every behaviour.            *)
(***************************************************************************)
EXTENDS OperationQueue, FiniteSetTheorems, TLAPS

\* The accepted requests are those that hold or held a place, each once.
Listed ==
  /\ \A r \in Request : status[r] \in {"queued", "running", "settled"} =>
                          \E i \in 1..Len(accepted) : accepted[i] = r
  /\ \A i \in 1..Len(accepted) : status[accepted[i]] \in {"queued", "running", "settled"}
  /\ \A i, j \in 1..Len(accepted) : accepted[i] = accepted[j] => i = j

\* Each is chained to the one before it, and the next one will be to the last.
Chained ==
  /\ \A i \in 1..Len(accepted) : prev[accepted[i]] = IF i = 1 THEN NoRequest ELSE accepted[i - 1]
  /\ tail = IF Len(accepted) = 0 THEN NoRequest ELSE accepted[Len(accepted)]

\* The steps of an operation are counted within its script.
Counted ==
  /\ progress \in [Request -> [begun : Nat, ended : Nat]]
  /\ \A r \in Request : /\ progress[r].begun <= Len(Script(kind[r]))
                        /\ status[r] = "new" => progress[r].begun = 0 /\ progress[r].ended = 0

\* OneAtATimeInOrder, place by place.
InOrder == \A i, j \in 1..Len(accepted) :
             i < j /\ status[accepted[j]] # "queued" => status[accepted[i]] = "settled"

\* A running journal has an owner.
Owned == journal.running => journal.owner \in Request

QueueInv == QueueTypeOK /\ Listed /\ Chained /\ Counted /\ InOrder /\ Owned /\ RunningIsTrue

-----------------------------------------------------------------------------
(* The journal's methods. *)

JournalType == [running : BOOLEAN, owner : Request \cup {NoRequest}, error : Request \cup {NoRequest},
                steps : [Steps -> StepStatuses]]

LEMMA ScriptType == ASSUME NEW k \in Kinds PROVE Script(k) \in Seq(Steps) /\ Len(Script(k)) \in Nat
  <1>1. Nodes \in Seq(Steps)
    <2>1. Range(Nodes) \subseteq Steps
      BY DEF Steps
    <2> QED BY <2>1, QueueConstants
  <1>2. <<Given>> \in Seq(Steps) /\ << >> \in Seq(Steps)
    BY DEF Steps
  <1>3. <<Given>> \o Nodes \in Seq(Steps) /\ Nodes \o <<Given>> \in Seq(Steps)
    BY <1>1, <1>2
  <1> QED BY <1>1, <1>2, <1>3 DEF Script, Kinds

LEMMA FreshFacts == ASSUME NEW r \in Request, NEW k
                    PROVE  Fresh(r, k) \in JournalType /\ Fresh(r, k).running /\ Fresh(r, k).owner = r
  BY DEF Fresh, JournalType, StepStatuses

LEMMA StepFacts ==
  ASSUME NEW j \in JournalType, NEW s
  PROVE  /\ StepRunning(j, s) \in JournalType /\ StepDone(j, s) \in JournalType
         /\ StepRunning(j, s).running = j.running /\ StepRunning(j, s).owner = j.owner
         /\ StepDone(j, s).running = j.running /\ StepDone(j, s).owner = j.owner
  <1>1. [AddSteps(j.steps, s) EXCEPT ![s] = "running"] \in [Steps -> StepStatuses]
    BY DEF AddSteps, JournalType, StepStatuses
  <1>2. [j.steps EXCEPT ![s] = "done"] \in [Steps -> StepStatuses]
    BY DEF JournalType, StepStatuses
  <1> QED BY <1>1, <1>2 DEF StepRunning, StepDone, JournalType

\* The journal after a handler's end does not run.
LEMMA HandlerFacts ==
  ASSUME NEW j \in JournalType, NEW r \in Request, NEW k, NEW failed \in BOOLEAN
  PROVE  HandlerEnds(j, r, k, failed) \in JournalType /\ ~HandlerEnds(j, r, k, failed).running
  <1>1. [s \in Steps |-> IF failed /\ j.steps[s] = "running" THEN "failed" ELSE j.steps[s]] \in [Steps -> StepStatuses]
    BY DEF JournalType, StepStatuses
  <1>2. Close(j, r, failed) \in JournalType /\ ~Close(j, r, failed).running
    BY <1>1 DEF Close, JournalType
  <1> QED BY <1>2 DEF HandlerEnds

\* The journal when a task starts: it is that task's, or it is as it was.
LEMMA StartedFacts ==
  ASSUME NEW j \in JournalType, NEW opens \in SUBSET Request, NEW kinds
  PROVE  /\ Started(j, opens, kinds) \in JournalType
         /\ opens = {} => Started(j, opens, kinds) = j
         /\ opens # {} => Started(j, opens, kinds).running /\ Started(j, opens, kinds).owner \in opens
  <1>1. CASE opens = {}
    BY <1>1 DEF Started
  <1>2. CASE opens # {}
    <2> DEFINE n == CHOOSE x \in opens : TRUE
    <2>1. n \in opens
      BY <1>2
    <2>2. Started(j, opens, kinds) = Fresh(n, kinds[n])
      BY <1>2 DEF Started
    <2> HIDE DEF n
    <2> QED BY <1>2, <2>1, <2>2, FreshFacts
  <1> QED BY <1>1, <1>2

-----------------------------------------------------------------------------
(* The places of the queue. *)

Holding == {r \in Request : status[r] \in {"queued", "running"}}

LEMMA HoldingFacts == IsFiniteSet(Holding) /\ Cardinality(Holding) \in Nat
  BY QueueConstants, FS_Subset, FS_CardinalityType DEF Holding

LEMMA EnterFacts ==
  ASSUME QueueTypeOK, NEW r \in Request, status[r] = "new", NEW st \in {"queued", "running"},
         status' = [status EXCEPT ![r] = st]
  PROVE  Holding' = Holding \cup {r} /\ Cardinality(Holding') = Cardinality(Holding) + 1
  <1>1. Holding' = Holding \cup {r} /\ r \notin Holding
    BY DEF Holding, QueueTypeOK
  <1> QED BY <1>1, HoldingFacts, FS_AddElement

\* Nobody but the last accepted request is chained to it, and it starts when the one
\* before it settles.
LEMMA NextFacts ==
  ASSUME QueueInv, NEW r \in Request, status[r] = "running", NEW failed \in BOOLEAN
  PROVE  \E i \in 1..Len(accepted) :
           /\ accepted[i] = r
           /\ \A n \in Successors(r, failed) : i + 1 \in 1..Len(accepted) /\ n = accepted[i + 1]
           /\ \A k \in 1..Len(accepted) : /\ k < i => status[accepted[k]] = "settled"
                                          /\ k > i => status[accepted[k]] = "queued"
  <1> USE DEF QueueInv, QueueTypeOK
  <1>1. PICK i \in 1..Len(accepted) : accepted[i] = r
    BY DEF Listed
  <1>2. ASSUME NEW n \in Successors(r, failed) PROVE i + 1 \in 1..Len(accepted) /\ n = accepted[i + 1]
    <2>1. n \in Request /\ status[n] = "queued" /\ prev[n] = r
      BY DEF Successors
    <2>2. PICK k \in 1..Len(accepted) : accepted[k] = n
      BY <2>1 DEF Listed
    <2>3. k # 1 /\ accepted[k - 1] = r /\ k - 1 \in 1..Len(accepted)
      BY <2>1, <2>2, QueueConstants DEF Chained
    <2>4. k - 1 = i
      BY <1>1, <2>3 DEF Listed
    <2> QED BY <2>2, <2>4
  <1>3. ASSUME NEW k \in 1..Len(accepted)
        PROVE  /\ k < i => status[accepted[k]] = "settled"
               /\ k > i => status[accepted[k]] = "queued"
    BY <1>1 DEF InOrder
  <1> QED BY <1>1, <1>2, <1>3

-----------------------------------------------------------------------------
(* One lemma per action. *)

\* A request may change its kind while its operation has not begun.
LEMMA CountedKept ==
  ASSUME Counted, NEW r \in Request, status[r] = "new", kind' \in [Request -> Kinds], UNCHANGED progress,
         \A q \in Request \ {r} : kind'[q] = kind[q] /\ (status'[q] = "new" => status[q] = "new")
  PROVE  Counted'
  <1>1. progress[r].begun = 0 /\ progress[r].ended = 0
    BY DEF Counted
  <1>2. Len(Script(kind'[r])) \in Nat
    BY ScriptType
  <1>3. ASSUME NEW q \in Request PROVE progress'[q].begun <= Len(Script(kind'[q]))
    <2>1. CASE q = r
      BY <1>1, <1>2, <2>1
    <2>2. CASE q # r
      BY <2>2 DEF Counted
    <2> QED BY <2>1, <2>2
  <1>4. \A q \in Request : status'[q] = "new" => progress[q].begun = 0 /\ progress[q].ended = 0
    BY <1>1 DEF Counted
  <1> QED BY <1>3, <1>4 DEF Counted

\* What is counted is within the script, as the types say.
LEMMA CountedTypes ==
  ASSUME Counted', kind' \in [Request -> Kinds],
         \A r \in Request : progress'[r].begun - progress'[r].ended \in {0, 1}
  PROVE  \A r \in Request : progress'[r].ended \in 0..Len(Script(kind'[r]))
  <1> SUFFICES ASSUME NEW r \in Request PROVE progress'[r].ended \in 0..Len(Script(kind'[r]))
    OBVIOUS
  <1>1. Len(Script(kind'[r])) \in Nat
    BY ScriptType
  <1>2. /\ progress'[r].begun \in Nat /\ progress'[r].ended \in Nat
        /\ progress'[r].begun <= Len(Script(kind'[r])) /\ progress'[r].begun - progress'[r].ended \in {0, 1}
    BY DEF Counted
  <1> QED BY <1>1, <1>2

LEMMA AcceptInv == ASSUME QueueInv, NEW r \in Request, NEW k \in Kinds, Accept(r, k) PROVE QueueInv'
  <1> DEFINE last == Len(accepted)
  <1>1. /\ Listed /\ Chained /\ Counted /\ InOrder /\ Owned /\ RunningIsTrue
        /\ status \in [Request -> {"new", "queued", "running", "settled", "refused"}]
        /\ accepted \in Seq(Request) /\ last \in Nat
    BY DEF QueueInv, QueueTypeOK
  <1>2. /\ status[r] = "new" /\ pending < MaxPending /\ pending' = pending + 1 /\ UNCHANGED progress
        /\ accepted' = Append(accepted, r) /\ prev' = [prev EXCEPT ![r] = tail] /\ tail' = r
        /\ kind' \in [Request -> Kinds] /\ \A q \in Request \ {r} : kind'[q] = kind[q]
    BY DEF Accept, Chain, QueueInv, QueueTypeOK
  <1>3. PICK st \in {"queued", "running"} :
          /\ status' = [status EXCEPT ![r] = st]
          /\ st = "running" => tail = NoRequest \/ status[tail] = "settled"
    BY DEF Accept
  <1>4. /\ status' \in [Request -> {"new", "queued", "running", "settled", "refused"}]
        /\ status'[r] = st /\ \A q \in Request \ {r} : status'[q] = status[q]
    BY <1>1, <1>3
  <1>5. /\ accepted' \in Seq(Request) /\ Len(accepted') = last + 1 /\ accepted'[last + 1] = r
        /\ \A i \in 1..last : accepted'[i] = accepted[i] /\ accepted[i] \in Request \ {r}
    <2>1. \A i \in 1..last : accepted[i] \in Request \ {r}
      BY <1>1, <1>2 DEF Listed
    <2> QED BY <1>1, <1>2, <2>1
  <1>6. 1..Len(accepted') = 1..last \cup {last + 1}
    BY <1>1, <1>5
  <1> HIDE DEF last
  <1>7. Listed'
    <2>1. ASSUME NEW q \in Request, status'[q] \in {"queued", "running", "settled"}
          PROVE  \E i \in 1..Len(accepted') : accepted'[i] = q
      <3>1. CASE q = r
        BY <1>5, <1>6, <3>1
      <3>2. CASE q # r
        BY <1>1, <1>4, <1>5, <1>6, <2>1, <3>2 DEF Listed, last
      <3> QED BY <3>1, <3>2
    <2>2. \A i \in 1..last : status'[accepted[i]] \in {"queued", "running", "settled"}
      BY <1>1, <1>4, <1>5 DEF Listed, last
    <2>3. \A i, j \in 1..last : accepted[i] = accepted[j] => i = j
      BY <1>1 DEF Listed, last
    <2> QED BY <1>4, <1>5, <1>6, <2>1, <2>2, <2>3 DEF Listed
  <1>8. Chained'
    <2>1. prev'[r] = tail /\ \A i \in 1..last : prev'[accepted[i]] = prev[accepted[i]]
      BY <1>2, <1>5 DEF QueueInv, QueueTypeOK
    <2>2. /\ \A i \in 1..last : prev[accepted[i]] = IF i = 1 THEN NoRequest ELSE accepted[i - 1]
          /\ tail = IF last = 0 THEN NoRequest ELSE accepted[last]
      BY <1>1 DEF Chained, last
    <2>3. ASSUME NEW i \in 1..last PROVE prev'[accepted'[i]] = IF i = 1 THEN NoRequest ELSE accepted'[i - 1]
      BY <1>1, <1>5, <2>1, <2>2
    <2>4. prev'[accepted'[last + 1]] = IF last + 1 = 1 THEN NoRequest ELSE accepted'[last + 1 - 1]
      BY <1>1, <1>5, <2>1, <2>2
    <2> QED BY <1>1, <1>2, <1>5, <1>6, <2>3, <2>4 DEF Chained
  <1>9. Counted'
    BY <1>1, <1>2, <1>4, CountedKept
  <1>10. InOrder'
    <2>1. st = "running" => \A i \in 1..last : status[accepted[i]] = "settled"
      <3>1. last # 0 => tail = accepted[last] /\ tail # NoRequest /\ last \in 1..last
        BY <1>1, <1>5, QueueConstants DEF Chained, last
      <3>2. \A i \in 1..last : i < last /\ status[accepted[last]] # "queued" => status[accepted[i]] = "settled"
        BY <1>1 DEF InOrder, last
      <3> QED BY <1>1, <1>3, <3>1, <3>2
    <2> SUFFICES ASSUME NEW i \in 1..last, NEW j \in 1..last \cup {last + 1}, i < j,
                        status'[accepted'[j]] # "queued"
                 PROVE  status'[accepted'[i]] = "settled"
      BY <1>1, <1>6 DEF InOrder
    <2>2. CASE j = last + 1
      BY <1>4, <1>5, <2>1, <2>2
    <2>3. CASE j \in 1..last
      BY <1>1, <1>4, <1>5, <2>3 DEF InOrder, last
    <2> QED BY <2>2, <2>3
  <1>11. pending' = Cardinality(Holding') /\ pending' <= MaxPending
    <2>1. pending = Cardinality(Holding)
      BY DEF Holding, QueueInv, QueueTypeOK
    <2>2. Cardinality(Holding') = Cardinality(Holding) + 1
      <3>1. QueueTypeOK
        BY DEF QueueInv
      <3> QED BY <1>2, <1>3, <3>1, EnterFacts
    <2> QED BY <1>2, <2>1, <2>2, HoldingFacts, QueueConstants
  <1>12. /\ journal' \in JournalType /\ Owned' /\ RunningIsTrue' /\ opened' \in [Request -> BOOLEAN]
    <2>1. journal \in JournalType /\ opened \in [Request -> BOOLEAN]
      BY DEF QueueInv, QueueTypeOK, JournalType
    <2>2. CASE UNCHANGED <<opened, journal>>
      BY <1>1, <1>2, <1>4, <2>1, <2>2 DEF Owned, RunningIsTrue, JournalType
    <2>3. ASSUME NEW opens \in SUBSET {r}, opened' = [opened EXCEPT ![r] = opens # {}],
                 journal' = Started(journal, opens, kind'), st = "running"
          PROVE  journal' \in JournalType /\ Owned' /\ RunningIsTrue' /\ opened' \in [Request -> BOOLEAN]
      <3>1. /\ journal' \in JournalType
            /\ opens = {} => journal' = journal
            /\ opens # {} => journal'.running /\ journal'.owner \in opens
        BY <2>1, <2>3, StartedFacts
      <3>2. (opens # {}) \in BOOLEAN
        OBVIOUS
      <3>3. opened' \in [Request -> BOOLEAN]
        BY <2>1, <2>3, <3>2
      <3>4. Owned' /\ RunningIsTrue'
        BY <1>1, <1>2, <1>4, <2>1, <2>3, <3>1 DEF Owned, RunningIsTrue, JournalType
      <3> QED BY <3>1, <3>3, <3>4
    <2>4. \/ UNCHANGED <<opened, journal>>
          \/ /\ status' = [status EXCEPT ![r] = "running"]
             /\ \E opens \in SUBSET {r} : /\ opened' = [opened EXCEPT ![r] = opens # {}]
                                          /\ journal' = Started(journal, opens, kind')
      BY DEF Accept
    <2>5. status' = [status EXCEPT ![r] = "running"] => st = "running"
      BY <1>1, <1>4
    <2> QED BY <2>2, <2>3, <2>4, <2>5
  <1>13. QueueTypeOK'
    <2>1. \A q \in Request : progress'[q].begun - progress'[q].ended \in {0, 1}
      BY <1>2 DEF QueueInv, QueueTypeOK
    <2>2. \A q \in Request : progress'[q].ended \in 0..Len(Script(kind'[q]))
      BY <1>2, <1>9, <2>1, CountedTypes
    <2>3. prev' \in [Request -> Request \cup {NoRequest}]
      BY <1>2 DEF QueueInv, QueueTypeOK
    <2> QED BY <1>2, <1>4, <1>5, <1>11, <1>12, <2>1, <2>2, <2>3 DEF QueueTypeOK, Holding, JournalType
  <1> QED BY <1>7, <1>8, <1>9, <1>10, <1>12, <1>13 DEF QueueInv

LEMMA CountFacts ==
  ASSUME NEW c \in [begun : Nat, ended : Nat]
  PROVE  /\ [c EXCEPT !.begun = c.begun + 1] = [begun |-> c.begun + 1, ended |-> c.ended]
         /\ [c EXCEPT !.ended = c.ended + 1] = [begun |-> c.begun, ended |-> c.ended + 1]
  OBVIOUS

LEMMA RefuseInv == ASSUME QueueInv, NEW r \in Request, NEW k \in Kinds, Refuse(r, k) PROVE QueueInv'
  <1>1. /\ Listed /\ Chained /\ Counted /\ InOrder
        /\ status \in [Request -> {"new", "queued", "running", "settled", "refused"}]
        /\ accepted \in Seq(Request) /\ journal \in JournalType
    BY DEF QueueInv, QueueTypeOK, JournalType
  <1>2. /\ status[r] = "new" /\ status' = [status EXCEPT ![r] = "refused"]
        /\ kind' \in [Request -> Kinds] /\ \A q \in Request \ {r} : kind'[q] = kind[q]
        /\ UNCHANGED <<prev, tail, pending, accepted, opened, progress>>
        /\ journal' = HandlerEnds(journal, r, k, TRUE)
    BY DEF Refuse, QueueInv, QueueTypeOK
  <1>3. /\ status' \in [Request -> {"new", "queued", "running", "settled", "refused"}]
        /\ status'[r] = "refused" /\ \A q \in Request \ {r} : status'[q] = status[q]
    BY <1>1, <1>2
  <1>4. \A i \in 1..Len(accepted) : accepted[i] \in Request \ {r}
    BY <1>1, <1>2 DEF Listed
  <1>5. {q \in Request : status'[q] \in {"queued", "running"}} = {q \in Request : status[q] \in {"queued", "running"}}
    BY <1>2, <1>3
  <1>6. journal' \in JournalType /\ ~journal'.running
    BY <1>1, <1>2, HandlerFacts
  <1>7. Listed'
    BY <1>1, <1>2, <1>3, <1>4 DEF Listed
  <1>8. Chained' /\ InOrder'
    BY <1>1, <1>2, <1>3, <1>4 DEF Chained, InOrder
  <1>9. Counted'
    BY <1>1, <1>2, <1>3, CountedKept
  <1>10. QueueTypeOK'
    <2>1. \A q \in Request : progress'[q].begun - progress'[q].ended \in {0, 1}
      BY <1>2 DEF QueueInv, QueueTypeOK
    <2>2. \A q \in Request : progress'[q].ended \in 0..Len(Script(kind'[q]))
      BY <1>2, <1>9, <2>1, CountedTypes
    <2> QED BY <1>2, <1>3, <1>5, <1>6, <2>1, <2>2 DEF QueueInv, QueueTypeOK, JournalType
  <1> QED BY <1>6, <1>7, <1>8, <1>9, <1>10 DEF QueueInv, Owned, RunningIsTrue

LEMMA OpenInv == ASSUME QueueInv, NEW r \in Request, Open(r) PROVE QueueInv'
  <1> USE DEF QueueInv, QueueTypeOK, Open, queue
  <1>1. journal' \in JournalType /\ journal'.owner = r
    BY FreshFacts
  <1>2. Listed' /\ Chained' /\ Counted' /\ InOrder' /\ Owned' /\ RunningIsTrue'
    BY <1>1 DEF Listed, Chained, Counted, InOrder, Owned, RunningIsTrue
  <1> QED BY <1>1, <1>2 DEF JournalType

\* A step of an operation moves its count and the journal's steps.
LEMMA StepInv == ASSUME QueueInv, NEW r \in Request, Begin(r) \/ End(r) PROVE QueueInv'
  <1>1. /\ Listed /\ Chained /\ Counted /\ InOrder /\ Owned /\ RunningIsTrue
        /\ progress \in [Request -> [begun : Nat, ended : Nat]] /\ journal \in JournalType
        /\ kind \in [Request -> Kinds] /\ \A q \in Request : progress[q].begun - progress[q].ended \in {0, 1}
    BY DEF QueueInv, QueueTypeOK, JournalType, Counted
  <1>2. UNCHANGED <<status, kind, prev, tail, pending, accepted, opened>> /\ status[r] = "running"
    BY DEF Begin, End, queue
  <1>3. Len(Script(kind[r])) \in Nat /\ progress[r].begun <= Len(Script(kind[r]))
    BY <1>1, ScriptType DEF Counted
  <1>4. PICK b \in Nat, e \in Nat :
          /\ progress' = [progress EXCEPT ![r] = [begun |-> b, ended |-> e]]
          /\ b <= Len(Script(kind[r])) /\ b - e \in {0, 1}
    <2>1. CASE Begin(r)
      <3> DEFINE b == progress[r].begun + 1
                 e == progress[r].ended
      <3>1. progress' = [progress EXCEPT ![r] = [begun |-> b, ended |-> e]]
        <4>1. progress' = [progress EXCEPT ![r] = [progress[r] EXCEPT !.begun = progress[r].begun + 1]]
          BY <2>1 DEF Begin
        <4>2. progress[r] \in [begun : Nat, ended : Nat]
          BY <1>1
        <4> QED BY <4>1, <4>2, CountFacts
      <3>2. b \in Nat /\ e \in Nat /\ b <= Len(Script(kind[r])) /\ b - e \in {0, 1}
        BY <1>1, <1>3, <2>1 DEF Begin
      <3> QED BY <3>1, <3>2
    <2>2. CASE End(r)
      <3> DEFINE b == progress[r].begun
                 e == progress[r].ended + 1
      <3>1. progress' = [progress EXCEPT ![r] = [begun |-> b, ended |-> e]]
        <4>1. progress' = [progress EXCEPT ![r] = [progress[r] EXCEPT !.ended = progress[r].ended + 1]]
          BY <2>2 DEF End
        <4>2. progress[r] \in [begun : Nat, ended : Nat]
          BY <1>1
        <4> QED BY <4>1, <4>2, CountFacts
      <3>2. b \in Nat /\ e \in Nat
        BY <1>1
      <3>3. b - e \in {0, 1}
        <4>1. progress[r].begun - progress[r].ended \in {0, 1} /\ progress[r].begun > progress[r].ended
          BY <1>1, <2>2 DEF End
        <4> QED BY <1>1, <4>1
      <3> QED BY <1>3, <3>1, <3>2, <3>3
    <2> QED BY <2>1, <2>2
  <1>5. /\ progress' \in [Request -> [begun : Nat, ended : Nat]]
        /\ progress'[r].begun = b /\ progress'[r].ended = e
        /\ \A q \in Request \ {r} : progress'[q] = progress[q]
    BY <1>1, <1>4
  <1>6. journal' \in JournalType /\ journal'.running = journal.running /\ journal'.owner = journal.owner
    BY <1>1, StepFacts DEF Begin, End
  <1>7. Counted'
    BY <1>1, <1>2, <1>4, <1>5 DEF Counted
  <1>8. \A q \in Request : progress'[q].begun - progress'[q].ended \in {0, 1}
    BY <1>1, <1>4, <1>5
  <1>9. \A q \in Request : progress'[q].ended \in 0..Len(Script(kind'[q]))
    BY <1>1, <1>2, <1>7, <1>8, CountedTypes
  <1>10. Listed' /\ Chained' /\ InOrder' /\ Owned' /\ RunningIsTrue'
    BY <1>1, <1>2, <1>6 DEF Listed, Chained, InOrder, Owned, RunningIsTrue
  <1> QED BY <1>2, <1>6, <1>7, <1>8, <1>9, <1>10 DEF QueueInv, QueueTypeOK, JournalType

LEMMA SettleInv == ASSUME QueueInv, NEW r \in Request, NEW failed \in BOOLEAN, Settle(r, failed) PROVE QueueInv'
  <1>1. PICK i \in 1..Len(accepted) :
           /\ accepted[i] = r
           /\ \A n \in Successors(r, failed) : i + 1 \in 1..Len(accepted) /\ n = accepted[i + 1]
           /\ \A k \in 1..Len(accepted) : /\ k < i => status[accepted[k]] = "settled"
                                          /\ k > i => status[accepted[k]] = "queued"
    BY NextFacts DEF Settle
  <1> USE DEF QueueInv, QueueTypeOK
  <1>2. status[r] = "running" /\ UNCHANGED <<kind, prev, tail, accepted, progress>> /\ pending' = pending - 1
    BY DEF Settle, Leave
  <1>3. \A q \in Request : status'[q] = IF q = r THEN "settled"
                                        ELSE IF q \in Successors(r, failed) THEN "running" ELSE status[q]
    BY DEF Settle
  <1>4. Successors(r, failed) \subseteq {q \in Request : status[q] = "queued"}
    BY DEF Successors
  <1>5. status' \in [Request -> {"new", "queued", "running", "settled", "refused"}]
    BY <1>4 DEF Settle
  <1>6. Listed' /\ Chained'
    BY <1>2, <1>3, <1>4 DEF Listed, Chained
  <1>7. InOrder'
    <2> SUFFICES ASSUME NEW k \in 1..Len(accepted), NEW l \in 1..Len(accepted), k < l,
                        status'[accepted[l]] # "queued"
                 PROVE  status'[accepted[k]] = "settled"
      BY <1>2 DEF InOrder
    <2>1. l <= i + 1
      <3>1. ASSUME l > i + 1 PROVE FALSE
        <4>1. accepted[l] \notin Successors(r, failed)
          <5> SUFFICES ASSUME accepted[l] \in Successors(r, failed) PROVE FALSE
            OBVIOUS
          <5>1. i + 1 \in 1..Len(accepted) /\ accepted[l] = accepted[i + 1]
            BY <1>1
          <5>2. l = i + 1
            BY <5>1 DEF Listed
          <5> QED BY <3>1, <5>2
        <4>2. accepted[l] # r /\ status[accepted[l]] = "queued"
          BY <1>1, <3>1 DEF Listed
        <4> QED BY <1>3, <4>1, <4>2
      <3> QED BY <3>1
    <2>2. k <= i
      BY <2>1
    <2>3. k < i => accepted[k] \notin Successors(r, failed) /\ status[accepted[k]] = "settled"
      BY <1>4, <1>1
    <2> QED BY <1>3, <1>1, <2>2, <2>3
  <1>8. Counted'
    BY <1>2, <1>3, <1>4 DEF Counted
  <1>9. journal' \in JournalType /\ Owned' /\ RunningIsTrue' /\ opened' \in [Request -> BOOLEAN]
    <2>1. PICK opens \in SUBSET Successors(r, failed) :
             /\ opened' = [n \in Request |-> opened[n] \/ n \in opens]
             /\ journal' = HandlerEnds(Started(journal, opens, kind), r, kind[r], failed)
      BY DEF Settle
    <2>2. Started(journal, opens, kind) \in JournalType
      BY <1>4, StartedFacts DEF JournalType
    <2>3. journal' \in JournalType /\ ~journal'.running
      BY <2>1, <2>2, HandlerFacts
    <2> QED BY <2>1, <2>3 DEF Owned, RunningIsTrue
  <1>10. Holding' = Holding \ {r} /\ r \in Holding
    BY <1>2, <1>3, <1>4 DEF Holding
  <1>11. pending' = Cardinality(Holding') /\ pending' <= MaxPending
    <2>1. pending = Cardinality(Holding) /\ pending <= MaxPending
      BY DEF Holding
    <2>2. Cardinality(Holding \ {r}) = Cardinality(Holding) - 1
      BY <1>10, HoldingFacts, FS_RemoveElement
    <2> QED BY <1>2, <1>10, <2>1, <2>2, HoldingFacts, QueueConstants
  <1> QED BY <1>2, <1>5, <1>6, <1>7, <1>8, <1>9, <1>11 DEF Holding, JournalType

-----------------------------------------------------------------------------
LEMMA QueueInitInv == ASSUME QueueInit PROVE QueueInv
  <1> USE DEF QueueInit
  <1>1. {r \in Request : status[r] \in {"queued", "running"}} = {}
    OBVIOUS
  <1>2. journal \in JournalType /\ ~journal.running
    BY DEF JournalType, StepStatuses
  <1>3. \A k \in Kinds : Len(Script(k)) \in Nat
    BY ScriptType
  <1>4. "discard" \in Kinds
    BY DEF Kinds
  <1>5. accepted \in Seq(Request) /\ Len(accepted) = 0
    OBVIOUS
  <1>6. QueueTypeOK
    <2>1. pending = Cardinality({r \in Request : status[r] \in {"queued", "running"}}) /\ pending <= MaxPending
      <3>1. Cardinality(Holding) = 0
        BY <1>1, FS_EmptySet DEF Holding
      <3> QED BY <3>1, QueueConstants DEF Holding
    <2>2. \A r \in Request : /\ progress[r].ended \in 0..Len(Script(kind[r]))
                             /\ progress[r].begun - progress[r].ended \in {0, 1}
      BY <1>3, <1>4
    <2> QED BY <1>2, <1>4, <1>5, <2>1, <2>2 DEF QueueTypeOK, JournalType
  <1>7. Listed /\ Chained /\ InOrder /\ Owned /\ RunningIsTrue
    BY <1>2, <1>5 DEF Owned, Listed, Chained, InOrder, RunningIsTrue
  <1>8. Counted
    BY <1>3, <1>4 DEF Counted
  <1> QED BY <1>6, <1>7, <1>8 DEF QueueInv

LEMMA QueueNextInv == QueueInv /\ [QueueNext]_queueVars => QueueInv'
  <1> SUFFICES ASSUME QueueInv, [QueueNext]_queueVars PROVE QueueInv'
    OBVIOUS
  <1>1. CASE UNCHANGED queueVars
    BY <1>1 DEF queueVars, queue, QueueInv, QueueTypeOK, Listed, Chained, Counted, InOrder, Owned, RunningIsTrue
  <1>2. CASE QueueNext
    BY <1>2, AcceptInv, RefuseInv, OpenInv, StepInv, SettleInv DEF QueueNext
  <1> QED BY <1>1, <1>2

LEMMA QueueInvariant == QueueSpec => []QueueInv
  BY QueueInitInv, QueueNextInv, PTL DEF QueueSpec

\* The queue's variables keep their types, and pending counts the requests that hold a
\* place: the queue is never fuller than its limit.
THEOREM QueueTypes == QueueSpec => []QueueTypeOK
  <1>1. QueueInv => QueueTypeOK
    BY DEF QueueInv
  <1> QED BY <1>1, QueueInvariant, PTL

\* OneAtATimeInOrder (serialQueue, guard.mjs): no operation starts before every earlier
\* one has settled, also when some of them fail.
THEOREM SerialInOrder == QueueSpec => []OneAtATimeInOrder
  <1>1. QueueInv => OneAtATimeInOrder
    <2>1. accepted \in Seq(Request) => DOMAIN accepted = 1..Len(accepted)
      OBVIOUS
    <2> QED BY <2>1 DEF QueueInv, QueueTypeOK, InOrder, OneAtATimeInOrder
  <1> QED BY <1>1, QueueInvariant, PTL

\* RunningIsTrue (operation-journal.mjs): a progress page that says "running" tells of the
\* operation that runs.
THEOREM ProgressIsTrue == QueueSpec => []RunningIsTrue
  <1>1. QueueInv => RunningIsTrue
    BY DEF QueueInv
  <1> QED BY <1>1, QueueInvariant, PTL
=============================================================================
