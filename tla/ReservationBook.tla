-------------------------- MODULE ReservationBook --------------------------
(***************************************************************************)
(* What the creation journal promises the console: at most one creation is *)
(* open at a time, it goes through its phases one by one, and it is closed *)
(* once, with a verdict that its phase permits; what a closed creation     *)
(* came to is never changed.  The journal's files (CreationJournal) and    *)
(* the journal as the console's operations use it (ConsoleOps) both        *)
(* implement it.                                                           *)
(***************************************************************************)

CONSTANT Job       \* creations, each reserved at most once

VARIABLES phase,   \* how far each creation came, or "free"
          verdict  \* how each was closed, or "open"

bookVars == <<phase, verdict>>

Following == [prepared |-> "submitting", submitting |-> "created", created |-> "complete"]
Verdicts  == {"completed", "discarded", "retired"}

Open(j) == phase[j] # "free" /\ verdict[j] = "open"

\* What is created but not recorded is not discarded, what was never submitted is not
\* retired, and only the last phase completes.
Permits(at, v) == \/ v = "completed" /\ at = "complete"
                  \/ v = "discarded" /\ at # "created"
                  \/ v = "retired" /\ at # "prepared"

BookInit == /\ phase = [j \in Job |-> "free"]
            /\ verdict = [j \in Job |-> "open"]

Reserve(j) ==
  /\ phase[j] = "free" /\ \A k \in Job : ~Open(k)
  /\ phase' = [phase EXCEPT ![j] = "prepared"]
  /\ UNCHANGED verdict

Advance(j) ==
  /\ Open(j) /\ phase[j] \in DOMAIN Following
  /\ phase' = [phase EXCEPT ![j] = Following[@]]
  /\ UNCHANGED verdict

Close(j, v) ==
  /\ Open(j) /\ Permits(phase[j], v)
  /\ verdict' = [verdict EXCEPT ![j] = v]
  /\ UNCHANGED phase

BookNext == \E j \in Job : Reserve(j) \/ Advance(j) \/ \E v \in Verdicts : Close(j, v)

BookSpec == BookInit /\ [][BookNext]_bookVars
=============================================================================
