-------------------------- MODULE ConsoleDeploy --------------------------
(***************************************************************************)
(* Replacing the console of the server (deploy-console-release.mjs over    *)
(* console-deploy-transport.mjs): apply leaves it paused, a separate       *)
(* resume opens it, an unwind takes back a failed apply that changed no    *)
(* source.                                                                 *)
(*                                                                         *)
(* Every phase is one call over ssh: it is refused, or it takes effect and *)
(* its answer arrives or is lost.  The receipt a run leaves is all a later *)
(* run has. The helpers on the server (lock, installer, maintenance        *)
(* client) are external.                                                   *)
(***************************************************************************)
EXTENDS Naturals, SequencesExt

CONSTANTS Invocations,   \* deployments: one lock actor each
          MaxPauses,     \* bound: pause ids the console hands out
          MaxBoots       \* bound: processes of the console

ASSUME DeployConstants == {MaxPauses, MaxBoots} \subseteq Nat /\ {"none", "operator"} \cap Invocations = {}

VARIABLES server,     \* [boot, pause, by, busy, lock, stage, disk, runs]
          run,        \* the action of each invocation, its phase and the ids it saw
          receipt     \* what the last action of each invocation wrote

deployVars == <<server, run, receipt>>

ApplyPhases ==
  <<"local-validation", "source-audit", "maintenance-status", "lock-acquire", "maintenance-recheck", "pause-and-drain",
    "lock-before-stage", "stage", "upload", "verify-package", "backup", "dependencies", "install", "restart", "verify-installed">>
ResumePhases ==
  <<"local-validation", "lock-before-resume", "verify-installed", "exact-source-audit", "public-drift", "public-ledger", "resume">>
UnwindPhases == <<"local-validation", "lock-before-unwind", "maintenance-status", "maintenance-resume", "lock-abandon">>
PhasesOf(action) == CASE action = "apply" -> ApplyPhases [] action = "resume" -> ResumePhases [] OTHER -> UnwindPhases

\* Failures after which nothing but the lock and the pause is left.  Mutant: the install too.
UnwindablePhases_Install == ToSet(SubSeq(ApplyPhases, 5, 13))
UnwindablePhases == ToSet(SubSeq(ApplyPhases, 5, 12))

NoRun == [action |-> "none"]
NoReceipt == [outcome |-> "none"]
Nobody == "none"

DeployInit ==
  /\ server = [boot |-> 0, pause |-> 0, by |-> Nobody, busy |-> FALSE, lock |-> Nobody,
               stage |-> [r \in Invocations |-> "none"], disk |-> "old", runs |-> "old"]
  /\ run = [r \in Invocations |-> NoRun] /\ receipt = [r \in Invocations |-> NoReceipt]

Paused(s) == s.by # Nobody
Drained(s) == Paused(s) /\ ~s.busy
\* A pause is named by the process and by its own id; a restart names a new one.
SeesIts(s, x) == s.boot = x.boot /\ s.pause = x.pause
Seen(s, x) == [x EXCEPT !.boot = s.boot, !.pause = s.pause]
\* Every phase of the installer checks the package, the lock and the drained pause again.
Intact(s, r) == s.stage[r] = "whole"
Owned(s, r, x) == Intact(s, r) /\ s.lock = r /\ Drained(s) /\ SeesIts(s, x)
\* The replacement answers for itself: drained, and the code on disk is what it runs.
ReadyAgain(s) == Drained(s) /\ s.disk = "new" /\ s.runs = "new"

-----------------------------------------------------------------------------
\* What a phase needs of the server, and the states it may leave it in.
Accepts(s, r, x) ==
  CASE x.action = "apply" /\ x.phase = "maintenance-status" -> ~Paused(s)
    [] x.action = "unwind" /\ x.phase = "maintenance-status" -> Paused(s) => Drained(s)
    [] x.phase = "lock-acquire" -> s.lock = Nobody
    [] x.phase = "maintenance-recheck" -> ~Paused(s) /\ s.boot = x.boot
    [] x.phase = "pause-and-drain" -> s.boot = x.boot
    [] x.phase \in {"lock-before-stage", "lock-before-resume", "lock-before-unwind", "lock-abandon"} -> s.lock = r
    [] x.phase = "stage" -> s.stage[r] = "none"
    [] x.phase = "verify-package" -> Intact(s, r)
    [] x.phase = "exact-source-audit" -> s.disk = "new"
    [] x.phase \in {"backup", "dependencies", "install", "resume"} -> Owned(s, r, x)
    [] x.phase = "restart" -> Owned(s, r, x) /\ s.disk = "new"
    [] x.phase = "verify-installed" -> Owned(s, r, x) /\ ReadyAgain(s)
    [] x.phase = "maintenance-resume" -> Paused(s) => Drained(s) /\ SeesIts(s, x)
    [] OTHER -> TRUE

Boot(s) == [s EXCEPT !.boot = @ + 1, !.pause = IF Paused(s) THEN @ + 1 ELSE @, !.busy = FALSE, !.runs = s.disk]

Effect(s, r, x) ==
  CASE x.phase = "lock-acquire" -> {[s EXCEPT !.lock = r]}
    [] x.phase = "pause-and-drain" -> IF Paused(s) THEN {s} ELSE {[s EXCEPT !.pause = @ + 1, !.by = r]}
    [] x.phase = "stage" -> {[s EXCEPT !.stage[r] = "empty"]}
    [] x.phase = "upload" -> {[s EXCEPT !.stage[r] = c] : c \in {"part", "whole"}}
    [] x.phase = "install" -> {[s EXCEPT !.disk = c] : c \in {"mixed", "new"}}
    [] x.phase = "restart" -> {Boot(s)}
    [] x.phase = "resume" -> {[s EXCEPT !.by = Nobody, !.lock = Nobody]}
    [] x.phase = "maintenance-resume" -> {[s EXCEPT !.by = Nobody]}
    [] x.phase = "lock-abandon" -> {[s EXCEPT !.lock = Nobody]}
    [] OTHER -> {s}

\* The phase is confirmed when its answer says so: a drain may time out, a copy stop halfway.
Confirms(s, x) ==
  CASE x.phase = "pause-and-drain" -> Drained(s)
    [] x.phase = "install" -> s.disk = "new"
    [] x.phase = "restart" -> ReadyAgain(s)
    [] OTHER -> TRUE

-----------------------------------------------------------------------------
NextPhase(x) == LET p == PhasesOf(x.action) IN p[CHOOSE i \in 2..Len(p) : p[i - 1] = x.phase]
Outcome(action) == CASE action = "apply" -> "paused" [] action = "resume" -> "resumed" [] OTHER -> "unwound"
Written(x, outcome) == [outcome |-> outcome, action |-> x.action, phase |-> x.phase, boot |-> x.boot, pause |-> x.pause]

ResumesFrom(c) == c.outcome = "paused"
UnwindsFrom(c) == c.outcome = "fail" /\ c.action = "apply" /\ c.phase \in UnwindablePhases

\* An action binds the receipt it is given: the operator may present one as often as he likes.
Begins(r, action) ==
  /\ run[r] = NoRun
  /\ CASE action = "apply" -> receipt[r] = NoReceipt [] action = "resume" -> ResumesFrom(receipt[r])
       [] OTHER -> UnwindsFrom(receipt[r])
  /\ run' = [run EXCEPT ![r] = [action |-> action, phase |-> PhasesOf(action)[1],
                                boot |-> IF action = "apply" THEN 0 ELSE receipt[r].boot,
                                pause |-> IF action = "apply" THEN 0 ELSE receipt[r].pause]]
  /\ UNCHANGED <<server, receipt>>

\* A failed resume or unwind leaves the first receipt as it was: it may be given again.
Fails(r, x) ==
  /\ run' = [run EXCEPT ![r] = NoRun]
  /\ receipt' = IF x.action = "apply" THEN [receipt EXCEPT ![r] = Written(x, "fail")] ELSE receipt

Goes(r, x, s) ==
  IF x.phase = Last(PhasesOf(x.action))
    THEN /\ run' = [run EXCEPT ![r] = NoRun]
         /\ receipt' = [receipt EXCEPT ![r] = Written(x, Outcome(x.action))]
    ELSE /\ run' = [run EXCEPT ![r] = [(IF x.phase \in {"maintenance-status", "pause-and-drain", "restart"} THEN Seen(s, x) ELSE x)
                                        EXCEPT !.phase = NextPhase(x)]]
         /\ UNCHANGED receipt

Phase(r) ==
  LET x == run[r] IN
  /\ x # NoRun
  /\ \/ /\ Accepts(server, r, x) /\ server' \in Effect(server, r, x)
        /\ server'.pause <= MaxPauses /\ server'.boot <= MaxBoots
        /\ Fails(r, x) \/ (Confirms(server', x) /\ Goes(r, x, server'))
     \/ Fails(r, x) /\ UNCHANGED server              \* refused, or the call never arrived

-----------------------------------------------------------------------------
\* Others: a request is admitted and ends, an operator pauses by hand and, when no deployment holds
\* the lock, reopens; the process dies and is started again.  The pause marker is on disk.
Admits == /\ ~Paused(server) /\ ~server.busy /\ server' = [server EXCEPT !.busy = TRUE] /\ UNCHANGED <<run, receipt>>
Ends == /\ server.busy /\ server' = [server EXCEPT !.busy = FALSE] /\ UNCHANGED <<run, receipt>>

OperatorPauses ==
  /\ ~Paused(server) /\ server.pause < MaxPauses
  /\ server' = [server EXCEPT !.pause = @ + 1, !.by = "operator"] /\ UNCHANGED <<run, receipt>>

OperatorReopens ==
  /\ server.by = "operator" /\ ~server.busy /\ server.lock = Nobody
  /\ server' = [server EXCEPT !.by = Nobody] /\ UNCHANGED <<run, receipt>>

ConsoleReboots ==
  /\ server.boot < MaxBoots /\ (Paused(server) => server.pause < MaxPauses)
  /\ server' = Boot(server) /\ UNCHANGED <<run, receipt>>

DeployNext ==
  \/ Admits \/ Ends \/ OperatorPauses \/ OperatorReopens \/ ConsoleReboots
  \/ \E r \in Invocations : Phase(r) \/ \E action \in {"apply", "resume", "unwind"} : Begins(r, action)

DeploySpec == DeployInit /\ [][DeployNext]_deployVars

-----------------------------------------------------------------------------
\* A console that admits requests runs one whole release, the one on disk, although two deployments
\* overlap, answers are lost, the copy stops halfway and the process restarts at any point.
OpenRunsWhole == ~Paused(server) => server.runs = server.disk /\ server.disk # "mixed"

\* "our lock is the proof nobody else is deploying, so a pause on this console is ours": an unwind
\* releases no pause its invocation did not set.
UnwindsItsOwnPause ==
  [][\A r \in Invocations : (run[r] # NoRun /\ run[r].action = "unwind" /\ Paused(server) /\ ~Paused(server')) =>
                              server.by = r]_deployVars

\* "after which --resume applies once verify-installed passes": an apply that failed at or after
\* install, and whose source is whole, has an action that accepts its receipt.
FailedInstallResumes ==
  \A r \in Invocations : receipt[r].outcome = "fail" /\ receipt[r].phase \in {"install", "restart", "verify-installed"} =>
                           ResumesFrom(receipt[r])
=============================================================================
