------------------------------- MODULE CheckRun -------------------------------
(***************************************************************************)
(* run_checks() of src/tools/gf_maintenance.py, by which every validation  *)
(* of the repository is made, and the handling of logs around it.  The     *)
(* checks run in the order of their graph, one by one or, for the full     *)
(* suite, in the shards of ParallelFull; the fingerprint of the workspace  *)
(* is taken before and after.  Meanwhile anybody may edit the workspace,   *)
(* the deadline of the suite pass, any step fail or be interrupted.        *)
(*                                                                         *)
(* An error is "terminal" when it owes cleanup or is a KeyboardInterrupt   *)
(* or another of _log_hygiene_terminal_error, otherwise "plain".           *)
(* Bound: MaxWorkspaceEdits.                                               *)
(***************************************************************************)
EXTENDS Integers, Sequences

CONSTANTS CheckCount, PartCount, MaxWorkspaceEdits

ASSUME CheckRunAssumption ==
  CheckCount \in Nat \ {0} /\ PartCount \in Nat \ {0} /\ MaxWorkspaceEdits \in Nat

VARIABLES
  checking,   \* the locals of run_checks and of its loop
  results,    \* the result of each check
  workspace,  \* its parts: HEAD, the diff, the untracked files; what the checks saw
  prints,     \* the fingerprints, part by part, before and after the checks
  session     \* the logs, the error of their handling, and how the call ends

checkRunVars == <<checking, results, workspace, prints, session>>

Checks == 1 .. CheckCount
Parts == 1 .. PartCount
Errors == {"plain", "terminal"}
InChecksTry == {"dispatch", "next", "running", "shards", "ending"}

\* Dependencies are listed first (CheckGraph.expand).
Graphs == {needs \in [Checks -> SUBSET Checks] : \A c \in Checks : \A d \in needs[c] : d < c}

CheckRunInit ==
  /\ \E failFast \in BOOLEAN, needs \in Graphs :
       checking = [step |-> "setup", at |-> 1, failFast |-> failFast, needs |-> needs,
                   parallel |-> FALSE, late |-> FALSE, report |-> "none", error |-> "none"]
  /\ results = [c \in Checks |-> "none"]
  /\ workspace = [now |-> [p \in Parts |-> 0], edits |-> 0, seen |-> {}]
  /\ prints = [begun |-> <<>>, ended |-> <<>>]
  /\ session = [logs |-> "none", error |-> "none", final |-> "none"]

CheckRunTypeOK ==
  /\ checking \in [step : InChecksTry \cup {"setup", "begin", "summary", "cleanup", "advise",
                                      "finalize", "ended"},
                   at : 1 .. CheckCount + 1, failFast : BOOLEAN, needs : Graphs,
                   parallel : BOOLEAN, late : BOOLEAN, report : {"none", "ok", "failed"},
                   error : Errors \cup {"none"}]
  /\ results \in [Checks -> {"none", "pass", "failed", "blocked"}]
  /\ workspace.now \in [Parts -> 0 .. MaxWorkspaceEdits]
  /\ workspace.edits \in 0 .. MaxWorkspaceEdits
  /\ workspace.seen \subseteq [Parts -> 0 .. MaxWorkspaceEdits]
  /\ \A when \in {"begun", "ended"} :
       prints[when] \in Seq(Nat) /\ Len(prints[when]) <= PartCount
  /\ session \in [logs : {"none", "written", "removed"}, error : Errors \cup {"none"},
                  final : {"none", "ok", "failed"} \cup Errors]

-----------------------------------------------------------------------------
\* An edit, a commit, a file that appears: a part is what it never was before.
WorkspaceEdited(p) ==
  /\ checking.step # "ended" /\ workspace.edits < MaxWorkspaceEdits
  /\ LET now == [workspace.now EXCEPT ![p] = workspace.edits + 1] IN
       workspace' = [now |-> now, edits |-> workspace.edits + 1,
                     seen |-> workspace.seen \cup
                              IF checking.step = "running" THEN {now} ELSE {}]
  /\ UNCHANGED <<checking, results, prints, session>>

ChecksDeadlinePasses ==
  /\ checking.step # "ended" /\ ~checking.late
  /\ checking' = [checking EXCEPT !.late = TRUE]
  /\ UNCHANGED <<results, workspace, prints, session>>

GoesTo(step) == [checking EXCEPT !.step = step]
Reports(report, step) == [checking EXCEPT !.report = report, !.step = step]
Raises(error) == [checking EXCEPT !.error = error, !.step = "finalize"]

-----------------------------------------------------------------------------
Prepared ==
  /\ checking.step = "setup"
  /\ checking' = GoesTo("begin")
  /\ UNCHANGED <<results, workspace, prints, session>>

\* The plan, the executors, the environment or the first fingerprint.
PreparationFails ==
  /\ checking.step \in {"setup", "begin"}
  /\ \/ checking' = Reports("failed", "finalize")
     \/ \E error \in Errors : checking' = Raises(error)
  /\ UNCHANGED <<results, workspace, prints, session>>

\* workspace_fingerprint reads part after part, and no more past the deadline.
Reading(taken) == Append(taken, workspace.now[Len(taken) + 1])

BeginReads ==
  /\ checking.step = "begin" /\ ~checking.late
  /\ prints' = [prints EXCEPT !.begun = Reading(@)]
  /\ checking' = IF Len(prints'.begun) = PartCount THEN GoesTo("dispatch") ELSE checking
  /\ UNCHANGED <<results, workspace, session>>

SerialBegins ==
  /\ checking.step = "dispatch"
  /\ checking' = GoesTo("next")
  /\ UNCHANGED <<results, workspace, prints, session>>

\* capture_workspace: what it takes existed at one moment (SnapshotIsOneMoment).
\* The shards check copies of it.
ParallelBegins ==
  /\ checking.step = "dispatch" /\ workspace.now = prints.begun
  /\ checking' = [GoesTo("shards") EXCEPT !.parallel = TRUE]
  /\ workspace' = [workspace EXCEPT !.seen = {workspace.now}]
  /\ UNCHANGED <<results, prints, session>>

\* As FullOkIsEarned has it.
ParallelEnds ==
  /\ checking.step = "shards"
  /\ \/ checking' = Reports("ok", "ending") /\ results' = [c \in Checks |-> "pass"]
     \/ checking' = Reports("failed", "ending") /\ UNCHANGED results
  /\ session' = [session EXCEPT !.logs = "written"]
  /\ UNCHANGED <<workspace, prints>>

-----------------------------------------------------------------------------
\* The loop of run_checks_with_active_snapshot.
More == checking.step = "next" /\ checking.at <= CheckCount
Passed(c) == results[c] = "pass"
Blocked == \E d \in checking.needs[checking.at] : ~Passed(d)
WithResult(result) == [results EXCEPT ![checking.at] = result]

NextAfter(result) ==
  [checking EXCEPT !.at = @ + 1,
                   !.step = IF checking.failFast /\ result = "failed" THEN "summary" ELSE "next"]

\* The loop's own deadline, rounded up to whole seconds, may be a little later.
CheckTooLate ==
  /\ More /\ checking.late
  /\ results' = WithResult("failed")
  /\ checking' = GoesTo("summary")
  /\ UNCHANGED <<workspace, prints, session>>

CheckBlocked ==
  /\ More /\ Blocked
  /\ results' = WithResult("blocked")
  /\ checking' = NextAfter("blocked")
  /\ UNCHANGED <<workspace, prints, session>>

\* No command could be made of it or no executable be found for it; without its
\* environment the whole report is that failure.
CheckUnmade ==
  /\ More /\ ~Blocked
  /\ \/ results' = WithResult("failed") /\ checking' = NextAfter("failed")
     \/ checking' = Reports("failed", "ending") /\ UNCHANGED results
  /\ UNCHANGED <<workspace, prints, session>>

CheckStarts ==
  /\ More /\ ~Blocked
  /\ checking' = GoesTo("running")
  /\ workspace' = [workspace EXCEPT !.seen = @ \cup {workspace.now}]
  /\ UNCHANGED <<results, prints, session>>

\* Its exit code, its time, its output and its logs are what they should be, or not.
CheckEnds ==
  /\ checking.step = "running"
  /\ \E result \in {"pass", "failed"} :
       results' = WithResult(result) /\ checking' = NextAfter(result)
  /\ session' = [session EXCEPT !.logs = "written"]
  /\ UNCHANGED <<workspace, prints>>

\* ok is asked of the results there are.
Summary == IF \A c \in Checks : results[c] \in {"none", "pass"} THEN "ok" ELSE "failed"

LoopEnds ==
  /\ checking.step = "summary" \/ (checking.step = "next" /\ ~More)
  /\ checking' = Reports(Summary, "ending")
  /\ UNCHANGED <<results, workspace, prints, session>>

-----------------------------------------------------------------------------
\* Fault: only HEAD is compared
DiffersInHead(ended) == ended[1] # prints.begun[1]

Differs(ended) == ended # prints.begun

EndingReads ==
  /\ checking.step = "ending" /\ ~checking.late
  /\ prints' = [prints EXCEPT !.ended = Reading(@)]
  /\ checking' = IF Len(prints'.ended) < PartCount THEN checking
                 ELSE Reports(IF Differs(prints'.ended) THEN "failed" ELSE checking.report,
                              "cleanup")
  /\ UNCHANGED <<results, workspace, session>>

\* What the try of run_checks catches becomes a failure of the report, or the report.
ChecksFail ==
  /\ checking.step \in InChecksTry
  /\ \/ checking' = Reports("failed", "cleanup")
     \/ \E error \in Errors : checking' = Raises(error)
  /\ UNCHANGED <<results, workspace, prints, session>>

\* Errors of the removal of the parallel directory are the report's failure.
DirectoryCleaned ==
  /\ checking.step = "cleanup"
  /\ \/ checking' = GoesTo("advise")
     \/ checking.parallel /\ checking' = Reports("failed", "advise")
     \/ \E error \in Errors : checking' = Raises(error)
  /\ UNCHANGED <<results, workspace, prints, session>>

\* The advisory reports hide every error that is not terminal.
Advised ==
  /\ checking.step = "advise"
  /\ checking' \in {GoesTo("finalize"), Raises("terminal")}
  /\ UNCHANGED <<results, workspace, prints, session>>

-----------------------------------------------------------------------------
\* finalize_maintenance_log_session: the logs of a success that need not be kept go.
Succeeded == checking.error = "none" /\ checking.report = "ok"

LogsAfter == IF Succeeded THEN {session.logs, "removed"} ELSE {session.logs}

\* _finish_log_hygiene_without_masking, with an error of the work and one of the logs
Unmasked(first, second) ==
  IF second = "none" \/ first = "terminal" \/ (first # "none" /\ second = "plain")
  THEN first ELSE second

LogsFinalized ==
  /\ checking.step = "finalize"
  /\ checking' = GoesTo("ended")
  /\ \E logs \in LogsAfter, error \in Errors \cup {"none"}, complaints \in BOOLEAN :
       session' = [logs |-> logs, error |-> error,
                   final |-> IF {checking.error, error} # {"none"}
                               THEN Unmasked(checking.error, error)
                             ELSE IF checking.report = "ok" /\ ~complaints THEN "ok"
                             ELSE "failed"]
  /\ UNCHANGED <<results, workspace, prints>>

CheckRunNext ==
  \/ \E p \in Parts : WorkspaceEdited(p)
  \/ ChecksDeadlinePasses \/ Prepared \/ PreparationFails \/ BeginReads \/ SerialBegins
  \/ ParallelBegins \/ ParallelEnds \/ CheckTooLate \/ CheckBlocked \/ CheckUnmade
  \/ CheckStarts \/ CheckEnds \/ LoopEnds \/ EndingReads \/ ChecksFail \/ DirectoryCleaned
  \/ Advised \/ LogsFinalized

CheckRunSpec == CheckRunInit /\ [][CheckRunNext]_checkRunVars

-----------------------------------------------------------------------------
\* Every check passed, and all that any of them saw was the one workspace whose
\* fingerprint the report names.
AllPassedOnOneSource ==
  (\A c \in Checks : Passed(c)) /\ workspace.seen = {prints.begun}

\* A success is earned: all checks passed on one workspace; so is the removal of
\* logs.  No check that ran did so before all it needs had passed, and an error that
\* owes cleanup, or an interrupt, is never masked by another or by a report.
CheckOutcomeEarned ==
  /\ session.final = "ok" \/ session.logs = "removed" => AllPassedOnOneSource
  /\ \A c \in Checks :
       Passed(c) \/ (checking.step = "running" /\ checking.at = c) =>
         \A d \in checking.needs[c] : Passed(d)
  /\ checking.step = "ended" /\ "terminal" \in {checking.error, session.error} =>
       session.final = "terminal"
=============================================================================
