----------------------------- MODULE ShardWorker -----------------------------
(***************************************************************************)
(* run_worker (src/tools/gf_gut_shard_worker.py): one thread checks that   *)
(* the workspace it was given is the published one and holds its shard,    *)
(* makes a directory for the platform state of Godot, runs the import and  *)
(* GUT there, reads what GUT published, and answers with one report.       *)
(* GutShardRun has all of it as one step; here is what the step may do.    *)
(*                                                                         *)
(* Meanwhile the run may be cancelled, the worker's deadline pass, and     *)
(* somebody replace the workspace or a directory in it (for good).  Every  *)
(* check is one look.  Abstracted: digests, requests, commands, durations, *)
(* and the messages of issues, which are told apart by kind.               *)
(***************************************************************************)
EXTENDS Integers, WorkerAnswer

VARIABLES
  job,     \* the locals of run_worker
  paper,   \* its report
  site     \* the workspace, the private directory, the processes, the pair

workerVars == <<job, paper, site>>

\* What a phase answers; stopped is timed_out or cancelled.
Phase(ran, ok, stopped) == [ran |-> ran, ok |-> ok, stopped |-> stopped]
NotRun == Phase(FALSE, FALSE, FALSE)
FailedAttempt == Phase(TRUE, FALSE, FALSE)
PhaseResults == {Phase(TRUE, TRUE, FALSE)} \cup {Phase(TRUE, FALSE, s) : s \in BOOLEAN}

\* "replaced" stands for WORKSPACE_OWNERSHIP_ERROR_CODES (also when a log or a
\* path is not what it has to be), "unexpected" for an exception that is not a
\* GutShardWorkerError, "other" for its remaining codes.
Closed == {"import_failed", "gut_failed", "junit_rejected"}
IssueKinds == Closed \cup {"cancelled", "deadline", "replaced", "unexpected", "other", "cleanup"}

JobSteps == {"begin", "bind", "assign", "environment", "logs", "import", "importing", "imported",
             "gut", "testing", "tested", "junit", "judge", "cleanup", "finish", "ended"}

WorkerInit ==
  /\ job = [step |-> "begin", bound |-> FALSE, rooted |-> FALSE, logged |-> FALSE,
            private |-> "none", lifecycle |-> FALSE, evidence |-> -1]
  /\ paper = [ok |-> FALSE, import |-> NotRun, gut |-> NotRun, junit |-> FALSE,
              lifecycle |-> FALSE, quiescent |-> TRUE, cleaned |-> TRUE,
              permitted |-> FALSE, safe |-> FALSE, issues |-> {}]
  /\ \E private \in {"absent", "foreign"} :
       site = [workspace |-> "own", managed |-> "own", private |-> private,
               process |-> "none", pair |-> 0, cancelled |-> FALSE, late |-> FALSE]

WorkerTypeOK ==
  /\ job \in [step : JobSteps, bound : BOOLEAN, rooted : BOOLEAN, logged : BOOLEAN,
              private : {"none", "path", "owned"}, lifecycle : BOOLEAN, evidence : -1 .. 2]
  /\ {paper.import, paper.gut} \subseteq {NotRun} \cup PhaseResults
  /\ {paper.ok, paper.junit, paper.lifecycle, paper.quiescent, paper.cleaned,
      paper.permitted, paper.safe, site.cancelled, site.late} \subseteq BOOLEAN
  /\ paper.issues \subseteq IssueKinds
  /\ {site.workspace, site.managed} \subseteq {"own", "replaced"}
  /\ site.private \in {"absent", "own", "foreign", "removed"}
  /\ site.process \in {"none", "live", "quiet"} /\ site.pair \in 0 .. 2

-----------------------------------------------------------------------------
(***************************************************************************)
(* The surroundings.                                                       *)
(***************************************************************************)
Working == job.step # "ended"

\* cancellation_event is set, or the worker's own deadline passes.
WorkerIsStopped ==
  /\ Working
  /\ \/ ~site.cancelled /\ site' = [site EXCEPT !.cancelled = TRUE]
     \/ ~site.late /\ site' = [site EXCEPT !.late = TRUE]
  /\ UNCHANGED <<job, paper>>

\* A directory made by the worker is replaced only after it was made.
SomebodyReplaces ==
  /\ Working
  /\ \/ site.workspace = "own" /\ site' = [site EXCEPT !.workspace = "replaced"]
     \/ site.managed = "own" /\ job.rooted /\ site' = [site EXCEPT !.managed = "replaced"]
     \/ site.private = "own" /\ job.private = "owned"
        /\ site' = [site EXCEPT !.private = "foreign"]
  /\ UNCHANGED <<job, paper>>

\* GUT, or a descendant it left, writes JUnit and provenance, perhaps again.
PairIsWritten ==
  /\ site.process = "live" /\ paper.gut.ran /\ site.pair < 2
  /\ site' = [site EXCEPT !.pair = @ + 1]
  /\ UNCHANGED <<job, paper>>

-----------------------------------------------------------------------------
WorkspaceOwn == site.workspace = "own"
\* _assert_managed_directory_chain: a chain begins with the workspace.
ChainOwn == WorkspaceOwn /\ site.managed = "own"

To(step) == [job EXCEPT !.step = step]

\* The except clauses: after them comes the finally clause.
Raise(kind) ==
  /\ job' = [To("cleanup") EXCEPT !.bound = @ /\ kind \notin {"replaced", "unexpected"}]
  /\ paper' = [paper EXCEPT !.issues = @ \cup {kind}]

\* Any step may fail in a way of its own.
Unforeseen == \E kind \in {"other", "unexpected"} : Raise(kind)

StopRequested ==
  \/ site.cancelled /\ Raise("cancelled")
  \/ site.late /\ Raise("deadline")

\* _require_remaining_budget: less is left than the phases need.
NoBudget == Raise("deadline")

WorkerBegins ==
  /\ job.step = "begin"
  /\ \/ ~site.cancelled /\ job' = To("bind") /\ UNCHANGED paper
     \/ site.cancelled /\ Raise("cancelled")
     \/ Raise("replaced")
  /\ UNCHANGED site

WorkspaceIsBound ==
  /\ job.step = "bind"
  /\ \/ WorkspaceOwn /\ job' = [To("assign") EXCEPT !.bound = TRUE] /\ UNCHANGED paper
     \/ Raise("replaced") \/ Unforeseen
  /\ UNCHANGED site

ShardIsBound ==
  /\ job.step = "assign"
  /\ \/ /\ ~site.cancelled /\ ~site.late /\ WorkspaceOwn
        /\ job' = [To("environment") EXCEPT !.rooted = TRUE] /\ UNCHANGED paper
     \/ StopRequested \/ Raise("replaced") \/ Unforeseen
  /\ UNCHANGED site

\* _private_environment; a failure removes what it made, unless that fails too.
PrivateIsMade ==
  /\ job.step = "environment" /\ site.private = "absent"
  /\ job' = [To("logs") EXCEPT !.private = "owned"]
  /\ paper' = [paper EXCEPT !.cleaned = FALSE]
  /\ site' = [site EXCEPT !.private = "own"]

PrivateFails ==
  /\ job.step = "environment"
  /\ \E kind \in {"other", "unexpected", "replaced"} :
       /\ job' = [To("cleanup") EXCEPT !.private = "path",
                                       !.bound = @ /\ kind = "other"]
       /\ paper' = [paper EXCEPT !.cleaned = FALSE, !.issues = @ \cup {kind}]
       /\ \/ UNCHANGED site
          \/ /\ site.private = "absent" /\ kind = "other"
             /\ site' = [site EXCEPT !.private = "own"]

\* The directory of logs, and the last checks before Godot is started.
LogsAreMade ==
  /\ job.step = "logs"
  /\ \/ /\ ChainOwn /\ ~site.cancelled /\ ~site.late
        /\ job' = [To("import") EXCEPT !.logged = TRUE]
        /\ paper' = [paper EXCEPT !.import = FailedAttempt, !.quiescent = FALSE]
     \/ site.cancelled /\ Raise("cancelled")
     \/ Raise("replaced") \/ NoBudget \/ Unforeseen
  /\ UNCHANGED site

-----------------------------------------------------------------------------
(***************************************************************************)
(* _run_authoritative_phase.                                               *)
(***************************************************************************)
InPhase(step) == IF step = "importing" THEN "import" ELSE "gut"
After(step) == IF step = "importing" THEN "imported" ELSE "tested"

PhaseStarts ==
  /\ job.step \in {"import", "gut"}
  /\ \/ /\ ChainOwn
        /\ job' = To(IF job.step = "import" THEN "importing" ELSE "testing")
        /\ site' = [site EXCEPT !.process = "live"]
        /\ UNCHANGED paper
     \/ /\ Raise("replaced") \/ Unforeseen
        /\ UNCHANGED site

\* The supervisor proves that nothing is left; the phase is evaluated.  A log or
\* an output that proves nothing is an error of the phase.
PhaseIsQuiet ==
  /\ job.step \in {"importing", "testing"}
  /\ site' = [site EXCEPT !.process = "quiet"]
  /\ \/ /\ ChainOwn
        /\ \E result \in PhaseResults, lifecycle \in BOOLEAN :
             /\ job' = [To(After(job.step)) EXCEPT !.lifecycle = lifecycle]
             /\ paper' = [paper EXCEPT ![InPhase(job.step)] = result, !.quiescent = TRUE]
     \/ Raise("replaced") \/ Raise("other")

PhaseIsNotQuiet ==
  /\ job.step \in {"importing", "testing"}
  /\ job' = To(After(job.step))
  /\ \E stopped \in BOOLEAN :
       paper' = [paper EXCEPT ![InPhase(job.step)] = Phase(TRUE, FALSE, stopped)]
  /\ UNCHANGED site

\* The supervisor itself raises, with or without a process behind it.
PhaseRaises ==
  /\ job.step \in {"importing", "testing"}
  /\ Raise("unexpected")
  /\ \/ UNCHANGED site
     \/ site' = [site EXCEPT !.process = "quiet"]

-----------------------------------------------------------------------------
\* What the paths after import and GUT must not have lost or passed.
Undisturbed == ChainOwn /\ ~site.cancelled /\ ~site.late

PhaseIsDisturbed ==
  /\ job.step \in {"imported", "tested", "judge"}
  /\ \/ ~ChainOwn /\ Raise("replaced")
     \/ ChainOwn /\ StopRequested
  /\ UNCHANGED site

ImportHasFailed ==
  /\ job.step = "imported" /\ Undisturbed /\ ~(paper.import.ok /\ paper.quiescent)
  /\ Raise("import_failed")
  /\ UNCHANGED site

\* The proof of the import says nothing of the processes of GUT.
FaultImportHasPassed ==
  /\ job.step = "imported" /\ Undisturbed /\ paper.import.ok /\ paper.quiescent
  /\ \/ job' = To("gut") /\ paper' = [paper EXCEPT !.gut = FailedAttempt]
     \/ NoBudget \/ Unforeseen
  /\ UNCHANGED site

ImportHasPassed ==
  /\ job.step = "imported" /\ Undisturbed /\ paper.import.ok /\ paper.quiescent
  /\ \/ /\ job' = To("gut")
        /\ paper' = [paper EXCEPT !.gut = FailedAttempt, !.quiescent = FALSE]
     \/ NoBudget \/ Unforeseen
  /\ UNCHANGED site

GutIsTaken ==
  /\ job.step = "tested" /\ Undisturbed
  /\ \/ /\ paper.quiescent
        /\ job' = To("junit")
        /\ paper' = [paper EXCEPT !.lifecycle = job.lifecycle]
     \/ ~paper.quiescent /\ Raise("gut_failed")
  /\ UNCHANGED site

GutFailed == ~(paper.gut.ok /\ paper.quiescent /\ paper.lifecycle)

\* _parse_published_junit_observation: after a failure of GUT its report is
\* evidence when it is complete, and no further failure when it is not.
JunitIsRead ==
  /\ job.step = "junit"
  /\ \/ site.cancelled /\ Raise("cancelled")
     \/ ~ChainOwn /\ Raise("replaced")
     \/ /\ ~site.cancelled /\ ChainOwn
        /\ \/ /\ site.pair > 0
              /\ job' = [To("judge") EXCEPT !.evidence = site.pair] /\ UNCHANGED paper
           \/ GutFailed /\ job' = To("judge") /\ UNCHANGED paper
           \/ ~GutFailed /\ Raise("junit_rejected")
           \/ Raise("unexpected")
  /\ UNCHANGED site

GutIsJudged ==
  /\ job.step = "judge" /\ Undisturbed
  /\ job' = To("cleanup")
  /\ paper' = [paper EXCEPT !.junit = job.evidence >= 0, !.ok = ~GutFailed,
                            !.issues = IF GutFailed THEN {"gut_failed"} ELSE {}]
  /\ UNCHANGED site

-----------------------------------------------------------------------------
(***************************************************************************)
(* The finally clause.                                                     *)
(***************************************************************************)
Present == site.private \in {"own", "foreign"}
Cleaned == [paper EXCEPT !.cleaned = TRUE]
CleanupFailed == [paper EXCEPT !.ok = FALSE, !.issues = @ \cup {"cleanup"}]

FaultPrivateIsKept ==
  /\ job.step = "cleanup" /\ job.private # "none"
  /\ job.private = "owned" \/ Present
  /\ job' = To("finish")
  /\ paper' = [paper EXCEPT !.ok = FALSE]
  /\ UNCHANGED site

\* Kept under processes that may live, or because its removal was refused (it is
\* not known, or not any more, to be the one that was made) or did not succeed.
PrivateIsKept ==
  /\ job.step = "cleanup" /\ job.private # "none"
  /\ job.private = "owned" \/ Present
  /\ job' = To("finish")
  /\ paper' = CleanupFailed
  /\ UNCHANGED site

PrivateIsRemoved ==
  /\ job.step = "cleanup" /\ job.private = "owned"
  /\ paper.quiescent /\ site.private = "own"
  /\ job' = To("finish")
  /\ paper' = Cleaned
  /\ site' = [site EXCEPT !.private = "removed"]

NothingPrivate ==
  /\ job.step = "cleanup"
  /\ \/ job.private = "none" /\ UNCHANGED paper
     \/ job.private = "path" /\ ~Present /\ paper' = Cleaned
  /\ job' = To("finish")
  /\ UNCHANGED site

\* _derive_continuation_safe
ContinuationIsSafe(p) ==
  \/ p.ok
  \/ /\ p.quiescent /\ p.cleaned /\ p.permitted
     /\ ~p.import.stopped /\ ~p.gut.stopped
     /\ \/ p.issues = {"import_failed"} /\ p.import.ran /\ ~p.gut.ran /\ ~p.import.ok
        \/ p.issues = {"gut_failed"} /\ p.gut.ran /\ p.import.ok /\ ~p.gut.ok
        \/ /\ p.issues = {"junit_rejected"} /\ p.gut.ran /\ p.import.ok /\ p.gut.ok
           /\ p.lifecycle /\ ~p.junit

WorkerAnswers ==
  /\ job.step = "finish"
  /\ LET stopped == IF site.cancelled THEN {"cancelled"}
                    ELSE IF site.late THEN {"deadline"} ELSE {}
         lost == IF job.bound /\ ~(IF job.rooted THEN ChainOwn ELSE WorkspaceOwn)
                 THEN {"replaced"} ELSE {}
         closed == [paper EXCEPT !.ok = @ /\ stopped \cup lost = {},
                                 !.issues = @ \cup stopped \cup lost,
                                 !.permitted = job.bound /\ lost = {} /\ paper.quiescent]
     IN  paper' = [closed EXCEPT !.safe = ContinuationIsSafe(closed)]
  /\ job' = To("ended")
  /\ UNCHANGED site

-----------------------------------------------------------------------------
WorkerThreadNext ==
  \/ WorkerIsStopped \/ SomebodyReplaces \/ PairIsWritten
  \/ WorkerBegins \/ WorkspaceIsBound \/ ShardIsBound \/ PrivateIsMade \/ PrivateFails
  \/ LogsAreMade \/ PhaseStarts \/ PhaseIsQuiet \/ PhaseIsNotQuiet \/ PhaseRaises
  \/ PhaseIsDisturbed \/ ImportHasFailed \/ ImportHasPassed \/ GutIsTaken
  \/ JunitIsRead \/ GutIsJudged
  \/ PrivateIsKept \/ PrivateIsRemoved \/ NothingPrivate \/ WorkerAnswers

WorkerThreadSpec == WorkerInit /\ [][WorkerThreadNext]_workerVars

-----------------------------------------------------------------------------
\* validate_report_shape
ShapeAccepted(p) ==
  /\ p.gut.ran => p.import.ran
  /\ \A phase \in {p.import, p.gut} : phase.ok => phase.ran /\ ~phase.stopped
  /\ p.junit => p.import.ran /\ p.gut.ran /\ p.import.ok /\ p.quiescent
  /\ p.cleaned # ("cleanup" \in p.issues)
  /\ p.permitted => p.quiescent /\ "replaced" \notin p.issues
  /\ p.ok = (p.issues = {})
  /\ p.ok => /\ p.import.ok /\ p.gut.ok /\ p.junit /\ p.lifecycle
             /\ p.quiescent /\ p.cleaned /\ p.permitted /\ p.safe
  /\ p.safe = ContinuationIsSafe(p)

\* What the run that waits for the report looks at.
Answer == [who |-> 1, ok |-> paper.ok, deadlineFailed |-> "deadline" \in paper.issues,
           quiescent |-> paper.quiescent, cleaned |-> paper.cleaned,
           permitted |-> paper.permitted, continuationSafe |-> paper.safe]

\* However the worker ends, its report is one its validator accepts, so that it
\* is not lost, and one of those that GutShardRun expects of it.
WorkerReportFits ==
  job.step = "ended" => ShapeAccepted(paper) /\ Answer \in WorkerReports(1, site.cancelled)

\* The platform directory is never removed under a process that may write there,
\* nor somebody else's in its place; what the report says of processes and
\* directories is so; the next shard may start only where nothing is left over;
\* and its evidence is what GUT published last.
WorkerClaimsHold ==
  /\ site.private = "removed" => site.process # "live"
  /\ job.step = "ended" =>
       /\ paper.quiescent => site.process # "live"
       /\ paper.cleaned => site.private # "own"
       /\ paper.permitted => IF job.rooted THEN ChainOwn ELSE WorkspaceOwn
       /\ paper.safe => /\ paper.permitted /\ paper.cleaned /\ paper.import.ran
                        /\ ~site.cancelled /\ ~site.late
       /\ paper.junit => job.evidence = site.pair /\ site.pair > 0

\* What the worker answers fits, and is so.
WorkerReportEarned == WorkerReportFits /\ WorkerClaimsHold
=============================================================================
