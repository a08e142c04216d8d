----------------------------- MODULE GutShardRun -----------------------------
(***************************************************************************)
(* gut_shard_run (src/tools/gf_maintenance.py): every shard of the GUT     *)
(* manifest runs once, in waves of at most `jobs' worker threads, each in  *)
(* a workspace of its own; then, when qualification was asked for, one     *)
(* control runs the whole inventory and is compared with the shards.       *)
(*                                                                         *)
(* Two pieces of shared state steer it: worker_cancellation_event          *)
(* (run.stopping) and cleanup_state["permitted"] (run.permitted), which    *)
(* every owner of a directory reads before it deletes anything.  The       *)
(* directories may be deleted only when no process can still write there,  *)
(* and the issues the report collects on the way must tell a story the     *)
(* validator of GutShardReport accepts.                                    *)
(*                                                                         *)
(* The environment may let the deadline pass, edit the source workspace,   *)
(* or interrupt the run (KeyboardInterrupt) at any stage.                  *)
(***************************************************************************)
EXTENDS GutShardReport, WorkerAnswer

VARIABLES
  run,     \* the locals of gut_shard_run and its two shared flags
  fleet,   \* the workers, 1..ShardCount and the control: thread and workspace
  wave,    \* the locals of execute_gut_shard_worker_wave
  report,  \* the report under construction
  world    \* the deadline, the source, the probe's processes, the directories

shardVars == <<run, fleet, wave, report, world>>

Workers == 0 .. ShardCount

NoReport == WorkerReport(Nobody, "none", FALSE, FALSE, FALSE)
NoWave == [launched |-> 0, pending |-> {}, done |-> {}, reports |-> {},
           issues |-> <<>>, told |-> FALSE]

NewReport(jobs, qualify) ==
  [jobs |-> jobs, qualify |-> qualify, bound |-> FALSE, rooted |-> FALSE,
   probed |-> FALSE, shards |-> <<>>, executed |-> 0, aggregate |-> "none",
   control |-> <<>>, equivalence |-> "none", eligible |-> FALSE,
   qualified |-> FALSE, status |-> IF qualify THEN "pending" ELSE "not_requested",
   ok |-> FALSE, issues |-> <<>>]

Stages == {"setup", "root", "probe", "probing", "schedule", "materialize", "submit",
           "poll", "drain", "unbatch", "removing", "source", "settle", "control",
           "judge", "proof", "proving", "unroot", "done", "raised"}
Directories == {"none", "owned", "removed", "retained"}

ShardRunInit ==
  /\ \E jobs \in {1, 2}, qualify \in BOOLEAN : report = NewReport(jobs, qualify)
  /\ run = [stage |-> "setup", phase |-> "candidates", next |-> 1, permitted |-> TRUE,
            stopping |-> FALSE, error |-> "none", interrupted |-> FALSE]
  /\ fleet = [i \in Workers |-> [at |-> "idle", runs |-> 0, tree |-> "none",
                                 alive |-> FALSE, crashed |-> FALSE, out |-> NoReport]]
  /\ wave = NoWave
  /\ world = [expired |-> FALSE, drifted |-> FALSE, probe |-> "idle",
              batch |-> "none", root |-> "none"]

ShardRunTypeOK ==
  /\ run.stage \in Stages /\ run.phase \in {"candidates", "control"}
  /\ run.next \in 1 .. ShardCount + 2 /\ run.permitted \in BOOLEAN
  /\ run.stopping \in BOOLEAN /\ run.interrupted \in BOOLEAN
  /\ run.error \in {"none"} \cup SetupKinds \cup FinalKinds
  /\ \A i \in Workers :
       /\ fleet[i].at \in {"idle", "running", "finished"} /\ fleet[i].runs \in 0 .. 1
       /\ fleet[i].tree \in {"none", "present", "removed"}
       /\ {fleet[i].alive, fleet[i].crashed} \subseteq BOOLEAN
       /\ fleet[i].out = NoReport \/ fleet[i].out.who = i
  /\ wave.pending \cup wave.done \subseteq Workers /\ wave.launched \in 0 .. 2
  /\ \A rep \in wave.reports : rep.who \in Workers
  /\ report.executed \in 0 .. ShardCount /\ report.status \in Statuses \cup {"pending"}
  /\ \A i \in DOMAIN report.issues : report.issues[i].who \in Workers \cup {Nobody}
  /\ {world.batch, world.root} \subseteq Directories
  /\ world.probe \in {"idle", "live", "quiet"}

-----------------------------------------------------------------------------
(***************************************************************************)
(* The environment.                                                        *)
(***************************************************************************)
Over == run.stage \in {"done", "raised"}

DeadlinePasses ==
  /\ ~Over /\ ~world.expired
  /\ world' = [world EXCEPT !.expired = TRUE]
  /\ UNCHANGED <<run, fleet, wave, report>>

\* An edit of the source workspace, up to the last proof that it did not change.
SourceIsEdited ==
  /\ ~Over /\ run.stage # "unroot" /\ ~world.drifted
  /\ world' = [world EXCEPT !.drifted = TRUE]
  /\ UNCHANGED <<run, fleet, wave, report>>

\* A worker thread returns its report; the cancellation event is read once more
\* when the report is finished.
WorkerReturns(i) ==
  /\ fleet[i].at = "running"
  /\ \E out \in WorkerReports(i, run.stopping) :
       fleet' = [fleet EXCEPT ![i].at = "finished", ![i].out = out,
                              ![i].alive = ~out.quiescent]
  /\ UNCHANGED <<run, wave, report, world>>

WorkerRaises(i) ==
  /\ fleet[i].at = "running"
  /\ \E alive \in BOOLEAN :
       fleet' = [fleet EXCEPT ![i].at = "finished", ![i].crashed = TRUE,
                              ![i].alive = alive]
  /\ UNCHANGED <<run, wave, report, world>>

-----------------------------------------------------------------------------
Goto(stage) == [run EXCEPT !.stage = stage]
\* Cancel and retain: what every failing step does to the two shared flags.
Forbid(stage) == [run EXCEPT !.stage = stage, !.permitted = FALSE, !.stopping = TRUE]
Permit(stage) == [run EXCEPT !.stage = stage, !.permitted = TRUE]
Revoke(stage) == [run EXCEPT !.stage = stage, !.permitted = FALSE]

Publish(r, issues) == [r EXCEPT !.issues = @ \o issues]
Kind(kind) == <<Evidence(kind, Nobody)>>
InControl == run.phase = "control"
AfterStop == IF InControl THEN "judge" ELSE "settle"

-----------------------------------------------------------------------------
(***************************************************************************)
(* Before the first worker.                                                *)
(***************************************************************************)
\* The except handler of gut_shard_run.
Failed(r, kind) ==
  [Publish(r, Kind(kind)) EXCEPT !.ok = FALSE, !.eligible = FALSE, !.qualified = FALSE,
     !.status = IF r.qualify THEN "infrastructure_failed" ELSE @]

SetupFails ==
  /\ run.stage = "setup"
  /\ \E kind \in SetupKinds : report' = Failed(report, kind)
  /\ run' = Goto("done")
  /\ UNCHANGED <<fleet, wave, world>>

SetupBinds ==
  /\ run.stage = "setup" /\ ~world.expired /\ ~world.drifted
  /\ report' = [report EXCEPT !.bound = TRUE]
  /\ run' = Goto("root")
  /\ UNCHANGED <<fleet, wave, world>>

RootFails ==
  /\ run.stage = "root"
  /\ report' = Failed(report, "run_setup_failed")
  /\ run' = Goto("done")
  /\ UNCHANGED <<fleet, wave, world>>

RootCreated ==
  /\ run.stage = "root"
  /\ world' = [world EXCEPT !.root = "owned"]
  /\ report' = [report EXCEPT !.rooted = TRUE]
  /\ run' = Goto("probe")
  /\ UNCHANGED <<fleet, wave>>

ProbeStarts ==
  /\ run.stage = "probe" /\ ~world.expired
  /\ world' = [world EXCEPT !.probe = "live"]
  /\ run' = Revoke("probing")
  /\ UNCHANGED <<fleet, wave, report>>

ProbeIsQuiet ==
  /\ run.stage = "probing"
  /\ world' = [world EXCEPT !.probe = "quiet"]
  /\ \/ run' = Permit("schedule") /\ report' = [report EXCEPT !.probed = TRUE]
     \/ run' = [Permit("unroot") EXCEPT !.error = "run_setup_failed"] /\ UNCHANGED report
  /\ UNCHANGED <<fleet, wave>>

\* The probe projects could not be set up, or the probe's processes proved nothing.
ProbeFails ==
  /\ run.stage \in {"probe", "probing"}
  /\ run' = [Goto("unroot") EXCEPT !.error = "run_setup_failed"]
  /\ UNCHANGED <<fleet, wave, report, world>>

-----------------------------------------------------------------------------
(***************************************************************************)
(* execute_gut_shard_candidate_reports and execute_gut_shard_control_report *)
(* up to the wave.                                                         *)
(***************************************************************************)
Members ==
  IF InControl THEN <<ControlShard>>
  ELSE [k \in 1 .. Min({report.jobs, ShardCount + 1 - run.next}) |-> run.next + k - 1]
Crew == Range(Members)

ScheduleEnds ==
  /\ run.stage = "schedule" /\ run.next > ShardCount
  /\ run' = Goto("settle")
  /\ UNCHANGED <<fleet, wave, report, world>>

\* managed_gut_shard_workspace_batch raises before it owns the batch.
BatchNotAcquired ==
  /\ \/ run.stage = "schedule" /\ run.next <= ShardCount
     \/ run.stage = "control"
  /\ report' = Publish(report, Kind(
       IF InControl THEN "control_workspace_acquisition_failed"
       ELSE IF world.expired THEN "candidate_scheduling_deadline_exhausted"
       ELSE "candidate_workspace_acquisition_failed"))
  /\ run' = Forbid(AfterStop)
  /\ UNCHANGED <<fleet, wave, world>>

BatchAcquired ==
  /\ \/ run.stage = "schedule" /\ run.next <= ShardCount /\ ~world.expired
     \/ run.stage = "control"
  /\ world' = [world EXCEPT !.batch = "owned"]
  /\ run' = Revoke("materialize")
  /\ UNCHANGED <<fleet, wave, report>>

\* An exception leaves the body of the batch: its manager retains the directory
\* and records a cleanup error, which is published after the cause.
BodyFails(kind) ==
  /\ world' = [world EXCEPT !.batch = "retained"]
  /\ run' = Forbid(AfterStop)
  /\ report' = [Publish(report, Kind(kind) \o
       Kind(IF InControl THEN "control_cleanup_failed" ELSE "workspace_cleanup_failed"))
         EXCEPT !.control = <<>>]

WorkspacesMaterialized ==
  /\ run.stage = "materialize" /\ ~world.expired
  /\ fleet' = [i \in Workers |-> IF i \in Crew THEN [fleet[i] EXCEPT !.tree = "present"]
                                 ELSE fleet[i]]
  /\ run' = Permit("submit")
  /\ UNCHANGED <<wave, report, world>>

\* Materialization fails, or a worker could not be given its whole time floor.
MaterializationFails ==
  /\ run.stage = "materialize"
  /\ \/ BodyFails(IF InControl THEN "control_deadline_exhausted"
                  ELSE "candidate_batch_deadline_exhausted")
     \/ BodyFails(IF InControl THEN "control_report_rejected" ELSE "candidate_batch_failed")
  /\ UNCHANGED <<fleet, wave>>

-----------------------------------------------------------------------------
(***************************************************************************)
(* execute_gut_shard_worker_wave.                                          *)
(***************************************************************************)
Tell(issues) == [wave EXCEPT !.issues = @ \o issues]
Scoped(kind, i) == <<Evidence(kind, i)>>

WorkerSubmitted ==
  /\ run.stage = "submit"
  /\ LET i == Members[wave.launched + 1]
     IN  /\ fleet' = [fleet EXCEPT ![i].at = "running", ![i].runs = @ + 1]
         /\ wave' = [wave EXCEPT !.launched = @ + 1, !.pending = @ \cup {i}]
         /\ run' = IF wave.launched + 1 = Len(Members) THEN Goto("poll") ELSE run
  /\ UNCHANGED <<report, world>>

SubmitFails ==
  /\ run.stage = "submit"
  /\ wave' = Tell(Scoped("worker_schedule_failed", Members[wave.launched + 1]))
  /\ run' = Forbid("poll")
  /\ UNCHANGED <<fleet, report, world>>

\* One turn of the wait: every future finished by now, and the deadline.
WavePolled ==
  LET finished == {i \in wave.pending : fleet[i].at = "finished"}
      late == world.expired /\ ~wave.told
  IN  /\ run.stage = "poll" /\ wave.done = {}
      /\ wave.pending # {} /\ (finished # {} \/ late)
      /\ wave' = [Tell(IF late THEN Kind("worker_wave_deadline_exhausted") ELSE <<>>)
                    EXCEPT !.done = finished, !.pending = @ \ finished,
                           !.told = @ \/ late]
      /\ run' = IF world.expired THEN Forbid("poll") ELSE run
      /\ UNCHANGED <<fleet, report, world>>

WaitFails ==
  /\ run.stage = "poll" /\ wave.done = {} /\ wave.pending # {}
  /\ wave' = Tell(Kind("worker_wave_failed"))
  /\ run' = Forbid("drain")
  /\ UNCHANGED <<fleet, report, world>>

\* The result of future i is dropped with an issue of its own.
Dropped(i, issues) ==
  /\ wave' = [Tell(issues) EXCEPT !.done = @ \ {i}]
  /\ run' = Forbid("poll")
  /\ UNCHANGED <<report, world>>

TakeException(i) ==
  /\ run.stage = "poll" /\ i \in wave.done /\ fleet[i].crashed
  /\ Dropped(i, Scoped("worker_exception", i))
  /\ UNCHANGED fleet

OwedDebtFirst(rep) ==
  (IF ~rep.cleaned THEN Scoped("worker_cleanup_debt", rep.who) ELSE <<>>)
    \o (IF rep.deadlineFailed THEN Scoped("worker_deadline_exhausted", rep.who)
        ELSE IF ~rep.continuationSafe THEN Scoped("worker_infrastructure_failed", rep.who)
        ELSE <<>>)

\* The issues of a report: what failed, and then what was not given back.
Owed(rep) ==
  (IF rep.deadlineFailed THEN Scoped("worker_deadline_exhausted", rep.who)
   ELSE IF ~rep.continuationSafe THEN Scoped("worker_infrastructure_failed", rep.who)
   ELSE <<>>)
    \o (IF rep.quiescent /\ rep.cleaned /\ rep.permitted THEN <<>>
        ELSE Scoped(IF ~rep.cleaned THEN "worker_cleanup_debt"
                    ELSE IF ~rep.permitted THEN "workspace_ownership_unproven"
                    ELSE "process_boundary_unproven", rep.who))

Taken(i) == run.stage = "poll" /\ i \in wave.done /\ ~fleet[i].crashed
InDebt(rep) == ~(rep.quiescent /\ rep.cleaned /\ rep.permitted)

ReportRetainedPermitting(i) ==
  LET rep == fleet[i].out
  IN  /\ Taken(i) /\ (InDebt(rep) \/ ~world.expired)
      /\ wave' = [Tell(Owed(rep)) EXCEPT !.done = @ \ {i}, !.reports = @ \cup {rep}]
      /\ run' = [run EXCEPT !.stopping = @ \/ ~rep.continuationSafe]
      /\ UNCHANGED <<fleet, report, world>>

\* validate_direct_gut_shard_worker_report accepts the report.  A report in
\* debt is retained as it is: its workspace is not read any more.
ReportRetained(i) ==
  LET rep == fleet[i].out
  IN  /\ Taken(i) /\ (InDebt(rep) \/ ~world.expired)
      /\ wave' = [Tell(Owed(rep)) EXCEPT !.done = @ \ {i}, !.reports = @ \cup {rep}]
      /\ run' = [run EXCEPT !.stopping = @ \/ ~rep.continuationSafe,
                            !.permitted = @ /\ ~InDebt(rep)]
      /\ UNCHANGED <<fleet, report, world>>

ReportRejected(i) ==
  /\ Taken(i)
  /\ Dropped(i, Scoped("worker_report_rejected", i))
  /\ UNCHANGED fleet

ReportTooLate(i) ==
  /\ Taken(i) /\ ~InDebt(fleet[i].out) /\ world.expired
  /\ wave' = [Tell(IF wave.told THEN <<>> ELSE Kind("worker_wave_deadline_exhausted"))
                EXCEPT !.done = @ \ {i}, !.told = TRUE]
  /\ run' = Forbid("poll")
  /\ UNCHANGED <<fleet, report, world>>

\* The git process that fingerprints the workspace did not prove its end.
BoundaryUnproven(i) ==
  /\ Taken(i) /\ ~InDebt(fleet[i].out) /\ ~world.expired
  /\ Dropped(i, Scoped("fingerprint_boundary_unproven", i))
  /\ fleet' = [fleet EXCEPT ![i].alive = TRUE]

WaveEnds ==
  /\ run.stage = "poll" /\ wave.done = {} /\ wave.pending = {}
  /\ run' = Goto("drain")
  /\ UNCHANGED <<fleet, wave, report, world>>

\* executor.shutdown(wait=True), then what the wave returns.
Drained == run.stage = "drain" /\ \A i \in Crew : fleet[i].at # "running"
InOrder(reports) ==
  CHOOSE s \in [1 .. Cardinality(reports) -> reports] :
    \A k, l \in DOMAIN s : k < l => s[k].who < s[l].who

WaveReturns ==
  /\ Drained /\ ~run.interrupted
  /\ fleet' = [i \in Workers |-> [fleet[i] EXCEPT !.out = NoReport]]
  /\ wave' = NoWave
  /\ IF InControl
       THEN /\ report' = [Publish(report,
                 [k \in DOMAIN wave.issues |->
                    ControlEvidence(wave.issues[k].kind, wave.issues[k].who)])
                   EXCEPT !.control = InOrder(wave.reports)]
            /\ run' = IF run.stopping THEN Goto("unbatch") ELSE Revoke("source")
       ELSE /\ report' = [Publish(report, wave.issues) EXCEPT
                 !.shards = @ \o InOrder(wave.reports), !.executed = @ + wave.launched]
            /\ run' = Goto("unbatch")
  /\ UNCHANGED world

-----------------------------------------------------------------------------
(***************************************************************************)
(* managed_gut_shard_workspace_batch gives the wave's directory back.      *)
(***************************************************************************)
CleanupError ==
  /\ world' = [world EXCEPT !.batch = "retained"]
  /\ run' = Forbid(AfterStop)
  /\ report' = [Publish(report, Kind(
       IF InControl THEN "control_cleanup_failed" ELSE "workspace_cleanup_failed"))
         EXCEPT !.control = <<>>]

BatchRetained ==
  /\ run.stage = "unbatch" /\ ~run.permitted
  /\ CleanupError
  /\ UNCHANGED <<fleet, wave>>

Deleted(crew) ==
  [i \in Workers |-> IF i \in crew /\ fleet[i].tree = "present"
                    THEN [fleet[i] EXCEPT !.tree = "removed"] ELSE fleet[i]]

\* Every wider owner loses its permission before the first child is deleted.
RemovalStarts ==
  /\ run.stage = "unbatch" /\ run.permitted
  /\ run' = Revoke("removing")
  /\ fleet' = Deleted(Crew)
  /\ UNCHANGED <<wave, report, world>>

BatchRemoved ==
  /\ run.stage = "removing"
  /\ world' = [world EXCEPT !.batch = "removed"]
  /\ run' = IF InControl \/ run.stopping THEN Permit(AfterStop) ELSE Revoke("source")
  /\ UNCHANGED <<fleet, wave, report>>

RemovalFails ==
  /\ run.stage = "removing"
  /\ CleanupError
  /\ UNCHANGED <<fleet, wave>>

\* assert_source_matches_snapshot: after every candidate wave, and inside the
\* body of the control's batch.
SourceMatches ==
  /\ run.stage = "source" /\ ~world.expired /\ ~world.drifted
  /\ run' = IF InControl THEN Permit("unbatch")
            ELSE [Permit("schedule") EXCEPT !.next = @ + report.jobs]
  /\ UNCHANGED <<fleet, wave, report, world>>

SourceFails ==
  /\ run.stage = "source"
  /\ \E late \in {FALSE, world.expired} :
       IF InControl
         THEN BodyFails(IF late THEN "control_deadline_exhausted"
                        ELSE "control_report_rejected")
         ELSE /\ report' = Publish(report, Kind(
                   IF late THEN "candidate_source_deadline_exhausted"
                   ELSE "candidate_source_verification_failed"))
              /\ run' = Forbid("settle")
              /\ UNCHANGED world
  /\ UNCHANGED <<fleet, wave>>

-----------------------------------------------------------------------------
(***************************************************************************)
(* The aggregate, the control and the comparison.                          *)
(***************************************************************************)
Settled ==
  LET failed == SelectSeq(report.shards, LAMBDA rep : ~rep.ok)
      eligible == /\ Len(report.shards) = ShardCount
                  /\ \A k \in 1 .. ShardCount : report.shards[k].ok
      nested == IF eligible THEN <<>>
                ELSE [k \in DOMAIN failed |-> Evidence("worker_evidence", failed[k].who)]
                       \o Kind("candidate_ineligible")
  IN  /\ run.stage = "settle"
      /\ report' = [Publish(report, nested) EXCEPT
           !.aggregate = IF eligible THEN "eligible" ELSE "ineligible",
           !.eligible = eligible /\ ~HasKind(report, RevocationKinds)
                        /\ ~(report.qualify /\ run.stopping),
           !.status = IF report.qualify /\ run.stopping THEN "infrastructure_failed"
                      ELSE @]
      /\ run' = IF report.qualify /\ ~run.stopping
                  THEN [Goto("control") EXCEPT !.phase = "control"] ELSE Goto("proof")
      /\ UNCHANGED <<fleet, wave, world>>

\* The issues and the status the control leaves, before any comparison.
WithControl ==
  LET missing == report.control = <<>> /\ ~HasKind(report, ControlKinds)
      failed == report.control # <<>> /\ ~report.control[1].ok
  IN  [Publish(report,
         (IF missing THEN Kind("control_report_missing") ELSE <<>>)
           \o (IF failed THEN Scoped("worker_evidence", ControlShard) ELSE <<>>))
        EXCEPT !.status = IF report.control = <<>> \/ failed THEN "control_ineligible"
                          ELSE "candidate_ineligible"]

ControlJudged ==
  /\ run.stage = "judge"
  /\ ~(report.eligible /\ report.control # <<>> /\ report.control[1].ok)
  /\ report' = WithControl
  /\ run' = Goto("proof")
  /\ UNCHANGED <<fleet, wave, world>>

Compared ==
  /\ run.stage = "judge"
  /\ report.eligible /\ report.control # <<>> /\ report.control[1].ok
  /\ \/ report' = [report EXCEPT !.equivalence = "equal", !.qualified = TRUE,
                                 !.status = "qualified"]
     \/ report' = [Publish(report, Kind("qualification_not_equivalent")) EXCEPT
                     !.equivalence = "different", !.status = "not_equivalent"]
     \/ report' = Failed(report, "comparison_failed")
  /\ run' = Goto("proof")
  /\ UNCHANGED <<fleet, wave, world>>

-----------------------------------------------------------------------------
(***************************************************************************)
(* The last proof, the validation root, and the end.                       *)
(***************************************************************************)
ProofSkipped ==
  /\ run.stage = "proof" /\ ~run.permitted
  /\ run' = Goto("unroot")
  /\ UNCHANGED <<fleet, wave, report, world>>

ProofStarts ==
  /\ run.stage = "proof" /\ run.permitted
  /\ run' = Revoke("proving")
  /\ UNCHANGED <<fleet, wave, report, world>>

ProofOfDeadlineOnly ==
  /\ run.stage = "proving" /\ ~world.expired
  /\ run' = Permit("unroot")
  /\ UNCHANGED <<fleet, wave, report, world>>

ProofPasses ==
  /\ run.stage = "proving" /\ ~world.expired /\ ~world.drifted
  /\ run' = Permit("unroot")
  /\ UNCHANGED <<fleet, wave, report, world>>

ProofFails ==
  /\ run.stage = "proving"
  /\ \E kind \in FinalKinds \cup {"runtime_source_mismatch"} :
       run' = [Goto("unroot") EXCEPT !.error = kind]
  /\ UNCHANGED <<fleet, wave, report, world>>

\* What gut_shard_run makes of the report once the root is gone or retained.
Concluded(removed) ==
  LET ended == IF run.error = "none" THEN report ELSE Failed(report, run.error)
      owed == IF removed THEN ended
              ELSE [Publish(ended, Kind("validation_cleanup_failed")) EXCEPT
                     !.eligible = FALSE, !.qualified = FALSE,
                     !.status = IF report.qualify THEN "cleanup_failed" ELSE @]
  IN  [owed EXCEPT !.ok = /\ owed.eligible /\ owed.issues = <<>>
                          /\ owed.qualify => owed.qualified]

RunConcludes ==
  /\ run.stage = "unroot"
  /\ \E removed \in {FALSE, run.permitted} :
       /\ world' = [world EXCEPT !.root = IF removed THEN "removed" ELSE "retained"]
       /\ report' = IF run.interrupted THEN report ELSE Concluded(removed)
  /\ fleet' = IF run.permitted THEN Deleted(Workers) ELSE fleet
  /\ run' = Goto(IF run.interrupted THEN "raised" ELSE "done")
  /\ UNCHANGED wave

-----------------------------------------------------------------------------
(***************************************************************************)
(* KeyboardInterrupt.  A wave handles it before its executor waits for the *)
(* workers; the body of a batch leaves the batch retained; elsewhere the   *)
(* root's manager finds the permission as the interrupted stage left it.   *)
(***************************************************************************)
InWave == run.stage \in {"submit", "poll"}
InBatchBody == run.stage \in {"materialize", "drain"} \/ (run.stage = "source" /\ InControl)

Interrupted ==
  /\ run.stage \notin {"setup", "root", "unroot", "done", "raised"}
  /\ run' = [run EXCEPT !.interrupted = TRUE, !.stage = IF InWave THEN "drain" ELSE "unroot",
                        !.permitted = @ /\ ~InWave /\ ~InBatchBody]
  /\ UNCHANGED <<fleet, wave, report, world>>

WaveUnwinds ==
  /\ Drained /\ run.interrupted
  /\ run' = Goto("unroot")
  /\ UNCHANGED <<fleet, wave, report, world>>

-----------------------------------------------------------------------------
ShardRunNext ==
  \/ DeadlinePasses \/ SourceIsEdited \/ Interrupted
  \/ SetupFails \/ SetupBinds \/ RootFails \/ RootCreated
  \/ ProbeStarts \/ ProbeIsQuiet \/ ProbeFails
  \/ ScheduleEnds \/ BatchNotAcquired \/ BatchAcquired
  \/ WorkspacesMaterialized \/ MaterializationFails
  \/ WorkerSubmitted \/ SubmitFails \/ WavePolled \/ WaitFails \/ WaveEnds
  \/ \E i \in Workers : \/ WorkerReturns(i) \/ WorkerRaises(i)
                        \/ TakeException(i) \/ ReportRetained(i) \/ ReportRejected(i)
                        \/ ReportTooLate(i) \/ BoundaryUnproven(i)
  \/ WaveReturns \/ WaveUnwinds
  \/ BatchRetained \/ RemovalStarts \/ BatchRemoved \/ RemovalFails
  \/ SourceMatches \/ SourceFails \/ Settled \/ ControlJudged \/ Compared
  \/ ProofSkipped \/ ProofStarts \/ ProofPasses \/ ProofFails \/ RunConcludes

ShardRunSpec == ShardRunInit /\ [][ShardRunNext]_shardVars

-----------------------------------------------------------------------------
\* gut_shard_run ends in its validator: a report it rejects is lost, with the
\* evidence of hours of tests.  Every report the run can produce is accepted.
ReportAccepted == run.stage = "done" => Accepted(report)

\* A workspace is deleted, by its batch or with the validation root, only when
\* its worker thread is done and no process can still write in it; the root
\* only when the probe's processes are gone too.
RemovedOnlyWhenQuiet ==
  /\ \A i \in Workers : fleet[i].tree = "removed" =>
       fleet[i].at = "finished" /\ ~fleet[i].alive
  /\ world.root = "removed" => world.probe # "live"

\* ok says that every shard, and the control when it was asked for, ran exactly
\* once on a source that did not change until the last proof, that nothing they
\* started is left, and that no directory is.
OkIsEarned ==
  run.stage = "done" /\ report.ok =>
    /\ ~world.drifted /\ world.root = "removed" /\ world.probe = "quiet"
    /\ \A i \in Workers :
         (i # ControlShard \/ report.qualify) =>
            /\ fleet[i].runs = 1 /\ ~fleet[i].alive /\ ~fleet[i].crashed
            /\ fleet[i].tree = "removed"

\* All of it: what the run reports, deletes and claims.
ShardRunEarned == ReportAccepted /\ RemovedOnlyWhenQuiet /\ OkIsEarned
=============================================================================
