--------------------------- MODULE GutShardReport ---------------------------
(***************************************************************************)
(* validate_gut_shard_run_report (src/tools/gf_maintenance.py): what a     *)
(* report of a sharded GUT run must look like to leave gut_shard_run.  The *)
(* validator re-derives from the evidence which issues must, may and may   *)
(* not be in the report, and in which order; it raises, and the report is  *)
(* lost, when one rule fails.  Each operator below is one group of rules.  *)
(*                                                                         *)
(* A report is abstracted to the data the rules compare.  An issue is a    *)
(* kind (without the "gut_shard_" prefix), the worker its message names,   *)
(* and the cause a control_worker_failed message quotes; a worker report   *)
(* keeps its flags; digests, counts derived from the evidence, durations,  *)
(* paths and the texts of messages are left out.                           *)
(***************************************************************************)
EXTENDS Integers, Sequences, FiniteSets, SequencesExt, FiniteSetsExt

CONSTANT ShardCount   \* shards of the manifest, 1..ShardCount in its order

ASSUME ShardCountAssumption == ShardCount \in Nat \ {0}

ControlShard == 0      \* the qualification control
Nobody == -1           \* a message that names no worker

WaveKinds == {"worker_schedule_failed", "worker_wave_deadline_exhausted",
              "worker_exception", "worker_wave_failed",
              "worker_report_rejected", "fingerprint_boundary_unproven"}
ResultKinds == {"worker_deadline_exhausted", "worker_infrastructure_failed"}
OwnershipKinds == {"worker_cleanup_debt", "workspace_ownership_unproven",
                   "process_boundary_unproven"}
MissingKinds == {"worker_exception", "worker_report_rejected",
                 "fingerprint_boundary_unproven"}
BatchKinds == {"candidate_batch_deadline_exhausted", "candidate_batch_failed"}
PreexecutionKinds == BatchKinds \cup
  {"candidate_scheduling_deadline_exhausted", "candidate_workspace_acquisition_failed"}
SourceKinds == {"candidate_source_deadline_exhausted",
                "candidate_source_verification_failed"}
StopKinds == PreexecutionKinds \cup SourceKinds \cup WaveKinds \cup ResultKinds
  \cup OwnershipKinds \cup {"run_cancelled", "workspace_cleanup_failed"}

SetupKinds == {"run_setup_failed", "runtime_source_mismatch"}
FinalKinds == {"final_infrastructure_failed", "final_source_drift",
               "final_source_verification_failed"}
InfrastructureKinds ==
  StopKinds \cup SetupKinds \cup FinalKinds \cup {"comparison_failed"}
RevocationKinds == InfrastructureKinds \cup {"validation_cleanup_failed"}

ControlPrimaryKinds == {"control_workspace_acquisition_failed",
  "control_deadline_exhausted", "control_report_rejected", "control_report_missing"}
ControlKinds == ControlPrimaryKinds \cup
  {"control_cancelled", "control_worker_failed", "control_cleanup_failed"}
TopOnlyKinds == RevocationKinds \cup ControlKinds
SingletonKinds == TopOnlyKinds \ (MissingKinds \cup ResultKinds \cup OwnershipKinds
                                    \cup {"control_worker_failed"})

Evidence(kind, who) == [kind |-> kind, who |-> who, cause |-> "none"]
ControlEvidence(cause, who) ==
  [kind |-> "control_worker_failed", who |-> who, cause |-> cause]

(***************************************************************************)
(* What the rules read off a report.                                       *)
(***************************************************************************)
At(r, kinds) == {i \in DOMAIN r.issues : r.issues[i].kind \in kinds}
HasKind(r, kinds) == At(r, kinds) # {}
Who(r, places) == {r.issues[i].who : i \in places}
Before(left, right) == \A i \in left, j \in right : i < j

Reported(r) == {r.shards[i].who : i \in DOMAIN r.shards}
Total(r) == IF r.bound THEN ShardCount ELSE 0
Unreported(r) == r.executed - Len(r.shards)
NotScheduled(r) == Total(r) - r.executed
FaultWaveStart(r) ==
  IF r.executed > 0 THEN ((r.executed - 1) \div r.jobs) * r.jobs ELSE 0
FaultWaveSize(r) == r.executed - FaultWaveStart(r)

ContinuationSafe(r) == \A i \in DOMAIN r.shards : r.shards[i].continuationSafe
OwesCleanup(s) == ~(s.quiescent /\ s.cleaned /\ s.permitted)
OwnershipDebt(r) == \E i \in DOMAIN r.shards : OwesCleanup(r.shards[i])
ControlEligible(r) == r.control # <<>> /\ r.control[1].ok

EvidenceEligible(r) ==
  /\ r.aggregate = "eligible"
  /\ r.executed = ShardCount
  /\ Len(r.shards) = ShardCount
  /\ \A i \in DOMAIN r.shards : r.shards[i].ok

\* The issues the evidence below the top level obliges the report to repeat.
NestedIssues(r) ==
  LET failed == SelectSeq(r.shards, LAMBDA s : ~s.ok)
  IN  [i \in DOMAIN failed |-> Evidence("worker_evidence", failed[i].who)]
        \o (IF r.aggregate = "ineligible"
              THEN <<Evidence("candidate_ineligible", Nobody)>> ELSE <<>>)
        \o (IF r.control # <<>> /\ ~ControlEligible(r)
              THEN <<Evidence("worker_evidence", ControlShard)>> ELSE <<>>)
        \o (IF r.equivalence = "different"
              THEN <<Evidence("qualification_not_equivalent", Nobody)>> ELSE <<>>)

TopOnly(r) == At(r, TopOnlyKinds)
Nested(r) == DOMAIN r.issues \ TopOnly(r)
NestedOfControl(r) ==
  {i \in Nested(r) : r.issues[i] = Evidence("worker_evidence", ControlShard)}
NestedOfComparison(r) == At(r, {"qualification_not_equivalent"})
NestedOfCandidates(r) == Nested(r) \ (NestedOfControl(r) \cup NestedOfComparison(r))

ResultCauses(s) ==
  IF s.deadlineFailed THEN {"worker_deadline_exhausted"}
  ELSE IF ~s.continuationSafe THEN {"worker_infrastructure_failed"} ELSE {}

OwnershipCauses(s) ==
  IF ~OwesCleanup(s) THEN {}
  ELSE IF ~s.cleaned THEN {"worker_cleanup_debt"}
  ELSE IF ~s.permitted THEN {"workspace_ownership_unproven"}
  ELSE {"process_boundary_unproven"}

\* The orchestration issues each retained worker report obliges.
OwedByCandidates(r) ==
  UNION {{Evidence(kind, r.shards[i].who) :
            kind \in ResultCauses(r.shards[i]) \cup OwnershipCauses(r.shards[i])} :
         i \in DOMAIN r.shards}
OwedByControl(r) ==
  IF r.control = <<>> THEN {}
  ELSE {ControlEvidence(cause, ControlShard) : cause \in ResultCauses(r.control[1])}

Places(r, issue) == {i \in TopOnly(r) : r.issues[i] = issue}
Matched(r, owed) == {Min(Places(r, e)) : e \in {x \in owed : Places(r, x) # {}}}
DerivedEvents(r) == Matched(r, OwedByCandidates(r))
\* The top-level issues no report explains: nested evidence cannot vouch for them.
Remaining(r) == TopOnly(r) \ Matched(r, OwedByCandidates(r) \cup OwedByControl(r))
RemainingAt(r, kinds) == At(r, kinds) \cap Remaining(r)
MissingNames(r) == (1 .. r.executed) \ Reported(r)
ScopedMissing(r) == RemainingAt(r, MissingKinds)
-----------------------------------------------------------------------------
(***************************************************************************)
(* The rules.                                                              *)
(***************************************************************************)
Statuses == {"not_requested", "qualified", "not_equivalent", "candidate_ineligible",
             "control_ineligible", "infrastructure_failed", "cleanup_failed"}

\* Retained reports are a prefix of the schedule, or a prefix of whole waves
\* and part of the one wave that failed.
Partition(r) ==
  /\ Len(r.shards) <= r.executed /\ r.executed <= Total(r)
  /\ \A i, j \in DOMAIN r.shards : i < j => r.shards[i].who < r.shards[j].who
  /\ IF Unreported(r) = 0
       THEN Reported(r) = 1 .. r.executed
       ELSE /\ Unreported(r) <= r.jobs
            /\ 1 .. FaultWaveStart(r) \subseteq Reported(r)
            /\ Reported(r) \subseteq 1 .. r.executed

Context(r) ==
  /\ (r.shards # <<>> \/ r.executed > 0 \/ r.aggregate # "none" \/ r.control # <<>>)
       => r.probed
  /\ r.probed => r.bound /\ r.rooted
  /\ ~r.bound => /\ r.executed = 0 /\ r.shards = <<>> /\ r.control = <<>>
                 /\ r.aggregate = "none" /\ r.equivalence = "none"
  /\ r.probed => r.aggregate # "none"

AggregateIsDerived(r) ==
  r.aggregate # "none" =>
    (r.aggregate = "eligible" <=>
       Len(r.shards) = ShardCount /\ \A i \in DOMAIN r.shards : r.shards[i].ok)

ControlIsBound(r) == r.control # <<>> => r.qualify /\ ~OwesCleanup(r.control[1])

EquivalenceHasEvidence(r) ==
  r.equivalence # "none" => r.aggregate # "none" /\ r.control # <<>> /\ r.qualify

NestedEvidencePublished(r) ==
  SelectSeq(r.issues, LAMBDA e : e.kind \notin TopOnlyKinds) = NestedIssues(r)

SingletonsAreSingle(r) == \A kind \in SingletonKinds : Cardinality(At(r, {kind})) <= 1

StageOfFailure(r) ==
  /\ r.aggregate # "none" => ~HasKind(r, {"run_setup_failed"})
  /\ r.aggregate = "none" => ~HasKind(r, FinalKinds)

OwedIssuesPublished(r) ==
  \A e \in OwedByCandidates(r) \cup OwedByControl(r) : Places(r, e) # {}

\* --- a control that left no report
ControlWave(r) == RemainingAt(r, {"control_worker_failed"})
ControlPrimary(r) == RemainingAt(r, ControlPrimaryKinds)
ControlCauses(r) == {r.issues[i].cause : i \in ControlWave(r)}
CausedBy(r, causes) == {i \in ControlWave(r) : r.issues[i].cause \in causes}

ControlPrimaryIsAlone(r) ==
  ControlPrimary(r) # {} =>
    /\ r.control = <<>>
    /\ Cardinality(ControlPrimary(r)) = 1
    /\ ControlWave(r) = {}
    /\ RemainingAt(r, {"control_report_missing"}) # {} =>
         RemainingAt(r, {"control_cleanup_failed"}) = {}

ControlCausesAreExclusive(r) ==
  LET causes == ControlCauses(r) \ {"worker_wave_deadline_exhausted"}
      expired == "worker_wave_deadline_exhausted" \in ControlCauses(r)
      results == causes \cap (MissingKinds \cup ResultKinds)
      owned == causes \cap OwnershipKinds
  IN  IF "worker_schedule_failed" \in causes
        THEN causes = {"worker_schedule_failed"} /\ ~expired
      ELSE IF "worker_wave_failed" \in causes
        THEN causes = {"worker_wave_failed"}
      ELSE /\ Cardinality(results) <= 1 /\ Cardinality(owned) <= 1
           /\ owned # {} => results # {} /\ results \subseteq ResultKinds
           /\ expired => "fingerprint_boundary_unproven" \notin results
           /\ expired /\ results # {} /\ results \subseteq ResultKinds => owned # {}

ControlWaveIsOrdered(r) ==
  /\ ControlWave(r) # {} => r.control = <<>>
  /\ ControlCauses(r) \subseteq WaveKinds \cup ResultKinds \cup OwnershipKinds
  /\ Cardinality(ControlWave(r)) = Cardinality(ControlCauses(r))
  /\ ControlCausesAreExclusive(r)
  /\ LET deadline == CausedBy(r, {"worker_wave_deadline_exhausted"})
         failed == CausedBy(r, {"worker_wave_failed"})
     IN  /\ deadline # {} => Before(deadline, ControlWave(r) \ deadline)
         /\ failed # {} => Before(ControlWave(r) \ failed, failed)
  /\ CausedBy(r, OwnershipKinds) # {} =>
       /\ CausedBy(r, ResultKinds) # {}
       /\ Min(CausedBy(r, ResultKinds)) < Min(CausedBy(r, OwnershipKinds))
  /\ \A i \in ControlWave(r) :
       r.issues[i].cause \notin {"worker_wave_deadline_exhausted", "worker_wave_failed"}
         => r.issues[i].who = ControlShard
  /\ ControlWave(r) # {} => HasKind(r, {"validation_cleanup_failed"})

\* --- causes of a candidate stop
StopIsExplained(r) ==
  /\ RemainingAt(r, ResultKinds \cup OwnershipKinds) = {}
  /\ RemainingAt(r, StopKinds) # {} => HasKind(r, {"validation_cleanup_failed"})

MissingResultsExplained(r) ==
  LET scoped == Who(r, ScopedMissing(r))
  IN  r.bound =>
        /\ Cardinality(ScopedMissing(r)) = Cardinality(scoped)
        /\ scoped \subseteq MissingNames(r)
        /\ RemainingAt(r, {"worker_wave_deadline_exhausted", "worker_wave_failed"}) = {}
             => scoped = MissingNames(r)
        /\ RemainingAt(r, {"worker_wave_failed"}) # {} /\ MissingNames(r) # {}
             => MissingNames(r) \ scoped # {}
        /\ Cardinality(ScopedMissing(r)) <= Unreported(r)

\* --- cleanup debt
CleanupDebtPublished(r) ==
  /\ RemainingAt(r, {"control_workspace_acquisition_failed", "control_deadline_exhausted",
                     "control_report_rejected", "control_cleanup_failed"})
       \cup CausedBy(r, WaveKinds \cup OwnershipKinds) # {}
       => HasKind(r, {"validation_cleanup_failed"})
  /\ ControlWave(r) # {}
       \/ RemainingAt(r, {"control_deadline_exhausted", "control_report_rejected"}) # {}
       => HasKind(r, {"control_cleanup_failed"})
  /\ Before(At(r, ControlPrimaryKinds \cup {"control_worker_failed"}),
            At(r, {"control_cleanup_failed"}))
  /\ At(r, {"validation_cleanup_failed"}) \subseteq {Len(r.issues)}
  /\ RemainingAt(r, {"run_cancelled", "control_cancelled"}) = {}
  /\ OwnershipDebt(r) => HasKind(r, {"validation_cleanup_failed"})

\* --- the order of the causes of one wave
DerivedAt(r, kinds) == At(r, kinds) \cap DerivedEvents(r)
WaveCauses(r) == RemainingAt(r, WaveKinds) \cup DerivedEvents(r)
WaveDeadline(r) == RemainingAt(r, {"worker_wave_deadline_exhausted"})
ResultsOf(r, who) == {i \in DerivedAt(r, ResultKinds) : r.issues[i].who = who}
DebtsOf(r, who) == {i \in DerivedAt(r, OwnershipKinds) : r.issues[i].who = who}

WaveCausesOrdered(r) ==
  LET unscheduled == RemainingAt(r, {"worker_schedule_failed"})
      broken == RemainingAt(r, {"worker_wave_failed"})
  IN  /\ unscheduled # {} => Before(unscheduled, WaveCauses(r) \ unscheduled)
      /\ broken # {} => Before(WaveCauses(r) \ broken, broken)
      /\ \A i \in DerivedAt(r, OwnershipKinds) :
           ResultsOf(r, r.issues[i].who) = {i - 1}

\* A peer retained in a fault wave after the deadline: it owes its cleanup.
RetainedAfter(r, place) ==
  LET results == DerivedAt(r, ResultKinds)
      debts == DerivedAt(r, OwnershipKinds)
  IN  /\ Cardinality(results) = 1 /\ Cardinality(debts) = 1
      /\ place < Min(results) /\ Min(results) < Min(debts)

FingerprintBeforeDeadline(r) ==
  LET boundary == RemainingAt(r, {"fingerprint_boundary_unproven"})
      deadline == WaveDeadline(r)
  IN  deadline # {} =>
        /\ FaultWaveSize(r) = 1 =>
             Before(deadline, WaveCauses(r) \cap
               At(r, {"worker_exception", "worker_report_rejected"}
                       \cup ResultKinds \cup OwnershipKinds))
        /\ boundary # {} =>
             /\ r.jobs = 2 /\ FaultWaveSize(r) = 2 /\ Unreported(r) \in {1, 2}
             /\ Cardinality(boundary) = 1 /\ Before(boundary, deadline)
             /\ Unreported(r) = 1 => RetainedAfter(r, Min(deadline))
        /\ (/\ r.jobs = 2 /\ FaultWaveSize(r) = 2 /\ Unreported(r) = 1
            /\ \E i \in ScopedMissing(r) : i < Min(deadline))
             => RetainedAfter(r, Min(deadline))

AfterTheDeadline(r) ==
  WaveDeadline(r) # {} =>
    LET expiry == Min(WaveDeadline(r))
    IN  /\ \A i \in DerivedAt(r, ResultKinds) :
             LET debts == DebtsOf(r, r.issues[i].who)
             IN  /\ i > expiry => Cardinality(debts) = 1 /\ i < Min(debts)
                 /\ debts # {} => (i < expiry <=> Min(debts) < expiry)
        /\ \/ \E i \in ScopedMissing(r) \cup DerivedAt(r, ResultKinds) : i > expiry
           \/ MissingNames(r) \ Who(r, ScopedMissing(r)) # {}
        /\ Unreported(r) > 0 \/ OwnershipDebt(r)

CandidateBatchDebt(r) ==
  /\ RemainingAt(r, {"worker_wave_failed"}) # {} => Unreported(r) > 0
  /\ OwnershipDebt(r) \/ RemainingAt(r, BatchKinds \cup WaveKinds) # {}
       => HasKind(r, {"workspace_cleanup_failed"})
  /\ Before(At(r, StopKinds \ {"workspace_cleanup_failed"}),
            At(r, {"workspace_cleanup_failed"}))

\* --- stages in the order the run went through them
StagesAreOrdered(r) ==
  LET comparison == At(r, {"comparison_failed"})
      proof == At(r, FinalKinds \cup
                 IF r.aggregate # "none" THEN {"runtime_source_mismatch"} ELSE {})
  IN  /\ Before(At(r, StopKinds), NestedOfCandidates(r))
      /\ Before(NestedOfCandidates(r), At(r, ControlKinds))
      /\ Before(At(r, ControlKinds), NestedOfControl(r))
      /\ Before(NestedOfCandidates(r) \cup NestedOfControl(r), comparison)
      /\ Before(Nested(r) \cup comparison, proof)

\* --- causes that stop the schedule on their own
ScheduleFailureBound(r) ==
  LET failed == At(r, {"worker_schedule_failed"})
  IN  /\ r.executed \notin {0, Total(r)} /\ r.executed % r.jobs # 0 => failed # {}
      /\ failed # {} => /\ r.executed < Total(r)
                        /\ Who(r, failed) = {r.executed + 1}

PreexecutionIsExact(r) ==
  LET early == At(r, PreexecutionKinds)
      alone(kinds, allowed) ==
        HasKind(r, kinds) => At(r, StopKinds) \subseteq At(r, allowed)
  IN  /\ early # {} => /\ NotScheduled(r) > 0 /\ Cardinality(early) = 1
                       /\ Unreported(r) = 0
      /\ alone(BatchKinds, BatchKinds \cup {"workspace_cleanup_failed"})
      /\ alone({"candidate_workspace_acquisition_failed"},
               {"candidate_workspace_acquisition_failed"})
      /\ alone({"candidate_scheduling_deadline_exhausted"},
               {"candidate_scheduling_deadline_exhausted"})

SourceFailureIsExact(r) ==
  LET source == At(r, SourceKinds)
  IN  source # {} =>
        /\ Cardinality(source) = 1 /\ r.executed > 0 /\ Unreported(r) = 0
        /\ At(r, StopKinds) = source

ControlAcquisitionIsExact(r) ==
  /\ HasKind(r, {"control_workspace_acquisition_failed"}) =>
       At(r, ControlKinds) = At(r, {"control_workspace_acquisition_failed"})
  /\ r.control # <<>> => ~HasKind(r, {"control_cleanup_failed"})

UnsafeWaveEndsSchedule(r) ==
  LET unsafe == {r.shards[i].who : i \in {j \in DOMAIN r.shards :
                                           ~r.shards[j].continuationSafe}}
      end == Min({Total(r), ((Min(unsafe) - 1) \div r.jobs + 1) * r.jobs})
  IN  r.bound /\ unsafe # {} =>
        /\ r.executed <= end
        /\ ~HasKind(r, {"worker_schedule_failed"}) => r.executed = end

\* --- which stage the run reached
Incomplete(r) == Unreported(r) > 0 \/ NotScheduled(r) > 0
CandidatesCompleted(r) ==
  /\ r.aggregate # "none" /\ ~Incomplete(r)
  /\ ContinuationSafe(r) /\ ~HasKind(r, StopKinds)

StopsAreReported(r) ==
  /\ r.bound /\ Incomplete(r) /\ r.aggregate # "none" => HasKind(r, StopKinds)
  /\ HasKind(r, StopKinds) => r.probed /\ r.aggregate # "none"

ControlStage(r) ==
  /\ HasKind(r, ControlKinds) => r.qualify /\ CandidatesCompleted(r)
  /\ r.qualify /\ CandidatesCompleted(r) /\ r.control = <<>> => HasKind(r, ControlKinds)
  /\ HasKind(r, StopKinds) \/ Incomplete(r) \/ ~ContinuationSafe(r) =>
       r.control = <<>> /\ r.equivalence = "none" /\ ~HasKind(r, ControlKinds)
  /\ HasKind(r, ControlKinds) => ~ControlEligible(r)

ComparisonPossible(r) ==
  /\ r.qualify /\ r.aggregate = "eligible" /\ ControlEligible(r)
  /\ ~HasKind(r, StopKinds) /\ ~Incomplete(r) /\ ContinuationSafe(r)

ComparisonStage(r) ==
  /\ r.equivalence # "none" <=>
       /\ ComparisonPossible(r) /\ ~HasKind(r, ControlKinds)
       /\ ~HasKind(r, {"comparison_failed"})
  /\ HasKind(r, {"comparison_failed"}) =>
       ComparisonPossible(r) /\ r.equivalence = "none"

EligibilityIsDerived(r) ==
  r.eligible <=> EvidenceEligible(r) /\ ~HasKind(r, RevocationKinds)

\* --- the last proof, and the status
FinalProof(r) ==
  LET proof == At(r, FinalKinds \cup
                 IF r.aggregate # "none" THEN {"runtime_source_mismatch"} ELSE {})
      earlier == RemainingAt(r, StopKinds)
                   \cup At(r, {"control_workspace_acquisition_failed",
                               "control_deadline_exhausted", "control_report_rejected",
                               "control_cleanup_failed"})
                   \cup CausedBy(r, WaveKinds \cup OwnershipKinds)
  IN  /\ HasKind(r, {"validation_cleanup_failed"}) => r.bound /\ r.rooted
      /\ Cardinality(proof) <= 1
      /\ proof # {} => HasKind(r, {"validation_cleanup_failed"}) /\ earlier = {}

StatusPriority(r) ==
  LET cleanup == HasKind(r, {"validation_cleanup_failed"})
  IN  IF r.qualify
        THEN /\ cleanup <=> r.status = "cleanup_failed"
             /\ ~cleanup => (HasKind(r, InfrastructureKinds)
                               <=> r.status = "infrastructure_failed")
             /\ r.status # "not_requested"
        ELSE /\ r.status = "not_requested" /\ ~r.qualified
             /\ r.control = <<>> /\ r.equivalence = "none"
             /\ r.eligible <=> r.issues = <<>>

StatusEvidence(r) ==
  /\ r.status \in Statuses
  /\ r.status = "candidate_ineligible" =>
       /\ ~r.eligible /\ r.aggregate = "ineligible" /\ ControlEligible(r)
       /\ r.equivalence = "none" /\ ~Incomplete(r) /\ ContinuationSafe(r)
  /\ r.status = "control_ineligible" =>
       /\ r.probed /\ r.aggregate # "none" /\ r.eligible = (r.aggregate = "eligible")
       /\ ~ControlEligible(r) /\ r.equivalence = "none"
       /\ ~Incomplete(r) /\ ContinuationSafe(r)
       /\ r.control = <<>> => HasKind(r, ControlKinds)
  /\ r.status = "not_equivalent" =>
       r.eligible /\ ControlEligible(r) /\ r.equivalence = "different"
  /\ r.status \in {"infrastructure_failed", "cleanup_failed"} => ~r.eligible

ClaimsAreEarned(r) ==
  /\ r.qualified <=> r.status = "qualified"
  /\ r.qualified <=> /\ r.qualify /\ r.status = "qualified" /\ r.eligible
                     /\ ControlEligible(r) /\ r.equivalence = "equal"
                     /\ r.issues = <<>>
  /\ r.ok <=> r.eligible /\ r.issues = <<>> /\ (r.qualify => r.qualified)
  /\ ~r.ok => r.issues # <<>>

BeforeTheAggregate(r) ==
  r.aggregate = "none" =>
    LET cause == At(r, SetupKinds)
    IN  /\ Cardinality(cause) = 1
        /\ TopOnly(r) \subseteq cause \cup At(r, {"validation_cleanup_failed"})
        /\ HasKind(r, {"runtime_source_mismatch"}) =>
             ~r.bound /\ ~r.rooted /\ ~HasKind(r, {"validation_cleanup_failed"})

\* validate_gut_shard_run_report does not raise.
Accepted(r) ==
  /\ Partition(r) /\ Context(r) /\ AggregateIsDerived(r)
  /\ ControlIsBound(r) /\ EquivalenceHasEvidence(r)
  /\ NestedEvidencePublished(r) /\ SingletonsAreSingle(r) /\ StageOfFailure(r)
  /\ OwedIssuesPublished(r) /\ ControlPrimaryIsAlone(r) /\ ControlWaveIsOrdered(r)
  /\ StopIsExplained(r) /\ MissingResultsExplained(r) /\ CleanupDebtPublished(r)
  /\ WaveCausesOrdered(r) /\ FingerprintBeforeDeadline(r) /\ AfterTheDeadline(r)
  /\ CandidateBatchDebt(r) /\ StagesAreOrdered(r) /\ ScheduleFailureBound(r)
  /\ PreexecutionIsExact(r) /\ SourceFailureIsExact(r) /\ ControlAcquisitionIsExact(r)
  /\ UnsafeWaveEndsSchedule(r) /\ StopsAreReported(r) /\ ControlStage(r)
  /\ ComparisonStage(r) /\ EligibilityIsDerived(r) /\ FinalProof(r)
  /\ StatusPriority(r) /\ StatusEvidence(r) /\ ClaimsAreEarned(r)
  /\ BeforeTheAggregate(r)
=============================================================================
