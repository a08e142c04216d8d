----------------------------- MODULE ParallelFull -----------------------------
(***************************************************************************)
(* run_parallel_full_checks (src/tools/gf_maintenance.py) and the part of  *)
(* its caller that owns the validation root: the full suite in batches of  *)
(* shards, each batch in a directory held by a lease.  Every batch is      *)
(* prepared before the first process starts; two probes then prove that    *)
(* the Godot executable keeps its users apart; then the batches run one    *)
(* after the other and each gives its directory back before the next.      *)
(*                                                                         *)
(* cleanup_state["permitted"] (full.permitted) is what every owner of a    *)
(* directory asks before it deletes: it is taken away before anything that *)
(* may leave a process, a changed source or an unsaved log behind, and     *)
(* given back by the proof that it did not.                                *)
(***************************************************************************)
EXTENDS ParallelShards

CONSTANT FullJobs   \* --jobs: the size of a batch, which is never below one

ASSUME FullJobsAssumption == FullJobs \in Nat \ {0}

VARIABLES
  full,    \* the locals of run_parallel_full_checks
  lease,   \* the directory of each batch
  place    \* the validation root, and whether the source was edited

fullVars == <<poolVars, full, lease, place>>

Singletons == {"framework-gut"}

\* parallel_full_shard_batches: the batches of the first k shards of the plan, and
\* the shards that wait for their batch to be full.
Batches ==
  LET flush(acc) == IF acc.pending = <<>> THEN acc.batches
                    ELSE Append(acc.batches, acc.pending)
      extend(acc, shard) ==
        IF shard \in Singletons
          THEN [batches |-> Append(flush(acc), <<shard>>), pending |-> <<>>]
        ELSE IF Len(acc.pending) + 1 = FullJobs
          THEN [batches |-> Append(acc.batches, Append(acc.pending, shard)), pending |-> <<>>]
        ELSE [acc EXCEPT !.pending = Append(@, shard)]
      upTo[k \in 0 .. Len(Plan)] ==
        IF k = 0 THEN [batches |-> <<>>, pending |-> <<>>] ELSE extend(upTo[k - 1], Plan[k])
  IN  flush(upTo[Len(Plan)])

BatchIds == DOMAIN Batches
Batch(b) == Range(Batches[b])

FullStages == {"begin", "source", "prepare", "materialize", "freeze", "preflight",
               "probe", "probing", "dispatch", "running", "accept", "logs", "drift",
               "proving", "release", "removing", "final", "unroot", "done", "raised"}

ParallelFullInit ==
  /\ ParallelShardsInit
  /\ \E failFast \in BOOLEAN :
       full = [stage |-> "begin", batch |-> 1, permitted |-> TRUE, failFast |-> failFast,
               pending |-> <<>>, failed |-> {}, logsLost |-> FALSE, was |-> TRUE,
               then |-> "next", error |-> "none", aggregated |-> FALSE, ok |-> FALSE]
  /\ lease = [b \in BatchIds |-> "none"]
  /\ place = [root |-> "owned", edited |-> FALSE]

ParallelFullTypeOK ==
  /\ ParallelShardsTypeOK
  /\ full.stage \in FullStages /\ full.batch \in BatchIds
  /\ {full.permitted, full.failFast, full.logsLost, full.was,
      full.aggregated, full.ok} \subseteq BOOLEAN
  /\ full.failed \subseteq Shards /\ Range(full.pending) \subseteq Shards
  /\ full.then \in {"next", "finish", "environment"}
  /\ full.error \in {"none", "error", "interrupt"}
  /\ \A b \in BatchIds : lease[b] \in {"none", "held", "removed", "retained"}
  /\ place.root \in {"owned", "removed", "retained"} /\ place.edited \in BOOLEAN

-----------------------------------------------------------------------------
FullOver == full.stage \in {"done", "raised"}

SuiteDeadlinePasses ==
  /\ ~FullOver /\ ~late
  /\ late' = TRUE
  /\ UNCHANGED <<pool, lane, full, lease, place>>

WorkspaceIsEdited ==
  /\ full.stage \notin {"unroot", "done", "raised"} /\ ~place.edited
  /\ place' = [place EXCEPT !.edited = TRUE]
  /\ UNCHANGED <<poolVars, full, lease>>

-----------------------------------------------------------------------------
At(stage) == [full EXCEPT !.stage = stage]
Allow(stage) == [full EXCEPT !.stage = stage, !.permitted = TRUE]
Forbidding(stage) == [full EXCEPT !.stage = stage, !.permitted = FALSE]

Held == {b \in BatchIds : lease[b] = "held"}

\* Fault: the permission is given back on every way out
FailsWithPermission(error) ==
  /\ full' = [full EXCEPT !.stage = "unroot", !.error = error, !.permitted = TRUE]
  /\ lease' = [b \in BatchIds |-> IF b \in Held THEN "retained" ELSE lease[b]]

\* An exception reaches release_parallel_full_batch_leases: body_failed of a lease
\* that is held takes the permission, so all of them retain their directories.
FailsWith(error) ==
  /\ full' = [full EXCEPT !.stage = "unroot", !.error = error, !.permitted = @ /\ Held = {}]
  /\ lease' = [b \in BatchIds |-> IF b \in Held THEN "retained" ELSE lease[b]]

\* The stages an exception may leave at once; a pool is drained before it goes on.
Fragile == {"source", "prepare", "freeze", "preflight", "probe", "dispatch",
            "accept", "logs", "proving"}

FullFails ==
  /\ full.stage \in Fragile
  /\ FailsWith("error")
  /\ UNCHANGED <<poolVars, place>>

FullInterrupted ==
  /\ \/ full.stage \in Fragile \cup {"release", "removing", "final"}
     \/ full.stage \in {"probing", "running"} /\ pool.at = "over"
  /\ FailsWith("interrupt")
  /\ UNCHANGED <<poolVars, place>>

PoolRaised ==
  /\ full.stage \in {"probing", "running"} /\ pool.at = "raised"
  /\ \E error \in {"error", "interrupt"} : FailsWith(error)
  /\ UNCHANGED <<poolVars, place>>

-----------------------------------------------------------------------------
(***************************************************************************)
(* Preparation: every batch, before the first shard.                       *)
(***************************************************************************)
DeadlineAtStart ==
  /\ full.stage = "begin" /\ late
  /\ full' = At("final")
  /\ UNCHANGED <<poolVars, lease, place>>

FullBegins ==
  /\ full.stage = "begin" /\ ~late
  /\ full' = Forbidding("source")
  /\ UNCHANGED <<poolVars, lease, place>>

CapturedSourceMatches ==
  /\ full.stage = "source" /\ ~late /\ ~place.edited
  /\ full' = Allow("prepare")
  /\ UNCHANGED <<poolVars, lease, place>>

LeaseTaken ==
  /\ full.stage = "prepare" /\ ~late
  /\ lease' = [lease EXCEPT ![full.batch] = "held"]
  /\ full' = Forbidding("materialize")
  /\ UNCHANGED <<poolVars, place>>

WithTrees(shards, alive) ==
  [i \in Lanes |-> IF i \in shards
                   THEN [lane[i] EXCEPT !.tree = "present", !.alive = i \in alive]
                   ELSE lane[i]]

BatchMaterialized ==
  /\ full.stage = "materialize"
  /\ lane' = WithTrees(Batch(full.batch), {})
  /\ full' = Allow("freeze")
  /\ UNCHANGED <<pool, late, lease, place>>

\* Every materializer is drained; the ones that failed may have left a git process.
MaterializersFail ==
  /\ full.stage = "materialize"
  /\ \E alive \in SUBSET Batch(full.batch) : lane' = WithTrees(Batch(full.batch), alive)
  /\ \E error \in {"error", "interrupt"} : FailsWith(error)
  /\ UNCHANGED <<pool, late, place>>

BatchFrozen ==
  /\ full.stage = "freeze"
  /\ full' = IF full.batch = Len(Batches) THEN [At("preflight") EXCEPT !.batch = 1]
             ELSE [At("prepare") EXCEPT !.batch = @ + 1]
  /\ UNCHANGED <<poolVars, lease, place>>

\* FrozenEnvironmentError, ExecutableResolutionError: no child was started, the
\* leases are released in the normal way.
CommandUnresolved ==
  /\ full.stage = "freeze"
  /\ full' = [At("release") EXCEPT !.then = "environment"]
  /\ UNCHANGED <<poolVars, lease, place>>

PreflightComplete ==
  /\ full.stage = "preflight"
  /\ full' = At("probe")
  /\ UNCHANGED <<poolVars, lease, place>>

-----------------------------------------------------------------------------
(***************************************************************************)
(* run_parallel_godot_isolation_probe.                                     *)
(***************************************************************************)
ProbesStart ==
  /\ full.stage = "probe" /\ full.permitted /\ ~late
  /\ pool' = PoolStarted(<<"a", "b">>, 2, TRUE)
  /\ lane' = WithTrees(Probes, {})
  /\ full' = Forbidding("probing")
  /\ UNCHANGED <<late, lease, place>>

AllQuiet(shards) == \A i \in shards : Outcome(i).quiet
PoolReturns(stage) == full.stage = stage /\ pool.at = "over"

ProbesPass ==
  /\ PoolReturns("probing") /\ AllQuiet(Probes) /\ \A i \in Probes : Outcome(i).ok
  /\ pool' = NoPool
  /\ full' = Allow("dispatch")
  /\ UNCHANGED <<lane, late, lease, place>>

\* Unquiet probes, failed ones, and users that are not kept apart.
ProbesFail ==
  /\ PoolReturns("probing")
  /\ FailsWith("error")
  /\ UNCHANGED <<poolVars, place>>

-----------------------------------------------------------------------------
(***************************************************************************)
(* execute_prepared_parallel_full_batch.                                   *)
(***************************************************************************)
BatchDispatched ==
  LET roster == Batches[full.batch]
  IN  /\ full.stage = "dispatch" /\ full.permitted /\ ~late
      /\ pool' = PoolStarted(roster, IF Len(roster) < FullJobs THEN Len(roster) ELSE FullJobs,
                             full.failFast)
      /\ full' = Forbidding("running")
      /\ UNCHANGED <<lane, late, lease, place>>

BatchUnquiet ==
  /\ PoolReturns("running") /\ ~AllQuiet(Batch(full.batch))
  /\ FailsWith("error")
  /\ UNCHANGED <<poolVars, place>>

BatchReturns ==
  /\ PoolReturns("running") /\ AllQuiet(Batch(full.batch))
  /\ pool' = NoPool
  /\ full' = [Allow("accept") EXCEPT !.pending = Batches[full.batch]]
  /\ UNCHANGED <<lane, late, lease, place>>

\* load_parallel_shard_report, and the fingerprint of the workspace: the report is
\* valid or not, and a valid one may tell of failed checks.
ShardReported ==
  LET i == Head(full.pending)
  IN  /\ full.stage = "accept" /\ full.pending # <<>>
      /\ \E good \in {FALSE, Outcome(i).ok /\ ~late} :
           full' = [full EXCEPT !.pending = Tail(@),
                                !.failed = IF good THEN @ ELSE @ \cup {i}]
      /\ lane' = [lane EXCEPT ![i].reports = @ + 1]
      /\ UNCHANGED <<pool, late, lease, place>>

FailedInBatch == full.failed \cap Batch(full.batch)

BatchReported ==
  /\ full.stage = "accept" /\ full.pending = <<>>
  /\ full' = IF FailedInBatch = {} THEN At("drift") ELSE Forbidding("logs")
  /\ UNCHANGED <<poolVars, lease, place>>

LogsCollected ==
  /\ full.stage = "logs"
  /\ lane' = [i \in Lanes |-> IF i \in FailedInBatch THEN [lane[i] EXCEPT !.logs = TRUE]
                              ELSE lane[i]]
  /\ full' = Allow("drift")
  /\ UNCHANGED <<pool, late, lease, place>>

LogsNotCollected ==
  /\ full.stage = "logs"
  /\ full' = [At("drift") EXCEPT !.logsLost = TRUE]
  /\ UNCHANGED <<poolVars, lease, place>>

-----------------------------------------------------------------------------
(***************************************************************************)
(* The end of a batch, and of the run.                                     *)
(***************************************************************************)
StopsEarly == full.failFast /\ FailedInBatch # {}

\* append_unstarted_parallel_shards
ClosedWith(unstarted) ==
  /\ full.stage = "drift"
  /\ lane' = [i \in Lanes |-> IF i \in unstarted
                              THEN [lane[i] EXCEPT !.reports = @ + 1] ELSE lane[i]]
  /\ full' = [Forbidding("proving") EXCEPT !.failed = @ \cup unstarted,
                                           !.was = full.permitted]
  /\ UNCHANGED <<pool, late, lease, place>>

\* Under fail-fast the shards of the batches to come are reported as not started.
BatchClosed ==
  ClosedWith(IF StopsEarly
    THEN UNION {Batch(b) : b \in {c \in BatchIds : c > full.batch}} ELSE {})

SourceStillMatches ==
  /\ full.stage = "proving" /\ ~late /\ ~place.edited
  /\ full' = [At("release") EXCEPT !.permitted = full.was, !.then = "next"]
  /\ UNCHANGED <<poolVars, lease, place>>

\* The lease that is released next: the batch's own, or all of them from the last.
ToRelease == IF full.then = "next" THEN Held \cap {full.batch} ELSE Held
Releasing(b) ==
  full.stage = "release" /\ ToRelease # {} /\ b = Max(ToRelease)

Gone(shards) ==
  [i \in Lanes |-> IF i \in shards /\ lane[i].tree = "present"
                   THEN [lane[i] EXCEPT !.tree = "removed"] ELSE lane[i]]

LeaseRetained(b) ==
  /\ Releasing(b) /\ ~full.permitted
  /\ lease' = [lease EXCEPT ![b] = "retained"]
  /\ UNCHANGED <<poolVars, full, place>>

LeaseRemovalStarts(b) ==
  /\ Releasing(b) /\ full.permitted
  /\ lane' = Gone(Batch(b))
  /\ full' = Forbidding("removing")
  /\ UNCHANGED <<pool, late, lease, place>>

LeaseRemoved ==
  /\ full.stage = "removing"
  /\ lease' = [lease EXCEPT ![Max(ToRelease)] = "removed"]
  /\ full' = Allow("release")
  /\ UNCHANGED <<poolVars, place>>

LeaseRemovalFails ==
  /\ full.stage = "removing"
  /\ lease' = [lease EXCEPT ![Max(ToRelease)] = "retained"]
  /\ full' = At("release")
  /\ UNCHANGED <<poolVars, place>>

Released == full.stage = "release" /\ ToRelease = {}
CleanupOwed == \E b \in BatchIds : lease[b] = "retained"

ReleaseFails ==
  /\ Released /\ (CleanupOwed \/ full.then = "environment")
  /\ FailsWith("error")
  /\ UNCHANGED <<poolVars, place>>

NextBatch ==
  /\ Released /\ ~CleanupOwed /\ full.then = "next"
  /\ full' = IF StopsEarly \/ full.batch = Len(Batches)
               THEN [full EXCEPT !.then = "finish"]
             ELSE [At("dispatch") EXCEPT !.batch = @ + 1]
  /\ UNCHANGED <<poolVars, lease, place>>

\* Every action of the plan gets one result; ok is what all of them agree on.
Aggregated ==
  /\ Released /\ ~CleanupOwed /\ full.then = "finish"
  /\ full' = [At("final") EXCEPT !.aggregated = TRUE,
                                 !.ok = full.failed = {} /\ ~full.logsLost]
  /\ UNCHANGED <<poolVars, lease, place>>

FinalProof ==
  /\ full.stage = "final"
  /\ full' = IF late \/ place.edited THEN [At("unroot") EXCEPT !.ok = FALSE] ELSE At("unroot")
  /\ UNCHANGED <<poolVars, lease, place>>

FinalProofFails ==
  /\ full.stage = "final"
  /\ full' = [At("unroot") EXCEPT !.ok = FALSE]
  /\ UNCHANGED <<poolVars, lease, place>>

\* managed_validation_directory, and what the caller makes of its cleanup errors.
FullConcludes ==
  /\ full.stage = "unroot"
  /\ \E removed \in {FALSE, full.permitted}, end \in {"done", "raised"} :
       /\ full.error = "none" => end = "done"
       /\ full.error = "interrupt" => end = "raised"
       /\ place' = [place EXCEPT !.root = IF removed THEN "removed" ELSE "retained"]
       /\ full' = [At(end) EXCEPT !.ok = @ /\ removed]
  /\ lane' = IF full.permitted THEN Gone(Lanes) ELSE lane
  /\ UNCHANGED <<pool, late, lease>>

-----------------------------------------------------------------------------
ParallelFullNext ==
  \/ SuiteDeadlinePasses \/ WorkspaceIsEdited
  \/ FullFails \/ FullInterrupted \/ PoolRaised
  \/ DeadlineAtStart \/ FullBegins \/ CapturedSourceMatches \/ LeaseTaken
  \/ BatchMaterialized \/ MaterializersFail \/ BatchFrozen \/ CommandUnresolved
  \/ PreflightComplete \/ ProbesStart \/ ProbesPass \/ ProbesFail
  \/ BatchDispatched \/ BatchUnquiet \/ BatchReturns \/ ShardReported \/ BatchReported
  \/ LogsCollected \/ LogsNotCollected \/ BatchClosed \/ SourceStillMatches
  \/ \E b \in BatchIds : LeaseRetained(b) \/ LeaseRemovalStarts(b)
  \/ LeaseRemoved \/ LeaseRemovalFails \/ ReleaseFails \/ NextBatch \/ Aggregated
  \/ FinalProof \/ FinalProofFails \/ FullConcludes
  \/ ParallelShardsNext /\ UNCHANGED <<full, lease, place>>

ParallelFullSpec == ParallelFullInit /\ [][ParallelFullNext]_fullVars

-----------------------------------------------------------------------------
\* A workspace is deleted, by the lease of its batch or with the validation root,
\* only when nothing runs in it any more, and when its shard failed only after its
\* logs were saved.
FullRemovesOnlySafely ==
  \A i \in Lanes : lane[i].tree = "removed" =>
    /\ ~lane[i].alive /\ lane[i].future # "running"
    /\ (i \in Shards /\ lane[i].runs = 1 /\ ~Outcome(i).ok) => lane[i].logs

\* Whatever ends the batches, the result they are aggregated into accounts for
\* every shard of the plan exactly once, also those that a failure kept from
\* starting; and ok says that every shard ran exactly once and passed on a source
\* that did not change until the last proof, that nothing of it is left running,
\* and that no directory is left.
FullOkIsEarned ==
  /\ full.aggregated => \A i \in Shards : lane[i].reports = 1
  /\ full.stage = "done" /\ full.ok =>
       /\ ~place.edited /\ place.root = "removed" /\ ~CleanupOwed
       /\ \A i \in Shards :
            /\ lane[i].runs = 1 /\ Outcome(i).ok
            /\ ~lane[i].alive /\ lane[i].tree = "removed"

\* Neither the directories nor the verdict of a full run promise what is not so.
FullRunAccounted == FullRemovesOnlySafely /\ FullOkIsEarned
=============================================================================
