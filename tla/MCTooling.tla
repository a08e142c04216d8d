------------------------------ MODULE MCTooling ------------------------------
(***************************************************************************)
(* A service under the POSIX watchdog, a sharded GUT run, one of its       *)
(* workers by itself, the gate that lets a pull request reuse a Full       *)
(* validation, the audit of a release, and of the builder of the AI        *)
(* developer kit the acceptance session and the handling of files.  They   *)
(* share nothing: a behaviour is about one of them, chosen at the start,   *)
(* and the state of the others never changes.                              *)
(***************************************************************************)
EXTENDS ProcessWatchdog, GutShardRun, ShardWorker, MergeGate, AcceptanceSession, OwnedFiles,
        ReleaseAudit

VARIABLE subject

vars == <<subject, watchdogVars, shardVars, workerVars, gateVars, acceptanceVars, ownedVars,
          releaseVars>>

\* The subjects that are not looked at rest in one of their initial states.
MCInit ==
  /\ WatchdogInit /\ ShardRunInit /\ WorkerInit /\ MergeGateInit
  /\ AcceptanceInit /\ OwnedFilesInit /\ ReleaseInit
  /\ subject \in {"watchdog", "shards", "worker", "gate", "acceptance", "files",
                  "release"}
  /\ subject # "shards" => report = NewReport(1, FALSE)
  /\ subject # "worker" => site.private = "absent"
  /\ subject # "files" => writer.use = "read" /\ writer.windows
  /\ subject # "release" =>
       audit.dirty /\ audit.copied = [revision |-> "other", declares |-> [a \in Artifacts |-> "leaky"]]

MCNext ==
  /\ UNCHANGED subject
  /\ \/ subject = "watchdog" /\ WatchdogNext
        /\ UNCHANGED <<shardVars, workerVars, gateVars, acceptanceVars, ownedVars, releaseVars>>
     \/ subject = "shards" /\ ShardRunNext
        /\ UNCHANGED <<watchdogVars, workerVars, gateVars, acceptanceVars, ownedVars, releaseVars>>
     \/ subject = "worker" /\ WorkerThreadNext
        /\ UNCHANGED <<watchdogVars, shardVars, gateVars, acceptanceVars, ownedVars, releaseVars>>
     \/ subject = "gate" /\ MergeGateNext
        /\ UNCHANGED <<watchdogVars, shardVars, workerVars, acceptanceVars, ownedVars, releaseVars>>
     \/ subject = "acceptance" /\ AcceptanceNext
        /\ UNCHANGED <<watchdogVars, shardVars, workerVars, gateVars, ownedVars, releaseVars>>
     \/ subject = "files" /\ OwnedFilesNext
        /\ UNCHANGED <<watchdogVars, shardVars, workerVars, gateVars, acceptanceVars, releaseVars>>
     \/ subject = "release" /\ ReleaseNext
        /\ UNCHANGED <<watchdogVars, shardVars, workerVars, gateVars, acceptanceVars, ownedVars>>

ToolingSpec == MCInit /\ [][MCNext]_vars /\ WatchdogFairness

(* Every variable of the model that is looked at keeps its type. *)
ToolingTypeOK ==
  CASE subject = "watchdog" -> WatchdogTypeOK
    [] subject = "shards" -> ShardRunTypeOK
    [] subject = "worker" -> WorkerTypeOK
    [] subject = "gate" -> MergeGateTypeOK
    [] subject = "acceptance" -> AcceptanceTypeOK
    [] subject = "files" -> OwnedFilesTypeOK
    [] subject = "release" -> ReleaseTypeOK
=============================================================================
