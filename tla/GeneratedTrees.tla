---------------------------- MODULE GeneratedTrees ----------------------------
(***************************************************************************)
(* replace_generated_trees (src/tools/generated_output_transaction.py):    *)
(* several directory trees are replaced together.  Every new tree is       *)
(* staged first; then each old one is moved into a backup and the new one  *)
(* moved into its place; a failure rolls back in the reverse order, and a  *)
(* backup is kept when the rollback was not complete.                      *)
(*                                                                         *)
(* Any step may fail, KeyboardInterrupt may strike between two of them and *)
(* the process may be killed; somebody else may put a directory of his own *)
(* where an output was or is being made.                                   *)
(***************************************************************************)
EXTENDS Integers

CONSTANT RootCount

ASSUME RootCountAssumption == RootCount \in Nat \ {0}

Roots == 1 .. RootCount

VARIABLES
  origin,     \* what was at each output path when the call began
  disk,       \* what is there now
  staging,    \* its staging directory
  previous,   \* its backup
  installed,  \* installed_roots
  pc, at,     \* the step, and the root it is about
  errors,     \* rollback_errors
  committed, rolledBack, interrupted,
  outcome     \* how the call ends

treesVars == <<origin, disk, staging, previous, installed, pc, at, errors,
               committed, rolledBack, interrupted, outcome>>
flags == <<committed, rolledBack, interrupted, outcome>>

TreesInit ==
  /\ origin \in [Roots -> {"absent", "old", "file"}] /\ disk = origin
  /\ staging = [r \in Roots |-> "absent"] /\ previous = [r \in Roots |-> "absent"]
  /\ installed = {} /\ errors = {} /\ pc = "stage" /\ at = 1
  /\ committed = FALSE /\ rolledBack = FALSE /\ interrupted = FALSE /\ outcome = "none"

TreesTypeOK ==
  /\ origin \in [Roots -> {"absent", "old", "file"}]
  /\ disk \in [Roots -> {"absent", "old", "file", "new", "partial", "foreign"}]
  /\ staging \in [Roots -> {"absent", "partial", "new"}]
  /\ previous \in [Roots -> {"absent", "old", "foreign", "partial"}]
  /\ installed \in SUBSET Roots /\ errors \in SUBSET Roots /\ at \in Roots
  /\ pc \in {"stage", "write", "backup", "move", "install", "record", "commit",
             "undo", "restore", "clean", "drop", "ended", "killed"}
  /\ committed \in BOOLEAN /\ rolledBack \in BOOLEAN /\ interrupted \in BOOLEAN
  /\ outcome \in {"none", "returned", "raised", "incomplete"}

-----------------------------------------------------------------------------
\* The loops over the roots: the next root at step again, or the step after.
Onward(again, after) ==
  IF at = RootCount THEN pc' = after /\ at' = 1 ELSE pc' = again /\ at' = at + 1

StagingCreated ==
  /\ pc = "stage"
  /\ staging' = [staging EXCEPT ![at] = "partial"]
  /\ pc' = "write"
  /\ UNCHANGED <<origin, disk, previous, installed, at, errors, flags>>

StagingWritten ==
  /\ pc = "write"
  /\ staging' = [staging EXCEPT ![at] = "new"]
  /\ Onward("stage", "backup")
  /\ UNCHANGED <<origin, disk, previous, installed, errors, flags>>

BackupCreated ==
  /\ pc = "backup" /\ disk[at] # "file"
  /\ pc' = IF disk[at] = "absent" THEN "install" ELSE "move"
  /\ UNCHANGED <<origin, disk, staging, previous, installed, at, errors, flags>>

MovedAside ==
  /\ pc = "move"
  /\ previous' = [previous EXCEPT ![at] = disk[at]]
  /\ disk' = [disk EXCEPT ![at] = "absent"]
  /\ pc' = "install"
  /\ UNCHANGED <<origin, staging, installed, at, errors, flags>>

Installed ==
  /\ pc = "install" /\ disk[at] = "absent"
  /\ disk' = [disk EXCEPT ![at] = staging[at]]
  /\ staging' = [staging EXCEPT ![at] = "absent"]
  /\ pc' = "record"
  /\ UNCHANGED <<origin, previous, installed, at, errors, flags>>

Recorded ==
  /\ pc = "record"
  /\ installed' = installed \cup {at}
  /\ Onward("backup", "commit")
  /\ UNCHANGED <<origin, disk, staging, previous, errors, flags>>

Committed ==
  /\ pc = "commit"
  /\ committed' = TRUE
  /\ outcome' \in {"returned", "raised"} /\ interrupted' = (outcome' = "raised")
  /\ pc' = "clean"
  /\ UNCHANGED <<origin, disk, staging, previous, installed, at, errors, rolledBack>>

\* A step fails, or is interrupted; the bookkeeping can only be interrupted.
StepFails ==
  /\ pc \in {"stage", "write", "backup", "move", "install", "record", "commit"}
  /\ interrupted' \in (IF pc \in {"record", "commit"} THEN {TRUE} ELSE BOOLEAN)
  /\ pc' = "undo" /\ at' = RootCount
  /\ UNCHANGED <<origin, disk, staging, previous, installed, errors, committed,
                 rolledBack, outcome>>

-----------------------------------------------------------------------------
\* The rollback of one root is over: the root before it, or the end.
RolledBack(owed) ==
  /\ errors' = owed
  /\ IF at > 1
       THEN pc' = "undo" /\ at' = at - 1 /\ UNCHANGED <<rolledBack, outcome>>
       ELSE /\ pc' = "clean" /\ at' = 1 /\ rolledBack' = (owed = {})
            /\ outcome' = IF owed = {} THEN "raised" ELSE "incomplete"
  /\ UNCHANGED <<committed, interrupted>>

\* Only the directory that was installed is removed.
Undone ==
  /\ pc = "undo"
  /\ at \in installed => disk[at] \in {"absent", "new"}
  /\ disk' = IF at \in installed THEN [disk EXCEPT ![at] = "absent"] ELSE disk
  /\ pc' = "restore"
  /\ UNCHANGED <<origin, staging, previous, installed, at, errors, flags>>

Restored ==
  /\ pc = "restore"
  /\ previous[at] # "absent" => disk[at] = "absent"
  /\ disk' = IF previous[at] # "absent" THEN [disk EXCEPT ![at] = previous[at]] ELSE disk
  /\ previous' = [previous EXCEPT ![at] = "absent"]
  /\ RolledBack(errors)
  /\ UNCHANGED <<origin, staging, installed>>

\* The root is somebody else's, its removal stops half way, or anything raises.
RollbackFails ==
  /\ pc \in {"undo", "restore"}
  /\ disk' \in {disk} \cup (IF pc = "undo" /\ at \in installed /\ disk[at] = "new"
                            THEN {[disk EXCEPT ![at] = "partial"]} ELSE {})
  /\ RolledBack(errors \cup {at})
  /\ UNCHANGED <<origin, staging, previous, installed>>

RollbackInterrupted ==
  /\ pc = "undo"
  /\ pc' = "clean" /\ at' = 1 /\ outcome' = "raised" /\ interrupted' = TRUE
  /\ UNCHANGED <<origin, disk, staging, previous, installed, errors, committed, rolledBack>>

-----------------------------------------------------------------------------
\* The finally clause; what it cannot delete it leaves, without an error.
StagingDropped ==
  /\ pc = "clean"
  /\ staging' \in {staging, [r \in Roots |-> "absent"]}
  /\ pc' = "drop"
  /\ UNCHANGED <<origin, disk, previous, installed, at, errors, flags>>

\* Fault: a backup is dropped whatever became of the rollback
BackupDroppedAlways ==
  /\ pc = "drop"
  /\ previous' = [previous EXCEPT ![at] = "absent"]
  /\ Onward("drop", "ended")
  /\ UNCHANGED <<origin, disk, staging, installed, errors, flags>>

BackupDropped ==
  /\ pc = "drop"
  /\ IF (committed \/ rolledBack) /\ previous[at] # "absent"
       THEN \E left \in {"absent", "partial"} : previous' = [previous EXCEPT ![at] = left]
       ELSE UNCHANGED previous
  /\ Onward("drop", "ended")
  /\ UNCHANGED <<origin, disk, staging, installed, errors, flags>>

CleanupInterrupted ==
  /\ pc \in {"clean", "drop"}
  /\ pc' = "ended" /\ outcome' = "raised" /\ interrupted' = TRUE
  /\ UNCHANGED <<origin, disk, staging, previous, installed, at, errors, committed, rolledBack>>

Killed ==
  /\ pc \notin {"ended", "killed"}
  /\ pc' = "killed"
  /\ UNCHANGED <<origin, disk, staging, previous, installed, at, errors, flags>>

SomebodyElse(r) ==
  /\ pc \notin {"ended", "killed"} /\ disk[r] \in {"absent", "new"}
  /\ disk' = [disk EXCEPT ![r] = "foreign"]
  /\ UNCHANGED <<origin, staging, previous, installed, pc, at, errors, flags>>

TreesNext ==
  \/ StagingCreated \/ StagingWritten \/ BackupCreated \/ MovedAside \/ Installed
  \/ Recorded \/ Committed \/ StepFails \/ Undone \/ Restored \/ RollbackFails
  \/ RollbackInterrupted \/ StagingDropped \/ BackupDropped \/ CleanupInterrupted
  \/ Killed \/ \E r \in Roots : SomebodyElse(r)

TreesSpec == TreesInit /\ [][TreesNext]_treesVars

-----------------------------------------------------------------------------
\* However the call fails, and wherever it is interrupted or killed, the old tree
\* is in its place or whole in its backup until every new tree is in its place.
OldTreesSurvive ==
  \A r \in Roots : origin[r] = "old" /\ ~committed =>
    disk[r] = "old" \/ previous[r] = "old"

\* The call returns with every new tree in its place, or raises with every path as
\* it found it, unless it says that its rollback was incomplete or was interrupted.
\* (What somebody else made meanwhile is his.)
AllOrNothing ==
  pc = "ended" =>
    /\ outcome = "returned" => \A r \in Roots : disk[r] \in {"new", "foreign"}
    /\ outcome = "raised" /\ ~interrupted =>
         \A r \in Roots : \/ disk[r] = origin[r]
                          \/ disk[r] = "foreign" /\ origin[r] = "absent"

\* No old tree is lost, and what the call says of all of them is true.
TreesAreKept == OldTreesSurvive /\ AllOrNothing
=============================================================================
