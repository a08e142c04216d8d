----------------------------- MODULE MCComponents -----------------------------
(***************************************************************************)
(* Of the tools: the full suite with its workspaces, the capture and       *)
(* materialization of one workspace, the replacement of generated trees,   *)
(* the diagnostics of a language server that a lane of the suite runs, and *)
(* the run of checks that all of this is for.  Of the framework: the       *)
(* dispatch queue, the job queue with its worker, and cancellation.  The   *)
(* models share nothing: a behaviour is about one of them, chosen at the   *)
(* start, and the state of the others never changes.                       *)
(***************************************************************************)
EXTENDS ParallelFull, WorkspaceSnapshot, GeneratedTrees, LspDiagnostics, CheckRun,
        DispatchQueue, JobQueue, AsyncCancellation

VARIABLE subject

toolVars == <<fullVars, snapshotVars, treesVars, lspVars, checkRunVars>>
frameworkVars == <<dispatchVars, jobVars, cancellationVars>>
vars == <<subject, toolVars, frameworkVars>>

\* The subjects that are not looked at rest in one of their initial states.
MCInit ==
  /\ ParallelFullInit /\ SnapshotInit /\ TreesInit /\ LspInit /\ CheckRunInit
  /\ DispatchInit /\ JobsInit /\ CancellationInit
  /\ subject \in {"suite", "snapshot", "trees", "diagnostics", "checks",
                  "dispatch", "jobs", "cancellation"}
  /\ subject # "suite" => ~full.failFast
  /\ subject # "snapshot" => build.verifySource
  /\ subject # "trees" => origin = [r \in Roots |-> "old"]
  /\ subject # "diagnostics" =>
       /\ lsp.mode = "spawn" /\ server.project /\ server.versions
       /\ texts.now = [s \in Scripts |-> "clean"]
  /\ subject # "checks" => ~checking.failFast /\ checking.needs = [c \in Checks |-> {}]

ToolNext ==
  \/ subject = "suite" /\ ParallelFullNext
     /\ UNCHANGED <<snapshotVars, treesVars, lspVars, checkRunVars>>
  \/ subject = "snapshot" /\ SnapshotNext
     /\ UNCHANGED <<fullVars, treesVars, lspVars, checkRunVars>>
  \/ subject = "trees" /\ TreesNext
     /\ UNCHANGED <<fullVars, snapshotVars, lspVars, checkRunVars>>
  \/ subject = "diagnostics" /\ LspNext
     /\ UNCHANGED <<fullVars, snapshotVars, treesVars, checkRunVars>>
  \/ subject = "checks" /\ CheckRunNext
     /\ UNCHANGED <<fullVars, snapshotVars, treesVars, lspVars>>

FrameworkNext ==
  \/ subject = "dispatch" /\ DispatchNext /\ UNCHANGED <<jobVars, cancellationVars>>
  \/ subject = "jobs" /\ JobsNext /\ UNCHANGED <<dispatchVars, cancellationVars>>
  \/ subject = "cancellation" /\ CancellationNext /\ UNCHANGED <<dispatchVars, jobVars>>

MCNext ==
  \/ ToolNext /\ UNCHANGED <<subject, frameworkVars>>
  \/ FrameworkNext /\ UNCHANGED <<subject, toolVars>>

ComponentsSpec == MCInit /\ [][MCNext]_vars

(* Every variable of the model that a behaviour is about keeps its type. *)
ComponentsTypeOK ==
  /\ subject = "suite" => ParallelFullTypeOK
  /\ subject = "snapshot" => SnapshotTypeOK
  /\ subject = "trees" => TreesTypeOK
  /\ subject = "diagnostics" => LspTypeOK
  /\ subject = "checks" => CheckRunTypeOK
  /\ subject = "dispatch" => DispatchTypeOK
  /\ subject = "jobs" => JobsTypeOK
  /\ subject = "cancellation" => CancellationTypeOK
=============================================================================
