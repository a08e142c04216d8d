---------------------------- MODULE WorkerAnswer ----------------------------
(***************************************************************************)
(* What run_worker (src/tools/gf_gut_shard_worker.py) may answer, reduced  *)
(* to what the run that waits for it looks at.  ShardWorker is shown to    *)
(* answer nothing else; GutShardRun expects all of it.                     *)
(***************************************************************************)

\* Where the worker failed: "tests" is a closed import, GUT or JUnit failure;
\* "identity" never had or has lost its proof that the workspace is the one it
\* was given; "unquiet" has no proof that its processes are gone.
Failures == {"none", "tests", "other", "identity", "unquiet"}

WorkerReport(who, failure, retained, late, cancelled) ==
  LET quiescent == failure # "unquiet"
      cleaned == quiescent /\ ~retained
      permitted == quiescent /\ failure # "identity"
      issues == ({failure} \ {"none"})
                  \cup (IF cleaned THEN {} ELSE {"cleanup"})
                  \cup (IF late THEN {"deadline"} ELSE {})
                  \cup (IF cancelled THEN {"cancelled"} ELSE {})
  IN  [who |-> who, ok |-> issues = {}, deadlineFailed |-> late,
       quiescent |-> quiescent, cleaned |-> cleaned, permitted |-> permitted,
       continuationSafe |-> issues = {} \/ (cleaned /\ permitted /\ issues = {"tests"})]

WorkerReports(who, cancelled) ==
  {WorkerReport(who, failure, retained, late, cancelled) :
     failure \in Failures, retained \in BOOLEAN, late \in BOOLEAN}
=============================================================================
