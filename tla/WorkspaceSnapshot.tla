--------------------------- MODULE WorkspaceSnapshot ---------------------------
(***************************************************************************)
(* capture_workspace and materialize_workspace                             *)
(* (src/tools/gf_parallel_validation.py).  A capture reads HEAD, the diff  *)
(* of the tracked files, the list of untracked files and each of these,    *)
(* one after the other, while somebody may edit the workspace; it is taken *)
(* twice and kept when both agree.  A materialization builds a clone in a  *)
(* staging directory, compares the source again before and after it moves  *)
(* the clone to its target, and must account for every directory it made   *)
(* when a step fails, a git process is not proven gone, the caller is      *)
(* interrupted or somebody else takes its paths.                           *)
(*                                                                         *)
(* Contents are numbers that an edit takes fresh: a content that was       *)
(* replaced does not come back while the call runs, and a file that was    *)
(* removed is not made again (the assumption of comparing contents).       *)
(***************************************************************************)
EXTENDS Integers, FiniteSets

CONSTANTS
  FileCount,      \* the untracked paths, in the order of their names
  OriginalFiles,  \* those that exist when the call begins
  MaxEdits        \* bound on the edits while the call runs

ASSUME SnapshotAssumption ==
  FileCount \in Nat /\ OriginalFiles \subseteq 1 .. FileCount /\ MaxEdits \in Nat

Files == 1 .. FileCount
Absent == 0
Clean == 0
Torn == -1

VARIABLES
  source,    \* the workspace: HEAD, the diff against it, the untracked files
  edits,     \* how often it was edited
  moments,   \* history: what it has been since the capture began
  collect,   \* _capture_workspace_once, if one of the source runs
  first,     \* the first of the two captures
  snapshot,  \* the captured workspace
  places,    \* the staging root and the target: absent, own, or somebody else's
  taken,     \* history: the paths somebody else has taken
  build      \* the locals of materialize_workspace

snapshotVars == <<source, edits, moments, collect, first, snapshot, places, taken, build>>
world == <<source, edits, moments, taken>>

Contents == Torn .. MaxEdits + 1
Workspaces == [head : Contents, diff : Contents, files : [Files -> Contents]]
NoWorkspace == [head |-> Torn, diff |-> Torn, files |-> [f \in Files |-> Torn]]

Collects == {"first", "second", "before", "verify", "final"}
CollectSteps == {"head", "diff", "list", "file", "read", "recheck", "again"}
Paths == {"staging", "target"}

Resting == [for |-> "first", at |-> "head", got |-> NoWorkspace, list |-> {},
            file |-> 1, seen |-> Absent]

SnapshotInit ==
  /\ source = [head |-> 1, diff |-> Clean,
               files |-> [f \in Files |-> IF f \in OriginalFiles THEN 1 ELSE Absent]]
  /\ edits = 0 /\ moments = {source}
  /\ collect = Resting /\ first = NoWorkspace /\ snapshot = NoWorkspace
  /\ places = [p \in Paths |-> "absent"] /\ taken = {}
  /\ \E verify \in BOOLEAN :
       build = [at |-> "capture", verifySource |-> verify, entered |-> FALSE,
                attempted |-> FALSE, published |-> FALSE, built |-> NoWorkspace,
                clonedInto |-> "absent",
                gitAlive |-> FALSE, removed |-> {}, preserved |-> {},
                sourceAtMove |-> NoWorkspace, result |-> "none"]

\* The stages of the call before its handlers, and those that run git.
Git == {"capture", "enter", "clone", "checkout", "staged", "apply", "published"}

Stages == {"capture", "enter", "staging", "made", "clone", "checkout", "apply", "files",
           "staged", "move", "moved", "renamed", "placed", "published"}

CollectStates ==
  [for : Collects, at : CollectSteps, got : Workspaces, list : SUBSET Files,
   file : Files \cup {1}, seen : Contents]

Builds ==
  [at : Stages \cup {"withdraw", "cleanup", "over"}, verifySource : BOOLEAN,
   entered : BOOLEAN, attempted : BOOLEAN, published : BOOLEAN, built : Workspaces,
   clonedInto : {"absent", "own", "foreign"}, gitAlive : BOOLEAN,
   removed : SUBSET Paths, preserved : SUBSET Paths, sourceAtMove : Workspaces,
   result : {"none", "returned", "error", "debt", "interrupt"}]

SnapshotTypeOK ==
  /\ source \in Workspaces /\ edits \in 0 .. MaxEdits /\ moments \subseteq Workspaces
  /\ collect \in CollectStates /\ first \in Workspaces /\ snapshot \in Workspaces
  /\ places \in [Paths -> {"absent", "own", "foreign"}] /\ taken \subseteq Paths
  /\ build \in Builds

Building == build.at # "over"

-----------------------------------------------------------------------------
(***************************************************************************)
(* The others: an editor of the workspace, and whoever uses the paths.     *)
(***************************************************************************)
Fresh == edits + 2

Edited(new) ==
  /\ Building /\ edits < MaxEdits
  /\ source' = new
  /\ edits' = edits + 1 /\ moments' = moments \cup {new}
  /\ UNCHANGED <<collect, first, snapshot, places, taken, build>>

Commit == Edited([source EXCEPT !.head = Fresh, !.diff = Clean])
EditTracked == Edited([source EXCEPT !.diff = Fresh])

WriteFile(f) ==
  /\ f \in OriginalFiles => source.files[f] # Absent
  /\ Edited([source EXCEPT !.files[f] = Fresh])

RemoveFile(f) ==
  /\ f \in OriginalFiles /\ source.files[f] # Absent
  /\ Edited([source EXCEPT !.files[f] = Absent])

\* git add: the file leaves the untracked ones and enters the diff.
AddFile(f) ==
  /\ f \in OriginalFiles /\ source.files[f] # Absent
  /\ Edited([source EXCEPT !.files[f] = Absent, !.diff = Fresh])

PathTaken(p) ==
  /\ Building /\ p \notin taken
  /\ places' = [places EXCEPT ![p] = "foreign"] /\ taken' = taken \cup {p}
  /\ UNCHANGED <<source, edits, moments, collect, first, snapshot, build>>

-----------------------------------------------------------------------------
(***************************************************************************)
(* How the call ends before its time.  An error within the try statement   *)
(* goes to its handlers; a directory is removed only while it is its own.  *)
(***************************************************************************)
Existing == {p \in Paths : places[p] # "absent"}

\* Fault: the target is named only once it is known to be published
PreservedWhenPublished ==
  Existing \cap (IF build.published THEN Paths ELSE {"staging"})

\* preserved_materialization_paths
Preserved ==
  Existing \cap (IF build.published \/ build.attempted THEN Paths ELSE {"staging"})

Over(result) == [build EXCEPT !.at = "over", !.result = result]
Owing(result) == [Over(result) EXCEPT !.preserved = Preserved]

AfterError ==
  IF ~build.entered THEN Over("error")
  ELSE IF build.published THEN [build EXCEPT !.at = "withdraw", !.result = "error"]
  ELSE IF build.attempted THEN Owing("debt")
  ELSE [build EXCEPT !.at = "cleanup", !.result = "error"]

AfterBoundary ==
  [(IF build.entered THEN Owing("debt") ELSE Over("debt")) EXCEPT !.gitAlive = TRUE]

AfterInterrupt ==
  IF ~build.entered THEN Over("interrupt")
  ELSE IF build.attempted /\ ~build.published THEN Owing("debt")
  ELSE Owing("interrupt")

StepRaises ==
  /\ build.at \in Stages
  /\ \/ build.at # "renamed" /\ build' = AfterError
     \/ build.at \in Git /\ build' = AfterBoundary
     \/ \E alive \in BOOLEAN :
          /\ alive => build.at \in Git
          /\ build' = [AfterInterrupt EXCEPT !.gitAlive = alive]
  /\ UNCHANGED <<world, collect, first, snapshot, places>>

-----------------------------------------------------------------------------
(***************************************************************************)
(* _capture_workspace_once of the source, step by step.                    *)
(***************************************************************************)
Collecting(step) == build.at = "capture" /\ collect.at = step

Got(step, field, value) == [collect EXCEPT !.at = step, !.got[field] = value]

ReadHead ==
  /\ Collecting("head")
  /\ collect' = Got("diff", "head", source.head)
  /\ UNCHANGED <<world, first, snapshot, places, build>>

ReadDiff ==
  /\ Collecting("diff")
  /\ collect' = Got("list", "diff", source.diff)
  /\ UNCHANGED <<world, first, snapshot, places, build>>

\* The next untracked file of the list from f on, or HEAD once more.
Onto(c, f) ==
  LET rest == {g \in c.list : g >= f}
  IN  IF rest = {} THEN [c EXCEPT !.at = "again", !.file = 1, !.seen = Absent]
      ELSE [c EXCEPT !.at = "file", !.seen = Absent,
                     !.file = CHOOSE g \in rest : \A h \in rest : g <= h]

ReadList ==
  /\ Collecting("list")
  /\ LET list == {f \in Files : source.files[f] # Absent}
     IN  collect' = Onto([Got("file", "files", [f \in Files |-> Absent]) EXCEPT !.list = list], 1)
  /\ UNCHANGED <<world, first, snapshot, places, build>>

\* lstat, open and fstat; a file that has gone is drift.
InspectFile ==
  /\ Collecting("file") /\ source.files[collect.file] # Absent
  /\ collect' = [collect EXCEPT !.at = "read", !.seen = source.files[collect.file]]
  /\ UNCHANGED <<world, first, snapshot, places, build>>

\* The first chunk; a file that is removed now can still be read to its end.
ReadFile ==
  /\ Collecting("read")
  /\ LET now == source.files[collect.file]
     IN  collect' = [collect EXCEPT !.at = "recheck",
                       !.got.files[collect.file] = IF now = Absent THEN collect.seen ELSE now]
  /\ UNCHANGED <<world, first, snapshot, places, build>>

\* What the later chunks made of the content.
Read == LET now == source.files[collect.file]
        IN  IF now \in {Absent, collect.got.files[collect.file]}
              THEN collect.got.files[collect.file] ELSE Torn

\* The last chunk, fstat and lstat: the file is the one that was inspected.
FileUnchanged ==
  /\ Collecting("recheck") /\ source.files[collect.file] = collect.seen
  /\ collect' = Onto([collect EXCEPT !.got.files[collect.file] = Read], collect.file + 1)
  /\ UNCHANGED <<world, first, snapshot, places, build>>

Begin(for) == [Resting EXCEPT !.for = for]
Go(stage) == [build EXCEPT !.at = stage]

\* Where the call goes on after a comparison of the source with the snapshot.
AfterMatch == CASE collect.for = "before" -> "staging"
                [] collect.for = "verify" -> "move"
                [] collect.for = "final" -> "published"

\* Fault: one capture is enough
TakenOnce ==
  /\ Collecting("again") /\ source.head = collect.got.head
  /\ \/ /\ collect.for \in {"first", "second"} /\ snapshot' = collect.got
        /\ build' = Go("enter")
     \/ /\ collect.for \notin {"first", "second"} /\ collect.got = snapshot
        /\ build' = Go(AfterMatch) /\ UNCHANGED snapshot
  /\ collect' = Resting
  /\ UNCHANGED <<world, first, places>>

\* HEAD is where it was.  The second capture must equal the first, a later one
\* the snapshot; otherwise only StepRaises is left.
Collected ==
  /\ Collecting("again") /\ source.head = collect.got.head
  /\ \/ /\ collect.for = "first" /\ first' = collect.got
        /\ collect' = Begin("second") /\ UNCHANGED <<snapshot, build>>
     \/ /\ collect.for = "second" /\ collect.got = first
        /\ snapshot' = first /\ first' = NoWorkspace
        /\ collect' = Resting /\ build' = Go("enter")
     \/ /\ collect.for \in {"before", "verify", "final"} /\ collect.got = snapshot
        /\ collect' = Resting /\ build' = Go(AfterMatch) /\ UNCHANGED <<first, snapshot>>
  /\ UNCHANGED <<world, places>>

Compare(for, stage) ==
  IF build.verifySource
    THEN build' = Go("capture") /\ collect' = Begin(for)
    ELSE build' = Go(stage) /\ UNCHANGED collect

-----------------------------------------------------------------------------
(***************************************************************************)
(* materialize_workspace.                                                  *)
(***************************************************************************)
TargetIsFree ==
  /\ build.at = "enter" /\ places["target"] = "absent"
  /\ Compare("before", "staging")
  /\ UNCHANGED <<world, first, snapshot, places>>

StagingMade ==
  /\ build.at = "staging" /\ places["staging"] = "absent"
  /\ places' = [places EXCEPT !["staging"] = "own"]
  /\ build' = Go("made")
  /\ UNCHANGED <<world, collect, first, snapshot>>

\* Only from here on an exception meets the handlers.
TryEntered ==
  /\ build.at = "made"
  /\ build' = [build EXCEPT !.at = "clone", !.entered = TRUE]
  /\ UNCHANGED <<world, collect, first, snapshot, places>>

\* If somebody has replaced the staging root, the clone is made in his directory.
Cloned ==
  /\ build.at = "clone"
  /\ build' = [build EXCEPT !.at = "checkout", !.clonedInto = places["staging"]]
  /\ UNCHANGED <<world, collect, first, snapshot, places>>

CheckedOut ==
  /\ build.at = "checkout"
  /\ build' = [build EXCEPT !.at = "apply", !.built.head = snapshot.head]
  /\ UNCHANGED <<world, collect, first, snapshot, places>>

\* git apply; the result may differ from what was captured, which "staged" sees.
DiffApplied ==
  /\ build.at = "apply"
  /\ \E diff \in {snapshot.diff, Torn} :
       build' = [build EXCEPT !.at = "files", !.built.diff = diff]
  /\ UNCHANGED <<world, collect, first, snapshot, places>>

FilesWritten ==
  /\ build.at = "files"
  /\ build' = [build EXCEPT !.at = "staged", !.built.files = snapshot.files]
  /\ UNCHANGED <<world, collect, first, snapshot, places>>

\* The clone is captured once and must reproduce the snapshot.
CloneVerified ==
  /\ build.at = "staged" /\ build.built = snapshot
  /\ Compare("verify", "move")
  /\ UNCHANGED <<world, first, snapshot, places>>

\* The identity of the clone is checked before publication_attempted is set.
MoveBegins ==
  /\ build.at = "move" /\ places["staging"] = build.clonedInto
  /\ build' = [build EXCEPT !.at = "moved", !.attempted = TRUE]
  /\ UNCHANGED <<world, collect, first, snapshot, places>>

\* os.replace; an interrupt may strike before the next line knows of it.  What
\* somebody else has put at the target is not an empty directory.
Moved ==
  /\ build.at = "moved" /\ places["staging"] = build.clonedInto
  /\ places["target"] = "absent"
  /\ places' = [places EXCEPT !["target"] = "own"]
  /\ build' = [build EXCEPT !.at = "renamed", !.sourceAtMove = source]
  /\ UNCHANGED <<world, collect, first, snapshot>>

MoveNoted ==
  /\ build.at = "renamed"
  /\ build' = [build EXCEPT !.at = "placed", !.published = TRUE, !.attempted = FALSE]
  /\ UNCHANGED <<world, collect, first, snapshot, places>>

PlaceVerified ==
  /\ build.at = "placed" /\ places["target"] = "own"
  /\ Compare("final", "published")
  /\ UNCHANGED <<world, first, snapshot, places>>

\* The target is captured, its identity handed to the owner.
Published ==
  /\ build.at = "published"
  /\ build' = [build EXCEPT !.at = "cleanup", !.result = "returned"]
  /\ UNCHANGED <<world, collect, first, snapshot, places>>

-----------------------------------------------------------------------------
(***************************************************************************)
(* The handlers.                                                           *)
(***************************************************************************)
\* _remove_owned_tree: only the directory that was made; looking and deleting are
\* one step here.
RemovedOwn(p) ==
  /\ places[p] = "own"
  /\ places' = [places EXCEPT ![p] = "absent"]

Withdrawn ==
  /\ build.at = "withdraw"
  /\ RemovedOwn("target")
  /\ build' = [build EXCEPT !.at = "cleanup", !.published = FALSE,
                 !.removed = @ \cup {"target"}]
  /\ UNCHANGED <<world, collect, first, snapshot>>

CleanedUp ==
  /\ build.at = "cleanup"
  /\ RemovedOwn("staging")
  /\ build' = [build EXCEPT !.at = "over", !.removed = @ \cup {"staging"}]
  /\ UNCHANGED <<world, collect, first, snapshot>>

\* The directory is somebody else's, its removal fails or is interrupted.
CleanupFails ==
  /\ build.at \in {"withdraw", "cleanup"}
  /\ build' = Owing("debt")
  /\ UNCHANGED <<world, collect, first, snapshot, places>>

SnapshotNext ==
  \/ Commit \/ EditTracked
  \/ \E f \in Files : WriteFile(f) \/ RemoveFile(f) \/ AddFile(f)
  \/ \E p \in Paths : PathTaken(p)
  \/ StepRaises
  \/ ReadHead \/ ReadDiff \/ ReadList \/ InspectFile \/ ReadFile \/ FileUnchanged
  \/ Collected
  \/ TargetIsFree \/ StagingMade \/ TryEntered \/ Cloned \/ CheckedOut \/ DiffApplied
  \/ FilesWritten \/ CloneVerified \/ MoveBegins \/ Moved \/ MoveNoted \/ PlaceVerified
  \/ Published
  \/ Withdrawn \/ CleanedUp \/ CleanupFails

SnapshotSpec == SnapshotInit /\ [][SnapshotNext]_snapshotVars

-----------------------------------------------------------------------------
(* A captured workspace is one that existed: the source was in exactly this *)
(* state at one moment of the capture, although its parts were read one     *)
(* after the other and edited meanwhile.  What materialize_workspace        *)
(* returns is that workspace and, when it verifies the source, the one the  *)
(* source still was when the clone was moved to its target.                 *)
SnapshotIsOneMoment ==
  /\ snapshot # NoWorkspace => snapshot \in moments
  /\ build.result = "returned" =>
       /\ build.built = snapshot
       /\ build.verifySource => build.sourceAtMove = snapshot

(* However a materialization ends, its directories are accounted for: an    *)
(* error without cleanup debt leaves none, a debt and an interrupt name     *)
(* every one that is left, none is deleted while a git process may still    *)
(* write to it, and what somebody else put at the paths is his.             *)
LeftoversAccounted ==
  /\ ~Building /\ build.entered =>
       LET left == {p \in Paths : places[p] = "own"}
       IN  /\ build.result = "error" => left = {}
           /\ build.result = "returned" => left \subseteq {"target"}
           /\ build.result \in {"debt", "interrupt"} => left \subseteq build.preserved
  /\ build.gitAlive => build.removed = {}
  /\ \A p \in taken : places[p] = "foreign"
=============================================================================
