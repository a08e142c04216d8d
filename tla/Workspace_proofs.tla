--------------------------- MODULE Workspace_proofs ---------------------------
(***************************************************************************)
(* Trees of files on disk: proofs about WorkspaceSnapshot and about        *)
(* GeneratedTrees.                                                         *)
(***************************************************************************)
EXTENDS WorkspaceSnapshot, GeneratedTrees, WellFoundedInduction, TLAPS

(***************************************************************************)
(* WorkspaceSnapshot: what is captured has existed and what is left is     *)
(* accounted for, however many files there are and however often they are  *)
(* edited.                                                                 *)
(***************************************************************************)

\* v is, or has been, the content of file f...
PastFile(f, v) ==
  v \in 0 .. edits + 1 /\ (v = Absent => f \notin OriginalFiles \/ source.files[f] = Absent)

\* ...and so with the other parts of a workspace.
Past(w) ==
  /\ w.head \in 0 .. edits + 1 /\ w.diff \in 0 .. edits + 1
  /\ \A f \in Files : PastFile(f, w.files[f])

\* Where m and ref differ, the source has left ref for good: HEAD and files never
\* come back, and the diff not before the next commit.
Anchored(m, ref) ==
  /\ m.head = ref.head \/ source.head # ref.head
  /\ m.diff = ref.diff \/ source.diff # ref.diff \/ source.head # ref.head
  /\ \A f \in Files : m.files[f] = ref.files[f] \/ source.files[f] # ref.files[f]

FilesRead ==
  IF collect.at \in {"head", "diff", "list"} THEN {}
  ELSE {f \in Files : f \notin collect.list \/ f < collect.file \/ collect.at = "again"}

\* Where m and ref differ, what was read so far differs from ref too.
Seen(m, ref) ==
  /\ collect.at \notin {"head", "diff"} =>
       m.diff = ref.diff \/ collect.got.diff # ref.diff \/ source.head # ref.head
  /\ \A f \in FilesRead : m.files[f] = ref.files[f] \/ collect.got.files[f] # ref.files[f]

Capturing(for) == build.at = "capture" /\ collect.for = for

\* The file in hand is on the list; one that has left the content it was inspected
\* with does not come back to it.
Cursor ==
  /\ collect.at \in {"file", "read", "recheck"} => collect.file \in collect.list
  /\ collect.at \in {"read", "recheck"} =>
       collect.seen # Absent /\ PastFile(collect.file, collect.seen)
  /\ collect.at = "recheck" =>
       \/ collect.got.files[collect.file] = collect.seen
       \/ source.files[collect.file] # collect.seen

FirstIsPast ==
  Capturing("first") =>
    /\ collect.at # "head" => collect.got.head \in 0 .. edits + 1
    /\ collect.at \notin {"head", "diff"} => collect.got.diff \in 0 .. edits + 1
    /\ \A f \in FilesRead : PastFile(f, collect.got.files[f])

SecondMeetsFirst ==
  Capturing("second") =>
    /\ Past(first)
    /\ \E m \in moments : Anchored(m, first) /\ Seen(m, first)

History == source \in moments /\ Past(source) /\ \A m \in moments : Past(m)

Captured ==
  /\ snapshot = NoWorkspace \/ snapshot \in moments
  /\ \/ build.at \in Stages \ {"capture"}
     \/ \E for \in {"before", "verify", "final"} : Capturing(for)
     => snapshot \in moments

Built ==
  \/ build.at \in {"move", "moved", "renamed", "placed", "published"}
  \/ Capturing("verify") \/ Capturing("final") \/ build.result = "returned"
  => build.built = snapshot

Unfinished == build.at \in Stages => build.result = "none"

FinalMeetsMove ==
  /\ build.at \in {"renamed", "placed"} \/ Capturing("final") =>
       Anchored(build.sourceAtMove, snapshot)
  /\ Capturing("final") => Seen(build.sourceAtMove, snapshot)
  /\ build.at = "published" \/ build.result = "returned" =>
       (build.verifySource => build.sourceAtMove = snapshot)

CaptureInv ==
  /\ SnapshotTypeOK /\ History /\ Cursor /\ FirstIsPast /\ SecondMeetsFirst
  /\ Captured /\ Built /\ Unfinished /\ FinalMeetsMove

-----------------------------------------------------------------------------
\* What an edit may do: HEAD and files only move to contents that never were, and
\* the diff, too, unless HEAD moves.
EditStep ==
  /\ edits' = edits + 1 /\ edits' \in 0 .. MaxEdits
  /\ source' \in Workspaces /\ moments' = moments \cup {source'}
  /\ source'.head = source.head \/ source'.head = edits + 2
  /\ \/ source'.diff \in {source.diff, edits + 2}
     \/ source'.head = edits + 2 /\ source'.diff = Clean
  /\ \A f \in Files :
       \/ source'.files[f] = source.files[f]
       \/ source'.files[f] = edits + 2 /\ (f \in OriginalFiles => source.files[f] # Absent)
       \/ source'.files[f] = Absent /\ f \in OriginalFiles
  /\ UNCHANGED <<collect, first, snapshot, places, taken, build>>

EditAction ==
  Commit \/ EditTracked \/ \E f \in Files : WriteFile(f) \/ RemoveFile(f) \/ AddFile(f)

(* Every edit is an EditStep. *)
LEMMA EditsAreFresh ==
  ASSUME SnapshotTypeOK, EditAction
  PROVE  EditStep
<1>1. /\ source \in [head : Contents, diff : Contents, files : [Files -> Contents]]
      /\ edits \in 0 .. MaxEdits
  BY DEF SnapshotTypeOK, Workspaces
<1>2. ASSUME NEW new, Edited(new)
      PROVE  /\ edits' = edits + 1 /\ edits' \in 0 .. MaxEdits
             /\ source' = new /\ moments' = moments \cup {source'}
             /\ Fresh \in Contents /\ Absent \in Contents /\ Clean \in Contents
             /\ UNCHANGED <<collect, first, snapshot, places, taken, build>>
  BY <1>1, <1>2, SnapshotAssumption DEF Edited, Fresh, Contents, Torn, Absent, Clean
<1>3. CASE Commit
  <2>1. source' = [source EXCEPT !.head = Fresh, !.diff = Clean] BY <1>2, <1>3 DEF Commit
  <2>2. Edited(source') BY <1>3, <2>1 DEF Commit
  <2>3. /\ source' \in Workspaces /\ source'.head = edits + 2 /\ source'.diff = Clean
        /\ source'.files = source.files
    BY <1>1, <1>2, <2>1, <2>2 DEF Workspaces, Fresh
  <2> QED BY <1>2, <2>2, <2>3 DEF EditStep
<1>4. CASE EditTracked BY <1>1, <1>2, <1>4 DEF EditTracked, EditStep, Fresh, Workspaces
<1>5. ASSUME NEW f \in Files, WriteFile(f)
      PROVE  EditStep
  BY <1>1, <1>2, <1>5 DEF WriteFile, EditStep, Fresh, Workspaces
<1>6. ASSUME NEW f \in Files, RemoveFile(f)
      PROVE  EditStep
  <2>1. Edited([source EXCEPT !.files[f] = Absent]) /\ f \in OriginalFiles
    BY <1>6 DEF RemoveFile
  <2>2. /\ source' \in Workspaces /\ source'.head = source.head
        /\ source'.diff = source.diff
        /\ source'.files = [source.files EXCEPT ![f] = Absent]
    BY <1>1, <1>2, <2>1 DEF Workspaces
  <2> QED BY <1>1, <1>2, <2>1, <2>2 DEF EditStep
<1>7. ASSUME NEW f \in Files, AddFile(f)
      PROVE  EditStep
  <2>1. Edited([source EXCEPT !.files[f] = Absent, !.diff = Fresh]) /\ f \in OriginalFiles
    BY <1>7 DEF AddFile
  <2> DEFINE removed == [source EXCEPT !.files[f] = Absent]
  <2>2. removed = [head |-> source.head, diff |-> source.diff,
                   files |-> [source.files EXCEPT ![f] = Absent]]
    BY <1>1
  <2>3. source' = [removed EXCEPT !.diff = Fresh] BY <1>2, <2>1
  <2>4. source' = [head |-> source.head, diff |-> Fresh,
                   files |-> [source.files EXCEPT ![f] = Absent]]
    BY <2>2, <2>3
  <2>5. [source.files EXCEPT ![f] = Absent] \in [Files -> Contents] BY <1>1, <1>2, <2>1
  <2>6. /\ source' \in Workspaces /\ source'.head = source.head
        /\ source'.diff = edits + 2
        /\ source'.files = [source.files EXCEPT ![f] = Absent]
    BY <1>1, <1>2, <2>1, <2>4, <2>5 DEF Workspaces, Fresh
  <2> QED BY <1>1, <1>2, <2>1, <2>6 DEF EditStep
<1> QED BY <1>3, <1>4, <1>5, <1>6, <1>7 DEF EditAction

(* A set of natural numbers that is not empty has a least member. *)
LEMMA LeastExists ==
  ASSUME NEW S \in SUBSET Nat, S # {}
  PROVE  \E g \in S : \A h \in S : g <= h
<1>1. PICK g \in S : \A h \in S : ~ (<<h, g>> \in OpToRel(<, Nat))
  BY NatLessThanWellFounded, WFMin
<1>2. \A h \in S : ~ (h < g) BY <1>1 DEF OpToRel
<1>3. \A h \in S : g <= h
  <2> TAKE h \in S
  <2>1. g \in Nat /\ h \in Nat /\ ~ (h < g) BY <1>2
  <2> QED BY <2>1
<1> QED BY <1>3

\* Onto goes on with the next file of the list, or with HEAD.
LEMMA OntoNext ==
  ASSUME NEW c, NEW n \in Nat,
         c \in CollectStates
  PROVE  /\ Onto(c, n) \in CollectStates
         /\ Onto(c, n).for = c.for /\ Onto(c, n).got = c.got /\ Onto(c, n).list = c.list
         /\ \/ /\ Onto(c, n).at = "again" /\ \A g \in c.list : g < n
            \/ /\ Onto(c, n).at = "file" /\ Onto(c, n).file \in c.list
               /\ Onto(c, n).file >= n
               /\ \A g \in c.list : g >= n => Onto(c, n).file <= g
<1> USE DEF CollectStates
<1> DEFINE rest == {g \in c.list : g >= n}
<1>1. rest \in SUBSET Nat /\ Absent \in Contents /\ "again" \in CollectSteps
      /\ "file" \in CollectSteps
  BY SnapshotAssumption DEF Files, Contents, Absent, Torn, CollectSteps
<1>2. CASE rest = {}
  <2>1. Onto(c, n) = [c EXCEPT !.at = "again", !.file = 1, !.seen = Absent] BY <1>2 DEF Onto
  <2>2. \A g \in c.list : g \in Nat /\ g < n BY <1>2 DEF Files
  <2>3. Onto(c, n) = [for |-> c.for, at |-> "again", got |-> c.got, list |-> c.list,
                      file |-> 1, seen |-> Absent]
    BY <2>1
  <2> QED BY <1>1, <2>2, <2>3
<1>3. CASE rest # {}
  <2> DEFINE least == CHOOSE g \in rest : \A h \in rest : g <= h
  <2>1. least \in rest /\ \A h \in rest : least <= h BY <1>1, <1>3, LeastExists
  <2>2. Onto(c, n) = [c EXCEPT !.at = "file", !.seen = Absent, !.file = least] BY <1>3 DEF Onto
  <2>3. Onto(c, n) = [for |-> c.for, at |-> "file", got |-> c.got, list |-> c.list,
                      file |-> least, seen |-> Absent]
    BY <2>2
  <2>4. least \in c.list /\ least >= n /\ least \in Files \cup {1}
        /\ \A g \in c.list : g >= n => least <= g
    BY <2>1
  <2> HIDE DEF least
  <2> QED BY <1>1, <2>3, <2>4
<1> QED BY <1>2, <1>3

-----------------------------------------------------------------------------
(* At the start and after every step of anybody the variables have their types. *)
LEMMA InitType == SnapshotInit => SnapshotTypeOK
<1> SUFFICES ASSUME SnapshotInit PROVE SnapshotTypeOK OBVIOUS
<1>1. Torn \in Contents /\ 0 \in Contents /\ 1 \in Contents /\ edits \in 0 .. MaxEdits
  BY SnapshotAssumption DEF SnapshotInit, Contents, Torn
<1>2. source \in Workspaces /\ NoWorkspace \in Workspaces
  BY <1>1 DEF SnapshotInit, Workspaces, NoWorkspace, Absent, Clean
<1>3. collect \in CollectStates
  BY <1>1, <1>2 DEF SnapshotInit, CollectStates, Resting, Collects, CollectSteps, Absent
<1>4. build \in Builds BY <1>2 DEF SnapshotInit, Builds, Stages
<1> QED BY <1>1, <1>2, <1>3, <1>4 DEF SnapshotInit, SnapshotTypeOK

(* The locals of a call that ended, however it did, have their types. *)
LEMMA EndTypes ==
  ASSUME SnapshotTypeOK
  PROVE  /\ \A result \in {"none", "returned", "error", "debt", "interrupt"} :
              Over(result) \in Builds /\ Owing(result) \in Builds
         /\ AfterError \in Builds /\ AfterBoundary \in Builds
         /\ \A alive \in BOOLEAN : [AfterInterrupt EXCEPT !.gitAlive = alive] \in Builds
<1> USE DEF SnapshotTypeOK
<1>1. Preserved \in SUBSET Paths BY DEF Preserved, Existing
<1>2. ASSUME NEW result \in {"none", "returned", "error", "debt", "interrupt"}
      PROVE  Over(result) \in Builds /\ Owing(result) \in Builds
  <2>1. Over(result) \in Builds BY DEF Over, Builds
  <2> QED BY <1>1, <2>1 DEF Owing, Builds
<1>3. /\ [build EXCEPT !.at = "withdraw", !.result = "error"] \in Builds
      /\ [build EXCEPT !.at = "cleanup", !.result = "error"] \in Builds
  BY DEF Builds
<1>4. AfterError \in Builds BY <1>2, <1>3 DEF AfterError
<1>5. AfterBoundary \in Builds
  <2>1. \A b \in Builds : [b EXCEPT !.gitAlive = TRUE] \in Builds BY DEF Builds
  <2> QED BY <1>2, <2>1 DEF AfterBoundary
<1>6. ASSUME NEW alive \in BOOLEAN
      PROVE  [AfterInterrupt EXCEPT !.gitAlive = alive] \in Builds
  <2>1. \A b \in Builds : [b EXCEPT !.gitAlive = alive] \in Builds BY DEF Builds
  <2>2. AfterInterrupt \in Builds BY <1>2 DEF AfterInterrupt
  <2> QED BY <2>1, <2>2
<1> QED BY <1>2, <1>4, <1>5, <1>6

(* Every step, of the call or of somebody else, keeps the types. *)
LEMMA TypeStep ==
  SnapshotTypeOK /\ Cursor /\ [SnapshotNext]_snapshotVars => SnapshotTypeOK'
<1> SUFFICES ASSUME SnapshotTypeOK, Cursor, [SnapshotNext]_snapshotVars
             PROVE  SnapshotTypeOK'
  OBVIOUS
<1> USE DEF SnapshotTypeOK
<1>0. /\ \A for \in Collects : Begin(for) \in CollectStates
      /\ \A stage \in Stages : Go(stage) \in Builds
      /\ Resting \in CollectStates /\ NoWorkspace \in Workspaces
  <2>1. Torn \in Contents /\ 0 \in Contents BY SnapshotAssumption DEF Contents, Torn
  <2>2. NoWorkspace \in Workspaces BY <2>1 DEF Workspaces, NoWorkspace
  <2>3. Resting \in CollectStates
    BY <2>1, <2>2 DEF CollectStates, Resting, Collects, CollectSteps, Absent
  <2>4. \A for \in Collects : Begin(for) \in CollectStates BY <2>3 DEF Begin, CollectStates
  <2>5. \A stage \in Stages : Go(stage) \in Builds BY DEF Go, Builds
  <2> QED BY <2>2, <2>3, <2>4, <2>5
<1>1. CASE EditAction BY <1>1, EditsAreFresh DEF EditStep
<1>2. CASE \E p \in Paths : PathTaken(p) BY <1>2 DEF PathTaken
<1>3. CASE StepRaises
  <2>1. build' \in Builds
    <3>1. CASE \E alive \in BOOLEAN : build' = [AfterInterrupt EXCEPT !.gitAlive = alive]
      BY <3>1, EndTypes
    <3>2. CASE build' = AfterError \/ build' = AfterBoundary BY <3>2, EndTypes
    <3> QED BY <1>3, <3>1, <3>2 DEF StepRaises
  <2> QED BY <1>3, <2>1 DEF StepRaises, world
<1>4. CASE ReadHead BY <1>4 DEF ReadHead, world, Got, CollectStates, CollectSteps, Workspaces
<1>5. CASE ReadDiff BY <1>5 DEF ReadDiff, world, Got, CollectStates, CollectSteps, Workspaces
<1>6. CASE ReadList
  <2> DEFINE list == {f \in Files : source.files[f] # Absent}
             listed == [Got("file", "files", [f \in Files |-> Absent]) EXCEPT !.list = list]
  <2>1. [f \in Files |-> Absent] \in [Files -> Contents]
    BY SnapshotAssumption DEF Contents, Torn, Absent
  <2>2. listed \in CollectStates BY <2>1 DEF Got, CollectStates, CollectSteps, Workspaces
  <2>3. Onto(listed, 1) \in CollectStates BY <2>2, OntoNext
  <2> QED BY <1>6, <2>3 DEF ReadList, world
<1>7. CASE InspectFile
  <2>1. source.files[collect.file] \in Contents
    BY <1>7 DEF InspectFile, Collecting, Cursor, CollectStates, Workspaces
  <2> QED BY <1>7, <2>1 DEF InspectFile, world, CollectStates, CollectSteps
<1>8. CASE ReadFile
  <2>1. collect.file \in Files /\ source.files[collect.file] \in Contents
    BY <1>8 DEF ReadFile, Collecting, Cursor, CollectStates, Workspaces
  <2> QED BY <1>8, <2>1 DEF ReadFile, world, CollectStates, CollectSteps, Workspaces
<1>9. CASE FileUnchanged
  <2>1. /\ collect.file \in Files /\ Torn \in Contents
        /\ collect.file + 1 \in Nat
    BY <1>9, SnapshotAssumption
       DEF FileUnchanged, Collecting, Cursor, CollectStates, Contents, Torn, Files
  <2>2. Read \in Contents BY <2>1 DEF Read, CollectStates, Workspaces
  <2> DEFINE read == [collect EXCEPT !.got.files[collect.file] = Read]
  <2>3. read \in CollectStates BY <2>1, <2>2 DEF CollectStates, Workspaces
  <2>4. Onto(read, collect.file + 1) \in CollectStates BY <2>1, <2>3, OntoNext
  <2> QED BY <1>9, <2>4 DEF FileUnchanged, world
<1>10. CASE Collected
  BY <1>0, <1>10 DEF Collected, world, AfterMatch, CollectStates, Collects, Stages
<1>11. CASE TargetIsFree \/ CloneVerified \/ PlaceVerified
  BY <1>0, <1>11 DEF TargetIsFree, CloneVerified, PlaceVerified, Compare, world, Collects, Stages
<1>12. CASE StagingMade BY <1>0, <1>12 DEF StagingMade, world, Stages
<1>13. CASE TryEntered \/ Cloned
  <2>1. build' \in Builds
    <3>1. places["staging"] \in {"absent", "own", "foreign"} BY DEF Paths
    <3>2. CASE TryEntered BY <3>2 DEF TryEntered, Stages, Builds
    <3>3. CASE Cloned BY <3>1, <3>3 DEF Cloned, Stages, Builds
    <3> QED BY <1>13, <3>2, <3>3
  <2> QED BY <1>13, <2>1 DEF TryEntered, Cloned, world
<1>14. CASE CheckedOut
  <2>1. build' \in Builds BY <1>14 DEF CheckedOut, Stages, Builds, Workspaces
  <2> QED BY <1>14, <2>1 DEF CheckedOut, world
<1>15. CASE DiffApplied
  <2>1. build' \in Builds
    <3>1. PICK diff \in {snapshot.diff, Torn} :
            build' = [build EXCEPT !.at = "files", !.built.diff = diff]
      BY <1>15 DEF DiffApplied
    <3>2. diff \in Contents BY <3>1, SnapshotAssumption DEF Workspaces, Contents, Torn
    <3>3. [build.built EXCEPT !.diff = diff] \in Workspaces BY <3>2 DEF Workspaces, Builds
    <3> QED BY <3>1, <3>3 DEF Builds, Stages
  <2> QED BY <1>15, <2>1 DEF DiffApplied, world
<1>16. CASE FilesWritten
  <2>1. build' \in Builds BY <1>16 DEF FilesWritten, Stages, Builds, Workspaces
  <2> QED BY <1>16, <2>1 DEF FilesWritten, world
<1>17. CASE MoveBegins \/ Moved
  <2>1. build' \in Builds
    <3>1. CASE MoveBegins BY <3>1 DEF MoveBegins, Stages, Builds
    <3>2. CASE Moved BY <3>2 DEF Moved, Stages, Builds
    <3> QED BY <1>17, <3>1, <3>2
  <2>2. places' \in [Paths -> {"absent", "own", "foreign"}] BY <1>17 DEF MoveBegins, Moved
  <2> QED BY <1>17, <2>1, <2>2 DEF MoveBegins, Moved, world
<1>18. CASE MoveNoted \/ Published
  <2>1. build' \in Builds
    <3>1. CASE MoveNoted BY <3>1 DEF MoveNoted, Stages, Builds
    <3>2. CASE Published BY <3>2 DEF Published, Builds
    <3> QED BY <1>18, <3>1, <3>2
  <2> QED BY <1>18, <2>1 DEF MoveNoted, Published, world
<1>19. CASE Withdrawn \/ CleanedUp
  <2>1. build' \in Builds
    <3>1. /\ build.removed \cup {"target"} \in SUBSET Paths
          /\ build.removed \cup {"staging"} \in SUBSET Paths
      BY DEF Paths, Builds
    <3>2. CASE Withdrawn BY <3>1, <3>2 DEF Withdrawn, Builds
    <3>3. CASE CleanedUp BY <3>1, <3>3 DEF CleanedUp, Builds
    <3> QED BY <1>19, <3>2, <3>3
  <2>2. places' \in [Paths -> {"absent", "own", "foreign"}]
    BY <1>19 DEF Withdrawn, CleanedUp, RemovedOwn
  <2> QED BY <1>19, <2>1, <2>2 DEF Withdrawn, CleanedUp, world
<1>20. CASE CleanupFails BY <1>20, EndTypes DEF CleanupFails, world
<1>21. CASE UNCHANGED snapshotVars BY <1>21 DEF snapshotVars
<1> QED BY <1>1, <1>2, <1>3, <1>4, <1>5, <1>6, <1>7, <1>8, <1>9, <1>10, <1>11, <1>12, <1>13,
     <1>14, <1>15, <1>16, <1>17, <1>18, <1>19, <1>20, <1>21 DEF SnapshotNext, EditAction

-----------------------------------------------------------------------------
(* An edit leaves what was true of the past and of what is lost. *)
LEMMA LostForGood ==
  ASSUME SnapshotTypeOK, EditStep, NEW f \in Files, NEW v, PastFile(f, v)
  PROVE  /\ v \in 0 .. edits' + 1
         /\ v = Absent => f \notin OriginalFiles \/ source'.files[f] = Absent
         /\ source.files[f] # v => source'.files[f] # v
<1>1. edits \in Nat /\ edits' = edits + 1 /\ v \in 0 .. edits + 1
  BY SnapshotAssumption DEF SnapshotTypeOK, EditStep, PastFile
<1>2. \/ source'.files[f] = source.files[f]
      \/ source'.files[f] = edits + 2 /\ (f \in OriginalFiles => source.files[f] # Absent)
      \/ source'.files[f] = Absent /\ f \in OriginalFiles
  BY DEF EditStep
<1>3. v = Absent => f \notin OriginalFiles \/ source.files[f] = Absent BY DEF PastFile
<1> QED BY <1>1, <1>2, <1>3 DEF Absent

(* HEAD does not come back, and the diff not without HEAD moving. *)
LEMMA HeadAndDiffLost ==
  ASSUME SnapshotTypeOK, EditStep, NEW h \in 0 .. edits + 1, NEW d \in 0 .. edits + 1
  PROVE  /\ h \in 0 .. edits' + 1 /\ d \in 0 .. edits' + 1
         /\ source.head # h => source'.head # h
         /\ source.diff # d \/ source.head # h => source'.diff # d \/ source'.head # h
<1>1. edits \in Nat /\ edits' = edits + 1 BY SnapshotAssumption DEF SnapshotTypeOK, EditStep
<1> QED BY <1>1 DEF EditStep

(* After an edit the source is one of the moments, and all of them are past. *)
LEMMA EditHistory ==
  ASSUME SnapshotTypeOK, EditStep, History
  PROVE  History'
<1>1. edits \in Nat /\ edits' = edits + 1 /\ source \in moments /\ Past(source)
  BY SnapshotAssumption DEF SnapshotTypeOK, EditStep, History
<1>2. source' \in moments' /\ moments' = moments \cup {source'} BY DEF EditStep
<1>3. Past(source)'
  <2>1. source'.head \in 0 .. edits' + 1 /\ source'.diff \in 0 .. edits' + 1
    BY <1>1 DEF EditStep, Past, Clean
  <2>2. ASSUME NEW f \in Files
        PROVE  PastFile(f, source.files[f])'
    <3>1. source'.files[f] \in {source.files[f], edits + 2, Absent} BY DEF EditStep
    <3> QED BY <1>1, <3>1 DEF Past, PastFile, Absent
  <2> QED BY <2>1, <2>2 DEF Past
<1>4. ASSUME NEW m \in moments
      PROVE  Past(m)'
  <2>1. Past(m) BY DEF History
  <2> QED BY <2>1, HeadAndDiffLost, LostForGood DEF Past, PastFile
<1> QED BY <1>2, <1>3, <1>4 DEF History

\* In the form in which the invariants use it.
LEMMA AnchorHolds ==
  ASSUME SnapshotTypeOK, EditStep, NEW m, NEW ref, Past(ref), Anchored(m, ref)
  PROVE  /\ ref.head \in 0 .. edits' + 1 /\ ref.diff \in 0 .. edits' + 1
         /\ \A f \in Files : /\ ref.files[f] \in 0 .. edits' + 1
                             /\ ref.files[f] = Absent =>
                                  f \notin OriginalFiles \/ source'.files[f] = Absent
         /\ m.head = ref.head \/ source'.head # ref.head
         /\ m.diff = ref.diff \/ source'.diff # ref.diff \/ source'.head # ref.head
         /\ \A f \in Files : m.files[f] = ref.files[f] \/ source'.files[f] # ref.files[f]
         /\ source.head # ref.head => source'.head # ref.head
<1>1. ref.head \in 0 .. edits + 1 /\ ref.diff \in 0 .. edits + 1 BY DEF Past
<1>2. \A f \in Files : /\ ref.files[f] \in 0 .. edits' + 1
                       /\ ref.files[f] = Absent =>
                            f \notin OriginalFiles \/ source'.files[f] = Absent
                       /\ source.files[f] # ref.files[f] => source'.files[f] # ref.files[f]
  BY LostForGood DEF Past
<1> QED BY <1>1, <1>2, HeadAndDiffLost DEF Anchored

(* No edit disturbs what is known of the parts that were read. *)
LEMMA EditKeeps ==
  ASSUME CaptureInv, EditStep
  PROVE  /\ History' /\ Cursor' /\ FirstIsPast' /\ SecondMeetsFirst' /\ Captured' /\ Built'
         /\ Unfinished' /\ FinalMeetsMove'
<1> USE DEF CaptureInv
<1>1. /\ UNCHANGED <<collect, first, snapshot, places, taken, build>>
      /\ moments' = moments \cup {source'} /\ edits \in Nat /\ edits' = edits + 1
  BY SnapshotAssumption DEF SnapshotTypeOK, EditStep
<1>2. History' BY EditHistory
<1>3. Cursor'
  <2>1. collect.list \in SUBSET Files BY DEF SnapshotTypeOK, CollectStates
  <2>2. CASE collect.at \in {"read", "recheck"}
    <3>1. collect.file \in Files /\ PastFile(collect.file, collect.seen) /\ collect.seen # Absent
      BY <2>1, <2>2 DEF Cursor
    <3>2. /\ collect.seen \in 0 .. edits' + 1
          /\ source.files[collect.file] # collect.seen
               => source'.files[collect.file] # collect.seen
      BY <3>1, LostForGood
    <3> QED BY <1>1, <3>1, <3>2 DEF Cursor, PastFile
  <2> QED BY <1>1, <2>2 DEF Cursor
<1>4. FirstIsPast'
  <2> SUFFICES ASSUME Capturing("first")
               PROVE  FirstIsPast'
    BY <1>1 DEF FirstIsPast, Capturing
  <2>1. FilesRead' = FilesRead BY <1>1 DEF FilesRead
  <2>2. ASSUME NEW f \in FilesRead
        PROVE  PastFile(f, collect.got.files[f])'
    <3>1. f \in Files /\ PastFile(f, collect.got.files[f]) BY DEF FilesRead, FirstIsPast
    <3> QED BY <1>1, <3>1, LostForGood DEF PastFile
  <2>3. \A x \in 0 .. edits + 1 : x \in 0 .. edits' + 1 BY <1>1
  <2> QED BY <1>1, <2>1, <2>2, <2>3 DEF FirstIsPast, Capturing
<1>5. SecondMeetsFirst'
  <2> SUFFICES ASSUME Capturing("second")
               PROVE  SecondMeetsFirst'
    BY <1>1 DEF SecondMeetsFirst, Capturing
  <2>1. PICK m \in moments : Anchored(m, first) /\ Seen(m, first) BY DEF SecondMeetsFirst
  <2>2. Past(first) BY DEF SecondMeetsFirst
  <2>3. Past(first)' BY <1>1, <2>1, <2>2, AnchorHolds DEF Past, PastFile
  <2>4. Anchored(m, first)' BY <1>1, <2>1, <2>2, AnchorHolds DEF Anchored
  <2>5. Seen(m, first)' BY <1>1, <2>1, <2>2, AnchorHolds DEF Seen, FilesRead
  <2> QED BY <1>1, <2>1, <2>3, <2>4, <2>5 DEF SecondMeetsFirst
<1>6. Captured' /\ Built' /\ Unfinished' BY <1>1 DEF Captured, Built, Unfinished, Capturing
<1>7. FinalMeetsMove'
  <2>1. CASE build.at \in {"renamed", "placed"} \/ Capturing("final")
    <3> DEFINE m == build.sourceAtMove
    <3>1. Past(snapshot) /\ Anchored(m, snapshot)
      BY <2>1 DEF Captured, History, FinalMeetsMove, Stages
    <3>2. Anchored(m, snapshot)' BY <1>1, <3>1, AnchorHolds DEF Anchored
    <3>3. Seen(m, snapshot) => Seen(m, snapshot)' BY <1>1, <3>1, AnchorHolds DEF Seen, FilesRead
    <3> QED BY <1>1, <3>2, <3>3 DEF FinalMeetsMove, Capturing
  <2> QED BY <1>1, <2>1 DEF FinalMeetsMove, Capturing
<1> QED BY <1>2, <1>3, <1>4, <1>5, <1>6, <1>7

-----------------------------------------------------------------------------
\* A step of the capture: what it adds to the parts that were read is what the
\* source is now.
ReadStep ==
  /\ build.at = "capture" /\ collect'.for = collect.for /\ collect' \in CollectStates
  /\ UNCHANGED <<world, first, snapshot, places, build>>
  /\ \/ collect.at = "head" /\ collect'.at = "diff" /\ collect'.got.head = source.head
     \/ /\ collect'.at \notin {"head", "diff"} /\ collect'.got.head = collect.got.head
        /\ collect'.got.diff = IF collect.at = "diff" THEN source.diff ELSE collect.got.diff
        /\ collect.at # "head"
  /\ \A f \in FilesRead' :
       \/ f \in FilesRead /\ collect'.got.files[f] = collect.got.files[f]
       \/ collect'.got.files[f] = source.files[f]

ReadAction ==
  ReadHead \/ ReadDiff \/ ReadList \/ InspectFile \/ ReadFile \/ FileUnchanged

(* A step of a capture reads what is there, or what was there and has gone. *)
LEMMA ReadsWhatIs ==
  ASSUME CaptureInv, ReadAction, SnapshotTypeOK'
  PROVE  ReadStep /\ Cursor'
<1> USE DEF CaptureInv
<1>0. /\ collect \in CollectStates /\ collect.list \in SUBSET Files
      /\ collect' \in CollectStates /\ source \in Workspaces
  BY DEF SnapshotTypeOK, CollectStates
<1>1. CASE ReadHead
  <2>1. collect' = [collect EXCEPT !.at = "diff", !.got.head = source.head]
    BY <1>1 DEF ReadHead, Got
  <2>2. collect'.at = "diff" /\ collect'.for = collect.for /\ collect'.got.head = source.head
    BY <1>0, <2>1 DEF CollectStates, Workspaces
  <2> QED BY <1>0, <1>1, <2>2 DEF ReadHead, Collecting, ReadStep, FilesRead, Cursor
<1>2. CASE ReadDiff
  <2>1. collect' = [collect EXCEPT !.at = "list", !.got.diff = source.diff]
    BY <1>2 DEF ReadDiff, Got
  <2>2. /\ collect'.at = "list" /\ collect'.for = collect.for
        /\ collect'.got.diff = source.diff /\ collect'.got.head = collect.got.head
    BY <1>0, <2>1 DEF CollectStates, Workspaces
  <2> QED BY <1>0, <1>2, <2>2 DEF ReadDiff, Collecting, ReadStep, FilesRead, Cursor
<1>3. CASE ReadList
  <2> DEFINE list == {f \in Files : source.files[f] # Absent}
             empty == [f \in Files |-> Absent]
             listed == [Got("file", "files", empty) EXCEPT !.list = list]
  <2>1. collect' = Onto(listed, 1) /\ collect.at = "list" /\ build.at = "capture"
        /\ UNCHANGED <<world, first, snapshot, places, build>>
    BY <1>3 DEF ReadList, Collecting
  <2>2. empty \in [Files -> Contents] BY SnapshotAssumption DEF Contents, Torn, Absent
  <2>3. /\ listed \in CollectStates /\ listed.for = collect.for /\ listed.list = list
        /\ listed.got.head = collect.got.head /\ listed.got.diff = collect.got.diff
        /\ listed.got.files = empty
    BY <1>0, <2>2 DEF Got, CollectStates, CollectSteps, Workspaces
  <2> HIDE DEF listed
  <2>4. /\ collect'.for = collect.for /\ collect'.got = listed.got /\ collect'.list = list
        /\ \/ collect'.at = "again" /\ \A g \in list : g < 1
           \/ /\ collect'.at = "file" /\ collect'.file \in list
              /\ \A g \in list : g >= 1 => collect'.file <= g
    BY <2>1, <2>3, OntoNext
  <2>5. Cursor' BY <2>4 DEF Cursor
  <2>6. ASSUME NEW f \in FilesRead'
        PROVE  collect'.got.files[f] = source.files[f]
    <3>1. f \in Files /\ f >= 1 /\ f \in Nat /\ collect'.file \in Files \cup {1}
      BY <1>0, <2>4 DEF FilesRead, Files, CollectStates
    <3>2. f \notin list BY <2>4, <3>1 DEF FilesRead, Files
    <3> QED BY <2>3, <2>4, <3>1, <3>2
  <2> QED BY <1>0, <2>1, <2>3, <2>4, <2>5, <2>6 DEF ReadStep
<1>4. CASE InspectFile
  <2>1. /\ collect' = [collect EXCEPT !.at = "read", !.seen = source.files[collect.file]]
        /\ collect.at = "file" /\ build.at = "capture"
        /\ source.files[collect.file] # Absent
        /\ UNCHANGED <<world, first, snapshot, places, build>>
    BY <1>4 DEF InspectFile, Collecting
  <2>2. /\ collect'.at = "read" /\ collect'.for = collect.for /\ collect'.got = collect.got
        /\ collect'.list = collect.list /\ collect'.file = collect.file
        /\ collect'.seen = source.files[collect.file]
    BY <1>0, <2>1 DEF CollectStates
  <2>3. collect.file \in collect.list /\ collect.file \in Files BY <1>0, <2>1 DEF Cursor
  <2>4. FilesRead' = FilesRead BY <2>1, <2>2 DEF FilesRead
  <2>5. Cursor' BY <2>1, <2>2, <2>3 DEF Cursor, PastFile, History, Past, world
  <2> QED BY <1>0, <2>1, <2>2, <2>4, <2>5 DEF ReadStep
<1>5. CASE ReadFile
  <2> DEFINE now == source.files[collect.file]
             value == IF now = Absent THEN collect.seen ELSE now
  <2>1. /\ collect' = [collect EXCEPT !.at = "recheck", !.got.files[collect.file] = value]
        /\ collect.at = "read" /\ build.at = "capture"
        /\ UNCHANGED <<world, first, snapshot, places, build>>
    BY <1>5 DEF ReadFile, Collecting
  <2>2. collect.file \in collect.list /\ collect.file \in Files BY <1>0, <2>1 DEF Cursor
  <2>3. /\ collect'.at = "recheck" /\ collect'.for = collect.for
        /\ collect'.got.head = collect.got.head /\ collect'.got.diff = collect.got.diff
        /\ collect'.got.files = [collect.got.files EXCEPT ![collect.file] = value]
        /\ collect'.list = collect.list /\ collect'.file = collect.file
        /\ collect'.seen = collect.seen
    BY <1>0, <2>1 DEF CollectStates, Workspaces
  <2>4. collect.got.files \in [Files -> Contents] BY <1>0 DEF CollectStates, Workspaces
  <2>5. collect'.got.files[collect.file] = value BY <2>2, <2>3, <2>4
  <2>6. Cursor' BY <2>1, <2>2, <2>3, <2>5 DEF Cursor, PastFile, world
  <2>7. ASSUME NEW f \in FilesRead'
        PROVE  f \in FilesRead /\ collect'.got.files[f] = collect.got.files[f]
    <3>1. f \in FilesRead /\ f # collect.file /\ f \in Files
      BY <2>1, <2>2, <2>3 DEF FilesRead, Files
    <3> QED BY <2>3, <2>4, <3>1
  <2> QED BY <1>0, <2>1, <2>3, <2>6, <2>7 DEF ReadStep
<1>6. CASE FileUnchanged
  <2> DEFINE read == [collect EXCEPT !.got.files[collect.file] = Read]
  <2>1. /\ collect' = Onto(read, collect.file + 1)
        /\ collect.at = "recheck" /\ build.at = "capture"
        /\ source.files[collect.file] = collect.seen
        /\ UNCHANGED <<world, first, snapshot, places, build>>
    BY <1>6 DEF FileUnchanged, Collecting
  <2>2. /\ collect.file \in collect.list /\ collect.file \in Files /\ collect.file \in Nat
        /\ collect.file + 1 \in Nat
    BY <1>0, <2>1 DEF Cursor, Files
  <2>3. Read = source.files[collect.file] BY <2>1 DEF Cursor, Read
  <2>4. collect.got.files \in [Files -> Contents] /\ Read \in Contents
    BY <1>0, <2>2, <2>3 DEF CollectStates, Workspaces
  <2>5. /\ read \in CollectStates /\ read.for = collect.for /\ read.list = collect.list
        /\ read.got.head = collect.got.head /\ read.got.diff = collect.got.diff
        /\ read.got.files = [collect.got.files EXCEPT ![collect.file] = Read]
    BY <1>0, <2>4 DEF CollectStates, Workspaces
  <2> HIDE DEF read
  <2>6. /\ collect'.for = collect.for /\ collect'.got = read.got
        /\ collect'.list = collect.list
        /\ \/ collect'.at = "again" /\ \A g \in collect.list : g < collect.file + 1
           \/ /\ collect'.at = "file" /\ collect'.file \in collect.list
              /\ \A g \in collect.list : g >= collect.file + 1 => collect'.file <= g
    BY <2>1, <2>2, <2>5, OntoNext
  <2>7. Cursor' BY <2>6 DEF Cursor
  <2>8. ASSUME NEW f \in FilesRead'
        PROVE  \/ f \in FilesRead /\ collect'.got.files[f] = collect.got.files[f]
               \/ collect'.got.files[f] = source.files[f]
    <3>1. f \in Files /\ f \in Nat BY DEF FilesRead, Files
    <3>2. CASE f = collect.file BY <2>2, <2>3, <2>4, <2>5, <2>6, <3>2
    <3>3. CASE f # collect.file
      <4>1. collect'.got.files[f] = collect.got.files[f] BY <2>4, <2>5, <2>6, <3>1, <3>3
      <4>2. f \in collect.list => f < collect.file + 1
        <5>1. CASE collect'.at = "again" BY <2>6, <5>1
        <5>2. CASE collect'.at = "file"
          <6>1. f \in collect.list => f < collect'.file /\ collect'.file \in Nat
            BY <1>0, <2>6, <5>2 DEF FilesRead, Files
          <6> QED BY <2>2, <2>6, <3>1, <5>2, <6>1
        <5> QED BY <2>6, <5>1, <5>2
      <4>3. f \in FilesRead BY <2>1, <2>2, <3>1, <3>3, <4>2 DEF FilesRead
      <4> QED BY <4>1, <4>3
    <3> QED BY <3>2, <3>3
  <2> QED BY <1>0, <2>1, <2>5, <2>6, <2>7, <2>8 DEF ReadStep
<1> QED BY <1>1, <1>2, <1>3, <1>4, <1>5, <1>6 DEF ReadAction

\* What differs from ref when it is read was lost before.
LEMMA SeenHolds ==
  ASSUME ReadStep, NEW m, NEW ref, Anchored(m, ref), Seen(m, ref)
  PROVE  /\ collect'.at \notin {"head", "diff"} =>
              m.diff = ref.diff \/ collect'.got.diff # ref.diff \/ source.head # ref.head
         /\ \A f \in FilesRead' :
              m.files[f] = ref.files[f] \/ collect'.got.files[f] # ref.files[f]
<1>1. ASSUME NEW f \in FilesRead'
      PROVE  m.files[f] = ref.files[f] \/ collect'.got.files[f] # ref.files[f]
  <2>1. f \in Files BY DEF FilesRead
  <2> QED BY <2>1 DEF ReadStep, Anchored, Seen
<1> QED BY <1>1 DEF ReadStep, Anchored, Seen

(* Nor does a step of a capture. *)
LEMMA ReadKeeps ==
  ASSUME CaptureInv, ReadStep
  PROVE  /\ History' /\ FirstIsPast' /\ SecondMeetsFirst' /\ Captured' /\ Built'
         /\ Unfinished' /\ FinalMeetsMove'
<1> USE DEF CaptureInv
<1>1. /\ UNCHANGED <<source, edits, moments, first, snapshot, build>>
      /\ collect'.for = collect.for /\ build.at = "capture"
  BY DEF ReadStep, world
<1>2. History' /\ Captured' /\ Built' /\ Unfinished'
  BY <1>1 DEF History, Past, PastFile, Captured, Built, Unfinished, Capturing
<1>3. FirstIsPast'
  <2> SUFFICES ASSUME Capturing("first")
               PROVE  FirstIsPast'
    BY <1>1 DEF FirstIsPast, Capturing
  <2>1. ASSUME NEW f \in FilesRead'
        PROVE  PastFile(f, collect.got.files[f])'
    <3>1. f \in Files BY DEF FilesRead
    <3> QED BY <1>1, <3>1 DEF ReadStep, FirstIsPast, PastFile, History, Past
  <2>2. collect'.at # "head" => collect'.got.head \in 0 .. edits + 1
    BY <1>1 DEF ReadStep, FirstIsPast, History, Past
  <2>3. collect'.at \notin {"head", "diff"} => collect'.got.diff \in 0 .. edits + 1
    BY <1>1 DEF ReadStep, FirstIsPast, History, Past
  <2> QED BY <1>1, <2>1, <2>2, <2>3 DEF FirstIsPast
<1>4. SecondMeetsFirst'
  <2> SUFFICES ASSUME Capturing("second")
               PROVE  SecondMeetsFirst'
    BY <1>1 DEF SecondMeetsFirst, Capturing
  <2>1. PICK m \in moments : Anchored(m, first) /\ Seen(m, first) BY DEF SecondMeetsFirst
  <2>2. Past(first)' /\ Anchored(m, first)'
    BY <1>1, <2>1 DEF SecondMeetsFirst, Past, PastFile, Anchored
  <2>3. Seen(m, first)' BY <1>1, <2>1, SeenHolds DEF Seen
  <2> QED BY <1>1, <2>1, <2>2, <2>3 DEF SecondMeetsFirst
<1>5. FinalMeetsMove'
  <2> DEFINE m == build.sourceAtMove
  <2>1. CASE Capturing("final")
    <3>1. Anchored(m, snapshot) /\ Anchored(m, snapshot)'
      BY <1>1, <2>1 DEF FinalMeetsMove, Anchored
    <3>2. Seen(m, snapshot)' BY <1>1, <2>1, <3>1, SeenHolds DEF FinalMeetsMove, Seen
    <3> QED BY <1>1, <3>1, <3>2 DEF FinalMeetsMove, Capturing
  <2> QED BY <1>1, <2>1 DEF FinalMeetsMove, Capturing
<1> QED BY <1>2, <1>3, <1>4, <1>5

-----------------------------------------------------------------------------
\* A capture that equals ref has equalled what the source was between.
LEMMA Meets ==
  ASSUME NEW m \in Workspaces, NEW ref \in Workspaces, Anchored(m, ref), Seen(m, ref),
         collect.at = "again", collect.got = ref, source.head = ref.head
  PROVE  m = ref
<1>1. FilesRead = Files BY DEF FilesRead
<1>2. m.head = ref.head /\ m.diff = ref.diff BY DEF Anchored, Seen
<1>3. m.files = ref.files
  <2>1. \A f \in Files : m.files[f] = ref.files[f] BY <1>1 DEF Seen
  <2>2. m.files \in [Files -> Contents] /\ ref.files \in [Files -> Contents] BY DEF Workspaces
  <2> QED BY <2>1, <2>2
<1> QED BY <1>2, <1>3 DEF Workspaces

(* At the end of a capture what agrees with an earlier one was true all the while. *)
LEMMA CollectedKeeps ==
  ASSUME CaptureInv, Collected, SnapshotTypeOK'
  PROVE  CaptureInv'
<1> USE DEF CaptureInv
<1>0. /\ UNCHANGED <<source, edits, moments>> /\ build.at = "capture" /\ collect.at = "again"
      /\ source.head = collect.got.head /\ FilesRead = Files
      /\ build \in Builds /\ collect \in CollectStates
  BY DEF Collected, Collecting, world, FilesRead, SnapshotTypeOK
<1>1. History' BY <1>0 DEF History, Past, PastFile
<1>2. CASE collect.for = "first" /\ first' = collect.got
            /\ collect' = Begin("second") /\ UNCHANGED <<snapshot, build>>
  <2>1. collect'.for = "second" /\ collect'.at = "head" BY <1>2 DEF Begin, Resting
  <2>2. Past(first)' BY <1>0, <1>2 DEF FirstIsPast, Capturing, Past, PastFile
  <2>3. source' \in moments' /\ Anchored(source, first)' BY <1>0, <1>2 DEF History, Anchored
  <2>4. Seen(source, first)' BY <1>0, <2>1 DEF Seen, FilesRead
  <2>5. SecondMeetsFirst' BY <1>0, <2>2, <2>3, <2>4 DEF SecondMeetsFirst
  <2>6. Cursor' /\ FirstIsPast' BY <2>1 DEF Cursor, FirstIsPast, Capturing
  <2>7. Captured' /\ Built' /\ Unfinished' /\ FinalMeetsMove'
    BY <1>0, <1>2, <2>1 DEF Captured, Built, Unfinished, FinalMeetsMove, Capturing, Stages
  <2> QED BY <1>1, <2>5, <2>6, <2>7
<1>3. CASE collect.for = "second" /\ collect.got = first /\ snapshot' = first
            /\ first' = NoWorkspace /\ collect' = Resting /\ build' = Go("enter")
  <2>1. PICK m \in moments : Anchored(m, first) /\ Seen(m, first)
    BY <1>0, <1>3 DEF SecondMeetsFirst, Capturing
  <2>2. m = first BY <1>0, <1>3, <2>1, Meets DEF SnapshotTypeOK
  <2>3. snapshot' \in moments' BY <1>0, <1>3, <2>1, <2>2
  <2>4. /\ collect'.at = "head" /\ build'.at = "enter" /\ build'.result = build.result
        /\ build'.verifySource = build.verifySource
    BY <1>0, <1>3 DEF Resting, Go, Builds
  <2>5. build.result = "none" BY <1>0 DEF Unfinished, Stages
  <2> QED
    BY <1>1, <2>3, <2>4, <2>5
       DEF Cursor, FirstIsPast, SecondMeetsFirst, Captured, Built, Unfinished,
           FinalMeetsMove, Capturing
<1>4. CASE /\ collect.for \in {"before", "verify", "final"} /\ collect.got = snapshot
           /\ collect' = Resting /\ build' = Go(AfterMatch) /\ UNCHANGED <<first, snapshot>>
  <2>1. /\ collect'.at = "head" /\ build'.at = AfterMatch /\ build'.result = build.result
        /\ build'.verifySource = build.verifySource /\ build'.built = build.built
        /\ build'.sourceAtMove = build.sourceAtMove
    BY <1>0, <1>4 DEF Resting, Go, Builds
  <2>2. snapshot \in moments /\ build.result = "none"
    BY <1>0, <1>4 DEF Captured, Unfinished, Capturing, Stages
  <2>3. AfterMatch \in {"staging", "move", "published"} BY <1>4 DEF AfterMatch
  <2>4. AfterMatch \in {"move", "published"} => build.built = snapshot
    BY <1>0, <1>4 DEF AfterMatch, Built, Capturing
  <2>5. AfterMatch = "published" => build.sourceAtMove = snapshot
    <3> SUFFICES ASSUME collect.for = "final"
                 PROVE  build.sourceAtMove = snapshot
      BY <1>4 DEF AfterMatch
    <3> QED BY <1>0, <1>4, Meets DEF SnapshotTypeOK, Builds, FinalMeetsMove, Capturing
  <2>6. Cursor' /\ FirstIsPast' /\ SecondMeetsFirst'
    BY <2>1, <2>3 DEF Cursor, FirstIsPast, SecondMeetsFirst, Capturing
  <2>7. Captured' /\ Unfinished' BY <1>0, <1>4, <2>1, <2>2 DEF Captured, Unfinished
  <2>8. Built' BY <1>4, <2>1, <2>2, <2>3, <2>4 DEF Built, Capturing
  <2>9. FinalMeetsMove' BY <1>4, <2>1, <2>2, <2>3, <2>5 DEF FinalMeetsMove, Capturing
  <2> QED BY <1>1, <2>6, <2>7, <2>8, <2>9
<1> QED BY <1>2, <1>3, <1>4 DEF Collected

-----------------------------------------------------------------------------
\* The handlers keep what was built; they do not make a success of a failure.
Handled ==
  /\ UNCHANGED <<source, edits, moments, collect, first, snapshot>>
  /\ build'.at \in {"withdraw", "cleanup", "over"}
  /\ build'.verifySource = build.verifySource /\ build'.built = build.built
  /\ build'.sourceAtMove = build.sourceAtMove
  /\ build'.result = "returned" => build.at = "published" \/ build.result = "returned"

HandlerAction ==
  StepRaises \/ Published \/ Withdrawn \/ CleanedUp \/ CleanupFails

\* Where an error, a git process that may live on, or an interrupt leads.
RaisedTo(b) ==
  /\ b.verifySource = build.verifySource /\ b.built = build.built
  /\ b.sourceAtMove = build.sourceAtMove /\ b.entered = build.entered
  /\ b.removed = build.removed /\ b.published = build.published
  /\ b.attempted = build.attempted
  /\ \/ /\ b.at = "over" /\ b.result \in {"error", "debt", "interrupt"}
        /\ build.entered => b.result \in {"debt", "interrupt"} /\ b.preserved = Preserved
     \/ /\ b.at = "withdraw" /\ b.result = "error" /\ b.gitAlive = build.gitAlive
        /\ build.entered /\ build.published
     \/ /\ b.at = "cleanup" /\ b.result = "error" /\ b.gitAlive = build.gitAlive
        /\ build.entered /\ ~build.published /\ ~build.attempted

(* The handlers are entered as RaisedTo says. *)
LEMMA RaisedEnds ==
  ASSUME SnapshotTypeOK, StepRaises
  PROVE  RaisedTo(build')
<1>1. build \in Builds BY DEF SnapshotTypeOK
<1>2. /\ ~build.entered => RaisedTo(Over("error")) /\ RaisedTo(Over("debt"))
                           /\ RaisedTo(Over("interrupt"))
      /\ RaisedTo(Owing("debt")) /\ RaisedTo(Owing("interrupt"))
  BY <1>1 DEF RaisedTo, Over, Owing, Builds
<1>3. RaisedTo(AfterError)
  <2>1. CASE ~build.entered \/ (~build.published /\ build.attempted)
    BY <1>2, <2>1 DEF AfterError
  <2>2. CASE build.entered /\ build.published
    <3>1. AfterError = [build EXCEPT !.at = "withdraw", !.result = "error"]
      BY <2>2 DEF AfterError
    <3> QED BY <1>1, <2>2, <3>1 DEF RaisedTo, Builds
  <2>3. CASE build.entered /\ ~build.published /\ ~build.attempted
    <3>1. AfterError = [build EXCEPT !.at = "cleanup", !.result = "error"]
      BY <2>3 DEF AfterError
    <3> QED BY <1>1, <2>3, <3>1 DEF RaisedTo, Builds
  <2> QED BY <1>1, <2>1, <2>2, <2>3 DEF Builds
<1>4. ASSUME NEW b \in Builds, RaisedTo(b), b.at = "over", NEW alive \in BOOLEAN
      PROVE  RaisedTo([b EXCEPT !.gitAlive = alive])
  BY <1>4 DEF RaisedTo, Builds
<1>5. /\ Over("debt") \in Builds /\ Owing("debt") \in Builds
      /\ Over("interrupt") \in Builds /\ Owing("interrupt") \in Builds
      /\ \A result : Over(result).at = "over" /\ Owing(result).at = "over"
  BY <1>1, EndTypes DEF Over, Owing, Builds
<1>6. RaisedTo(AfterBoundary)
  <2>1. CASE build.entered BY <1>2, <1>4, <1>5, <2>1 DEF AfterBoundary
  <2>2. CASE ~build.entered BY <1>2, <1>4, <1>5, <2>2 DEF AfterBoundary
  <2> QED BY <2>1, <2>2
<1>7. ASSUME NEW alive \in BOOLEAN
      PROVE  RaisedTo([AfterInterrupt EXCEPT !.gitAlive = alive])
  BY <1>2, <1>4, <1>5 DEF AfterInterrupt
<1> QED BY <1>3, <1>6, <1>7 DEF StepRaises

(* The handlers make no success of a failure. *)
LEMMA HandlersKeep ==
  ASSUME CaptureInv, HandlerAction
  PROVE  /\ History' /\ Cursor' /\ FirstIsPast' /\ SecondMeetsFirst' /\ Captured' /\ Built'
         /\ Unfinished' /\ FinalMeetsMove'
<1> USE DEF CaptureInv
<1>0. build \in Builds /\ (build.at \in Stages => build.result = "none")
  BY DEF SnapshotTypeOK, Unfinished
<1>1. Handled
  <2>1. CASE StepRaises BY <2>1, RaisedEnds DEF StepRaises, world, RaisedTo, Handled
  <2>2. CASE Published BY <1>0, <2>2 DEF Published, world, Handled, Builds
  <2>3. CASE Withdrawn BY <1>0, <2>3 DEF Withdrawn, world, Handled, Builds
  <2>4. CASE CleanedUp BY <1>0, <2>4 DEF CleanedUp, world, Handled, Builds
  <2>5. CASE CleanupFails BY <1>0, <2>5 DEF CleanupFails, Over, Owing, world, Handled, Builds
  <2> QED BY <2>1, <2>2, <2>3, <2>4, <2>5 DEF HandlerAction
<1>2. History' /\ Cursor' BY <1>1 DEF Handled, History, Past, Cursor, PastFile
<1>3. FirstIsPast' /\ SecondMeetsFirst' /\ Captured' /\ Unfinished'
  BY <1>1 DEF Handled, FirstIsPast, SecondMeetsFirst, Captured, Unfinished, Capturing, Stages
<1>4. Built' /\ FinalMeetsMove' BY <1>1 DEF Handled, Built, FinalMeetsMove, Capturing
<1> QED BY <1>2, <1>3, <1>4

-----------------------------------------------------------------------------
\* The steps that build the clone, and those that begin another capture of the source.
StageAction ==
  StagingMade \/ TryEntered \/ Cloned \/ CheckedOut \/ DiffApplied \/ FilesWritten

CompareAction == TargetIsFree \/ CloneVerified \/ PlaceVerified

MoveAction == MoveBegins \/ Moved \/ MoveNoted

(* While the clone is built no capture runs. *)
LEMMA StagesKeep ==
  ASSUME CaptureInv, StageAction
  PROVE  /\ History' /\ Cursor' /\ FirstIsPast' /\ SecondMeetsFirst' /\ Captured' /\ Built'
         /\ Unfinished' /\ FinalMeetsMove'
<1> USE DEF CaptureInv
<1>1. build \in Builds BY DEF SnapshotTypeOK
<1>2. /\ UNCHANGED <<source, edits, moments, collect, first, snapshot>>
      /\ build.at \in Stages \ {"capture"} /\ build'.result = build.result
      /\ build'.at \in {"made", "clone", "checkout", "apply", "files", "staged"}
  <2>1. CASE StagingMade BY <1>1, <2>1 DEF StagingMade, Go, world, Builds, Stages
  <2>2. CASE TryEntered BY <1>1, <2>2 DEF TryEntered, world, Builds, Stages
  <2>3. CASE Cloned BY <1>1, <2>3 DEF Cloned, world, Builds, Stages
  <2>4. CASE CheckedOut BY <1>1, <2>4 DEF CheckedOut, world, Builds, Stages
  <2>5. CASE DiffApplied BY <1>1, <2>5 DEF DiffApplied, world, Builds, Stages
  <2>6. CASE FilesWritten BY <1>1, <2>6 DEF FilesWritten, world, Builds, Stages
  <2> QED BY <2>1, <2>2, <2>3, <2>4, <2>5, <2>6 DEF StageAction
<1>3. build.result = "none" /\ build'.result = "none" /\ snapshot \in moments
  BY <1>2 DEF Unfinished, Captured
<1>4. History' /\ Cursor' BY <1>2 DEF History, Past, Cursor, PastFile
<1>5. FirstIsPast' /\ SecondMeetsFirst' /\ Captured' /\ Unfinished'
  BY <1>2, <1>3 DEF FirstIsPast, SecondMeetsFirst, Captured, Unfinished, Capturing
<1>6. Built' /\ FinalMeetsMove' BY <1>2, <1>3 DEF Built, FinalMeetsMove, Capturing
<1> QED BY <1>4, <1>5, <1>6

(* Where another capture begins, nothing was read yet. *)
LEMMA ComparesKeep ==
  ASSUME CaptureInv, CompareAction
  PROVE  /\ History' /\ Cursor' /\ FirstIsPast' /\ SecondMeetsFirst' /\ Captured' /\ Built'
         /\ Unfinished' /\ FinalMeetsMove'
<1> USE DEF CaptureInv
<1>1. build \in Builds BY DEF SnapshotTypeOK
<1>2. /\ UNCHANGED <<source, edits, moments, first, snapshot>>
      /\ build.at \in {"enter", "staged", "placed"}
  BY DEF CompareAction, TargetIsFree, CloneVerified, PlaceVerified, world
<1>3. build.result = "none" /\ snapshot \in moments BY <1>2 DEF Unfinished, Captured, Stages
<1>4. /\ build.at = "staged" => build.built = snapshot
      /\ build.at = "placed" =>
           build.built = snapshot /\ Anchored(build.sourceAtMove, snapshot)
  BY <1>2 DEF CompareAction, TargetIsFree, CloneVerified, PlaceVerified, Built,
              FinalMeetsMove
<1>5. PICK for \in {"before", "verify", "final"}, stage \in {"staging", "move", "published"} :
        /\ Compare(for, stage)
        /\ \/ build.at = "enter" /\ for = "before" /\ stage = "staging"
           \/ build.at = "staged" /\ for = "verify" /\ stage = "move"
           \/ build.at = "placed" /\ for = "final" /\ stage = "published"
  BY DEF CompareAction, TargetIsFree, CloneVerified, PlaceVerified
<1>6. /\ build'.result = "none" /\ build'.verifySource = build.verifySource
      /\ build'.built = build.built /\ build'.sourceAtMove = build.sourceAtMove
      /\ \/ build.verifySource /\ build'.at = "capture" /\ collect' = Begin(for)
         \/ ~build.verifySource /\ build'.at = stage /\ UNCHANGED collect
  BY <1>1, <1>3, <1>5 DEF Compare, Go, Builds
<1>7. History' BY <1>2 DEF History, Past, PastFile
<1>8. CASE build.verifySource
  <2>1. collect'.for = for /\ collect'.at = "head" /\ build'.at = "capture"
    BY <1>6, <1>8 DEF Begin, Resting
  <2>2. Cursor' /\ FirstIsPast' /\ SecondMeetsFirst'
    BY <2>1 DEF Cursor, FirstIsPast, SecondMeetsFirst, Capturing
  <2>3. Captured' /\ Unfinished' BY <1>2, <1>3, <1>6 DEF Captured, Unfinished
  <2>4. Built' BY <1>2, <1>4, <1>5, <1>6, <2>1 DEF Built, Capturing
  <2>5. for = "final" => Anchored(build.sourceAtMove, snapshot)'
    BY <1>2, <1>4, <1>5, <1>6 DEF Anchored
  <2>6. Seen(build.sourceAtMove, snapshot)' BY <2>1 DEF Seen, FilesRead
  <2>7. FinalMeetsMove' BY <1>6, <2>1, <2>5, <2>6 DEF FinalMeetsMove, Capturing
  <2> QED BY <1>7, <2>2, <2>3, <2>4, <2>7
<1>9. CASE ~build.verifySource
  <2>1. UNCHANGED collect /\ build'.at = stage /\ ~build'.verifySource BY <1>6, <1>9
  <2>2. Cursor' /\ FirstIsPast' /\ SecondMeetsFirst'
    BY <1>2, <2>1 DEF Cursor, PastFile, FirstIsPast, SecondMeetsFirst, Capturing
  <2>3. Captured' /\ Unfinished' BY <1>2, <1>3, <1>6 DEF Captured, Unfinished
  <2>4. Built' BY <1>2, <1>4, <1>5, <1>6, <2>1 DEF Built, Capturing
  <2>5. FinalMeetsMove' BY <1>6, <2>1 DEF FinalMeetsMove, Capturing
  <2> QED BY <1>7, <2>2, <2>3, <2>4, <2>5
<1> QED BY <1>8, <1>9, <1>1 DEF Builds

(* When the clone is moved, the moment of the move is anchored in itself. *)
LEMMA MovesKeep ==
  ASSUME CaptureInv, MoveAction
  PROVE  /\ History' /\ Cursor' /\ FirstIsPast' /\ SecondMeetsFirst' /\ Captured' /\ Built'
         /\ Unfinished' /\ FinalMeetsMove'
<1> USE DEF CaptureInv
<1>1. build \in Builds BY DEF SnapshotTypeOK
<1>2. /\ UNCHANGED <<source, edits, moments, collect, first, snapshot>>
      /\ build'.result = build.result /\ build'.built = build.built
      /\ \/ build.at = "move" /\ build'.at = "moved"
         \/ build.at = "moved" /\ build'.at = "renamed" /\ build'.sourceAtMove = source
         \/ /\ build.at = "renamed" /\ build'.at = "placed"
            /\ build'.sourceAtMove = build.sourceAtMove
  <2>1. CASE MoveBegins BY <1>1, <2>1 DEF MoveBegins, world, Builds
  <2>2. CASE Moved BY <1>1, <2>2 DEF Moved, world, Builds
  <2>3. CASE MoveNoted BY <1>1, <2>3 DEF MoveNoted, world, Builds
  <2> QED BY <2>1, <2>2, <2>3 DEF MoveAction
<1>3. build.result = "none" /\ snapshot \in moments /\ build.built = snapshot
  BY <1>2 DEF Unfinished, Captured, Built, Stages
<1>4. History' /\ Cursor' BY <1>2 DEF History, Past, Cursor, PastFile
<1>5. FirstIsPast' /\ SecondMeetsFirst' /\ Captured' /\ Unfinished' /\ Built'
  BY <1>2, <1>3 DEF FirstIsPast, SecondMeetsFirst, Captured, Unfinished, Built, Capturing
<1>6. build'.at \in {"renamed", "placed"} => Anchored(build.sourceAtMove, snapshot)'
  BY <1>2 DEF FinalMeetsMove, Anchored
<1>7. FinalMeetsMove' BY <1>2, <1>3, <1>6 DEF FinalMeetsMove, Capturing
<1> QED BY <1>4, <1>5, <1>7

-----------------------------------------------------------------------------
(* At the start nothing was read. *)
LEMMA CaptureInit == SnapshotInit => CaptureInv
<1> SUFFICES ASSUME SnapshotInit PROVE CaptureInv OBVIOUS
<1>1. SnapshotTypeOK BY InitType
<1>2. /\ edits = 0 /\ moments = {source} /\ collect = Resting
      /\ build.at = "capture" /\ build.result = "none" /\ snapshot = NoWorkspace
      /\ source.head = 1 /\ source.diff = 0 /\ \A f \in Files : source.files[f] \in {0, 1}
  BY DEF SnapshotInit, Clean, Absent
<1>3. History BY <1>2 DEF History, Past, PastFile
<1>4. collect.for = "first" /\ collect.at = "head" BY <1>2 DEF Resting
<1>5. Cursor /\ FirstIsPast /\ SecondMeetsFirst /\ Captured /\ Built /\ Unfinished
      /\ FinalMeetsMove
  BY <1>2, <1>4 DEF Cursor, FirstIsPast, FilesRead, SecondMeetsFirst, Captured, Built,
     Unfinished, FinalMeetsMove, Capturing
<1> QED BY <1>1, <1>3, <1>5 DEF CaptureInv

(* Every step keeps the invariant of the captures. *)
LEMMA CaptureStep == CaptureInv /\ [SnapshotNext]_snapshotVars => CaptureInv'
<1> SUFFICES ASSUME CaptureInv, [SnapshotNext]_snapshotVars PROVE CaptureInv' OBVIOUS
<1>1. SnapshotTypeOK /\ Cursor /\ SnapshotTypeOK' BY TypeStep DEF CaptureInv
<1>2. CASE EditAction BY <1>1, <1>2, EditsAreFresh, EditKeeps DEF CaptureInv
<1>3. CASE ReadAction BY <1>1, <1>3, ReadsWhatIs, ReadKeeps DEF CaptureInv
<1>4. CASE Collected BY <1>1, <1>4, CollectedKeeps
<1>5. CASE HandlerAction BY <1>1, <1>5, HandlersKeep DEF CaptureInv
<1>6. CASE StageAction BY <1>1, <1>6, StagesKeep DEF CaptureInv
<1>7. CASE CompareAction BY <1>1, <1>7, ComparesKeep DEF CaptureInv
<1>8. CASE MoveAction BY <1>1, <1>8, MovesKeep DEF CaptureInv
<1>9. CASE UNCHANGED snapshotVars \/ \E p \in Paths : PathTaken(p)
  <2>1. UNCHANGED <<source, edits, moments, collect, first, snapshot, build>>
    BY <1>9 DEF snapshotVars, PathTaken
  <2>2. History' /\ Cursor' /\ FirstIsPast'
    BY <2>1 DEF CaptureInv, History, Past, PastFile, Cursor, FirstIsPast, Capturing, FilesRead
  <2>3. SecondMeetsFirst'
    BY <2>1 DEF CaptureInv, SecondMeetsFirst, Past, PastFile, Anchored, Seen, FilesRead,
                Capturing
  <2>4. Captured' /\ Built' /\ Unfinished'
    BY <2>1 DEF CaptureInv, Captured, Built, Unfinished, Capturing
  <2>5. FinalMeetsMove'
    BY <2>1 DEF CaptureInv, FinalMeetsMove, Anchored, Seen, FilesRead, Capturing
  <2> QED BY <1>1, <2>2, <2>3, <2>4, <2>5 DEF CaptureInv
<1> QED
  BY <1>2, <1>3, <1>4, <1>5, <1>6, <1>7, <1>8, <1>9
     DEF SnapshotNext, EditAction, ReadAction, HandlerAction, StageAction, CompareAction,
         MoveAction

(* The inductive invariant: what was read of the source was true of it at some *)
(* moment, and where it is not true any more it will never be again.           *)
THEOREM SnapshotInvariant == SnapshotSpec => []CaptureInv
<1> QED BY CaptureInit, CaptureStep, PTL DEF SnapshotSpec

(* For any number of files and edits, a captured workspace existed at one      *)
(* moment, and a materialization returns it and, when it verifies the source,  *)
(* moved it while the source still was that workspace.                         *)
THEOREM CaptureIsOneMoment == SnapshotSpec => []SnapshotIsOneMoment
<1>1. CaptureInv => SnapshotIsOneMoment
  BY DEF CaptureInv, Captured, Built, FinalMeetsMove, SnapshotIsOneMoment
<1> QED BY SnapshotInvariant, <1>1, PTL

-----------------------------------------------------------------------------
Own(p) == places[p] = "own"

Holding ==
  /\ \A p \in taken : places[p] = "foreign"
  /\ Building /\ Own("target") => build.published \/ build.attempted

Handling ==
  /\ build.at \in Stages => build.removed = {}
  /\ build.gitAlive => build.at = "over" /\ build.removed = {}
  /\ build.at = "moved" => build.attempted
  /\ build.at = "withdraw" => build.result = "error"
  /\ build.at = "cleanup" =>
       \/ build.result = "returned"
       \/ build.result = "error" /\ ~Own("target")

LeftoversInv == Holding /\ Handling /\ LeftoversAccounted

\* The steps towards the publication that leave the paths alone.
Proceeds ==
  /\ UNCHANGED <<places, taken>> /\ build.at \in Stages /\ build'.at \in Stages
  /\ build'.removed = build.removed /\ build'.gitAlive = build.gitAlive
  /\ build.published \/ build.attempted => build'.published \/ build'.attempted
  /\ build'.at = "moved" => build'.attempted

ProceedAction ==
  \/ Collected \/ TargetIsFree \/ TryEntered \/ Cloned \/ CheckedOut \/ DiffApplied
  \/ FilesWritten \/ CloneVerified \/ MoveBegins \/ MoveNoted \/ PlaceVerified

(* The steps towards the publication are as Proceeds says. *)
LEMMA ActionsProceed ==
  ASSUME SnapshotTypeOK, ProceedAction
  PROVE  Proceeds
<1>1. build \in Builds BY DEF SnapshotTypeOK
<1>2. \A stage \in Stages \ {"moved"} : build.at \in Stages /\ build' = Go(stage) =>
        /\ build'.at \in Stages \ {"moved"}
        /\ build'.removed = build.removed /\ build'.gitAlive = build.gitAlive
        /\ build'.published = build.published /\ build'.attempted = build.attempted
  BY <1>1 DEF Go, Builds
<1>3. CASE Collected
  <2>1. UNCHANGED <<places, taken>> /\ build.at = "capture"
    BY <1>3 DEF Collected, Collecting, world
  <2>2. \/ UNCHANGED build
        \/ \E stage \in {"enter", "staging", "move", "published"} : build' = Go(stage)
    BY <1>3 DEF Collected, AfterMatch
  <2> QED BY <1>2, <2>1, <2>2 DEF Proceeds, Stages
<1>4. CASE TargetIsFree \/ CloneVerified \/ PlaceVerified
  <2>1. UNCHANGED <<places, taken>> /\ build.at \in {"enter", "staged", "placed"}
    BY <1>4 DEF TargetIsFree, CloneVerified, PlaceVerified, world
  <2>2. \E stage \in {"capture", "staging", "move", "published"} : build' = Go(stage)
    BY <1>4 DEF TargetIsFree, CloneVerified, PlaceVerified, Compare
  <2> QED BY <1>2, <2>1, <2>2 DEF Proceeds, Stages
<1>5. CASE TryEntered BY <1>1, <1>5 DEF TryEntered, world, Proceeds, Builds, Stages
<1>6. CASE Cloned BY <1>1, <1>6 DEF Cloned, world, Proceeds, Builds, Stages
<1>7. CASE CheckedOut BY <1>1, <1>7 DEF CheckedOut, world, Proceeds, Builds, Stages
<1>8. CASE DiffApplied BY <1>1, <1>8 DEF DiffApplied, world, Proceeds, Builds, Stages
<1>9. CASE FilesWritten BY <1>1, <1>9 DEF FilesWritten, world, Proceeds, Builds, Stages
<1>10. CASE MoveBegins BY <1>1, <1>10 DEF MoveBegins, world, Proceeds, Builds, Stages
<1>11. CASE MoveNoted BY <1>1, <1>11 DEF MoveNoted, world, Proceeds, Builds, Stages
<1> QED BY <1>3, <1>4, <1>5, <1>6, <1>7, <1>8, <1>9, <1>10, <1>11 DEF ProceedAction

(* What is preserved names every directory of its own. *)
LEMMA OwedIsNamed ==
  ASSUME SnapshotTypeOK, Holding, Building
  PROVE  {p \in Paths : Own(p)} \subseteq Preserved
BY DEF SnapshotTypeOK, Holding, Own, Preserved, Existing, Paths

(* Wherever a step raises, what is left is named or goes to its handler. *)
LEMMA RaisesAccount ==
  ASSUME SnapshotTypeOK, LeftoversInv, StepRaises
  PROVE  LeftoversInv'
<1> USE DEF LeftoversInv
<1>1. /\ UNCHANGED <<places, taken>> /\ build.at \in Stages /\ RaisedTo(build')
      /\ ~build.gitAlive /\ build.removed = {} /\ Building
  BY RaisedEnds DEF StepRaises, world, Handling, Stages, Building
<1>2. Preserved' = Preserved BY <1>1 DEF Preserved, Existing, RaisedTo
<1>3. Holding' BY <1>1 DEF Holding, Own, Building, RaisedTo
<1>4. Handling'
  <2>1. build'.at \notin Stages BY <1>1 DEF RaisedTo, Stages
  <2>2. build'.removed = {} /\ (build'.gitAlive => build'.at = "over") BY <1>1 DEF RaisedTo
  <2>3. build'.at = "withdraw" => build'.result = "error" BY <1>1 DEF RaisedTo
  <2>4. build'.at = "cleanup" => build'.result = "error" /\ ~Own("target")'
    BY <1>1 DEF RaisedTo, Holding, Own
  <2> QED BY <2>1, <2>2, <2>3, <2>4 DEF Handling, Stages
<1>5. LeftoversAccounted'
  <2>1. ASSUME ~Building', build'.entered
        PROVE  /\ build'.result \in {"debt", "interrupt"}
               /\ {p \in Paths : Own(p)}' \subseteq build'.preserved
    <3>1. build'.result \in {"debt", "interrupt"} /\ build'.preserved = Preserved
      BY <1>1, <2>1 DEF RaisedTo, Building
    <3>2. {p \in Paths : Own(p)}' = {p \in Paths : Own(p)} BY <1>1 DEF Own
    <3> QED BY <1>1, <3>1, <3>2, OwedIsNamed
  <2>2. build'.removed = {} BY <1>1 DEF RaisedTo
  <2> QED BY <1>1, <2>1, <2>2 DEF LeftoversAccounted, Own
<1> QED BY <1>3, <1>4, <1>5

(* So does the cleanup, done or failed. *)
LEMMA CleanupAccounts ==
  ASSUME SnapshotTypeOK, LeftoversInv, Withdrawn \/ CleanedUp \/ CleanupFails
  PROVE  LeftoversInv'
<1> USE DEF LeftoversInv
<1>1. build \in Builds /\ Building /\ ~build.gitAlive
      /\ places \in [Paths -> {"absent", "own", "foreign"}]
      /\ "target" \in Paths /\ "staging" \in Paths
  BY DEF Withdrawn, CleanedUp, CleanupFails, SnapshotTypeOK, Building, Handling, Paths
<1>2. CASE Withdrawn
  <2>1. /\ Own("target") /\ places' = [places EXCEPT !["target"] = "absent"]
        /\ build'.at = "cleanup" /\ build'.result = "error" /\ ~build'.gitAlive
        /\ UNCHANGED taken
    BY <1>1, <1>2 DEF Withdrawn, RemovedOwn, Own, Handling, Builds, world
  <2>2. ~Own("target")' /\ \A p \in taken : places'[p] = "foreign"
    BY <1>1, <2>1 DEF Own, Holding
  <2> QED BY <2>1, <2>2 DEF Holding, Handling, LeftoversAccounted, Building, Stages
<1>3. CASE CleanedUp
  <2>1. /\ Own("staging") /\ places' = [places EXCEPT !["staging"] = "absent"]
        /\ build'.at = "over" /\ build'.result = build.result /\ ~build'.gitAlive
        /\ UNCHANGED taken /\ build.at = "cleanup"
    BY <1>1, <1>3 DEF CleanedUp, RemovedOwn, Own, Builds, world
  <2>2. \A p \in taken : places'[p] = "foreign" BY <1>1, <2>1 DEF Own, Holding
  <2>3. {p \in Paths : Own(p)}' \subseteq {"target"} BY <1>1, <2>1 DEF Own, Paths
  <2>4. \/ build'.result = "returned"
        \/ build'.result = "error" /\ {p \in Paths : Own(p)}' = {}
    BY <1>1, <2>1, <2>3 DEF Handling, Own
  <2>5. Holding' /\ Handling' BY <2>1, <2>2 DEF Holding, Handling, Building, Stages
  <2> QED BY <2>1, <2>2, <2>3, <2>4, <2>5 DEF LeftoversAccounted, Own
<1>4. CASE CleanupFails
  <2>1. /\ UNCHANGED <<places, taken>> /\ build'.at = "over" /\ build'.result = "debt"
        /\ build'.preserved = Preserved /\ ~build'.gitAlive
    BY <1>1, <1>4 DEF CleanupFails, Owing, Over, Builds, world
  <2>2. {p \in Paths : Own(p)}' \subseteq build'.preserved BY <1>1, <2>1, OwedIsNamed DEF Own
  <2>3. Holding' /\ Handling' BY <2>1 DEF Holding, Handling, Building, Stages
  <2> QED BY <2>1, <2>2, <2>3 DEF LeftoversAccounted, Holding, Own
<1> QED BY <1>2, <1>3, <1>4

(* At the start there is nothing to account for. *)
LEMMA LeftoversInit == SnapshotInit => LeftoversInv
BY DEF SnapshotInit, LeftoversInv, Holding, Handling, LeftoversAccounted, Own, Building, Paths

(* Every step keeps the account. *)
LEMMA LeftoversStep ==
  SnapshotTypeOK /\ LeftoversInv /\ [SnapshotNext]_snapshotVars => LeftoversInv'
<1> SUFFICES ASSUME SnapshotTypeOK, LeftoversInv, [SnapshotNext]_snapshotVars
             PROVE  LeftoversInv'
  OBVIOUS
<1> USE DEF LeftoversInv
<1>0. build \in Builds /\ places \in [Paths -> {"absent", "own", "foreign"}]
      /\ "target" \in Paths /\ "staging" \in Paths
  BY DEF SnapshotTypeOK, Paths
<1>1. CASE UNCHANGED <<places, taken, build>>
  BY <1>1 DEF Holding, Handling, LeftoversAccounted, Own, Building
<1>2. CASE EditAction BY <1>1, <1>2, EditsAreFresh DEF EditStep
<1>3. CASE ReadAction
  BY <1>1, <1>3 DEF ReadAction, ReadHead, ReadDiff, ReadList, InspectFile, ReadFile,
                    FileUnchanged, world
<1>4. CASE ProceedAction
  <2>1. Proceeds BY <1>4, ActionsProceed
  <2>2. Building /\ Building' /\ ~build.gitAlive /\ ~build'.gitAlive /\ build'.removed = {}
    BY <2>1 DEF Proceeds, Building, Handling, Stages
  <2>3. Holding' BY <2>1, <2>2 DEF Proceeds, Holding, Own
  <2>4. Handling' BY <2>1, <2>2 DEF Proceeds, Handling, Stages
  <2> QED BY <2>2, <2>3, <2>4 DEF LeftoversAccounted, Holding
<1>5. CASE StepRaises BY <1>5, RaisesAccount
<1>6. CASE Withdrawn \/ CleanedUp \/ CleanupFails BY <1>6, CleanupAccounts
<1>7. ASSUME NEW p \in Paths, PathTaken(p)
      PROVE  LeftoversInv'
  <2>1. /\ UNCHANGED build /\ Building /\ Building' /\ taken' = taken \cup {p}
        /\ places' = [places EXCEPT ![p] = "foreign"] /\ ~build'.gitAlive
    BY <1>7 DEF PathTaken, Building, Handling
  <2>2. \A q \in Paths : Own(q)' => Own(q) BY <1>0, <2>1 DEF Own
  <2>3. \A q \in taken' : places'[q] = "foreign" BY <1>0, <2>1 DEF Holding, SnapshotTypeOK
  <2>4. Holding' /\ Handling' BY <1>0, <2>1, <2>2, <2>3 DEF Holding, Handling
  <2> QED BY <2>1, <2>3, <2>4 DEF LeftoversAccounted
<1>8. CASE StagingMade
  <2>1. /\ build.at = "staging" /\ build'.at = "made" /\ UNCHANGED taken
        /\ places["staging"] = "absent" /\ places' = [places EXCEPT !["staging"] = "own"]
        /\ build'.removed = build.removed /\ build'.gitAlive = build.gitAlive
        /\ build'.published = build.published /\ build'.attempted = build.attempted
    BY <1>0, <1>8 DEF StagingMade, Go, Builds, world
  <2>2. \A q \in taken' : places'[q] = "foreign" BY <1>0, <2>1 DEF Holding
  <2>3. Building /\ Building' /\ ~build'.gitAlive /\ build'.removed = {}
        /\ (Own("target")' => Own("target"))
    BY <1>0, <2>1 DEF Building, Handling, Own, Stages
  <2> QED BY <2>1, <2>2, <2>3 DEF Holding, Handling, LeftoversAccounted
<1>9. CASE Moved
  <2>1. /\ build.at = "moved" /\ build'.at = "renamed" /\ UNCHANGED taken
        /\ places["target"] = "absent" /\ places' = [places EXCEPT !["target"] = "own"]
        /\ build'.removed = build.removed /\ build'.gitAlive = build.gitAlive
        /\ build'.attempted = build.attempted
    BY <1>0, <1>9 DEF Moved, Builds, world
  <2>2. \A q \in taken' : places'[q] = "foreign" BY <1>0, <2>1 DEF Holding
  <2>3. Building' /\ ~build'.gitAlive /\ build'.removed = {} /\ build'.attempted
    BY <2>1 DEF Building, Handling, Stages
  <2> QED BY <2>1, <2>2, <2>3 DEF Holding, Handling, LeftoversAccounted
<1>10. CASE Published
  <2>1. /\ build.at = "published" /\ build'.at = "cleanup" /\ UNCHANGED <<places, taken>>
        /\ build'.removed = build.removed /\ build'.gitAlive = build.gitAlive
        /\ build'.published = build.published /\ build'.attempted = build.attempted
        /\ build'.result = "returned"
    BY <1>0, <1>10 DEF Published, Builds, world
  <2>2. Building /\ Building' /\ ~build'.gitAlive BY <2>1 DEF Building, Handling
  <2> QED BY <2>1, <2>2 DEF Holding, Handling, LeftoversAccounted, Own, Stages
<1> QED
  BY <1>1, <1>2, <1>3, <1>4, <1>5, <1>6, <1>7, <1>8, <1>9, <1>10
     DEF SnapshotNext, snapshotVars, EditAction, ReadAction, ProceedAction

(* For any number of files and edits, however a materialization ends, every      *)
(* directory it made is removed, returned or named to the caller; none is        *)
(* deleted under a git process that may live, and nobody else's is touched.      *)
THEOREM LeftoversAreAccounted == SnapshotSpec => []LeftoversAccounted
<1>1. CaptureInv => SnapshotTypeOK BY DEF CaptureInv
<1>2. LeftoversInv => LeftoversAccounted BY DEF LeftoversInv
<1> QED BY <1>1, <1>2, SnapshotInvariant, LeftoversInit, LeftoversStep, PTL DEF SnapshotSpec

-----------------------------------------------------------------------------
(***************************************************************************)
(* GeneratedTrees: replace_generated_trees loses no tree and keeps its     *)
(* word, however many trees it replaces and wherever it fails.             *)
(***************************************************************************)

Ending == {"clean", "drop", "ended", "killed"}

\* Root r is as the call found it, but for what somebody else put there.
Found(r) == disk[r] = origin[r] \/ (origin[r] = "absent" /\ disk[r] = "foreign")

Untouched(r) == Found(r) /\ previous[r] = "absent" /\ r \notin installed

\* What was at root r when its turn came is in its backup.
Kept(r) ==
  \/ origin[r] = "old" /\ previous[r] = "old"
  \/ origin[r] = "absent" /\ previous[r] \in {"absent", "foreign"}

InPlace(r) == Kept(r) /\ disk[r] \in {"new", "foreign"}

\* The roots whose turn has not come, and those that are done with.
ToCome(r) ==
  \/ pc \in {"stage", "write"}
  \/ pc \in {"backup", "move"} /\ r >= at
  \/ pc \in {"install", "record"} /\ r > at

Behind(r) ==
  \/ pc \in {"backup", "move", "install", "record"} /\ r < at
  \/ pc = "commit"

Staged ==
  \A r \in Roots :
    \/ pc \in {"stage", "write"} /\ r < at
    \/ pc \in {"backup", "move", "install"} /\ r >= at
    \/ pc = "record" /\ r > at
    => staging[r] = "new"

\* On the way forward.
Forward ==
  /\ \A r \in Roots : ToCome(r) => Untouched(r)
  /\ \A r \in Roots : Behind(r) => InPlace(r) /\ r \in installed
  /\ pc = "move" => disk[at] \in {"old", "foreign"}
  /\ pc = "install" => Kept(at) /\ disk[at] \in {"absent", "foreign"} /\ at \notin installed
  /\ pc = "record" => InPlace(at)

\* What the rollback will find at root r, when nothing interrupted the call...
Recoverable(r) ==
  \/ Untouched(r)
  \/ Kept(r) /\ r \in installed /\ disk[r] \in {"new", "foreign"}
  \/ Kept(r) /\ r \notin installed /\ disk[r] \in {"absent", "foreign"}

\* ...and once the new tree is out of the way.
Cleared(r) ==
  \/ Found(r) /\ previous[r] = "absent"
  \/ Kept(r) /\ disk[r] \in {"absent", "foreign"}

\* On the way back, as long as no root failed.
Backward ==
  pc \in {"undo", "restore"} /\ errors = {} =>
    /\ \A r \in Roots : r > at /\ origin[r] = "old" => disk[r] = "old"
    /\ ~interrupted =>
         /\ \A r \in Roots : r > at => Found(r)
         /\ \A r \in Roots : r < at => Recoverable(r)
         /\ IF pc = "undo" THEN Recoverable(at) ELSE Cleared(at)

Ends ==
  /\ committed \/ rolledBack \/ outcome # "none" => pc \in Ending
  /\ rolledBack => \A r \in Roots : origin[r] = "old" => disk[r] = "old"
  /\ outcome = "returned" => \A r \in Roots : disk[r] \in {"new", "foreign"}
  /\ outcome = "raised" /\ ~interrupted => \A r \in Roots : Found(r)

TreesInv ==
  TreesTypeOK /\ OldTreesSurvive /\ Staged /\ Forward /\ Backward /\ Ends

-----------------------------------------------------------------------------
(* At the start nothing is touched. *)
LEMMA InvHolds == TreesInit => TreesInv
<1> SUFFICES ASSUME TreesInit PROVE TreesInv OBVIOUS
<1> USE RootCountAssumption DEF TreesInit, Roots
<1>1. TreesTypeOK
  <2>1. committed \in BOOLEAN /\ rolledBack \in BOOLEAN /\ interrupted \in BOOLEAN OBVIOUS
  <2>2. /\ disk \in [Roots -> {"absent", "old", "file", "new", "partial", "foreign"}]
        /\ staging \in [Roots -> {"absent", "partial", "new"}]
        /\ previous \in [Roots -> {"absent", "old", "foreign", "partial"}]
    OBVIOUS
  <2>3. installed \in SUBSET Roots /\ errors \in SUBSET Roots /\ at \in Roots OBVIOUS
  <2> QED BY <2>1, <2>2, <2>3 DEF TreesTypeOK
<1>2. Staged /\ Forward /\ Backward /\ Ends
  BY DEF Staged, Forward, Backward, Ends, ToCome, Behind, Untouched, Found
<1>3. OldTreesSurvive BY DEF OldTreesSurvive
<1> QED BY <1>1, <1>2, <1>3 DEF TreesInv

(* What the end of a root's rollback sets has its type. *)
LEMMA RollbackTypes ==
  ASSUME TreesTypeOK, NEW owed \in SUBSET Roots, RolledBack(owed)
  PROVE  /\ errors' \in SUBSET Roots /\ at' \in Roots
         /\ pc' \in {"undo", "clean"} /\ outcome' \in {"none", "returned", "raised", "incomplete"}
         /\ rolledBack' \in BOOLEAN /\ UNCHANGED <<committed, interrupted>>
<1> USE RootCountAssumption DEF Roots, RolledBack, TreesTypeOK
<1>1. errors' \in SUBSET Roots /\ UNCHANGED <<committed, interrupted>> OBVIOUS
<1>2. CASE at > 1 BY <1>1, <1>2
<1>3. CASE ~(at > 1)
  <2>1. pc' = "clean" /\ at' = 1 /\ rolledBack' = (owed = {}) BY <1>3
  <2>2. rolledBack' \in BOOLEAN BY <2>1
  <2>3. outcome' \in {"none", "returned", "raised", "incomplete"} BY <1>3
  <2> QED BY <1>1, <2>1, <2>2, <2>3
<1> QED BY <1>2, <1>3

(* Every step of the call, and of somebody else, keeps the types. *)
LEMMA TreesTypeStep == TreesInv /\ [TreesNext]_treesVars => TreesTypeOK'
<1> SUFFICES ASSUME TreesInv, [TreesNext]_treesVars PROVE TreesTypeOK' OBVIOUS
<1> USE RootCountAssumption DEF Roots, flags, Onward, RolledBack, TreesInv,
   TreesTypeOK
<1>1. CASE StagingCreated BY <1>1 DEF StagingCreated
<1>2. CASE StagingWritten BY <1>2 DEF StagingWritten
<1>3. CASE BackupCreated BY <1>3 DEF BackupCreated
<1>4. CASE MovedAside BY <1>4 DEF MovedAside, Forward
<1>5. CASE Installed BY <1>5 DEF Installed
<1>6. CASE Recorded BY <1>6 DEF Recorded
<1>7. CASE Committed BY <1>7 DEF Committed
<1>8. CASE StepFails
  <2>1. interrupted' \in BOOLEAN BY <1>8 DEF StepFails
  <2>2. at' \in Roots /\ pc' = "undo" BY <1>8 DEF StepFails
  <2> QED BY <1>8, <2>1, <2>2 DEF StepFails
<1>9. CASE Undone BY <1>9 DEF Undone
<1>10. CASE Restored
  <2>1. disk' \in [Roots -> {"absent", "old", "file", "new", "partial", "foreign"}]
    BY <1>10 DEF Restored
  <2>2. previous' \in [Roots -> {"absent", "old", "foreign", "partial"}] BY <1>10 DEF Restored
  <2>3. RolledBack(errors) /\ UNCHANGED <<origin, staging, installed>> BY <1>10 DEF Restored
  <2> HIDE DEF RolledBack
  <2>4. /\ pc' \in {"undo", "clean"} /\ at' \in Roots /\ errors' \in SUBSET Roots
        /\ outcome' \in {"none", "returned", "raised", "incomplete"}
        /\ rolledBack' \in BOOLEAN /\ UNCHANGED <<committed, interrupted>>
    BY <2>3, RollbackTypes
  <2> QED BY <2>1, <2>2, <2>3, <2>4
<1>11. CASE RollbackFails
  <2>1. disk' \in [Roots -> {"absent", "old", "file", "new", "partial", "foreign"}]
    BY <1>11 DEF RollbackFails
  <2>2. RolledBack(errors \cup {at}) /\ UNCHANGED <<origin, staging, previous, installed>>
    BY <1>11 DEF RollbackFails
  <2> HIDE DEF RolledBack
  <2>3. /\ pc' \in {"undo", "clean"} /\ at' \in Roots /\ errors' \in SUBSET Roots
        /\ outcome' \in {"none", "returned", "raised", "incomplete"}
        /\ rolledBack' \in BOOLEAN /\ UNCHANGED <<committed, interrupted>>
    BY <2>2, RollbackTypes
  <2> QED BY <2>1, <2>2, <2>3
<1>12. CASE RollbackInterrupted BY <1>12 DEF RollbackInterrupted
<1>13. CASE StagingDropped BY <1>13 DEF StagingDropped
<1>14. CASE BackupDropped
  <2>1. previous' \in [Roots -> {"absent", "old", "foreign", "partial"}]
    BY <1>14 DEF BackupDropped
  <2>2. at' \in Roots /\ pc' \in {"drop", "ended"} BY <1>14 DEF BackupDropped
  <2> QED BY <1>14, <2>1, <2>2 DEF BackupDropped
<1>15. CASE CleanupInterrupted BY <1>15 DEF CleanupInterrupted
<1>16. CASE Killed BY <1>16 DEF Killed
<1>17. CASE \E r \in Roots : SomebodyElse(r) BY <1>17 DEF SomebodyElse
<1>18. CASE UNCHANGED treesVars BY <1>18 DEF treesVars
<1> QED BY <1>1, <1>2, <1>3, <1>4, <1>5, <1>6, <1>7, <1>8, <1>9, <1>10, <1>11,
     <1>12, <1>13, <1>14, <1>15, <1>16, <1>17, <1>18 DEF TreesNext

(* An old tree stays in its place or in its backup. *)
LEMMA SurvivalStep == TreesInv /\ [TreesNext]_treesVars => OldTreesSurvive'
<1> SUFFICES ASSUME TreesInv, [TreesNext]_treesVars PROVE OldTreesSurvive' OBVIOUS
<1> USE RootCountAssumption DEF Roots, flags, TreesInv, TreesTypeOK,
   OldTreesSurvive
<1>1. CASE StagingCreated BY <1>1 DEF StagingCreated
<1>2. CASE StagingWritten BY <1>2 DEF StagingWritten, Onward
<1>3. CASE BackupCreated BY <1>3 DEF BackupCreated
<1>4. CASE MovedAside BY <1>4 DEF MovedAside, Forward, ToCome, Untouched, Found
<1>5. CASE Installed BY <1>5 DEF Installed
<1>6. CASE Recorded BY <1>6 DEF Recorded, Onward
<1>7. CASE Committed BY <1>7 DEF Committed
<1>8. CASE StepFails BY <1>8 DEF StepFails
<1>9. CASE Undone BY <1>9 DEF Undone
<1>10. CASE Restored BY <1>10 DEF Restored, RolledBack
<1>11. CASE RollbackFails BY <1>11 DEF RollbackFails, RolledBack
<1>12. CASE RollbackInterrupted BY <1>12 DEF RollbackInterrupted
<1>13. CASE StagingDropped BY <1>13 DEF StagingDropped
<1>14. CASE BackupDropped BY <1>14 DEF BackupDropped, Onward, Ends
<1>15. CASE CleanupInterrupted BY <1>15 DEF CleanupInterrupted
<1>16. CASE Killed BY <1>16 DEF Killed
<1>17. CASE \E r \in Roots : SomebodyElse(r) BY <1>17 DEF SomebodyElse
<1>18. CASE UNCHANGED treesVars BY <1>18 DEF treesVars
<1> QED BY <1>1, <1>2, <1>3, <1>4, <1>5, <1>6, <1>7, <1>8, <1>9, <1>10, <1>11,
     <1>12, <1>13, <1>14, <1>15, <1>16, <1>17, <1>18 DEF TreesNext

(* The staged trees are whole. *)
LEMMA StagedStep == TreesInv /\ [TreesNext]_treesVars => Staged'
<1> SUFFICES ASSUME TreesInv, [TreesNext]_treesVars PROVE Staged' OBVIOUS
<1> USE RootCountAssumption DEF Roots, flags, TreesInv, TreesTypeOK, Staged
<1>1. CASE StagingCreated BY <1>1 DEF StagingCreated
<1>2. CASE StagingWritten BY <1>2 DEF StagingWritten, Onward
<1>3. CASE BackupCreated BY <1>3 DEF BackupCreated
<1>4. CASE MovedAside BY <1>4 DEF MovedAside
<1>5. CASE Installed BY <1>5 DEF Installed
<1>6. CASE Recorded BY <1>6 DEF Recorded, Onward
<1>7. CASE Committed BY <1>7 DEF Committed
<1>8. CASE StepFails BY <1>8 DEF StepFails
<1>9. CASE Undone BY <1>9 DEF Undone
<1>10. CASE Restored BY <1>10 DEF Restored, RolledBack
<1>11. CASE RollbackFails BY <1>11 DEF RollbackFails, RolledBack
<1>12. CASE RollbackInterrupted BY <1>12 DEF RollbackInterrupted
<1>13. CASE StagingDropped BY <1>13 DEF StagingDropped
<1>14. CASE BackupDropped BY <1>14 DEF BackupDropped, Onward
<1>15. CASE CleanupInterrupted BY <1>15 DEF CleanupInterrupted
<1>16. CASE Killed BY <1>16 DEF Killed
<1>17. CASE \E r \in Roots : SomebodyElse(r) BY <1>17 DEF SomebodyElse
<1>18. CASE UNCHANGED treesVars BY <1>18 DEF treesVars
<1> QED BY <1>1, <1>2, <1>3, <1>4, <1>5, <1>6, <1>7, <1>8, <1>9, <1>10, <1>11,
     <1>12, <1>13, <1>14, <1>15, <1>16, <1>17, <1>18 DEF TreesNext

(* The way forward: done, in hand, to come. *)
LEMMA ForwardStep == TreesInv /\ [TreesNext]_treesVars => Forward'
<1> SUFFICES ASSUME TreesInv, [TreesNext]_treesVars PROVE Forward' OBVIOUS
<1> USE RootCountAssumption DEF Roots, flags, TreesInv, TreesTypeOK, Forward,
   ToCome, Behind, Untouched, Found, InPlace, Kept
<1>1. CASE StagingCreated BY <1>1 DEF StagingCreated
<1>2. CASE StagingWritten BY <1>2 DEF StagingWritten, Onward
<1>3. CASE BackupCreated BY <1>3 DEF BackupCreated
<1>4. CASE MovedAside BY <1>4 DEF MovedAside
<1>5. CASE Installed BY <1>5 DEF Installed, Staged
<1>6. CASE Recorded BY <1>6 DEF Recorded, Onward
<1>7. CASE Committed BY <1>7 DEF Committed
<1>8. CASE StepFails BY <1>8 DEF StepFails
<1>9. CASE Undone BY <1>9 DEF Undone
<1>10. CASE Restored BY <1>10 DEF Restored, RolledBack
<1>11. CASE RollbackFails BY <1>11 DEF RollbackFails, RolledBack
<1>12. CASE RollbackInterrupted BY <1>12 DEF RollbackInterrupted
<1>13. CASE StagingDropped BY <1>13 DEF StagingDropped
<1>14. CASE BackupDropped BY <1>14 DEF BackupDropped, Onward
<1>15. CASE CleanupInterrupted BY <1>15 DEF CleanupInterrupted
<1>16. CASE Killed BY <1>16 DEF Killed
<1>17. CASE \E r \in Roots : SomebodyElse(r) BY <1>17 DEF SomebodyElse
<1>18. CASE UNCHANGED treesVars BY <1>18 DEF treesVars
<1> QED BY <1>1, <1>2, <1>3, <1>4, <1>5, <1>6, <1>7, <1>8, <1>9, <1>10, <1>11,
     <1>12, <1>13, <1>14, <1>15, <1>16, <1>17, <1>18 DEF TreesNext

(* A root is as it was when the backup is back. *)
LEMMA PutBack ==
  ASSUME NEW r \in Roots, Cleared(r), origin' = origin,
         previous[r] # "absent" => disk[r] = "absent",
         disk'[r] = IF previous[r] # "absent" THEN previous[r] ELSE disk[r]
  PROVE  Found(r)'
<1>1. CASE Found(r) /\ previous[r] = "absent" BY <1>1 DEF Found
<1>2. CASE Kept(r) /\ disk[r] \in {"absent", "foreign"} BY <1>2 DEF Kept, Found
<1> QED BY <1>1, <1>2 DEF Cleared

(* The way back, from the last root to the first. *)
LEMMA BackwardStep == TreesInv /\ [TreesNext]_treesVars => Backward'
<1> SUFFICES ASSUME TreesInv, [TreesNext]_treesVars PROVE Backward' OBVIOUS
<1> USE RootCountAssumption DEF Roots, flags, TreesInv, TreesTypeOK, Backward,
   Recoverable, Cleared, Untouched, Found, Kept
<1>1. CASE StagingCreated BY <1>1 DEF StagingCreated
<1>2. CASE StagingWritten BY <1>2 DEF StagingWritten, Onward
<1>3. CASE BackupCreated BY <1>3 DEF BackupCreated
<1>4. CASE MovedAside BY <1>4 DEF MovedAside
<1>5. CASE Installed BY <1>5 DEF Installed
<1>6. CASE Recorded BY <1>6 DEF Recorded, Onward
<1>7. CASE Committed BY <1>7 DEF Committed
<1>8. CASE StepFails
  <2>1. pc' = "undo" /\ at' = RootCount BY <1>8 DEF StepFails
  <2>2. ASSUME ~interrupted', NEW r \in Roots PROVE Recoverable(r)'
    <3>1. pc \in {"stage", "write", "backup", "move", "install"} BY <1>8, <2>2 DEF StepFails
    <3>2. UNCHANGED <<origin, disk, previous, installed>> BY <1>8 DEF StepFails
    <3>3. CASE ToCome(r) BY <3>2, <3>3 DEF Forward
    <3>4. CASE ~ToCome(r) /\ Behind(r) BY <3>2, <3>4 DEF Forward, InPlace
    <3>5. CASE ~ToCome(r) /\ ~Behind(r)
      <4>1. r = at /\ pc = "install" BY <3>1, <3>5 DEF ToCome, Behind
      <4> QED BY <3>2, <4>1 DEF Forward
    <3> QED BY <3>3, <3>4, <3>5
  <2>3. \A r \in Roots : ~(r > RootCount) OBVIOUS
  <2> QED BY <2>1, <2>2, <2>3
<1>9. CASE Undone BY <1>9 DEF Undone
<1>10. CASE Restored
  <2>1. CASE errors' = {} /\ pc' \in {"undo", "restore"}
    <3>1. at > 1 /\ at' = at - 1 /\ pc' = "undo" /\ errors = {}
      BY <1>10, <2>1 DEF Restored, RolledBack
    <3>2. \A r \in Roots : r # at => disk'[r] = disk[r] /\ previous'[r] = previous[r]
      BY <1>10 DEF Restored
    <3>3. UNCHANGED <<origin, installed, interrupted>> BY <1>10 DEF Restored, RolledBack
    <3>4. origin[at] = "old" => disk'[at] = "old"
      BY <1>10 DEF Restored, OldTreesSurvive, Ends, Ending
    <3>5. ASSUME NEW r \in Roots, r = at, ~interrupted PROVE Found(r)'
      <4>1. Cleared(r) BY <1>10, <3>1, <3>5 DEF Restored
      <4>2. /\ disk'[r] = IF previous[r] # "absent" THEN previous[r] ELSE disk[r]
            /\ previous[r] # "absent" => disk[r] = "absent"
        BY <1>10, <3>5 DEF Restored
      <4> QED BY <4>1, <4>2, <3>3, PutBack
    <3>6. \A r \in Roots : r > at - 1 => r = at \/ r > at OBVIOUS
    <3>7. \A r \in Roots : r > at' /\ origin'[r] = "old" => disk'[r] = "old"
      BY <1>10, <3>1, <3>2, <3>3, <3>4, <3>6 DEF Restored
    <3>8. ~interrupted' => \A r \in Roots : r > at' => Found(r)'
      BY <1>10, <3>1, <3>2, <3>3, <3>5, <3>6 DEF Restored
    <3>9. ~interrupted' => \A r \in Roots : r <= at' => Recoverable(r)'
      BY <1>10, <3>1, <3>2, <3>3 DEF Restored
    <3> QED BY <3>1, <3>7, <3>8, <3>9
  <2>2. CASE ~(errors' = {} /\ pc' \in {"undo", "restore"}) BY <2>2
  <2> QED BY <2>1, <2>2
<1>11. CASE RollbackFails BY <1>11 DEF RollbackFails, RolledBack
<1>12. CASE RollbackInterrupted BY <1>12 DEF RollbackInterrupted
<1>13. CASE StagingDropped BY <1>13 DEF StagingDropped
<1>14. CASE BackupDropped BY <1>14 DEF BackupDropped, Onward
<1>15. CASE CleanupInterrupted BY <1>15 DEF CleanupInterrupted
<1>16. CASE Killed BY <1>16 DEF Killed
<1>17. CASE \E r \in Roots : SomebodyElse(r) BY <1>17 DEF SomebodyElse
<1>18. CASE UNCHANGED treesVars BY <1>18 DEF treesVars
<1> QED BY <1>1, <1>2, <1>3, <1>4, <1>5, <1>6, <1>7, <1>8, <1>9, <1>10, <1>11,
     <1>12, <1>13, <1>14, <1>15, <1>16, <1>17, <1>18 DEF TreesNext

(* What the outcome says. *)
LEMMA EndsStep == TreesInv /\ [TreesNext]_treesVars => Ends'
<1> SUFFICES ASSUME TreesInv, [TreesNext]_treesVars PROVE Ends' OBVIOUS
<1> USE RootCountAssumption DEF Roots, flags, TreesInv, TreesTypeOK, Ends,
   Ending, Found
<1>1. CASE StagingCreated BY <1>1 DEF StagingCreated
<1>2. CASE StagingWritten BY <1>2 DEF StagingWritten, Onward
<1>3. CASE BackupCreated BY <1>3 DEF BackupCreated
<1>4. CASE MovedAside BY <1>4 DEF MovedAside
<1>5. CASE Installed BY <1>5 DEF Installed
<1>6. CASE Recorded BY <1>6 DEF Recorded, Onward
<1>7. CASE Committed BY <1>7 DEF Committed, Forward, Behind, InPlace
<1>8. CASE StepFails BY <1>8 DEF StepFails
<1>9. CASE Undone BY <1>9 DEF Undone
<1>10. CASE Restored BY <1>10 DEF Restored, RolledBack, Backward, OldTreesSurvive, Cleared, Kept
<1>11. CASE RollbackFails BY <1>11 DEF RollbackFails, RolledBack
<1>12. CASE RollbackInterrupted BY <1>12 DEF RollbackInterrupted
<1>13. CASE StagingDropped BY <1>13 DEF StagingDropped
<1>14. CASE BackupDropped BY <1>14 DEF BackupDropped, Onward
<1>15. CASE CleanupInterrupted BY <1>15 DEF CleanupInterrupted
<1>16. CASE Killed BY <1>16 DEF Killed
<1>17. CASE \E r \in Roots : SomebodyElse(r) BY <1>17 DEF SomebodyElse
<1>18. CASE UNCHANGED treesVars BY <1>18 DEF treesVars
<1> QED BY <1>1, <1>2, <1>3, <1>4, <1>5, <1>6, <1>7, <1>8, <1>9, <1>10, <1>11,
     <1>12, <1>13, <1>14, <1>15, <1>16, <1>17, <1>18 DEF TreesNext

-----------------------------------------------------------------------------
(* Whatever fails or interferes, what is true of the trees stays true: types,   *)
(* backups, the progress of the call and of its rollback (replace_generated_    *)
(* trees with its finally clause).                                              *)
THEOREM TreesInvariant == TreesSpec => []TreesInv
<1>1. TreesInv /\ [TreesNext]_treesVars => TreesInv'
  BY TreesTypeStep, SurvivalStep, StagedStep, ForwardStep, BackwardStep, EndsStep
     DEF TreesInv
<1> QED BY <1>1, InvHolds, PTL DEF TreesSpec

(* For any number of roots no failure, interrupt or kill loses an old tree: it  *)
(* is in its place or whole in its backup until the call has committed.         *)
THEOREM TreesSurvive == TreesSpec => []OldTreesSurvive
<1>1. TreesInv => OldTreesSurvive BY DEF TreesInv
<1> QED BY <1>1, TreesInvariant, PTL

(* For any number of roots the call replaces all trees or none, unless it says  *)
(* that its rollback is incomplete or was interrupted, and no old tree is lost. *)
THEOREM TreesAreKeptAlways == TreesSpec => []TreesAreKept
<1>1. TreesInv => AllOrNothing BY DEF TreesInv, Ends, Found, AllOrNothing
<1>2. TreesInv => TreesAreKept BY <1>1 DEF TreesAreKept, TreesInv
<1> QED BY <1>2, TreesInvariant, PTL
=============================================================================
