------------------------------ MODULE OwnedFiles ------------------------------
(***************************************************************************)
(* How build_gf_ai_developer_kit.py reads and writes files:                *)
(* _read_owned_bytes reads one into memory, _copy_owned_regular_file       *)
(* copies one into a directory that a binding has pinned, and              *)
(* build_plugin_archive writes a candidate next to the output, renames it  *)
(* over the output and unlinks it when that did not happen.  All look at   *)
(* identities before and after, since somebody may meanwhile edit or       *)
(* replace the source, move the directory away, or put a file of his own   *)
(* at either name.  On Windows the handles that are open forbid most of    *)
(* that.                                                                   *)
(*                                                                         *)
(* An edit is taken to change the size or the time of the source; nobody   *)
(* else writes into a file that the call made.  The looks that one call    *)
(* takes in a row are one step, and so are a look and the unlink.          *)
(***************************************************************************)
EXTENDS Integers, Sequences

CONSTANTS
  Chunks,     \* the parts in which a file is read and written
  MaxChanges  \* bound on what somebody else does

ASSUME OwnedFilesAssumption == Chunks \in Nat \ {0} /\ MaxChanges \in Nat

VARIABLES
  writer,  \* where the call is, and its locals
  source,  \* the source at its path, and as the call has it open
  folder   \* the pinned directory, and its names

ownedVars == <<writer, source, folder>>

File == [object : 0 .. MaxChanges, version : 0 .. MaxChanges]
FirstFile == [object |-> 0, version |-> 0]

\* The name is the target of a copy or the candidate of an archive; shown says whether
\* the last look at what the call is for found it.
OwnedFilesInit ==
  /\ \E use \in {"read", "copy", "publish"}, windows \in BOOLEAN :
       writer = [use |-> use, windows |-> windows, open |-> FALSE, got |-> <<>>,
                 at |-> IF use = "publish" THEN "create" ELSE "look",
                 seen |-> FirstFile, shown |-> FALSE, result |-> "none"]
  /\ source = [there |-> FirstFile, held |-> FirstFile]
  /\ folder = [pinned |-> TRUE, name |-> "none", output |-> "old", parts |-> 0, changes |-> 0]

OwnedFilesTypeOK ==
  /\ writer.use \in {"read", "copy", "publish"} /\ writer.windows \in BOOLEAN
  /\ writer.at \in {"look", "open", "create", "move", "measure", "verify", "stat", "rename",
                    "again", "close", "clean", "ended"}
  /\ writer.got \in Seq(0 .. MaxChanges) /\ Len(writer.got) <= Chunks
  /\ writer.seen \in File /\ writer.open \in BOOLEAN /\ writer.shown \in BOOLEAN
  /\ writer.result \in {"none", "returned", "raised"}
  /\ source \in [there : File, held : File]
  /\ folder.pinned \in BOOLEAN /\ folder.name \in {"none", "own", "other"}
  /\ folder.output \in {"old", "own", "other"} /\ folder.parts \in 0 .. Chunks
  /\ folder.changes \in 0 .. MaxChanges

-----------------------------------------------------------------------------
\* Somebody else edits the source or puts another file there, moves the directory away
\* or back, or takes one of the names.
SourceChanges ==
  /\ \/ source' = [there |-> [source.there EXCEPT !.version = @ + 1],
                   held |-> IF source.held.object = source.there.object
                            THEN [source.held EXCEPT !.version = @ + 1] ELSE source.held]
     \/ source' = [source EXCEPT !.there = [object |-> @.object + 1, version |-> 0]]
  /\ folder' = [folder EXCEPT !.changes = @ + 1]

Kept(file) == writer.windows /\ writer.open /\ file = "own"

FolderChanges ==
  /\ \/ ~writer.windows /\ folder' = [folder EXCEPT !.pinned = ~@, !.changes = @ + 1]
     \/ /\ ~Kept(folder.name)
        /\ \E file \in {"none", "other"} \ {folder.name} :
             folder' = [folder EXCEPT !.name = file, !.changes = @ + 1]
     \/ /\ ~Kept(folder.output) /\ folder.output # "other"
        /\ folder' = [folder EXCEPT !.output = "other", !.changes = @ + 1]
  /\ UNCHANGED source

SomebodyChanges ==
  /\ writer.at # "ended" /\ folder.changes < MaxChanges
  /\ SourceChanges \/ FolderChanges
  /\ UNCHANGED writer

-----------------------------------------------------------------------------
\* A call or a check fails, or an interrupt strikes.  The finally clause of an archive
\* that has not been published removes its candidate.
Fails ==
  /\ writer.at \notin {"clean", "ended"}
  /\ writer' = [writer EXCEPT !.result = "raised", !.open = FALSE,
       !.at = IF writer.use = "publish" /\ writer.open /\ writer.at # "close"
              THEN "clean" ELSE "ended"]
  /\ UNCHANGED <<source, folder>>

Goes(step) == writer' = [writer EXCEPT !.at = step] /\ UNCHANGED <<source, folder>>

SourceLookedAt ==
  /\ writer.at = "look"
  /\ writer' = [writer EXCEPT !.at = "open", !.seen = source.there]
  /\ UNCHANGED <<source, folder>>

\* Opened, and compared with the first look.
SourceOpened ==
  /\ writer.at = "open" /\ writer.seen = source.there
  /\ source' = [source EXCEPT !.held = source.there]
  /\ writer' = [writer EXCEPT !.at = IF writer.use = "copy" THEN "create" ELSE "move"]
  /\ UNCHANGED folder

\* create_target: the name must be free.
TargetCreated ==
  /\ writer.at = "create" /\ folder.pinned /\ folder.name = "none"
  /\ folder' = [folder EXCEPT !.name = "own"]
  /\ writer' = [writer EXCEPT !.at = "move", !.open = TRUE]
  /\ UNCHANGED source

\* A part of the source, as it is now, is read; a part of the target is written.
PartMoved ==
  /\ writer.at = "move" /\ folder.parts < Chunks
  /\ folder' = [folder EXCEPT !.parts = @ + 1]
  /\ writer' = [writer EXCEPT !.got = Append(@, source.held.version), !.at =
                  IF folder.parts + 1 < Chunks THEN "move"
                  ELSE IF writer.use = "publish" THEN "verify" ELSE "measure"]
  /\ UNCHANGED source

\* fstat of the source, for the comparison at the end.
SourceMeasured ==
  /\ writer.at = "measure" /\ source.held = writer.seen
  /\ Goes(IF writer.use = "copy" THEN "verify" ELSE "again")

TargetIsOwn == folder.pinned /\ folder.name = "own"

\* verify_target; a copy is closed here.
TargetVerified ==
  /\ writer.at = "verify" /\ TargetIsOwn
  /\ writer' = [writer EXCEPT !.open = writer.use = "publish", !.at =
                  IF writer.use = "publish" THEN "stat" ELSE "again"]
  /\ UNCHANGED <<source, folder>>

\* The candidate is looked at once more, except on Windows, where its handle is renamed
\* and not its name.
CandidateLookedAt ==
  /\ writer.at = "stat" /\ folder.pinned
  /\ writer.windows \/ folder.name = "own"
  /\ Goes("rename")

\* publish_target commits: what is at the name is now at the output.
Renamed ==
  /\ writer.at = "rename" /\ folder.name # "none"
  /\ folder' = [folder EXCEPT !.output = folder.name, !.name = "none"]
  /\ writer' = [writer EXCEPT !.at = "again"]
  /\ UNCHANGED source

\* What the call is for.
Expected ==
  CASE writer.use = "read" -> source.there = writer.seen
    [] writer.use = "copy" -> source.there = writer.seen /\ TargetIsOwn
    [] writer.use = "publish" -> folder.pinned /\ folder.output = "own"

\* The last look, at the source, at the copy, or at the output.  Fault: nothing is
\* compared.
FaultLookedAgain ==
  /\ writer.at = "again"
  /\ writer' = [writer EXCEPT !.at = "close", !.shown = Expected]
  /\ UNCHANGED <<source, folder>>

LookedAgain ==
  /\ writer.at = "again" /\ Expected
  /\ writer' = [writer EXCEPT !.at = "close", !.shown = Expected]
  /\ UNCHANGED <<source, folder>>

Returned ==
  /\ writer.at = "close"
  /\ writer' = [writer EXCEPT !.at = "ended", !.open = FALSE, !.result = "returned"]
  /\ UNCHANGED <<source, folder>>

\* unlink_target_if_identity, unless the close before it or the unlink itself fails.
CandidateCleaned ==
  /\ writer.at = "clean"
  /\ writer' = [writer EXCEPT !.at = "ended"]
  /\ \/ TargetIsOwn /\ folder' = [folder EXCEPT !.name = "none"]
     \/ UNCHANGED folder
  /\ UNCHANGED source

OwnedFilesNext ==
  \/ SomebodyChanges \/ Fails \/ SourceLookedAt \/ SourceOpened \/ TargetCreated
  \/ PartMoved \/ SourceMeasured \/ TargetVerified \/ CandidateLookedAt \/ Renamed
  \/ LookedAgain \/ Returned \/ CandidateCleaned

OwnedFilesSpec == OwnedFilesInit /\ [][OwnedFilesNext]_ownedVars

-----------------------------------------------------------------------------
\* What is read or copied is one version of the source, from its first part to its last,
\* and still the source at the end; the copy and the published archive are the call's
\* own and whole.  A call that raises never leaves a part of an archive at the output.
FilesAreWhole ==
  /\ folder.output = "own" => folder.parts = Chunks
  /\ writer.result = "returned" =>
       /\ writer.shown /\ folder.parts = Chunks
       /\ writer.use # "publish" => writer.got = [i \in 1 .. Chunks |-> writer.seen.version]
=============================================================================
