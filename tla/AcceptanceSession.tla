--------------------------- MODULE AcceptanceSession ---------------------------
(***************************************************************************)
(* run_storage_backend_template_acceptance                                 *)
(* (src/tools/build_gf_ai_developer_kit.py): the storage templates are     *)
(* copied into a project below a private root, Godot imports it and runs   *)
(* its tests, and the root is deleted at the end, but only if it is still  *)
(* the directory that was looked at after it was made, and no process of   *)
(* the session may write to it.  Otherwise it stays, and the error that is *)
(* raised names it.  The binding that the files are written through pins   *)
(* what it finds at the path of the root, later, and nothing compares the  *)
(* two.                                                                    *)
(*                                                                         *)
(* Every step may fail, KeyboardInterrupt may strike in the body and in    *)
(* whatever it calls, and somebody else may at any time put a directory in *)
(* the place of the root or the project, put the old one back, or leave    *)
(* something in the project.  Left out: interrupts inside tempfile, in     *)
(* __exit__ and after the finalizer is detached in __enter__, an fstat of  *)
(* a fresh descriptor that fails, exceptions whose attributes cannot be    *)
(* read or written, what Godot writes below a root that was exchanged, and *)
(* a change between the last look at the root and its deletion.            *)
(***************************************************************************)
EXTENDS Integers, FiniteSets

CONSTANTS
  Handles,    \* the directories that the binding pins
  MaxTroubles \* bound on what somebody else does

ASSUME AcceptanceAssumption ==
  Handles # {} /\ IsFiniteSet(Handles) /\ MaxTroubles \in Nat

VARIABLES
  session,  \* where the call is, and its locals
  fault,    \* the exception that is being raised
  place     \* the directories, the processes, and what somebody else did

acceptanceVars == <<session, fault, place>>

Phases == {"import", "gut"}

\* debt: it, or one in its chain, says that cleanup is owed; quiet: it proves that no
\* process is left; named: it names the root that stays.
Raised(kind, debt, quiet) == [kind |-> kind, debt |-> debt, quiet |-> quiet, named |-> FALSE]
NoError == Raised("none", FALSE, FALSE)
Errors == {Raised(kind, FALSE, FALSE) : kind \in {"ordinary", "control"}}

Body == {"bind", "directories", "project", "empty", "engine", "populate", "check",
         "run", "read", "judge", "finish"}

\* The directory that was made for the call, and the one that may be put in its place.
RootDirectories == {"own", "other"}

\* snapshot: whose identity the root is known by (owned_root_chain); pinned: which
\* directory the binding pins (_root_chain).  The project is the one in that directory.
AcceptanceInit ==
  /\ session = [at |-> "start", phase |-> "import", permitted |-> TRUE, armed |-> FALSE,
                snapshot |-> "none", pinned |-> "none", open |-> {}, good |-> {},
                answer |-> "none"]
  /\ fault = NoError
  /\ place = [root |-> "none", project |-> "none", filled |-> FALSE, process |-> "none",
              deleted |-> {}, troubles |-> 0]

AcceptanceTypeOK ==
  /\ session.at \in Body \cup
       {"start", "snapshot", "detach", "close", "leave", "settle", "ended"}
  /\ session.phase \in Phases /\ session.good \subseteq Phases
  /\ session.permitted \in BOOLEAN /\ session.armed \in BOOLEAN
  /\ {session.snapshot, session.pinned} \subseteq RootDirectories \cup {"none"}
  /\ session.open \subseteq Handles
  /\ session.answer \in {"none", "ok", "failed", "raised"}
  /\ fault.kind \in {"none", "boundary", "ordinary", "control"}
  /\ fault.debt \in BOOLEAN /\ fault.quiet \in BOOLEAN /\ fault.named \in BOOLEAN
  /\ place.root \in RootDirectories \cup {"none", "removed"}
  /\ place.project \in RootDirectories \cup {"none"} /\ place.filled \in BOOLEAN
  /\ place.process \in {"none", "live", "quiet"}
  /\ place.deleted \subseteq RootDirectories /\ place.troubles \in 0 .. MaxTroubles

-----------------------------------------------------------------------------
\* Somebody else, and Godot.
Swapped(there) == IF there = "own" THEN "other" ELSE "own"

Trouble ==
  /\ place.troubles < MaxTroubles
  /\ \/ /\ place.root \in RootDirectories
        /\ place' = [place EXCEPT !.root = Swapped(@), !.troubles = @ + 1]
     \/ /\ place.project # "none"
        /\ place' = [place EXCEPT !.project = Swapped(@), !.troubles = @ + 1]
     \/ /\ place.project # "none" /\ ~place.filled
        /\ place' = [place EXCEPT !.filled = TRUE, !.troubles = @ + 1]
  /\ UNCHANGED <<session, fault>>

ProcessEnds ==
  /\ place.process = "live"
  /\ place' = [place EXCEPT !.process = "quiet"]
  /\ UNCHANGED <<session, fault>>

-----------------------------------------------------------------------------
\* Whatever is at the path of the root goes.
RootDeleted ==
  place' = [place EXCEPT !.root = "removed", !.deleted = @ \cup ({place.root} \ {"removed"})]

\* _mark_retained
Retained(f) == [f EXCEPT !.debt = TRUE, !.quiet = FALSE, !.named = TRUE]

\* The error of a close, or what was being raised before, with the root named.
Owing(f) == Retained(IF f = NoError THEN Raised("boundary", TRUE, FALSE) ELSE f)

\* What _cleanup_owned_root wants to see.
RootIsOwn == place.root = session.snapshot

\* __enter__ of the temporary root: it is made, with a finalizer that would delete it,
Entered ==
  /\ session.at = "start"
  /\ \/ /\ session' = [session EXCEPT !.at = "snapshot", !.armed = TRUE]
        /\ place' = [place EXCEPT !.root = "own"]
        /\ UNCHANGED fault
     \/ /\ session' = [session EXCEPT !.at = "settle"]
        /\ fault' \in Errors
        /\ UNCHANGED place

\* and its identity is that of the directory which is there by now.
IdentityTaken ==
  /\ session.at = "snapshot"
  /\ \/ /\ session' = [session EXCEPT !.at = "detach", !.snapshot = place.root]
        /\ UNCHANGED fault
     \/ /\ session' = [session EXCEPT !.at = "settle"]
        /\ fault' \in Errors
  /\ UNCHANGED place

\* The finalizer is detached, or the detachment is interrupted before or after the fact;
\* the root that is cleaned then is detached from it as well.
Detached ==
  /\ session.at = "detach"
  /\ \/ session' = [session EXCEPT !.at = "bind", !.armed = FALSE] /\ UNCHANGED <<fault, place>>
     \/ /\ RootIsOwn /\ RootDeleted
        /\ session' = [session EXCEPT !.at = "settle", !.armed = FALSE]
        /\ fault' \in Errors
     \/ \E f \in Errors, armed \in BOOLEAN :
          /\ session' = [session EXCEPT !.at = "settle", !.armed = armed]
          /\ fault' = Retained(f)
          /\ UNCHANGED place

-----------------------------------------------------------------------------
StepsTo(step) == session' = [session EXCEPT !.at = step] /\ UNCHANGED <<fault, place>>

Returns(answer) ==
  session' = [session EXCEPT !.at = "close", !.answer = answer] /\ UNCHANGED <<fault, place>>

\* An exception of the body, and whether the root may still be cleaned.
Raises(f, permitted) ==
  /\ fault' = f
  /\ session' = [session EXCEPT !.at = "close", !.permitted = permitted]

\* The binding finds what it pinned.
RootIsPinned == place.root = session.pinned
Verified == RootIsPinned /\ place.project = "own"

\* _verify_storage_acceptance_project_binding raises, over what is being raised already.
Unverified(f) ==
  \E kind \in {"ordinary", "control"} : Raises([f EXCEPT !.kind = kind, !.quiet = FALSE], FALSE)

\* Between two statements, or from what is called there.
BodyInterrupted ==
  /\ session.at \in Body \ {"bind", "directories", "project"}
  /\ Raises(Raised("control", FALSE, FALSE), session.permitted)
  /\ UNCHANGED place

\* __enter__ of the private root pins the directory that is at its path, whichever it is;
\* then its registration is looked at.  An interrupt before that may lose handles.
Bound ==
  /\ session.at = "bind"
  /\ \/ /\ session' = [session EXCEPT !.at = "directories", !.open = Handles,
                                      !.pinned = place.root]
        /\ UNCHANGED fault
     \/ /\ session' = [session EXCEPT !.at = "close", !.open = Handles,
                                      !.pinned = place.root, !.permitted = FALSE]
        /\ fault' \in Errors
     \/ \E f \in Errors, left \in SUBSET Handles :
          /\ session' = [session EXCEPT !.at = "leave", !.open = left]
          /\ IF left = {} THEN fault' = f
             ELSE fault' = Owing(f) \/ (f.kind = "control" /\ fault' = f)
  /\ UNCHANGED place

\* The private directories, and the directory of the project, below what is pinned.
DirectoryMade ==
  /\ session.at \in {"directories", "project"}
  /\ \/ /\ RootIsPinned
        /\ session' = [session EXCEPT !.at = IF @ = "project" THEN "empty" ELSE "project"]
        /\ place' = IF session.at = "project" THEN [place EXCEPT !.project = "own"] ELSE place
        /\ UNCHANGED fault
     \/ (\E f \in Errors : Raises(f, FALSE)) /\ UNCHANGED place

\* _assert_storage_acceptance_empty_project: something stable in the project is no debt.
EmptyOr(f) ==
  /\ UNCHANGED place
  /\ \/ /\ Verified /\ place.filled
        /\ Raises([f EXCEPT !.kind = "ordinary", !.quiet = FALSE], session.permitted)
     \/ Unverified(f)

FoundEmpty ==
  /\ session.at = "empty"
  /\ (Verified /\ ~place.filled /\ StepsTo("engine")) \/ EmptyOr(NoError)

\* The engine is found, or not, or the search raises; the project is looked at again.
EngineResolved ==
  /\ session.at = "engine"
  /\ \/ Verified /\ ~place.filled /\ (StepsTo("populate") \/ Returns("failed"))
     \/ \E f \in Errors :
          Verified /\ ~place.filled /\ Raises(f, session.permitted) /\ UNCHANGED place
     \/ \E f \in Errors \cup {NoError} : EmptyOr(f)

\* populate_storage_backend_template_acceptance_project, or the output of a phase is
\* read; whatever comes of it, the binding is verified.
Populated ==
  /\ session.at \in {"populate", "read"}
  /\ \/ Verified /\ StepsTo(IF session.at = "read" THEN "judge" ELSE "check")
     \/ (\E f \in Errors : Verified /\ Raises(f, session.permitted)) /\ UNCHANGED place
     \/ (\E f \in Errors \cup {NoError} : Unverified(f)) /\ UNCHANGED place

Checked ==
  /\ session.at = "check"
  /\ (Verified /\ StepsTo("run")) \/ (Unverified(NoError) /\ UNCHANGED place)

\* _run_storage_acceptance_process: what run_supervised_process returns, or raises, and
\* what it leaves behind.
FaultEndings ==
  {[process |-> p, fault |-> NoError, permitted |-> TRUE] : p \in {"live", "quiet"}}

Endings ==
  {[process |-> "quiet", fault |-> NoError, permitted |-> TRUE],
   [process |-> place.process, fault |-> Raised("ordinary", FALSE, TRUE), permitted |-> TRUE],
   [process |-> "quiet", fault |-> Raised("control", FALSE, TRUE), permitted |-> FALSE]}
  \cup [process : {"live", "quiet"}, permitted : {FALSE}, fault :
          {Raised("boundary", TRUE, FALSE), Raised("control", TRUE, FALSE),
           Raised("control", FALSE, FALSE)}]

Ran ==
  /\ session.at = "run"
  /\ \E e \in Endings :
       /\ place' = [place EXCEPT !.process = e.process]
       /\ IF Verified /\ e.fault = NoError
          THEN session' = [session EXCEPT !.at = "read"] /\ UNCHANGED fault
          ELSE (Verified /\ Raises(e.fault, e.permitted)) \/ Unverified(e.fault)

Judged ==
  /\ session.at = "judge"
  /\ \/ Returns("failed")
     \/ /\ session' = [session EXCEPT !.good = @ \cup {session.phase}, !.phase = "gut",
                         !.at = IF session.phase = "import" THEN "check" ELSE "finish"]
        /\ UNCHANGED <<fault, place>>

Finished ==
  /\ session.at = "finish"
  /\ (Verified /\ Returns("ok")) \/ (Unverified(NoError) /\ UNCHANGED place)

-----------------------------------------------------------------------------
\* __exit__ of the private root: every handle is closed, or the binding keeps it, with
\* its error, for good.
BindingCloses ==
  /\ session.at = "close"
  /\ \E left \in SUBSET session.open :
       /\ session' = [session EXCEPT !.at = "leave", !.open = left]
       /\ fault' = IF left = {} THEN fault ELSE Owing(fault)
  /\ UNCHANGED place

\* An exception that owes cleanup overrides what was permitted before.
FaultMayClean == session.permitted \/ fault.quiet
MayClean ==
  IF fault = NoError THEN session.permitted
  ELSE ~fault.debt /\ (session.permitted \/ fault.quiet)

\* __exit__ of the temporary root.
RootLeft ==
  /\ session.at = "leave"
  /\ session' = [session EXCEPT !.at = "settle"]
  /\ \/ MayClean /\ RootIsOwn /\ RootDeleted /\ UNCHANGED fault
     \/ /\ fault' \in IF fault # NoError THEN {Retained(fault)}
                      ELSE IF ~MayClean THEN {NoError}
                      ELSE {Retained(f) : f \in Errors \cup {Raised("boundary", TRUE, FALSE)}}
        /\ UNCHANGED place

\* The except clauses of the call; a finalizer that is still armed deletes what it finds.
CallSettled ==
  /\ session.at = "settle"
  /\ session' = [session EXCEPT !.at = "ended", !.answer =
                   IF fault = NoError THEN @
                   ELSE IF fault.kind = "ordinary" /\ ~fault.debt THEN "failed" ELSE "raised"]
  /\ IF session.armed THEN RootDeleted ELSE UNCHANGED place
  /\ UNCHANGED fault

AcceptanceStep ==
  \/ Entered \/ IdentityTaken \/ Detached \/ BodyInterrupted \/ Bound \/ DirectoryMade
  \/ FoundEmpty \/ EngineResolved \/ Populated \/ Checked \/ Ran \/ Judged \/ Finished
  \/ BindingCloses \/ RootLeft \/ CallSettled

AcceptanceNext == AcceptanceStep \/ (session.at # "ended" /\ (Trouble \/ ProcessEnds))

AcceptanceSpec == AcceptanceInit /\ [][AcceptanceNext]_acceptanceVars

-----------------------------------------------------------------------------
\* The root is never deleted under a process.  Nobody else's directory is deleted, unless
\* it was in the place of the root when its identity was taken, or the finalizer of the
\* standard library deletes it, which is armed until it is detached.  A call that returns
\* leaves nothing at the path and no handle open, and what it bound, and filled, is gone,
\* unless the root was exchanged between its identity and its binding: then the directory
\* that was bound may keep what the call put into it.  A call that raises leaves a
\* directory at the path only with a debt that names it, and what is named is there, or
\* the finalizer took it.  ok says that both phases were good.
RootAccounted ==
  /\ place.root = "removed" => place.process # "live"
  /\ "other" \in place.deleted => session.armed \/ session.snapshot = "other"
  /\ session.at = "ended" =>
       /\ session.answer # "none"
       /\ session.answer \in {"ok", "failed"} =>
            /\ place.root \in {"none", "removed"} /\ session.open = {}
            /\ session.pinned = session.snapshot =>
                 session.pinned \in place.deleted \cup {"none"}
       /\ place.root \in RootDirectories => fault.debt /\ fault.named
       /\ fault.named /\ ~session.armed => place.root # "removed"
       /\ session.answer = "ok" => session.good = Phases
=============================================================================
