------------------------------ MODULE TreeOwner ------------------------------
(***************************************************************************)
(* _ProcessTreeOwner: what a supervisor may do to a process tree it        *)
(* started, on POSIX (a process group) and on Windows (a Job Object).      *)
(*                                                                         *)
(* The tree is its leader, which only the supervisor can reap, and its kin *)
(* (all descendants in the group or job).  Every method is a step; it      *)
(* leaves its answer in the owner: terminated, confirmed, closed.  With    *)
(* expired a method is told that its deadline has passed.  A method that   *)
(* raises before its first effect is left to its callers: it changes       *)
(* nothing.                                                                *)
(***************************************************************************)
EXTENDS Naturals

CONSTANT MaxStrikes   \* bound on failed system calls and interruptions

ASSUME TreeOwnerAssumption == MaxStrikes \in Nat

VARIABLES
  platform,  \* "posix" or "windows"
  leader,    \* the direct child
  kin,       \* its descendants in the group or job
  stray,     \* a signal went to a process group id that may be reused
  owner,     \* the owner object
  strikes    \* failed calls and interruptions so far

treeVars == <<leader, kin, stray>>
ownerVars == <<platform, treeVars, owner, strikes>>

OwnerTypeOK ==
  /\ platform \in {"posix", "windows"}
  /\ leader \in {"none", "live", "dying", "zombie", "reaped"}
  /\ kin \in {"none", "live", "dying"}
  /\ stray \in BOOLEAN /\ strikes \in 0..MaxStrikes
  /\ owner \in [handle: {"none", "group", "probe", "job", "closing", "closed"},
                started: BOOLEAN, assigned: BOOLEAN, terminated: BOOLEAN,
                confirmed: BOOLEAN, closed: BOOLEAN, closeOk: BOOLEAN,
                failed: BOOLEAN]

NewOwner(p) ==
  [handle |-> IF p = "windows" THEN "job" ELSE "none",
   started |-> FALSE, assigned |-> FALSE, terminated |-> FALSE,
   confirmed |-> FALSE, closed |-> FALSE, closeOk |-> FALSE, failed |-> FALSE]

OwnerInit(platforms) ==
  /\ platform \in platforms
  /\ leader = "none" /\ kin = "none" /\ stray = FALSE /\ strikes = 0
  /\ owner = NewOwner(platform)

Strike == strikes < MaxStrikes /\ strikes' = strikes + 1
NoStrike == UNCHANGED strikes

-----------------------------------------------------------------------------
(* The tree itself. *)

Doomed(p) == IF p = "live" THEN "dying" ELSE p   \* what SIGKILL makes of it

\* The program runs: it forks, ends, and its descendants end.
TreeRuns ==
  /\ \/ /\ leader = "live" /\ owner.assigned /\ kin' = "live"
        /\ UNCHANGED leader
     \/ leader = "live" /\ leader' = "zombie" /\ UNCHANGED kin
     \/ kin = "live" /\ kin' = "none" /\ UNCHANGED leader
  /\ UNCHANGED <<platform, stray, owner, strikes>>

\* What was killed ends.
TreeDying ==
  /\ \/ leader = "dying" /\ leader' = "zombie" /\ UNCHANGED kin
     \/ kin = "dying" /\ kin' = "none" /\ UNCHANGED leader
  /\ UNCHANGED <<platform, stray, owner, strikes>>

\* Nobody is left who could run.
TreeQuiet == leader \in {"none", "reaped"} /\ kin # "live"

\* The group exists as long as anybody, dead or alive, has its id.
GroupExists == leader # "reaped" \/ kin # "none"
JobEmpty == leader \notin {"live", "dying"} /\ kin = "none"

-----------------------------------------------------------------------------
(* Starting. *)

\* _start_process: the child of Popen is published to the owner before the
\* first thing that can fail.  On Windows it is suspended until it is in the
\* job.
Started(assigned) ==
  /\ leader' = "live"
  /\ owner' = [owner EXCEPT !.started = TRUE, !.assigned = assigned,
                 !.handle = IF platform = "posix" THEN "group" ELSE @]
  /\ UNCHANGED <<platform, kin, stray>>

StartProcess == Started(TRUE) /\ NoStrike

\* It raises: without a child, or with one, in the job or not.
StartRaises ==
  /\ Strike
  /\ \/ UNCHANGED <<platform, treeVars, owner>>
     \/ Started(TRUE)
     \/ platform = "windows" /\ Started(FALSE)

-----------------------------------------------------------------------------
(* Termination. *)

\* killpg(SIGKILL).  A group without members is no longer there, and its id
\* may be the id of another group by now.
KillGroup ==
  /\ leader' = Doomed(leader) /\ kin' = Doomed(kin)
  /\ stray' = (stray \/ ~GroupExists)

HasGroup == owner.handle = "group" \/ (owner.handle = "none" /\ owner.started)

\* inspecting: terminate() first looks for the direct child with waitid.
PosixTerminate(inspecting) ==
  \/ /\ ~HasGroup \/ (inspecting /\ leader = "reaped")
     /\ owner' = [owner EXCEPT !.terminated = FALSE, !.failed = TRUE]
     /\ UNCHANGED treeVars /\ NoStrike
  \/ /\ HasGroup /\ ~(inspecting /\ leader = "reaped")
     /\ \/ /\ KillGroup /\ NoStrike
           /\ owner' = [owner EXCEPT !.terminated = TRUE, !.handle = "group"]
        \/ /\ UNCHANGED treeVars /\ Strike
           /\ owner' = [owner EXCEPT !.terminated = FALSE, !.failed = TRUE,
                                     !.handle = "group"]

\* A suspended child that never got into the job is killed by itself, unless it
\* has been seen to exit.
TerminateUnassigned(expired) ==
  \/ /\ leader \in {"zombie", "reaped"} \/ ~expired
     /\ leader' = IF leader = "reaped" THEN leader ELSE "zombie"
     /\ owner' = [owner EXCEPT !.terminated = TRUE]
     /\ UNCHANGED <<kin, stray>> /\ NoStrike
  \/ /\ leader \notin {"zombie", "reaped"}
     /\ leader' = "dying"
     /\ owner' = [owner EXCEPT !.terminated = FALSE, !.failed = TRUE]
     /\ UNCHANGED <<kin, stray>> /\ NoStrike

\* With a closed job the answer is what its close has shown.
TerminateClosing(inspecting) ==
  /\ owner' =
       IF owner.handle = "closing"
       THEN [owner EXCEPT !.terminated = FALSE, !.failed = @ \/ ~inspecting]
       ELSE [owner EXCEPT !.terminated = IF inspecting THEN owner.closeOk
                                         ELSE owner.closed]
  /\ UNCHANGED treeVars /\ NoStrike

TerminateJob(inspecting, expired) ==
  \/ /\ JobEmpty \/ ~expired
     /\ kin' = "none"
     /\ leader' = IF leader \in {"live", "dying"} THEN "zombie" ELSE leader
     /\ owner' = [owner EXCEPT !.terminated = TRUE]
     /\ UNCHANGED stray /\ NoStrike
  \/ /\ ~JobEmpty
     /\ leader' = Doomed(leader) /\ kin' = Doomed(kin)
     /\ owner' = [owner EXCEPT !.terminated = FALSE, !.failed = @ \/ inspecting]
     /\ UNCHANGED stray /\ NoStrike
  \/ /\ owner' = [owner EXCEPT !.terminated = FALSE, !.failed = TRUE]
     /\ UNCHANGED treeVars /\ Strike

WindowsTerminate(inspecting, expired) ==
  IF owner.started /\ ~owner.assigned THEN TerminateUnassigned(expired)
  ELSE IF owner.handle = "job" THEN TerminateJob(inspecting, expired)
  ELSE TerminateClosing(inspecting)

\* terminate() is inspecting, terminate_before_deadline() is not.
Terminate(inspecting, expired) ==
  /\ IF platform = "posix" THEN PosixTerminate(inspecting)
     ELSE WindowsTerminate(inspecting, expired)
  /\ UNCHANGED platform

-----------------------------------------------------------------------------
(* Reaping. *)

\* _reap_direct_process_before_deadline and reap_direct_process: wait, kill
\* the child alone when that takes too long, and wait again.  Its answer is
\* whether the child is reaped afterwards.
Reap(expired) ==
  /\ \/ /\ leader = "zombie" \/ ~expired
        /\ leader' = "reaped"
     \/ /\ leader \in {"live", "dying"}
        /\ leader' = "dying"
     \/ leader = "reaped" /\ UNCHANGED leader
  /\ UNCHANGED <<platform, kin, stray, owner>> /\ NoStrike

-----------------------------------------------------------------------------
(* Confirmation, after the leader was reaped. *)

HasProbe == owner.handle \in {"group", "probe"}
Confirmed(o) == [o EXCEPT !.confirmed = TRUE]
Unconfirmed(o) == [o EXCEPT !.confirmed = FALSE, !.failed = TRUE]

\* From here on the id of the group is only probed, never signalled.  A group
\* of dead members is recognised by a scan of /proc, when there is time for it.
PosixConfirm(expired) ==
  \/ /\ ~HasProbe
     /\ owner' = Confirmed([owner EXCEPT !.handle = "none"]) /\ NoStrike
  \/ /\ HasProbe
     /\ ~GroupExists \/ (~expired /\ leader \notin {"live", "dying"} /\ kin # "live")
     /\ owner' = Confirmed([owner EXCEPT !.handle = "none"]) /\ NoStrike
  \/ /\ HasProbe /\ GroupExists
     /\ owner' = Unconfirmed([owner EXCEPT !.handle = "probe"]) /\ NoStrike
  \/ /\ HasProbe
     /\ owner' = Unconfirmed([owner EXCEPT !.handle = "probe"]) /\ Strike

\* inspecting: the class inherits a confirmation that looks at nothing.
WindowsConfirm(inspecting) ==
  \/ /\ inspecting \/ (owner.handle = "job" /\ JobEmpty)
     /\ owner' = Confirmed(owner) /\ NoStrike
  \/ /\ ~inspecting /\ owner.handle # "job"
     /\ owner' = [owner EXCEPT !.confirmed = owner.closeOk] /\ NoStrike
  \/ /\ ~inspecting /\ owner.handle = "job" /\ ~JobEmpty
     /\ owner' = [owner EXCEPT !.confirmed = FALSE] /\ NoStrike
  \/ /\ ~inspecting /\ owner.handle = "job"
     /\ owner' = Unconfirmed(owner) /\ Strike

Confirm(inspecting, expired) ==
  /\ IF platform = "posix" THEN PosixConfirm(expired) ELSE WindowsConfirm(inspecting)
  /\ UNCHANGED <<platform, treeVars>>

-----------------------------------------------------------------------------
(* Closing. *)

CloseTerminatesTree == platform = "windows"

\* close() begins.  Windows hands the job to a worker thread that calls
\* CloseHandle; when no thread can be had, the owner gets the job back.
CloseBegins ==
  /\ \/ /\ platform = "posix"
        /\ owner' = [owner EXCEPT !.closed = TRUE, !.closeOk = TRUE,
                                  !.started = FALSE]
        /\ NoStrike
     \/ /\ owner.handle = "job"
        /\ owner' = [owner EXCEPT !.handle = "closing", !.closed = FALSE,
                                  !.closeOk = FALSE]
        /\ NoStrike
     \/ /\ owner.handle = "job"
        /\ owner' = [owner EXCEPT !.failed = TRUE, !.closed = FALSE,
                                  !.closeOk = FALSE]
        /\ Strike
     \/ /\ owner.handle = "closing" /\ UNCHANGED owner /\ NoStrike
     \/ /\ owner.handle = "closed"
        /\ owner' = [owner EXCEPT !.closed = TRUE] /\ NoStrike
  /\ UNCHANGED <<platform, treeVars>>

\* The caller of close() goes on when the worker has answered, or when its
\* deadline has passed.
CloseSeen(expired) == owner.handle # "closing" \/ expired

\* _close_windows_handle_worker: closed, and the job kills what is in it; not
\* closed, and the owner has its handle back; or an exception, after which
\* nobody knows and the handle is given up.
CloseWorker ==
  /\ owner.handle = "closing"
  /\ \/ /\ owner' = [owner EXCEPT !.handle = "closed", !.closed = TRUE,
                                  !.closeOk = TRUE]
        /\ kin' = Doomed(kin)
        /\ leader' = IF owner.assigned THEN Doomed(leader) ELSE leader
        /\ NoStrike
     \/ /\ owner' = [owner EXCEPT !.handle = "job", !.closed = FALSE,
                                  !.closeOk = FALSE, !.failed = TRUE]
        /\ UNCHANGED <<leader, kin>> /\ Strike
     \/ /\ owner' = [owner EXCEPT !.handle = "closed", !.closed = TRUE,
                                  !.closeOk = FALSE]
        /\ UNCHANGED <<leader, kin>> /\ Strike
  /\ UNCHANGED <<platform, stray>>

\* The close of a job that kills its members proves the tree gone.
ClosedTreeBoundary == owner.closed /\ owner.closeOk /\ CloseTerminatesTree
TreeProvenEmpty ==
  ClosedTreeBoundary \/ (owner.terminated /\ owner.confirmed)
=============================================================================
