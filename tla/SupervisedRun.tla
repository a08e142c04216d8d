---------------------------- MODULE SupervisedRun ----------------------------
(***************************************************************************)
(* run_supervised_process: one thread starts a process tree, pumps its     *)
(* text output, watches deadline, cancellation and capture limits, and     *)
(* cleans up.  Each phase of the cleanup repeats what earlier phases did   *)
(* not achieve: "final" terminates; "reap" terminates and reaps; "confirm" *)
(* and "close" do all of it, and so does a second, "emergency", close.     *)
(*                                                                         *)
(* Abstracted: output and its pumps (a drain may fail), callbacks and      *)
(* heartbeats (they may raise), and durations.                             *)
(***************************************************************************)
EXTENDS TreeOwner

VARIABLES
  overdue,   \* the deadline has passed
  cancelled, \* the cancellation event is set
  run        \* the locals of run_supervised_process

runVars == <<ownerVars, overdue, cancelled, run>>

Phases == {"stage", "own", "start", "monitor", "initial", "drain", "final",
           "reap", "confirm", "close", "emergency", "outcome", "ended"}

\* step: terminate, reap, confirm, close (of the owner) and a last reap.
RunTypeOK ==
  /\ OwnerTypeOK /\ {overdue, cancelled} \subseteq BOOLEAN
  /\ run \in [phase: Phases, step: {"t", "r", "c", "x", "w"},
              stdin: BOOLEAN, owned: BOOLEAN, stopped: BOOLEAN,
              terminated: BOOLEAN, reaped: BOOLEAN, confirmed: BOOLEAN,
              error: {"none", "plain", "debt"}, timedOut: BOOLEAN,
              cancelled: BOOLEAN,
              outcome: {"none", "stopped", "quiet", "unquiet", "error", "debt"}]

RunInit ==
  /\ OwnerInit({"posix", "windows"})
  /\ overdue = FALSE /\ cancelled \in BOOLEAN
  /\ run = [phase |-> IF cancelled THEN "ended" ELSE "stage", step |-> "t",
            stdin |-> FALSE, owned |-> FALSE, stopped |-> cancelled,
            terminated |-> FALSE, reaped |-> FALSE, confirmed |-> FALSE,
            error |-> "none", timedOut |-> FALSE, cancelled |-> cancelled,
            outcome |-> IF cancelled THEN "stopped" ELSE "none"]

flags == <<overdue, cancelled>>

\* Time passes, and somebody sets the cancellation event.
StopRequested ==
  /\ run.phase # "ended"
  /\ \/ ~overdue /\ overdue' = TRUE /\ UNCHANGED cancelled
     \/ ~cancelled /\ cancelled' = TRUE /\ UNCHANGED overdue
  /\ UNCHANGED <<ownerVars, run>>

RunEnvironment ==
  /\ TreeRuns \/ TreeDying \/ CloseWorker
  /\ UNCHANGED <<flags, run>>

-----------------------------------------------------------------------------
(* Before and during the launch. *)

Stop == overdue \/ cancelled
Failed(r, error) == [r EXCEPT !.phase = "initial",
                              !.error = IF @ = "none" THEN error ELSE @]

\* A staged stdin is closed in two attempts; without a close there is debt.
StdinClosed(proven) ==
  \/ proven /\ NoStrike
  \/ ~proven /\ run.stdin /\ strikes + 2 <= MaxStrikes /\ strikes' = strikes + 2

\* A stop before the launch: stdin is closed, and the owner cleaned up as ever.
LaunchStopped ==
  \E proven \in BOOLEAN :
    /\ StdinClosed(proven)
    /\ run' = IF proven THEN [run EXCEPT !.phase = "drain", !.stopped = TRUE]
              ELSE Failed(run, "debt")

\* An exception on the way: it stays the error when stdin can be closed.
LaunchFails ==
  \/ Strike /\ run' = Failed(run, "plain")
  \/ /\ run.stdin /\ strikes + 3 <= MaxStrikes /\ strikes' = strikes + 3
     /\ run' = Failed(run, "debt")

StageStdin ==
  /\ run.phase = "stage"
  /\ \/ /\ \E staged \in BOOLEAN :
             /\ staged => ~Stop
             /\ run' = [run EXCEPT !.phase = "own", !.stdin = staged]
        /\ NoStrike
     \/ Stop /\ LaunchStopped
     \/ LaunchFails
  /\ UNCHANGED <<platform, treeVars, owner, flags>>

MakeOwner ==
  /\ run.phase = "own"
  /\ \/ ~Stop /\ NoStrike /\ run' = [run EXCEPT !.phase = "start", !.owned = TRUE]
     \/ /\ Stop /\ \E proven \in BOOLEAN :
             /\ StdinClosed(proven)
             /\ run' = IF proven
                       THEN [run EXCEPT !.phase = "drain", !.owned = TRUE,
                                        !.stopped = TRUE]
                       ELSE Failed([run EXCEPT !.owned = TRUE], "debt")
     \/ LaunchFails
  /\ UNCHANGED <<platform, treeVars, owner, flags>>

\* owner.start; a child whose stdin cannot be closed here is a failed launch.
StartChild ==
  /\ run.phase = "start"
  /\ \/ StartProcess /\ run' = [run EXCEPT !.phase = "monitor", !.stdin = FALSE]
     \/ Started(TRUE) /\ run.stdin /\ LaunchFails
     \/ StartRaises /\ run' = Failed(run, "plain")
  /\ UNCHANGED flags

-----------------------------------------------------------------------------
(* The monitoring loop. *)

TerminateNow == \E x \in BOOLEAN : Terminate(TRUE, x)

\* The loop ends: the child has ended; too much output; too late; cancelled.
Monitor ==
  /\ run.phase = "monitor"
  /\ \/ /\ leader = "zombie" /\ UNCHANGED ownerVars
        /\ run' = [run EXCEPT !.phase = "drain"]
     \/ /\ TerminateNow /\ run' = [run EXCEPT !.phase = "drain"]
     \/ /\ overdue /\ TerminateNow
        /\ run' = [run EXCEPT !.phase = "drain", !.timedOut = TRUE]
     \/ /\ cancelled /\ ~overdue /\ TerminateNow
        /\ run' = [run EXCEPT !.phase = "drain", !.cancelled = TRUE]
  /\ UNCHANGED flags

\* KeyboardInterrupt, a callback or a pump that raises.
MonitorRaises ==
  /\ run.phase = "monitor" /\ LaunchFails
  /\ UNCHANGED <<platform, treeVars, owner, flags>>

-----------------------------------------------------------------------------
(* The cleanup. *)

HasChild == run.owned /\ leader # "none"
Noted(r) == [r EXCEPT !.error = IF @ = "none" THEN "plain" ELSE @]

\* record_cleanup_error: an action struck before or after its effect.
StruckOwner(o) == IF run.owned THEN [o EXCEPT !.failed = TRUE] ELSE o

\* initial_termination, and output_drain: pumps that do not reach the end of
\* their pipes have the tree killed, and count as a timeout.
InitialTermination ==
  /\ run.phase = "initial"
  /\ \/ HasChild /\ TerminateNow /\ run' = [run EXCEPT !.phase = "drain"]
     \/ ~HasChild /\ UNCHANGED ownerVars /\ run' = [run EXCEPT !.phase = "drain"]
     \/ /\ Strike /\ owner' = StruckOwner(owner)
        /\ run' = [run EXCEPT !.phase = "drain"]
        /\ UNCHANGED <<platform, treeVars>>
  /\ UNCHANGED flags

OutputDrain ==
  /\ run.phase = "drain"
  /\ \/ UNCHANGED ownerVars /\ run' = [run EXCEPT !.phase = "final", !.step = "t"]
     \/ /\ HasChild /\ TerminateNow
        /\ run' = [run EXCEPT !.phase = "final", !.step = "t",
                              !.timedOut = @ \/ ~run.cancelled]
     \/ /\ Strike /\ owner' = StruckOwner(owner)
        /\ run' = [Noted(run) EXCEPT !.phase = "final", !.step = "t"]
        /\ UNCHANGED <<platform, treeVars>>
  /\ UNCHANGED flags

NextPhase(p) ==
  CASE p = "final" -> "reap" [] p = "reap" -> "confirm"
    [] p = "confirm" -> "close" [] OTHER -> "outcome"

\* The end of a phase; a close that did not close is tried once more.
PhaseOver(r) ==
  [r EXCEPT !.step = "t",
     !.phase = IF @ = "close" /\ r.owned /\ ~owner'.closed THEN "emergency"
               ELSE NextPhase(@)]

\* A step that did not achieve its aim, or raised, ends its phase, but the
\* owner is closed in any case.
Closing == run.phase \in {"close", "emergency"}
Aborted(r) == IF Closing /\ r.owned THEN [r EXCEPT !.step = "x"] ELSE PhaseOver(r)

Struck == Strike /\ owner' = StruckOwner(owner) /\ run' = Aborted(Noted(run))

\* ensure_tree_termination
FinalTermination ==
  /\ run.step = "t" /\ run.phase \in {"final", "reap", "confirm", "close", "emergency"}
  /\ \/ /\ run.terminated \/ ~HasChild \/ (run.reaped /\ run.phase # "final")
        /\ LET r == [run EXCEPT !.terminated = @ \/ ~HasChild] IN
             run' = IF run.phase = "final" THEN PhaseOver(r) ELSE [r EXCEPT !.step = "r"]
        /\ UNCHANGED ownerVars
     \/ /\ ~run.terminated /\ HasChild /\ TerminateNow
        /\ LET r == [run EXCEPT !.terminated = owner'.terminated] IN
             run' = IF run.phase # "final" /\ r.terminated
                    THEN [r EXCEPT !.step = "r"] ELSE Aborted(r)
     \/ /\ ~run.terminated /\ HasChild /\ Struck /\ UNCHANGED <<platform, treeVars>>
  /\ UNCHANGED flags

\* direct_reap: never before the termination has succeeded.
DirectReap ==
  /\ run.step = "r"
  /\ \/ /\ run.reaped \/ ~HasChild
        /\ LET r == [run EXCEPT !.reaped = TRUE] IN
             run' = IF run.phase = "reap" THEN PhaseOver(r) ELSE [r EXCEPT !.step = "c"]
        /\ UNCHANGED ownerVars
     \/ /\ ~run.reaped /\ HasChild
        /\ \E x \in BOOLEAN : Reap(x) /\
             LET r == [run EXCEPT !.reaped = leader' = "reaped"] IN
             run' = IF run.phase # "reap" /\ r.reaped
                    THEN [r EXCEPT !.step = "c"] ELSE Aborted(r)
     \/ /\ ~run.reaped /\ HasChild /\ leader' \in {leader, "reaped"}
        /\ Struck /\ UNCHANGED <<platform, kin, stray>>
  /\ UNCHANGED flags

\* cleanup_confirmation
CleanupConfirmation ==
  /\ run.step = "c"
  /\ \/ /\ run.confirmed \/ ~run.owned
        /\ run' = Aborted([run EXCEPT !.confirmed = TRUE])
        /\ UNCHANGED ownerVars
     \/ /\ ~run.confirmed /\ run.owned /\ \E x \in BOOLEAN : Confirm(TRUE, x)
        /\ run' = Aborted([run EXCEPT !.confirmed = owner'.confirmed])
     \/ ~run.confirmed /\ run.owned /\ Struck /\ UNCHANGED <<platform, treeVars>>
  /\ UNCHANGED flags

\* owner_close: close() and, when it is over, a child that it killed is reaped.
OwnerClose ==
  /\ run.step = "x" /\ CloseBegins
  /\ run' = [run EXCEPT !.step = "w"] /\ UNCHANGED flags

\* An interrupt before it closes ends the phase: the emergency close, or the outcome.
OwnerCloseRaises ==
  /\ run.step = "x" /\ Strike /\ owner' = StruckOwner(owner)
  /\ run' = PhaseOver(Noted(run)) /\ UNCHANGED <<platform, treeVars, flags>>

OwnerClosed ==
  /\ run.step = "w" /\ \E x \in BOOLEAN : CloseSeen(x)
  /\ \/ /\ HasChild /\ ClosedTreeBoundary /\ \E x \in BOOLEAN : Reap(x)
        /\ run' = PhaseOver([run EXCEPT !.reaped = leader' = "reaped"])
     \/ /\ ~(HasChild /\ ClosedTreeBoundary) /\ UNCHANGED ownerVars
        /\ run' = PhaseOver(run)
  /\ UNCHANGED flags

-----------------------------------------------------------------------------
(* What the caller is told. *)

\* No child was ever created, and the owner is closed.
NoChildOwnerQuiet == run.owned /\ leader = "none" /\ ~owner.failed /\ owner.closed

Unproven ==
  run.owned /\ (~owner.closed \/ ~run.terminated \/ ~run.reaped \/ ~run.confirmed)

RaisedOutcome ==
  IF run.error = "debt" THEN "debt"
  ELSE IF ~run.owned \/ NoChildOwnerQuiet \/ ~(owner.failed \/ Unproven)
  THEN "error" ELSE "debt"

StoppedOutcome == IF run.owned /\ (owner.failed \/ Unproven) THEN "debt" ELSE "stopped"

ResultOutcome == IF Unproven THEN "unquiet" ELSE "quiet"

RunOutcome ==
  /\ run.phase = "outcome"
  /\ run' = [run EXCEPT !.phase = "ended",
       !.timedOut = @ \/ (owner.failed /\ ~run.cancelled),
       !.outcome = IF run.error # "none" THEN RaisedOutcome
                   ELSE IF run.stopped THEN StoppedOutcome ELSE ResultOutcome]
  /\ UNCHANGED <<ownerVars, flags>>

-----------------------------------------------------------------------------
RunNext ==
  \/ StopRequested \/ RunEnvironment
  \/ StageStdin \/ MakeOwner \/ StartChild \/ Monitor \/ MonitorRaises
  \/ InitialTermination \/ OutputDrain \/ FinalTermination \/ DirectReap
  \/ CleanupConfirmation \/ OwnerClose \/ OwnerCloseRaises \/ OwnerClosed
  \/ RunOutcome

RunSpec == RunInit /\ [][RunNext]_runVars

-----------------------------------------------------------------------------
(* A result that speaks of a quiescent boundary, a stop before the launch   *)
(* and an exception without cleanup debt mean that nobody of the tree can   *)
(* run any more, whichever step failed or was interrupted; and on the way   *)
(* there a process id was never signalled after the leader was reaped.      *)
BoundaryIsQuiet ==
  /\ run.outcome \in {"quiet", "stopped", "error"} => TreeQuiet
  /\ run.phase \notin {"stage", "own"} => ~stray
=============================================================================
