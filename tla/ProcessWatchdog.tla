--------------------------- MODULE ProcessWatchdog ---------------------------
(***************************************************************************)
(* A long-lived service under the POSIX watchdog.                          *)
(*                                                                         *)
(* Three processes: the caller (a starter thread, the worker thread of     *)
(* _PosixWatchdogSpawnOperation, and the threads that close the lease), an *)
(* isolated helper (gf_posix_process_watchdog.main) which is the caller's  *)
(* child, and the service, the helper's child and leader of its own group. *)
(* CONFIG and CANCEL go down the control pipe; READY, DEBT and QUIET come  *)
(* up the status pipe.  An action is the code between two points where     *)
(* another process or thread can be seen, or where an exception can strike.*)
(*                                                                         *)
(* Abstracted: contents of the frames, budgets and the nonce (a frame is   *)
(* whole or PARTIAL), and the time a /proc scan takes (it is one look).    *)
(***************************************************************************)
EXTENDS Naturals, Sequences, FiniteSets, SequencesExt

CONSTANTS
  Closers,    \* threads that call SupervisedProcessLease.cancel_and_close
  Starter,    \* the one that called start_supervised_process_lease
  MaxFaults   \* bound on exceptions, signals, crashes and failed calls

NoCloser == "nobody"

ASSUME WatchdogAssumption ==
  Starter \in Closers /\ NoCloser \notin Closers /\ MaxFaults \in Nat

VARIABLES
  lapsed,      \* has the absolute lifetime deadline of the lease passed?
  callerAlive, \* the calling process has not been killed
  helperKilled,\* somebody killed the helper with SIGKILL
  faults,      \* faults injected so far
  service,     \* the direct child of the helper
  group,       \* has the service's group a live member besides its leader?
  exec,        \* what the exec error pipe shows the helper
  helper,      \* main() of the helper: its place and locals
  term,        \* the locals and terminal_guard of _terminate_and_reap
  control,     \* frames in the control pipe
  controlOpen, \* the caller's end of it
  status,      \* frames in the status pipe
  tr,          \* _PosixWatchdogTransport
  op,          \* _PosixWatchdogSpawnOperation
  worker,      \* where its thread is
  starter,     \* where the starter thread is
  slot,        \* the publication slot holds the lease
  close,       \* the public lease's close: owner, what it published
  closer       \* [Closers -> place in cancel_and_close]

envVars == <<lapsed, callerAlive, helperKilled, faults>>
serviceVars == <<service, group, exec>>
helperVars == <<helper, term>>
pipeVars == <<control, controlOpen, status>>
startVars == <<op, worker, starter, slot>>
closeVars == <<close, closer>>
watchdogVars == <<envVars, serviceVars, helperVars, pipeVars, tr, startVars,
                  closeVars>>

NoQuiet == [type |-> "NONE"]

WatchdogTypeOK ==
  /\ {lapsed, callerAlive, helperKilled, group, controlOpen, slot}
       \subseteq BOOLEAN
  /\ faults \in 0..MaxFaults
  /\ service \in {"none", "held", "doomed", "armed", "live", "zombie", "reaped"}
  /\ exec \in {"open", "eof", "error", "read"}
  /\ helper \in [pc: {"none", "config", "fork", "handshake", "settle", "watch",
                      "signal", "observe", "reap", "publish", "exited"},
                 trigger: {"", "cancel", "signal", "deadline", "early_exit",
                           "parent_eof", "exec_failure", "status_error",
                           "watchdog_error", "startup_error"},
                 ready: BOOLEAN, owned: BOOLEAN, stop: BOOLEAN]
  /\ term \in [entered: BOOLEAN, running: BOOLEAN, delivered: BOOLEAN,
               uncertain: BOOLEAN, debt: BOOLEAN, stray: BOOLEAN]
  /\ control \in Seq({"CONFIG", "PARTIAL", "CANCEL"})
  /\ Len(control) <= 2 /\ Len(status) <= 3     \* no frame is sent twice
  /\ \A i \in DOMAIN status : status[i].type \in {"READY", "DEBT", "QUIET"}
  /\ DOMAIN tr = {"ready", "quiet", "eof", "broken", "reaped", "finalized"}
  /\ {tr.ready, tr.eof, tr.broken, tr.reaped, tr.finalized} \subseteq BOOLEAN
  /\ tr.quiet.type \in {"NONE", "QUIET"}
  /\ worker \in {"none", "boot", "construct", "scrap", "decide", "cancel",
                 "drain", "done"}
  /\ op \in [ready: BOOLEAN, decided: BOOLEAN, acknowledged: BOOLEAN,
             abandoned: BOOLEAN, failed: BOOLEAN,
             outcome: {"none", "transferred", "quiet", "debt"}]
  /\ starter \in {"launch", "claim", "config", "ready", "acknowledge",
                  "returned", "giveup", "wait", "closing", "raised"}
  /\ close \in [owner: Closers \cup {NoCloser}, pending: BOOLEAN,
                outcome: {"none", "quiet", "error", "debt"},
                observed: BOOLEAN, expired: BOOLEAN]
  /\ closer \in [Closers -> {"idle", "wait", "entry", "first", "cancel",
                             "second", "settle", "quiet", "error", "debt",
                             "late"}]

WatchdogInit ==
  /\ lapsed = FALSE /\ callerAlive = TRUE /\ helperKilled = FALSE /\ faults = 0
  /\ service = "none" /\ group = FALSE /\ exec = "open"
  /\ helper = [pc |-> "none", trigger |-> "", ready |-> FALSE,
               owned |-> FALSE, stop |-> FALSE]
  /\ term = [entered |-> FALSE, running |-> FALSE, delivered |-> FALSE,
             uncertain |-> FALSE, debt |-> FALSE, stray |-> FALSE]
  /\ control = <<>> /\ controlOpen = TRUE /\ status = <<>>
  /\ tr = [ready |-> FALSE, quiet |-> NoQuiet, eof |-> FALSE, broken |-> FALSE,
           reaped |-> FALSE, finalized |-> FALSE]
  /\ op = [ready |-> FALSE, decided |-> FALSE, acknowledged |-> FALSE,
           abandoned |-> FALSE, failed |-> FALSE, outcome |-> "none"]
  /\ worker = "none" /\ starter = "launch" /\ slot = FALSE
  /\ close = [owner |-> NoCloser, outcome |-> "none", pending |-> FALSE,
              observed |-> FALSE, expired |-> FALSE]
  /\ closer = [c \in Closers |-> "idle"]

Fault == faults < MaxFaults /\ faults' = faults + 1

-----------------------------------------------------------------------------
(* The environment. *)

\* time.perf_counter() reaches the deadline of the lease.
LifetimeEnds ==
  /\ ~lapsed /\ lapsed' = TRUE
  /\ UNCHANGED <<callerAlive, helperKilled, faults, serviceVars, helperVars,
                 pipeVars, tr, startVars, closeVars>>

\* The caller is killed: both pipes lose its end.
CallerCrashes ==
  /\ callerAlive /\ helper.pc # "none"
  /\ Fault
  /\ callerAlive' = FALSE /\ controlOpen' = FALSE
  /\ UNCHANGED <<lapsed, helperKilled, serviceVars, helperVars, control, status,
                 tr, startVars, closeVars>>

\* SIGTERM, SIGINT or SIGHUP reach the helper, or SIGKILL does.
HelperSignalled ==
  /\ helper.pc \notin {"none", "exited"}
  /\ Fault
  /\ \/ /\ ~helper.stop /\ helper' = [helper EXCEPT !.stop = TRUE]
        /\ UNCHANGED <<helperKilled, service>>
     \/ /\ helper' = [helper EXCEPT !.pc = "exited"]
        /\ helperKilled' = TRUE
        /\ service' = IF service = "held" THEN "doomed" ELSE service
  /\ UNCHANGED <<lapsed, callerAlive, group, exec, term, pipeVars, tr, startVars,
                 closeVars>>

\* The child of the fork: it execs once it has read "G" (armed), and exits
\* when the guard pipe closes instead (doomed).
ServiceStarts ==
  /\ \/ service = "armed" /\ service' = "live" /\ exec' = "eof"
     \/ service = "armed" /\ service' = "zombie" /\ exec' = "error"
     \/ service = "doomed" /\ service' = "zombie" /\ exec' = "error"
  /\ UNCHANGED <<envVars, group, helperVars, pipeVars, tr, startVars, closeVars>>

\* The service runs: it forks, it ends, its descendants end.
ServiceRuns ==
  /\ \/ service = "live" /\ ~group /\ group' = TRUE /\ UNCHANGED service
     \/ service = "live" /\ service' = "zombie" /\ UNCHANGED group
     \/ group /\ group' = FALSE /\ UNCHANGED service
  /\ UNCHANGED <<envVars, exec, helperVars, pipeVars, tr, startVars, closeVars>>

-----------------------------------------------------------------------------
(* The helper, gf_posix_process_watchdog.py. *)

helperFrame == <<lapsed, callerAlive, helperKilled, controlOpen, tr, startVars,
                 closeVars>>

ServiceExited == service = "zombie"          \* _direct_exit_observed
LiveMember == service = "live" \/ group        \* _process_group_state
StatusOpen == callerAlive /\ ~tr.finalized   \* a reader is left

\* _write_status: nothing is written when the reader is gone.
WriteStatus(m) == status' = IF StatusOpen THEN Append(status, m) ELSE status

\* The finally clause of main(): where it goes with this trigger.
Leave(h, trigger) ==
  [h EXCEPT !.trigger = trigger, !.pc = IF h.owned THEN "signal" ELSE "publish"]

\* _read_initial_config, _validated_config and the checks before the spawn.
\* A frame cut short is only refused when more bytes, or the end, follow it.
NextFrame == IF control = <<>> THEN "END" ELSE Head(control)

ConfigRefused ==
  \/ lapsed
  \/ NextFrame = "CANCEL"
  \/ NextFrame = "PARTIAL" /\ Len(control) > 1
  \/ NextFrame \in {"END", "PARTIAL"} /\ ~controlOpen

ReadConfig ==
  /\ helper.pc = "config"
  /\ \/ /\ NextFrame = "CONFIG" /\ ~lapsed
        /\ helper' = [helper EXCEPT !.pc = "fork"]
        /\ control' = Tail(control)
        /\ UNCHANGED faults
     \/ /\ ConfigRefused
        /\ helper' = Leave(helper, "startup_error")
        /\ UNCHANGED <<control, faults>>
     \/ /\ NextFrame = "CONFIG" /\ Fault         \* _preflight_procfs_visibility
        /\ helper' = Leave(helper, "startup_error")
        /\ control' = Tail(control)
  /\ UNCHANGED <<helperFrame, serviceVars, term, status>>

\* os.fork() and its three ways to fail: no child; a child whose identity the
\* identity pipe still tells; a child that only waitpid(-1) can find.
Fork ==
  /\ helper.pc = "fork"
  /\ \/ /\ service' = "held" /\ helper' = [helper EXCEPT !.pc = "handshake"]
        /\ UNCHANGED faults
     \/ /\ Fault
        /\ \/ /\ service' = "none"
              /\ helper' = [helper EXCEPT !.pc = "settle",
                                          !.trigger = "startup_error"]
           \/ /\ service' = "doomed"
              /\ helper' = Leave([helper EXCEPT !.owned = TRUE], "startup_error")
           \/ /\ service' = "doomed"
              /\ helper' = [helper EXCEPT !.pc = "settle",
                                          !.trigger = "startup_error"]
  /\ UNCHANGED <<helperFrame, group, exec, term, control, status>>

\* _settle_unknown_service_child: waits for it, never signals it.
SettleUnknownChild ==
  /\ helper.pc = "settle" /\ service \in {"none", "zombie"}
  /\ service' = IF service = "zombie" THEN "reaped" ELSE service
  /\ helper' = [helper EXCEPT !.pc = "publish"]
  /\ UNCHANGED <<helperFrame, faults, group, exec, term, control, status>>

\* The identity handshake commits ownership before "G" lets the child go on.
Handshake ==
  /\ helper.pc = "handshake"
  /\ \/ /\ service' = "armed"
        /\ helper' = [helper EXCEPT !.owned = TRUE, !.pc = "watch"]
        /\ UNCHANGED faults
     \/ /\ service' = "doomed"
        /\ helper' = Leave([helper EXCEPT !.owned = TRUE], "startup_error")
        /\ IF lapsed THEN UNCHANGED faults ELSE Fault
  /\ UNCHANGED <<helperFrame, group, exec, term, control, status>>

\* The tests at the top of the loop, and an exception anywhere inside it.
WatchTests ==
  /\ helper.pc = "watch"
  /\ \/ helper.stop /\ helper' = Leave(helper, "signal") /\ UNCHANGED faults
     \/ lapsed /\ helper' = Leave(helper, "deadline") /\ UNCHANGED faults
     \/ /\ ServiceExited /\ helper' = Leave(helper, "early_exit")
        /\ UNCHANGED faults
     \/ Fault /\ helper' = Leave(helper, "watchdog_error")
  /\ UNCHANGED <<helperFrame, serviceVars, term, control, status>>

WatchControlDeaf ==
  /\ helper.pc = "watch" /\ control # <<>> /\ control' = <<>>
  /\ helper' = Leave(helper, IF ServiceExited THEN "early_exit" ELSE "cancel")
  /\ UNCHANGED <<helperFrame, faults, serviceVars, term, status>>

\* The control pipe is readable.  A CANCEL looks again whether the service
\* has ended by itself.
WatchControl ==
  /\ helper.pc = "watch"
  /\ \/ /\ control # <<>> /\ control' = <<>>
        /\ helper' =
             Leave(helper, IF ServiceExited THEN "early_exit" ELSE "cancel")
     \/ /\ control = <<>> /\ ~controlOpen /\ UNCHANGED control
        /\ helper' = Leave(helper, "parent_eof")
  /\ UNCHANGED <<helperFrame, faults, serviceVars, term, status>>

\* The exec pipe is readable: an error, or the end that means READY.
WatchExec ==
  /\ helper.pc = "watch" /\ exec \in {"eof", "error"}
  /\ exec' = "read"
  /\ \/ /\ exec = "error"
        /\ helper' = Leave(helper, "exec_failure")
        /\ UNCHANGED status
     \/ /\ exec = "eof" /\ WriteStatus([type |-> "READY"])
        /\ helper' = IF StatusOpen
                     THEN [helper EXCEPT !.ready = TRUE]
                     ELSE Leave([helper EXCEPT !.ready = TRUE], "status_error")
  /\ UNCHANGED <<helperFrame, faults, service, group, term, control>>

\* Entry of _terminate_and_reap and signal_owned_group: one killpg, or one
\* kill while there is no group yet, takes every member of the group.
Signalled(delivered) ==
  [term EXCEPT !.entered = TRUE,
               !.running = IF term.entered THEN @ ELSE ~ServiceExited,
               !.delivered = @ \/ delivered,
               !.stray = @ \/ (delivered /\ service = "reaped")]

KillServiceGroup ==
  /\ service' = IF service = "reaped" THEN service ELSE "zombie"
  /\ group' = FALSE
  /\ term' = Signalled(TRUE)

SignalOwnedGroup ==
  /\ helper.pc = "signal"
  /\ \/ ~term.uncertain /\ KillServiceGroup /\ UNCHANGED faults
     \/ /\ ~term.uncertain /\ Fault
        /\ term' = Signalled(FALSE) /\ UNCHANGED <<service, group>>
     \/ term.uncertain /\ UNCHANGED <<service, group, term, faults>>
  /\ helper' = [helper EXCEPT !.pc = "observe"]
  /\ UNCHANGED <<helperFrame, exec, control, status>>

ReapAtLeaderExit ==
  /\ helper.pc = "observe"
  /\ IF ServiceExited
     THEN service' = "reaped" /\ helper' = [helper EXCEPT !.pc = "publish"]
     ELSE UNCHANGED service /\ helper' = [helper EXCEPT !.pc = "signal"]
  /\ UNCHANGED <<helperFrame, faults, group, exec, term, control, status>>

\* The rest of a round: waitpid() once the leader has ended and no member of
\* its group is live.  An exception around waitpid() leaves the guard
\* uncertain for ever, whether the kernel has reaped or not.
ObserveAndReap ==
  /\ helper.pc = "observe"
  /\ IF ServiceExited /\ ~LiveMember /\ ~term.uncertain
     THEN \/ /\ service' = "reaped"
             /\ helper' = [helper EXCEPT !.pc = "publish"]
             /\ UNCHANGED <<term, faults>>
          \/ /\ Fault
             /\ service' \in {"zombie", "reaped"}
             /\ helper' = [helper EXCEPT !.pc = "signal"]
             /\ term' = [term EXCEPT !.uncertain = TRUE]
     ELSE /\ helper' = [helper EXCEPT !.pc = "signal"]
          /\ UNCHANGED <<service, term, faults>>
  /\ UNCHANGED <<helperFrame, group, exec, control, status>>

NoticeDebtAgain ==
  /\ helper.pc = "observe" /\ term' = [term EXCEPT !.debt = TRUE]
  /\ WriteStatus([type |-> "DEBT"])
  /\ UNCHANGED <<helperFrame, faults, serviceVars, helper, control>>

\* After ten seconds the loop tells the caller once that it is still at work.
NoticeDebt ==
  /\ helper.pc = "observe" /\ ~term.debt
  /\ term' = [term EXCEPT !.debt = TRUE]
  /\ WriteStatus([type |-> "DEBT"])
  /\ UNCHANGED <<helperFrame, faults, serviceVars, helper, control>>

\* The terminal frame, its descriptors closed, and the end of the helper.
PublishQuiet ==
  /\ helper.pc = "publish"
  /\ WriteStatus([type |-> "QUIET", ready |-> helper.ready,
                  child |-> helper.owned,
                  cancelled |-> /\ helper.trigger = "cancel"
                                /\ term.running /\ term.delivered,
                  trigger |-> helper.trigger])
  /\ helper' = [helper EXCEPT !.pc = "exited"]
  /\ UNCHANGED <<helperFrame, faults, serviceVars, term, control>>

HelperNext ==
  \/ ReadConfig \/ Fork \/ SettleUnknownChild \/ Handshake
  \/ WatchTests \/ WatchControl \/ WatchExec
  \/ SignalOwnedGroup \/ ObserveAndReap \/ NoticeDebt
  \/ PublishQuiet

-----------------------------------------------------------------------------
(* The transport: the caller's side of the two pipes. *)

\* _accept_status_locked: a frame out of its turn breaks the protocol.
Accept(t, m) ==
  IF \/ t.quiet # NoQuiet
     \/ m.type = "READY" /\ t.ready
     \/ m.type = "QUIET" /\ m.ready # t.ready
  THEN [t EXCEPT !.broken = TRUE]
  ELSE CASE m.type = "READY" -> [t EXCEPT !.ready = TRUE]
         [] m.type = "QUIET" -> [t EXCEPT !.quiet = m]
         [] OTHER -> t

\* The first k frames, in their order.
Heard(k) ==
  LET upTo[n \in 0 .. k] == IF n = 0 THEN tr ELSE Accept(upTo[n - 1], status[n])
  IN  upTo[k]

\* _pump_status_once reads what is there and then asks whether the helper has
\* ended: when it has, the frames beyond the k-th came after the reading.
Pumped(k, end) ==
  LET read == IF tr.broken \/ tr.eof THEN tr ELSE Heard(k)
  IN  [read EXCEPT !.eof = @ \/ end,
                   !.broken = @ \/ (end /\ read.quiet = NoQuiet),
                   !.reaped = @ \/ helper.pc = "exited"]

\* finalize(): the descriptors are closed once the helper is reaped.
Finalized(t) == IF t.reaped THEN [t EXCEPT !.finalized = TRUE] ELSE t

\* A pump, with the finalization of those callers that go on to it.  A broken
\* protocol and a finalization both close the control pipe.
Pump(finalizing) ==
  IF tr.finalized THEN UNCHANGED <<tr, pipeVars>>
  ELSE \E k \in 0..Len(status), end \in BOOLEAN :
         /\ k = Len(status) \/ helper.pc = "exited"
         /\ end => k = Len(status) /\ helper.pc = "exited"
         /\ tr' = IF finalizing THEN Finalized(Pumped(k, end)) ELSE Pumped(k, end)
         /\ status' = SubSeq(status, k + 1, Len(status))
         /\ controlOpen' = (controlOpen /\ ~tr'.broken /\ ~tr'.finalized)
         /\ UNCHANGED control


\* cleanup_status().cleanup_complete, with what _accept_status_locked checked.
CleanupComplete(t) ==
  t.quiet # NoQuiet /\ ~t.broken /\ t.reaped /\ t.finalized

\* A frame down the control pipe; the write fails once the helper is gone.
CanWrite == controlOpen /\ ~lapsed /\ helper.pc # "exited"

-----------------------------------------------------------------------------
(* The worker thread of the spawn operation. *)

ownSideFrame == <<lapsed, callerAlive, helperKilled, serviceVars, term>>

\* _spawn_posix_watchdog_helper: Popen fails, or the helper is running.
WorkerSpawns ==
  /\ callerAlive /\ worker = "boot"
  /\ \/ /\ helper' = [helper EXCEPT !.pc = "config"]
        /\ worker' = "construct"
        /\ UNCHANGED <<op, faults>>
     \/ /\ Fault
        /\ op' = [op EXCEPT !.failed = TRUE, !.ready = TRUE, !.outcome = "quiet"]
        /\ worker' = "done" /\ UNCHANGED helper
  /\ UNCHANGED <<ownSideFrame, pipeVars, tr, starter, slot, closeVars>>

\* The transport is built and published, or the half-built one is given up.
WorkerPublishes ==
  /\ callerAlive /\ worker = "construct"
  /\ \/ /\ op' = [op EXCEPT !.ready = TRUE] /\ worker' = "decide"
        /\ UNCHANGED faults
     \/ /\ Fault
        /\ op' = [op EXCEPT !.ready = TRUE, !.failed = TRUE]
        /\ worker' = "scrap"
  /\ UNCHANGED <<ownSideFrame, helper, pipeVars, tr, starter, slot, closeVars>>

\* _cleanup_failed_helper_construction: closing the control pipe ends a helper
\* that was never configured; then it is reaped.
WorkerScraps ==
  /\ callerAlive /\ worker = "scrap"
  /\ controlOpen' = FALSE
  /\ IF helper.pc = "exited"
     THEN /\ tr' = [tr EXCEPT !.reaped = TRUE, !.finalized = TRUE]
          /\ op' = [op EXCEPT !.outcome = "quiet"] /\ worker' = "done"
     ELSE UNCHANGED <<tr, op, worker>>
  /\ UNCHANGED <<ownSideFrame, faults, helper, control, status, starter, slot,
                 closeVars>>

\* _worker_main after _decision.wait().
WorkerDecides ==
  /\ callerAlive /\ worker = "decide" /\ op.decided
  /\ IF op.acknowledged
     THEN worker' = "done" /\ op' = [op EXCEPT !.outcome = "transferred"]
     ELSE worker' = "cancel" /\ UNCHANGED op
  /\ UNCHANGED <<ownSideFrame, faults, helper, pipeVars, tr, starter, slot,
                 closeVars>>

\* _finish_abandoned_transport: CANCEL, then the control pipe is closed ...
WorkerCancels ==
  /\ callerAlive /\ worker = "cancel"
  /\ control' = IF controlOpen /\ helper.pc # "exited"
                THEN Append(control, "CANCEL") ELSE control
  /\ controlOpen' = FALSE
  /\ worker' = "drain"
  /\ UNCHANGED <<ownSideFrame, faults, helper, status, tr, op, starter, slot,
                 closeVars>>

\* ... and the status pipe read until the helper is reaped.
WorkerDrains ==
  /\ callerAlive /\ worker = "drain"
  /\ Pump(TRUE)
  /\ IF tr'.finalized
     THEN /\ op' = [op EXCEPT !.outcome =
                      IF CleanupComplete(tr') THEN "quiet" ELSE "debt"]
          /\ worker' = "done"
     ELSE UNCHANGED <<op, worker>>
  /\ UNCHANGED <<ownSideFrame, faults, helper, starter, slot, closeVars>>

WorkerNext ==
  \/ WorkerSpawns \/ WorkerPublishes \/ WorkerScraps
  \/ WorkerDecides \/ WorkerCancels \/ WorkerDrains

-----------------------------------------------------------------------------
(* The starter, _start_posix_watchdog_process_lease. *)

\* launch(): an exception of Thread.start() may leave no thread, or one.
StarterLaunches ==
  /\ callerAlive /\ starter = "launch"
  /\ \/ /\ worker' = "boot" /\ starter' = "claim" /\ UNCHANGED <<op, faults>>
     \/ /\ Fault /\ worker' = "boot" /\ starter' = "giveup" /\ UNCHANGED op
     \/ /\ Fault /\ worker' = "done" /\ starter' = "giveup"
        /\ op' = [op EXCEPT !.ready = TRUE, !.outcome = "quiet"]
  /\ UNCHANGED <<ownSideFrame, helper, pipeVars, tr, slot, closeVars>>

\* claim_before_deadline
StarterClaims ==
  /\ callerAlive /\ starter = "claim"
  /\ \/ /\ op.ready /\ ~lapsed
        /\ starter' = IF op.failed THEN "giveup" ELSE "config"
        /\ UNCHANGED op
     \/ /\ lapsed /\ starter' = "giveup"
        /\ op' = [op EXCEPT !.decided = TRUE, !.abandoned = TRUE]
  /\ UNCHANGED <<ownSideFrame, faults, helper, pipeVars, tr, worker, slot,
                 closeVars>>

\* publish_config_frame: whole, or cut short by the deadline or an exception.
StarterConfigures ==
  /\ callerAlive /\ starter = "config"
  /\ \/ /\ CanWrite /\ control' = Append(control, "CONFIG")
        /\ starter' = "ready" /\ UNCHANGED faults
     \/ /\ CanWrite /\ Fault /\ control' = Append(control, "PARTIAL")
        /\ starter' = "giveup"
     \/ /\ ~CanWrite /\ starter' = "giveup" /\ UNCHANGED <<control, faults>>
  /\ UNCHANGED <<ownSideFrame, helper, controlOpen, status, tr, op, worker, slot,
                 closeVars>>

\* wait_ready_before_deadline: a QUIET or the end of the pipe is a failure
\* even when READY was read with it.
StarterAwaitsReady ==
  /\ callerAlive /\ starter = "ready"
  /\ Pump(FALSE)
  /\ starter' = IF tr'.quiet # NoQuiet \/ tr'.eof \/ tr'.broken THEN "giveup"
                ELSE IF tr'.ready THEN "acknowledge"
                ELSE IF lapsed THEN "giveup" ELSE "ready"
  /\ UNCHANGED <<ownSideFrame, faults, helper, op, worker, slot, closeVars>>

\* acknowledge_claim: publication in the slot is the commit point.  An
\* exception before it abandons the claim, one after it keeps the claim.
StarterAcknowledges ==
  /\ callerAlive /\ starter = "acknowledge"
  /\ \/ /\ ~lapsed /\ slot' = TRUE /\ starter' = "returned"
        /\ op' = [op EXCEPT !.acknowledged = TRUE, !.decided = TRUE]
        /\ UNCHANGED faults
     \/ /\ ~lapsed /\ Fault /\ slot' = TRUE /\ starter' = "closing"
        /\ op' = [op EXCEPT !.acknowledged = TRUE, !.decided = TRUE]
     \/ /\ IF lapsed THEN UNCHANGED faults ELSE Fault
        /\ UNCHANGED slot /\ starter' = "giveup"
        /\ op' = [op EXCEPT !.abandoned = TRUE, !.decided = TRUE]
  /\ UNCHANGED <<ownSideFrame, helper, pipeVars, tr, worker, closeVars>>

\* abandon()
StarterGivesUp ==
  /\ callerAlive /\ starter = "giveup"
  /\ op' = [op EXCEPT !.decided = TRUE, !.abandoned = TRUE]
  /\ starter' = "wait"
  /\ UNCHANGED <<ownSideFrame, faults, helper, pipeVars, tr, worker, slot,
                 closeVars>>

\* wait(): for the worker, or until the deadline.
StarterWaits ==
  /\ callerAlive /\ starter = "wait" /\ (worker = "done" \/ lapsed)
  /\ starter' = "raised"
  /\ UNCHANGED <<ownSideFrame, faults, helper, pipeVars, tr, op, worker, slot,
                 closeVars>>

StarterNext ==
  \/ StarterLaunches \/ StarterClaims \/ StarterConfigures
  \/ StarterAwaitsReady \/ StarterAcknowledges \/ StarterGivesUp \/ StarterWaits

-----------------------------------------------------------------------------
(* The lease: SupervisedProcessLease over _PosixWatchdogProcessLease. *)

closeFrame == <<ownSideFrame, helper, startVars>>

\* poll_health(): anyone who has the lease may pump while it is open.
PollHealth ==
  /\ callerAlive /\ slot /\ close.outcome = "none" /\ ~lapsed
  /\ Pump(FALSE)
  /\ UNCHANGED <<closeFrame, faults, closeVars>>

\* _claim_close_before_deadline, and the exceptions that may strike the owner
\* once it has claimed.
CloseClaim(c) ==
  /\ callerAlive /\ slot /\ closer[c] = "idle"
  /\ c = Starter => starter = "closing" \/ starter = "returned"
  /\ IF close.owner = NoCloser
     THEN /\ closer' = [closer EXCEPT ![c] = "entry"]
          /\ \/ /\ close' = [close EXCEPT !.owner = c] /\ UNCHANGED faults
             \/ /\ close' = [close EXCEPT !.owner = c, !.pending = TRUE]
                /\ Fault
     ELSE /\ closer' = [closer EXCEPT ![c] = "wait"]
          /\ UNCHANGED <<close, faults>>
  /\ UNCHANGED <<closeFrame, pipeVars, tr>>

\* The backend looks at the clock and at the transport before it cancels.
CloseEnter(c) ==
  /\ callerAlive /\ closer[c] = "entry"
  /\ close' = [close EXCEPT !.expired = lapsed, !.observed = tr.quiet # NoQuiet]
  /\ closer' = [closer EXCEPT ![c] =
                  IF lapsed \/ tr.quiet # NoQuiet THEN "first" ELSE "cancel"]
  /\ UNCHANGED <<closeFrame, faults, pipeVars, tr>>

\* request_cancel and close_control.
CloseCancel(c) ==
  /\ callerAlive /\ closer[c] = "cancel"
  /\ control' = IF CanWrite THEN Append(control, "CANCEL") ELSE control
  /\ close' = [close EXCEPT !.pending = @ \/
         (controlOpen /\ ~CanWrite /\ ~(lapsed /\ close.expired))]
  /\ controlOpen' = FALSE
  /\ closer' = [closer EXCEPT ![c] = "second"]
  /\ UNCHANGED <<closeFrame, faults, status, tr>>

\* wait_quiet_and_reaped, before and after the cancellation.
CloseWait(c) ==
  /\ callerAlive /\ closer[c] \in {"first", "second"}
  /\ Pump(TRUE)
  /\ closer' = [closer EXCEPT ![c] =
       IF ~tr'.finalized /\ ~lapsed THEN @
       ELSE IF @ = "first" /\ ~close.observed /\ ~CleanupComplete(tr')
            THEN "cancel" ELSE "settle"]
  /\ UNCHANGED <<closeFrame, faults, close>>

\* Only cleanup_complete makes a result; the public lease publishes what the
\* backend returned or raised.
CloseSettle(c) ==
  /\ callerAlive /\ closer[c] = "settle"
  /\ LET outcome == IF ~CleanupComplete(tr) THEN "debt"
                    ELSE IF close.pending THEN "error" ELSE "quiet"
     IN  /\ close' = [close EXCEPT !.outcome = outcome]
         /\ closer' = [closer EXCEPT ![c] = outcome]
  /\ UNCHANGED <<closeFrame, faults, pipeVars, tr>>

\* _wait_for_close_owner_before_deadline
CloseFollow(c) ==
  /\ callerAlive /\ closer[c] = "wait"
  /\ \/ close.outcome # "none" /\ closer' = [closer EXCEPT ![c] = close.outcome]
     \/ close.outcome = "none" /\ lapsed /\ closer' = [closer EXCEPT ![c] = "late"]
  /\ UNCHANGED <<closeFrame, faults, close, pipeVars, tr>>

\* The deferred handle of a close that ended in debt or too late.
DeferredWait(c) ==
  /\ callerAlive /\ closer[c] \in {"debt", "late"} /\ ~tr.finalized
  /\ IF controlOpen
     THEN controlOpen' = FALSE /\ UNCHANGED <<tr, control, status>>
     ELSE Pump(TRUE)
  /\ UNCHANGED <<closeFrame, faults, closeVars>>

CloseNext(c) ==
  \/ CloseClaim(c) \/ CloseEnter(c) \/ CloseCancel(c) \/ CloseWait(c)
  \/ CloseSettle(c) \/ CloseFollow(c) \/ DeferredWait(c)

-----------------------------------------------------------------------------
WatchdogNext ==
  \/ LifetimeEnds \/ CallerCrashes \/ HelperSignalled
  \/ ServiceStarts \/ ServiceRuns
  \/ HelperNext \/ WorkerNext \/ StarterNext \/ PollHealth
  \/ \E c \in Closers : CloseNext(c)

\* The helper is scheduled, and signals are not refused for ever (Fault); a
\* child that was let go gets to its exec or its exit.
WatchdogFairness ==
  WF_watchdogVars(HelperNext) /\ WF_watchdogVars(ServiceStarts)

WatchdogSpec == WatchdogInit /\ [][WatchdogNext]_watchdogVars /\ WatchdogFairness

-----------------------------------------------------------------------------
TreeGone == service \in {"none", "reaped"} /\ ~group

(* Whatever the worker, a close or the transport calls a completed cleanup  *)
(* really is one: the helper has ended, the service is reaped (or never     *)
(* was) and nobody lives in its group, also after failed signals, failed    *)
(* forks, interrupted hand-overs and a killed helper.  And to get there the *)
(* helper never signals an id that a waitpid() may have freed: somebody     *)
(* else may have it by then.                                                *)
QuietIsTrue ==
  /\ (\/ close.outcome \in {"quiet", "error"}
      \/ op.outcome = "quiet" /\ worker = "done"
      \/ CleanupComplete(tr)) =>
         TreeGone /\ helper.pc \in {"none", "exited"}
  /\ ~term.stray

(* Authority over the transport is with exactly one party: the worker that  *)
(* cleans up an abandoned spawn never meets a published lease, and a lease  *)
(* that was acknowledged is one the caller can find in its slot.            *)
OneAuthority ==
  /\ op.acknowledged <=> slot
  /\ worker \in {"cancel", "drain", "scrap"} => ~slot
  /\ op.acknowledged => ~op.abandoned
  /\ Cardinality({c \in Closers :
         closer[c] \in {"entry", "first", "cancel", "second", "settle"}}) <= 1

(* What is reported of a cleanup is true, because exactly one party does it.*)
CleanupIsTrue == QuietIsTrue /\ OneAuthority

(* The tree outlives neither its deadline nor its caller: once the deadline *)
(* has passed or the control pipe has lost the caller's end, the service    *)
(* and its descendants end for good, unless the helper itself is killed.    *)
(* Neither of the two is ever undone, so that <>[] says "at some time".     *)
TreeDies ==
  <>[](lapsed \/ ~controlOpen) => <>[](helperKilled \/ (service # "live" /\ ~group))
=============================================================================
