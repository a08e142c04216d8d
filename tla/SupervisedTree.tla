---------------------------- MODULE SupervisedTree ----------------------------
(***************************************************************************)
(* A process tree started through _BinarySpawnOperation, by one of its two *)
(* callers: run_supervised_process_bytes ("bytes", both platforms), which  *)
(* runs a command to its end, and the local process lease ("lease",        *)
(* Windows only), whose starter acknowledges the claim by publishing the   *)
(* lease and closes it later.  What neither the spawn worker nor the       *)
(* caller could clean up goes to _LeaseDeferredCleanupOperation, which is  *)
(* finished by a worker thread or by the threads that wait on its handle.  *)
(*                                                                         *)
(* Whoever cleans walks the same steps of TreeOwner; ladder[e] is where    *)
(* thread e is and what it has proved.  KeyboardInterrupt strikes the      *)
(* caller and the waiters, where the code waits or at the start of a step. *)
(*                                                                         *)
(* Abstracted: output bytes, capture limits, and durations (a wait with a  *)
(* deadline of its own may always run out).                                *)
(***************************************************************************)
EXTENDS TreeOwner, FiniteSets

CONSTANTS Waiters  \* threads that call SupervisedBinaryCleanupHandle.wait

ASSUME WaitersAssumption ==
  IsFiniteSet(Waiters) /\ Waiters \cap {"spawner", "caller", "cleaner", "nobody"} = {}

VARIABLES
  client,    \* "bytes" or "lease"
  late,      \* the caller's absolute deadline has passed
  spawn,     \* _BinarySpawnOperation
  spawner,   \* where its worker thread is
  caller,    \* where the caller is, and its outcome
  ladder,    \* [Threads -> position and proofs in a cleanup]
  deferred,  \* _LeaseDeferredCleanupOperation
  waiter     \* [Waiters -> where it is in wait, and its patience]

Threads == {"spawner", "caller", "cleaner"} \cup Waiters
Nobody == "nobody"

supervisedVars ==
  <<ownerVars, client, late, spawn, spawner, caller, ladder, deferred, waiter>>

Positions ==
  [at: {"rest", "terminate", "reap", "confirm", "close", "closing", "pipes", "rereap",
        "decide"},
   reaped: BOOLEAN, tree: BOOLEAN, conf: BOOLEAN, pipes: BOOLEAN]

Resting == [at |-> "rest", reaped |-> FALSE, tree |-> FALSE, conf |-> FALSE,
            pipes |-> TRUE]

\* Every launch makes at most two workers, and every waiter launches once, or
\* again after an interruption.
LaunchBound == 2 * (1 + Cardinality(Waiters) + MaxStrikes)

SupervisedTypeOK ==
  /\ OwnerTypeOK
  /\ client \in {"bytes", "lease"} /\ late \in BOOLEAN
  /\ spawn \in [ready: BOOLEAN, decided: BOOLEAN, acked: BOOLEAN,
                abandoned: BOOLEAN, finished: BOOLEAN, complete: BOOLEAN,
                error: BOOLEAN]
  /\ spawner \in {"none", "boot", "decide", "clean", "done"}
  /\ caller \in [at: {"launch", "claim", "settle", "monitor", "acknowledge",
                      "held", "giveup", "wait", "clean", "ended"},
                 error: BOOLEAN,
                 outcome: {"none", "quiet", "error", "debt", "plain"}]
  /\ ladder \in [Threads -> Positions]
  /\ deferred \in [made: BOOLEAN, failed: BOOLEAN, fresh: 0..LaunchBound,
                   claimed: Threads \cup {Nobody}, finished: BOOLEAN,
                   complete: BOOLEAN, tree: BOOLEAN, reaped: BOOLEAN,
                   conf: BOOLEAN, error: BOOLEAN]
  /\ waiter \in [Waiters ->
       [at: {"idle", "claimed", "clean", "released", "handed", "poll", "others",
             "true", "false", "raised"},
        patience: {"none", "zero", "finite"}]]

\* Nothing has been started yet, and the caller is about to or never will.
SupervisedFrom(place) ==
  /\ \/ client = "bytes" /\ OwnerInit({"posix", "windows"})
     \/ client = "lease" /\ OwnerInit({"windows"})
  /\ late = FALSE
  /\ spawn = [ready |-> FALSE, decided |-> FALSE, acked |-> FALSE,
              abandoned |-> FALSE, finished |-> FALSE, complete |-> FALSE,
              error |-> FALSE]
  /\ spawner = "none"
  /\ caller = [at |-> place, error |-> FALSE, outcome |-> "none"]
  /\ ladder = [e \in Threads |-> Resting]
  /\ deferred = [made |-> FALSE, failed |-> FALSE, fresh |-> 0,
                 claimed |-> Nobody, finished |-> FALSE, complete |-> FALSE,
                 tree |-> FALSE, reaped |-> FALSE, conf |-> FALSE,
                 error |-> FALSE]
  /\ waiter = [w \in Waiters |-> [at |-> "idle", patience |-> "none"]]

SupervisedInit == SupervisedFrom("launch")

treeFrame == <<client, late, spawn, spawner, caller, deferred, waiter>>
HasProcess == leader # "none"

DeadlinePasses ==
  /\ caller.at # "ended" /\ ~late /\ late' = TRUE
  /\ UNCHANGED <<ownerVars, client, spawn, spawner, caller, ladder, deferred,
                 waiter>>

Environment ==
  /\ TreeRuns \/ TreeDying \/ CloseWorker
  /\ UNCHANGED <<treeFrame, ladder>>

-----------------------------------------------------------------------------
(* The steps of a cleanup. *)

At(e, place) == ladder[e].at = place
Move(e, place) == ladder' = [ladder EXCEPT ![e].at = place]

\* The caller works against its deadline, the others against one of their own.
Expired(e) == IF e = "caller" THEN {late} ELSE BOOLEAN

Interruptible(e) == e = "caller" \/ e \in Waiters

\* A step that raises at its entry: noted, and the cleanup goes on.
Interrupted(e) ==
  /\ Interruptible(e) /\ Strike
  /\ UNCHANGED <<platform, treeVars, owner>>

Pending(e, struck) ==
  /\ caller' = [caller EXCEPT !.error = @ \/ (struck /\ e = "caller")]
  /\ deferred' = [deferred EXCEPT !.error = @ \/ (struck /\ e \in Waiters)]

Frame == UNCHANGED <<client, late, spawn, spawner, waiter>>

\* The lease and the deferred cleanup reap only after a termination that
\* succeeded, the other two in any case.
Cautious(e) == e \in Waiters \cup {"cleaner"} \/ (e = "caller" /\ client = "lease")
Deferring(e) == e \in Waiters \cup {"cleaner"}

TerminateStep(e) ==
  /\ At(e, "terminate")
  /\ \/ /\ ~ladder[e].tree /\ HasProcess
        /\ \/ \E x \in Expired(e) : Terminate(FALSE, x) /\ Pending(e, FALSE)
           \/ Interrupted(e) /\ Pending(e, TRUE)
     \/ /\ ladder[e].tree \/ ~HasProcess
        /\ UNCHANGED <<ownerVars, caller, deferred>>
  /\ Move(e, IF Deferring(e) \/ ~HasProcess THEN "close"
             ELSE IF Cautious(e) /\ ~owner'.terminated THEN "close" ELSE "reap")
  /\ Frame

ReapFirst(e) ==
  IF Deferring(e) THEN ladder[e].tree \/ owner.terminated ELSE TRUE

ReapStep(e) ==
  /\ At(e, "reap")
  /\ \/ /\ ReapFirst(e) /\ ~ladder[e].reaped
        /\ \/ /\ \E x \in Expired(e) : Reap(x)
              /\ ladder' = [ladder EXCEPT ![e].reaped = leader' = "reaped",
                   ![e].at = IF Cautious(e) /\ leader' # "reaped" /\ ~Deferring(e)
                             THEN "close" ELSE "confirm"]
              /\ Pending(e, FALSE)
           \/ /\ Interrupted(e) /\ Pending(e, TRUE)
              /\ Move(e, IF Cautious(e) /\ ~Deferring(e) THEN "close" ELSE "confirm")
     \/ /\ ~ReapFirst(e) \/ ladder[e].reaped
        /\ Move(e, "confirm") /\ UNCHANGED <<ownerVars, caller, deferred>>
  /\ Frame

\* The deferred cleanup confirms only what it has terminated and reaped.
Confirms(e) ==
  ~Deferring(e) \/ (ladder[e].reaped /\ ~ladder[e].tree /\ owner.terminated)

ConfirmStep(e) ==
  /\ At(e, "confirm")
  /\ \/ /\ Confirms(e)
        /\ \/ /\ \E x \in Expired(e) : Confirm(FALSE, x)
              /\ Pending(e, FALSE)
              /\ ladder' = [ladder EXCEPT ![e].conf = owner'.confirmed,
                   ![e].tree = @ \/ (Deferring(e) /\ owner'.confirmed),
                   ![e].at = IF Deferring(e) THEN "pipes" ELSE "close"]
           \/ /\ Interrupted(e) /\ Pending(e, TRUE)
              /\ ladder' = [ladder EXCEPT
                   ![e].tree = @ \/ (Deferring(e) /\ ladder[e].conf),
                   ![e].at = IF Deferring(e) THEN "pipes" ELSE "close"]
     \/ /\ ~Confirms(e) /\ Move(e, "pipes")
        /\ UNCHANGED <<ownerVars, caller, deferred>>
  /\ Frame

CloseStep(e) ==
  /\ At(e, "close")
  /\ \/ /\ Deferring(e) /\ owner.closed /\ UNCHANGED <<ownerVars, caller, deferred>>
     \/ /\ ~(Deferring(e) /\ owner.closed) /\ CloseBegins /\ Pending(e, FALSE)
     \/ Interrupted(e) /\ Pending(e, TRUE)
  /\ Move(e, "closing") /\ Frame

\* Where the close leads: the spawn worker does not go on before the owner is
\* closed; a closed job is a proof, and a child killed by it is reaped now.
AfterClose(e) ==
  IF e = "spawner" /\ ~owner.closed THEN "close"
  ELSE IF Deferring(e) THEN "reap"
  ELSE IF ~HasProcess \/ (e = "caller" /\ client = "bytes") THEN "pipes"
  ELSE IF ClosedTreeBoundary /\ ~ladder[e].reaped THEN "rereap" ELSE "pipes"

ClosingStep(e) ==
  /\ At(e, "closing")
  /\ \E x \in IF e = "spawner" THEN {FALSE} ELSE Expired(e) : CloseSeen(x)
  /\ ladder' = [ladder EXCEPT ![e].at = AfterClose(e),
                  ![e].tree = @ \/ (Deferring(e) /\ ClosedTreeBoundary)]
  /\ UNCHANGED <<ownerVars, caller, deferred>> /\ Frame

RereapStep(e) ==
  /\ At(e, "rereap")
  /\ \/ /\ \E x \in Expired(e) : Reap(x)
        /\ ladder' = [ladder EXCEPT ![e].reaped = leader' = "reaped",
                                    ![e].at = "pipes"]
        /\ Pending(e, FALSE)
     \/ Interrupted(e) /\ Pending(e, TRUE) /\ Move(e, "pipes")
  /\ Frame

\* The output pipes; a lease has none.
PipesStep(e) ==
  /\ At(e, "pipes")
  /\ \/ /\ ladder' = [ladder EXCEPT ![e].pipes = TRUE, ![e].at = "decide"]
        /\ Pending(e, FALSE) /\ UNCHANGED ownerVars
     \/ /\ client = "bytes" /\ HasProcess /\ Strike
        /\ UNCHANGED <<platform, treeVars, owner>>
        /\ ladder' = [ladder EXCEPT ![e].pipes = FALSE, ![e].at = "decide"]
        /\ Pending(e, TRUE)
  /\ Frame

Ladder(e) ==
  \/ TerminateStep(e) \/ ReapStep(e) \/ ConfirmStep(e) \/ CloseStep(e)
  \/ ClosingStep(e) \/ RereapStep(e) \/ PipesStep(e)

Fresh == [Resting EXCEPT !.at = "terminate"]
NoLadder == UNCHANGED ladder

-----------------------------------------------------------------------------
(* The worker thread of the spawn operation. *)

spawnerFrame == <<client, late, caller, deferred, waiter>>

\* _worker_main up to the publication of the process.  A process that started
\* and failed is cleaned up at once; without an owner there is nothing.
SpawnerBoots ==
  /\ spawner = "boot"
  /\ \/ /\ StartProcess /\ spawner' = "decide"
        /\ spawn' = [spawn EXCEPT !.ready = TRUE] /\ NoLadder
     \/ /\ StartRaises /\ spawner' = "clean"
        /\ spawn' = [spawn EXCEPT !.error = TRUE]
        /\ ladder' = [ladder EXCEPT !["spawner"] =
                        [Fresh EXCEPT !.reaped = leader' = "none"]]
     \/ /\ Strike /\ spawner' = "done"               \* no owner
        /\ spawn' = [spawn EXCEPT !.error = TRUE, !.ready = TRUE,
                                  !.finished = TRUE, !.complete = TRUE]
        /\ NoLadder /\ UNCHANGED <<platform, treeVars, owner>>
  /\ UNCHANGED spawnerFrame

\* After the decision of the caller: transferred, or cleaned up here.
SpawnerDecides ==
  /\ spawner = "decide" /\ spawn.decided
  /\ IF spawn.acked
     THEN /\ spawner' = "done" /\ spawn' = [spawn EXCEPT !.finished = TRUE]
          /\ NoLadder
     ELSE /\ spawner' = "clean" /\ UNCHANGED spawn
          /\ ladder' = [ladder EXCEPT !["spawner"] = Fresh]
  /\ UNCHANGED <<ownerVars, spawnerFrame>>

SpawnerComplete ==
  /\ (~HasProcess \/ TreeProvenEmpty) /\ ladder["spawner"].reaped
  /\ owner.closed /\ ladder["spawner"].pipes

\* _cleanup_owned_spawn_until_quiet: again, until the cleanup is complete.
SpawnerFinishes ==
  /\ spawner = "clean" /\ At("spawner", "decide")
  /\ IF SpawnerComplete
     THEN /\ spawner' = "done"
          /\ spawn' = [spawn EXCEPT !.ready = TRUE, !.finished = TRUE,
                                    !.complete = TRUE]
          /\ ladder' = [ladder EXCEPT !["spawner"] = Resting]
     ELSE /\ UNCHANGED <<spawner, spawn>>
          /\ ladder' = [ladder EXCEPT !["spawner"] =
                          [Fresh EXCEPT !.reaped = ~HasProcess]]
  /\ UNCHANGED <<ownerVars, spawnerFrame>>

-----------------------------------------------------------------------------
(* The caller. *)

callerFrame == <<client, late, spawner, deferred, waiter>>
Ends(outcome) == [caller EXCEPT !.at = "ended", !.outcome = outcome]
SpawnQuiet == spawn.finished /\ spawn.complete

\* launch(): the thread starts, perhaps although Thread.start() raised; or no
\* thread can be had and there is nothing to clean up.
Launch ==
  /\ caller.at = "launch"
  /\ \/ /\ spawner' = "boot" /\ NoStrike /\ UNCHANGED spawn
        /\ caller' = [caller EXCEPT !.at = "claim"]
     \/ /\ spawner' = "boot" /\ Strike
        /\ spawn' = [spawn EXCEPT !.decided = TRUE, !.abandoned = TRUE]
        /\ caller' = [caller EXCEPT !.at = "settle", !.error = TRUE]
     \/ /\ spawner' = "done" /\ Strike
        /\ spawn' = [spawn EXCEPT !.ready = TRUE, !.finished = TRUE,
                                  !.complete = TRUE, !.error = TRUE]
        /\ caller' = [caller EXCEPT !.at = "settle", !.error = TRUE]
  /\ UNCHANGED <<platform, treeVars, owner, client, late, ladder, deferred, waiter>>

\* abandon(): nothing once the claim was acknowledged.
Abandoned(s) ==
  [s EXCEPT !.decided = TRUE, !.abandoned = @ \/ ~s.acked]

\* claim_before_deadline.  The claim of a lease is only prepared.
Claim ==
  /\ caller.at = "claim"
  /\ \/ /\ spawn.ready /\ ~spawn.error /\ ~late
        /\ IF client = "lease"
           THEN /\ UNCHANGED spawn
                /\ caller' = [caller EXCEPT !.at = "acknowledge"]
           ELSE /\ spawn' = [spawn EXCEPT !.acked = TRUE, !.decided = TRUE]
                /\ caller' = [caller EXCEPT !.at = "settle"]
     \/ /\ late /\ spawn' = Abandoned(spawn)
        /\ caller' = [caller EXCEPT !.at = "giveup"]
     \/ /\ spawn.ready /\ spawn.error
        /\ UNCHANGED spawn
        /\ caller' = [caller EXCEPT !.at = "giveup", !.error = TRUE]
  /\ NoStrike /\ NoLadder /\ UNCHANGED <<platform, treeVars, owner, callerFrame>>

\* KeyboardInterrupt in the wait for spawn_ready.
ClaimInterrupted ==
  /\ caller.at = "claim" /\ Strike
  /\ spawn' = Abandoned(spawn)
  /\ caller' = [caller EXCEPT !.at = "giveup", !.error = TRUE]
  /\ NoLadder /\ UNCHANGED <<platform, treeVars, owner, callerFrame>>

\* What follows a claim of "bytes": the wait for the worker's end, which
\* KeyboardInterrupt may strike with the claim acknowledged already.  After a
\* launch that raised, the error is raised with what is known of the cleanup.
Settle ==
  /\ caller.at = "settle"
  /\ \/ /\ spawn.acked /\ (spawn.finished \/ late) /\ NoStrike
        /\ caller' = [caller EXCEPT !.at = "monitor"]
     \/ /\ spawn.acked /\ Strike /\ caller' = [Ends("plain") EXCEPT !.error = TRUE]
     \/ /\ ~spawn.acked /\ NoStrike
        /\ caller' = Ends(IF SpawnQuiet THEN "error" ELSE "debt")
  /\ NoLadder
  /\ UNCHANGED <<platform, treeVars, owner, spawn, callerFrame>>

\* A claim that failed.  "bytes" returns a result with a deferred cleanup, or
\* raises the error of the spawn; an interruption leaves it as it came.
GiveUp ==
  /\ caller.at = "giveup"
  /\ \/ /\ client = "bytes"
        /\ caller' = Ends(IF ~caller.error THEN "debt"
                          ELSE IF SpawnQuiet THEN "error"
                          ELSE IF spawn.error THEN "debt" ELSE "plain")
        /\ UNCHANGED spawn
     \/ /\ client = "lease" /\ spawn' = Abandoned(spawn)
        /\ caller' = [caller EXCEPT !.at = "wait"]
  /\ NoLadder /\ UNCHANGED <<ownerVars, callerFrame>>

\* The starter of a lease waits for the worker, but not past its deadline.
StartFails ==
  /\ caller.at = "wait" /\ (spawn.finished \/ late)
  /\ caller' = Ends(IF SpawnQuiet THEN "error" ELSE "debt")
  /\ NoLadder /\ UNCHANGED <<ownerVars, spawn, callerFrame>>

\* acknowledge_claim: the lease is published, or the claim is given up.  An
\* exception after the publication closes the published lease.
Acknowledge ==
  /\ caller.at = "acknowledge"
  /\ \/ /\ ~late /\ NoStrike
        /\ spawn' = [spawn EXCEPT !.acked = TRUE, !.decided = TRUE]
        /\ caller' = [caller EXCEPT !.at = "held"] /\ NoLadder
     \/ /\ ~late /\ Strike
        /\ spawn' = [spawn EXCEPT !.acked = TRUE, !.decided = TRUE]
        /\ caller' = [caller EXCEPT !.at = "clean", !.error = TRUE]
        /\ ladder' = [ladder EXCEPT !["caller"] = Fresh]
     \/ /\ IF late THEN NoStrike ELSE Strike
        /\ spawn' = Abandoned(spawn) /\ NoLadder
        /\ caller' = [caller EXCEPT !.at = "giveup", !.error = TRUE]
  /\ UNCHANGED <<platform, treeVars, owner, callerFrame>>

\* The monitoring loop ends, in any way; somebody closes the lease.
BeginCleanup ==
  /\ caller.at \in {"monitor", "held"}
  /\ \/ NoStrike /\ caller' = [caller EXCEPT !.at = "clean"]
     \/ Strike /\ caller' = [caller EXCEPT !.at = "clean", !.error = TRUE]
  /\ ladder' = [ladder EXCEPT !["caller"] = Fresh]
  /\ UNCHANGED <<platform, treeVars, owner, spawn, callerFrame>>

CallerCompleteUnreaped ==
  LET l == ladder["caller"]
      proven == IF client = "bytes" THEN TreeProvenEmpty
                ELSE ClosedTreeBoundary \/ (owner.terminated /\ l.conf)
  IN  proven /\ owner.closed /\ l.pipes

\* A lease also looks at the failures its owner has noted.
CallerComplete ==
  LET l == ladder["caller"]
      proven == IF client = "bytes" THEN TreeProvenEmpty
                ELSE ClosedTreeBoundary \/ (owner.terminated /\ l.conf)
  IN  /\ proven /\ l.reaped /\ owner.closed /\ l.pipes
      /\ client = "lease" => ClosedTreeBoundary \/ ~owner.failed

\* _launch_worker: one thread, two when the first start raised and ran all
\* the same, none, or one although both raised.
LaunchCleaner(d) ==
  \/ NoStrike /\ deferred' = [d EXCEPT !.fresh = @ + 1]
  \/ Strike /\ \E n \in 1..2 : deferred' = [d EXCEPT !.fresh = @ + n, !.error = TRUE]
  \/ Strike /\ \E n \in 0..1 :
       deferred' = [d EXCEPT !.fresh = @ + n, !.failed = TRUE, !.error = TRUE]

Handover ==
  LET l == ladder["caller"]
  IN  [deferred EXCEPT !.made = TRUE, !.reaped = l.reaped,
         !.tree = TreeProvenEmpty, !.conf = owner.confirmed]

CallerFinishes ==
  /\ caller.at = "clean" /\ At("caller", "decide")
  /\ \/ /\ CallerComplete /\ UNCHANGED deferred /\ NoStrike
        /\ caller' = Ends(IF caller.error THEN "error" ELSE "quiet")
     \/ /\ ~CallerComplete /\ LaunchCleaner(Handover)
        /\ caller' = Ends("debt")
  /\ ladder' = [ladder EXCEPT !["caller"] = Resting]
  /\ UNCHANGED <<platform, treeVars, owner, client, late, spawn, spawner, waiter>>

CallerNext ==
  \/ Launch \/ Claim \/ ClaimInterrupted \/ Settle \/ GiveUp \/ StartFails
  \/ Acknowledge \/ BeginCleanup \/ CallerFinishes

-----------------------------------------------------------------------------
(* The deferred cleanup. *)

deferredFrame == <<client, late, spawn, spawner, caller>>

\* _claim_cleanup_authority
ClaimedBy(d, e) == [d EXCEPT !.claimed = e]

\* What an attempt starts from.
Attempt == [at |-> "terminate", reaped |-> deferred.reaped,
            tree |-> deferred.tree, conf |-> deferred.conf, pipes |-> TRUE]

\* A worker thread begins: it cleans, or somebody else has the authority.
CleanerStarts ==
  /\ deferred.fresh > 0
  /\ IF deferred.claimed = Nobody
     THEN /\ deferred' = ClaimedBy([deferred EXCEPT !.fresh = @ - 1], "cleaner")
          /\ ladder' = [ladder EXCEPT !["cleaner"] = Attempt]
     ELSE /\ deferred' = [deferred EXCEPT !.fresh = @ - 1] /\ NoLadder
  /\ UNCHANGED <<ownerVars, deferredFrame, waiter>>

Recorded(e) ==
  LET l == ladder[e]
      complete == owner.closed /\ l.reaped /\ l.tree /\ l.pipes
  IN  [deferred EXCEPT !.complete = complete, !.tree = l.tree,
         !.reaped = l.reaped, !.conf = l.conf, !.finished = @ \/ complete]

CleanerTriesOnce ==
  /\ At("cleaner", "decide")
  /\ deferred' = Recorded("cleaner")
  /\ ladder' = [ladder EXCEPT !["cleaner"] = Resting]
  /\ UNCHANGED <<ownerVars, deferredFrame, waiter>>

\* The end of an attempt: finished, or tried again.
CleanerFinishes ==
  /\ At("cleaner", "decide")
  /\ deferred' = Recorded("cleaner")
  /\ ladder' = [ladder EXCEPT !["cleaner"] =
       IF deferred'.finished THEN Resting
       ELSE [@ EXCEPT !.at = "terminate", !.pipes = TRUE]]
  /\ UNCHANGED <<ownerVars, deferredFrame, waiter>>

-----------------------------------------------------------------------------
(* The threads that wait on the handle. *)

Go(w, place) == waiter' = [waiter EXCEPT ![w].at = place]
Answer == IF deferred.error THEN "raised" ELSE "true"

\* wait(), with a timeout or without: when there is no worker, the waiter
\* claims the cleanup for itself.
WaitBegins(w) ==
  /\ waiter[w].at = "idle" /\ deferred.made /\ caller.at = "ended"
  /\ LET claims == deferred.failed /\ deferred.claimed = Nobody
     IN  IF deferred.finished
         THEN Go(w, Answer) /\ UNCHANGED deferred
         ELSE /\ \E p \in {"none", "zero", "finite"} :
                   waiter' = [waiter EXCEPT ![w] =
                     [at |-> IF claims THEN "claimed" ELSE "poll", patience |-> p]]
              /\ deferred' = IF claims THEN ClaimedBy(deferred, w) ELSE deferred
  /\ NoLadder /\ UNCHANGED <<ownerVars, deferredFrame>>

\* With no time at all it looks for a worker; else it cleans.
WaitClaimed(w) ==
  /\ waiter[w].at = "claimed"
  /\ IF waiter[w].patience = "zero"
     THEN /\ deferred' = [deferred EXCEPT !.claimed = Nobody]
          /\ Go(w, "released") /\ NoLadder
     ELSE /\ Go(w, "clean") /\ UNCHANGED deferred
          /\ ladder' = [ladder EXCEPT ![w] = Attempt]
  /\ UNCHANGED <<ownerVars, deferredFrame>>

\* _handoff_sync_authority_to_worker, after the authority is released: a
\* worker is launched ...
HandoffLaunches(w) ==
  /\ waiter[w].at = "released" /\ LaunchCleaner(deferred)
  /\ Go(w, "handed")
  /\ NoLadder /\ UNCHANGED <<platform, treeVars, owner, deferredFrame>>

HandoffForgets(w) ==
  /\ waiter[w].at = "handed" /\ Go(w, "false")
  /\ UNCHANGED <<ownerVars, deferredFrame, deferred, ladder>>

HandoffRelaunches(w) ==
  /\ waiter[w].at = "handed"
  /\ Go(w, IF deferred.claimed = Nobody THEN "released" ELSE "false")
  /\ UNCHANGED <<ownerVars, deferredFrame, deferred, ladder>>

\* ... and waited for until somebody has the authority; without one the
\* waiter takes it back, and has no deadline any more.  (When another had it
\* and let it go meanwhile, that is left to Reclaim.)
HandoffEnds(w) ==
  /\ waiter[w].at = "handed"
  /\ \/ /\ deferred.claimed # Nobody /\ Go(w, "false")
        /\ UNCHANGED <<deferred, ladder>>
     \/ /\ deferred.claimed = Nobody /\ deferred.fresh = 0
        /\ deferred' = ClaimedBy(deferred, w)
        /\ waiter' = [waiter EXCEPT ![w] = [at |-> "clean", patience |-> "none"]]
        /\ ladder' = [ladder EXCEPT ![w] = Attempt]
  /\ UNCHANGED <<ownerVars, deferredFrame>>

\* An interruption: the authority is reclaimed unless another has it.
Reclaim(w) ==
  /\ waiter[w].at \in {"claimed", "clean", "released", "handed"}
  /\ ~deferred.finished /\ Strike
  /\ IF deferred.claimed \in {w, Nobody}
     THEN /\ deferred' = [ClaimedBy(deferred, w) EXCEPT !.error = TRUE]
          /\ waiter' = [waiter EXCEPT ![w] =
               [at |-> "clean", patience |-> IF @.patience = "zero" THEN "none"
                                             ELSE @.patience]]
          /\ ladder' = [ladder EXCEPT ![w] = Attempt]
     ELSE /\ deferred' = [deferred EXCEPT !.error = TRUE]
          /\ Go(w, "others") /\ NoLadder
  /\ UNCHANGED <<platform, treeVars, owner, deferredFrame>>

\* The end of an attempt of _run_synchronous_cleanup.
WaiterFinishes(w) ==
  /\ waiter[w].at = "clean" /\ At(w, "decide")
  /\ LET d == Recorded(w) IN
     \/ /\ d.finished /\ deferred' = d /\ Go(w, Answer)
        /\ ladder' = [ladder EXCEPT ![w] = Resting]
     \/ /\ ~d.finished /\ deferred' = d /\ UNCHANGED waiter
        /\ ladder' = [ladder EXCEPT ![w] = [@ EXCEPT !.at = "terminate",
                                                     !.pipes = TRUE]]
     \/ /\ ~d.finished /\ waiter[w].patience = "finite"
        /\ deferred' = [d EXCEPT !.claimed = Nobody]
        /\ Go(w, "released")
        /\ ladder' = [ladder EXCEPT ![w] = Resting]
  /\ UNCHANGED <<ownerVars, deferredFrame>>

\* Waiting for another thread's cleanup.
WaitPolls(w) ==
  /\ waiter[w].at \in {"poll", "others"}
  /\ \/ deferred.finished /\ Go(w, Answer)
     \/ /\ ~deferred.finished /\ waiter[w].at = "poll"
        /\ waiter[w].patience # "none" /\ Go(w, "false")
  /\ NoLadder /\ UNCHANGED <<ownerVars, deferredFrame, deferred>>

WaiterNext(w) ==
  \/ WaitBegins(w) \/ WaitClaimed(w) \/ HandoffLaunches(w) \/ HandoffEnds(w)
  \/ Reclaim(w) \/ WaiterFinishes(w) \/ WaitPolls(w)

-----------------------------------------------------------------------------
SpawnerNext == SpawnerBoots \/ SpawnerDecides \/ SpawnerFinishes \/ Ladder("spawner")
CleanerNext == CleanerStarts \/ CleanerFinishes \/ Ladder("cleaner")

SupervisedNext ==
  \/ DeadlinePasses \/ Environment
  \/ SpawnerNext \/ CallerNext \/ Ladder("caller") \/ CleanerNext
  \/ \E w \in Waiters : WaiterNext(w) \/ Ladder(w)

\* The threads run, what was killed ends, and a called CloseHandle returns.
SupervisedFairness ==
  /\ WF_supervisedVars(SpawnerNext) /\ WF_supervisedVars(CleanerNext)
  /\ WF_supervisedVars(CallerNext) /\ WF_supervisedVars(Ladder("caller"))
  /\ \A w \in Waiters : WF_supervisedVars(WaiterNext(w) \/ Ladder(w))
  /\ WF_supervisedVars((TreeDying \/ CloseWorker) /\ UNCHANGED <<treeFrame, ladder>>)

SupervisedSpec ==
  SupervisedInit /\ [][SupervisedNext]_supervisedVars /\ SupervisedFairness

-----------------------------------------------------------------------------
Cleaning == {e \in Threads : ~At(e, "rest")}

(* Whatever the spawn worker, the caller or the deferred cleanup calls      *)
(* complete really is: the child is reaped (or never was) and nobody in its *)
(* group or job can still run, on both platforms, whatever calls failed and *)
(* wherever the caller was interrupted.                                     *)
CompleteMeansQuiet ==
  (\/ caller.outcome \in {"quiet", "error"} \/ SpawnQuiet
   \/ deferred.finished \/ deferred.complete)
  => TreeQuiet

(* A cleanup has one owner and is never dropped.  At most one thread cleans:  *)
(* between the spawn worker and the caller the acknowledged claim decides,    *)
(* between the deferred worker and the waiters the claimed authority, through *)
(* all hand-overs, failed launches and reclaims.  And a waiter that answers   *)
(* "not finished yet" has left it to somebody: a thread with the authority, a *)
(* worker on its way, or a waiter that is just handing it over.               *)
OneCleaner ==
  /\ Cardinality(Cleaning) <= 1
  /\ \A e \in Waiters \cup {"cleaner"} :
       e \in Cleaning => deferred.claimed = e
  /\ \A w \in Waiters :
       waiter[w].at = "false" /\ ~deferred.finished =>
         \/ deferred.claimed # Nobody \/ deferred.fresh > 0
         \/ \E v \in Waiters : waiter[v].at \in {"released", "handed"}

(* On Windows, a cleanup that a thread has taken over comes to its end,     *)
(* unless CloseHandle has left the fate of the job unknown.                 *)
TakenOverIsFinished ==
  (platform = "windows" /\ deferred.claimed # Nobody)
    ~> (deferred.finished \/ (owner.closed /\ ~owner.closeOk))

(* Retain and finish lease cleanup after the caller's deadline has elapsed  *)
(* (gf_process_supervisor.py:5035): a cleanup that a thread has taken over  *)
(* comes to its end on POSIX as well.                                       *)
DeferredFinishes ==
  (platform = "posix" /\ deferred.claimed # Nobody) ~> deferred.finished

(* As long as anybody of the tree may run, somebody answers for it: the     *)
(* spawn worker, a caller at work, a lease that is held, or a cleanup that  *)
(* the caller was told of.                                                  *)
NobodyOrphaned ==
  leader \in {"live", "dying"} \/ kin = "live" =>
    \/ spawner \in {"boot", "decide", "clean"}
    \/ caller.at # "ended"
    \/ caller.outcome = "debt"

(* Once the leader is reaped its process id is only probed, never signalled *)
(* again.                                                                   *)
NoStrayKill == ~stray
=============================================================================
