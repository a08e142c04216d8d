-------------------------- MODULE Supervision_proofs --------------------------
(***************************************************************************)
(* Who cleans up a process tree, and what a finished cleanup says of it:   *)
(* proofs about SupervisedTree and SupervisedRun and their composition,    *)
(* for any number of waiting threads and any bound on the calls that fail  *)
(* and the interruptions.                                                  *)
(***************************************************************************)
EXTENDS MCSupervision, FiniteSetTheorems, TLAPS

-----------------------------------------------------------------------------
\* The tree.  Nobody can come to life in it any more but a child that is
\* suspended outside of its job; its child is reaped, or there never was one.
Calm == kin # "live" /\ (leader # "live" \/ ~owner.assigned)
Reaped == leader \in {"none", "reaped"}

\* What the owner knows of the tree is so: without a child, or with one that
\* never got into the job, there are no descendants; a job that was closed has
\* killed what was in it; and on POSIX the group is only forgotten when it is
\* calm.
OwnerKnows ==
  /\ leader = "none" \/ ~owner.assigned => kin = "none"
  /\ platform = "windows" /\ owner.closeOk => Calm
  /\ platform = "posix" => owner.handle \in {"none", "group", "probe"}
  /\ platform = "posix" /\ (owner.handle = "none" \/ owner.confirmed) => Calm

\* Outside of run_supervised_process a confirmation is one on Windows too.
ConfirmationHolds == owner.confirmed => Calm

Unstarted == leader = "none" /\ owner = NewOwner(platform)

-----------------------------------------------------------------------------
\* SupervisedTree.  Before the spawn worker has started a child nothing has
\* happened; the claim of the process is given to the caller or it is decided
\* that it is not.
Launching ==
  /\ spawner = "none" <=> caller.at = "launch"
  /\ spawner \in {"none", "boot"} =>
       /\ Unstarted /\ ~spawn.ready /\ ~spawn.error
       /\ \A e \in Threads : ladder[e] = Resting
  /\ spawner = "none" => ~spawn.decided
  /\ spawner = "decide" => leader # "none" /\ spawn.ready /\ ~spawn.error
  /\ spawner = "clean" => (spawn.error \/ spawn.decided) /\ ~spawn.acked
  /\ spawner = "done" => spawn.error \/ spawn.decided
  /\ spawn.finished \/ spawn.complete => spawner = "done"
  /\ spawn.acked => /\ spawner \in {"decide", "done"} /\ spawn.decided
                    /\ leader # "none"

Claiming ==
  /\ caller.at \in {"claim", "acknowledge"} => ~spawn.decided
  /\ caller.at = "acknowledge" => spawn.ready /\ ~spawn.error
  /\ caller.at \in {"monitor", "held", "clean"} => spawn.acked
  /\ caller.outcome # "none" => caller.at = "ended"
  /\ caller.outcome \in {"quiet", "error"} => spawner \notin {"none", "boot"}

\* Somebody has taken the deferred cleanup over, or will.
Attended ==
  \/ deferred.claimed # Nobody \/ deferred.fresh > 0
  \/ \E v \in Waiters : waiter[v].at \in {"released", "handed"}

Undone == [made |-> FALSE, failed |-> FALSE, fresh |-> 0, claimed |-> Nobody,
           finished |-> FALSE, complete |-> FALSE, tree |-> FALSE,
           reaped |-> FALSE, conf |-> FALSE, error |-> FALSE]

Deferral ==
  /\ ~deferred.made =>
       /\ deferred = Undone
       /\ \A w \in Waiters : waiter[w].at = "idle"
  /\ deferred.made => spawn.acked /\ caller.at = "ended"
  /\ deferred.made /\ ~deferred.failed => Attended
  /\ deferred.finished => Attended
  /\ \A w \in Waiters : waiter[w].at # "idle" => Attended
  /\ \A w \in Waiters : waiter[w].at \in {"claimed", "clean"} => deferred.claimed = w

\* A thread walks the steps of a cleanup only where the code makes it.
WhoCleans ==
  /\ ~At("spawner", "rest") => spawner = "clean"
  /\ ~At("caller", "rest") => caller.at = "clean"
  /\ ~At("cleaner", "rest") => deferred.claimed = "cleaner"
  /\ \A w \in Waiters : ~At(w, "rest") => waiter[w].at = "clean"

\* What a thread has proved in its cleanup, and what was noted of it, is so.
ProofsHold ==
  /\ \A e \in Threads :
       /\ ladder[e].reaped => Reaped
       /\ ladder[e].tree \/ ladder[e].conf => Calm
  /\ deferred.reaped => Reaped
  /\ deferred.tree \/ deferred.conf => Calm

\* Who has no worker to launch any more unless he is interrupted, and so how
\* many workers there can be.
Spent ==
  {w \in Waiters : \/ waiter[w].at \in {"handed", "false", "others", "true", "raised"}
                   \/ waiter[w].at = "clean" /\ waiter[w].patience = "none"}

Launches ==
  /\ deferred.fresh <= 2 * (1 + strikes + Cardinality(Spent))
  /\ \A w \in Waiters : waiter[w].at = "clean" => waiter[w].patience # "zero"

TreeInv ==
  /\ SupervisedTypeOK /\ OwnerKnows /\ ConfirmationHolds
  /\ Launching /\ Claiming /\ Deferral /\ WhoCleans /\ ProofsHold /\ Launches
  /\ CompleteMeansQuiet

-----------------------------------------------------------------------------
\* SupervisedRun.  The phases in which there is no child yet, and what the
\* locals of run_supervised_process say of it later.
RunKnows ==
  /\ run.phase \in {"stage", "own", "start"} =>
       Unstarted /\ ~run.terminated /\ ~run.reaped
  /\ run.phase \in {"stage", "own"} => ~run.owned
  /\ run.phase \in {"start", "monitor"} => run.owned
  /\ run.phase = "monitor" => leader # "none"
  /\ run.step # "t" => run.phase \in {"reap", "confirm", "close", "emergency"}
  /\ ~run.owned => leader = "none"
  /\ run.terminated => Calm
  /\ run.reaped => Reaped
  /\ run.outcome = "none" <=> run.phase # "ended"

RunInv == RunTypeOK /\ OwnerKnows /\ ~stray /\ RunKnows /\ BoundaryIsQuiet

-----------------------------------------------------------------------------
\* Of the one that a behaviour is not about nothing has happened.
Idle ==
  /\ caller.outcome = "none" /\ ~spawn.finished /\ ~deferred.finished
  /\ ~deferred.complete
  /\ \A e \in Threads : At(e, "rest")
  /\ \A w \in Waiters : waiter[w].at = "idle"

SupervisionInv ==
  /\ SupervisionTypeOK
  /\ \/ subject = "tree" /\ TreeInv /\ run.outcome = "none" /\ run.phase = "stage"
     \/ subject = "run" /\ RunInv /\ Idle

-----------------------------------------------------------------------------
\* What no step after the start takes back.
Kept ==
  /\ Calm => Calm'
  /\ Reaped => Reaped'
  /\ leader # "none" => leader' # "none"

StrikesKept == strikes' \in 0..MaxStrikes /\ strikes' >= strikes

USE DEF TreeInv

LEMMA StrikeKept ==
  ASSUME OwnerTypeOK, Strike \/ NoStrike
  PROVE  StrikesKept
BY TreeOwnerAssumption DEF OwnerTypeOK, Strike, NoStrike, StrikesKept

\* A tree that nothing happens to
LEMMA TreeKept ==
  ASSUME UNCHANGED <<platform, treeVars, owner>>
  PROVE  /\ Kept /\ Calm' = Calm /\ Reaped' = Reaped
         /\ OwnerKnows => OwnerKnows'
         /\ ConfirmationHolds => ConfirmationHolds'
BY DEF treeVars, Kept, Calm, Reaped, OwnerKnows, ConfirmationHolds

LEMMA OwnerTypesKept ==
  ASSUME OwnerTypeOK, UNCHANGED <<platform, treeVars, owner>>, StrikesKept
  PROVE  OwnerTypeOK'
BY DEF OwnerTypeOK, treeVars, StrikesKept

\* The program and its death
LEMMA TreeMoves ==
  ASSUME OwnerTypeOK, OwnerKnows, TreeRuns \/ TreeDying
  PROVE  /\ OwnerTypeOK' /\ OwnerKnows' /\ Kept /\ StrikesKept
         /\ ConfirmationHolds => ConfirmationHolds'
         /\ UNCHANGED <<platform, owner, stray>>
<1>1. UNCHANGED <<platform, stray, owner, strikes>> BY DEF TreeRuns, TreeDying
<1>2. StrikesKept BY <1>1, StrikeKept DEF NoStrike
<1>3. leader' \in {"none", "live", "dying", "zombie", "reaped"} /\ kin' \in {"none", "live", "dying"}
  BY DEF OwnerTypeOK, TreeRuns, TreeDying
<1>4. Kept BY <1>1 DEF OwnerTypeOK, TreeRuns, TreeDying, Kept, Calm, Reaped
<1>5. leader' = "none" \/ ~owner.assigned => kin' = "none"
  BY DEF OwnerKnows, TreeRuns, TreeDying
<1>6. OwnerKnows' BY <1>1, <1>4, <1>5 DEF OwnerKnows, Kept
<1> QED BY <1>1, <1>2, <1>3, <1>4, <1>6 DEF OwnerTypeOK, StrikesKept, ConfirmationHolds, Kept

\* The worker that closes the job
LEMMA CloseWorkerKnows ==
  ASSUME OwnerTypeOK, OwnerKnows, CloseWorker
  PROVE  /\ OwnerTypeOK' /\ OwnerKnows' /\ Kept /\ StrikesKept
         /\ ConfirmationHolds => ConfirmationHolds'
         /\ UNCHANGED <<platform, stray>>
<1>1. UNCHANGED <<platform, stray>> /\ platform = "windows"
  BY DEF CloseWorker, OwnerKnows, OwnerTypeOK
<1>2. StrikesKept BY StrikeKept DEF CloseWorker
<1>3. OwnerTypeOK' BY <1>1, <1>2 DEF OwnerTypeOK, CloseWorker, Doomed, StrikesKept
<1>4. owner'.assigned = owner.assigned /\ owner'.confirmed = owner.confirmed
  BY DEF OwnerTypeOK, CloseWorker
<1>5. Kept BY <1>4 DEF OwnerTypeOK, CloseWorker, Doomed, Kept, Calm, Reaped
<1>6. owner'.closeOk => Calm' BY <1>4 DEF OwnerTypeOK, CloseWorker, Doomed, Calm
<1>7. leader' = "none" \/ ~owner'.assigned => kin' = "none"
  BY <1>4 DEF OwnerTypeOK, OwnerKnows, CloseWorker, Doomed
<1> QED BY <1>1, <1>2, <1>3, <1>4, <1>5, <1>6, <1>7 DEF OwnerKnows, ConfirmationHolds, Kept

\* close()
LEMMA CloseBeginsKnows ==
  ASSUME OwnerTypeOK, OwnerKnows, CloseBegins
  PROVE  /\ OwnerTypeOK' /\ OwnerKnows' /\ Kept /\ StrikesKept
         /\ ConfirmationHolds => ConfirmationHolds'
         /\ UNCHANGED <<platform, treeVars>>
<1>1. UNCHANGED <<platform, treeVars>> BY DEF CloseBegins
<1>2. StrikesKept BY StrikeKept DEF CloseBegins
<1>3. OwnerTypeOK' BY <1>1, <1>2 DEF OwnerTypeOK, CloseBegins, treeVars, StrikesKept
<1>4. owner'.assigned = owner.assigned /\ owner'.confirmed = owner.confirmed
  BY DEF OwnerTypeOK, CloseBegins
<1>5. Kept /\ (Calm => Calm') BY <1>1, <1>4 DEF treeVars, Kept, Calm, Reaped
<1>6. platform = "windows" /\ owner'.closeOk => owner.closeOk BY DEF OwnerTypeOK, CloseBegins
<1>7. platform = "posix" => owner'.handle = owner.handle
  BY DEF OwnerTypeOK, OwnerKnows, CloseBegins
<1> QED BY <1>1, <1>2, <1>3, <1>4, <1>5, <1>6, <1>7 DEF OwnerKnows, ConfirmationHolds, treeVars

\* _reap_direct_process_before_deadline
LEMMA ReapKnows ==
  ASSUME OwnerTypeOK, OwnerKnows, NEW x, Reap(x)
  PROVE  /\ OwnerTypeOK' /\ OwnerKnows' /\ Kept /\ StrikesKept
         /\ ConfirmationHolds => ConfirmationHolds'
         /\ UNCHANGED <<platform, kin, stray, owner>>
         /\ leader' = "reaped" => Reaped'
<1>1. UNCHANGED <<platform, kin, stray, owner>> BY DEF Reap
<1>2. StrikesKept BY StrikeKept DEF Reap
<1>3. leader' \in {"dying", "reaped"} BY DEF Reap
<1>4. Kept BY <1>1, <1>3 DEF Reap, Kept, Calm, Reaped
<1> QED
  BY <1>1, <1>2, <1>3, <1>4
     DEF OwnerTypeOK, OwnerKnows, ConfirmationHolds, Kept, Reaped, StrikesKept

\* terminate() and terminate_before_deadline()
LEMMA PosixTerminateKnows ==
  ASSUME OwnerTypeOK, OwnerKnows, NEW inspecting \in BOOLEAN, PosixTerminate(inspecting),
         platform = "posix", UNCHANGED platform
  PROVE  /\ OwnerTypeOK' /\ OwnerKnows' /\ Kept /\ StrikesKept
         /\ ConfirmationHolds => ConfirmationHolds'
         /\ inspecting /\ owner'.terminated => Calm'
         /\ inspecting => stray' = stray
<1>1. StrikesKept BY StrikeKept DEF PosixTerminate
<1>2. /\ owner'.assigned = owner.assigned /\ owner'.confirmed = owner.confirmed
      /\ owner'.handle \in {owner.handle, "group"}
  BY DEF OwnerTypeOK, PosixTerminate
<1>3. \/ UNCHANGED treeVars /\ ~owner'.terminated
      \/ KillGroup /\ ~(inspecting /\ leader = "reaped")
  BY DEF OwnerTypeOK, PosixTerminate
<1>4. OwnerTypeOK'
  <2>1. owner' \in [handle: {"none", "group", "probe", "job", "closing", "closed"},
                started: BOOLEAN, assigned: BOOLEAN, terminated: BOOLEAN,
                confirmed: BOOLEAN, closed: BOOLEAN, closeOk: BOOLEAN,
                failed: BOOLEAN]
    BY DEF OwnerTypeOK, PosixTerminate
  <2> QED BY <1>1, <1>3, <2>1 DEF OwnerTypeOK, StrikesKept, KillGroup, Doomed, treeVars
<1>5. Kept BY <1>2, <1>3 DEF OwnerTypeOK, KillGroup, Doomed, Kept, Calm, Reaped, treeVars
<1>6. KillGroup => Calm' BY DEF OwnerTypeOK, KillGroup, Doomed, Calm
<1>7. leader' = "none" \/ ~owner'.assigned => kin' = "none"
  BY <1>2, <1>3 DEF OwnerTypeOK, OwnerKnows, KillGroup, Doomed, treeVars
<1>8. OwnerKnows'
  <2>1. platform = "posix" /\ (owner'.handle = "none" \/ owner'.confirmed) => Calm
    BY <1>2 DEF OwnerKnows
  <2>2. owner'.handle \in {"none", "group", "probe"} BY <1>2 DEF OwnerKnows
  <2> QED BY <1>5, <1>7, <2>1, <2>2 DEF OwnerKnows, Kept
<1>9. inspecting => stray' = stray
  <2>1. KillGroup /\ leader # "reaped" => stray' = (stray \/ FALSE)
    BY DEF KillGroup, GroupExists
  <2> QED BY <1>3, <2>1 DEF OwnerTypeOK, treeVars
<1> QED BY <1>1, <1>2, <1>3, <1>4, <1>5, <1>6, <1>8, <1>9 DEF ConfirmationHolds, Kept

LEMMA WindowsTerminateKnows ==
  ASSUME OwnerTypeOK, OwnerKnows, NEW inspecting \in BOOLEAN, NEW x,
         WindowsTerminate(inspecting, x), platform = "windows", UNCHANGED platform,
         leader # "none"
  PROVE  /\ OwnerTypeOK' /\ OwnerKnows' /\ Kept /\ StrikesKept
         /\ ConfirmationHolds => ConfirmationHolds'
         /\ inspecting /\ owner'.terminated => Calm'
         /\ stray' = stray
<1> DEFINE Clears == \E f \in BOOLEAN, t \in BOOLEAN :
                       owner' = [owner EXCEPT !.terminated = t, !.failed = f]
           Result == /\ Clears /\ StrikesKept /\ stray' = stray
                     /\ leader' \in {"live", "dying", "zombie", "reaped"}
                     /\ kin' \in {"none", "live", "dying"}
                     /\ leader = "reaped" => leader' = "reaped"
                     /\ leader # "live" => leader' # "live"
                     /\ kin = "none" => kin' = "none"
                     /\ kin # "live" => kin' # "live"
                     /\ inspecting /\ owner'.terminated => Calm'
<1>1. ASSUME owner.started /\ ~owner.assigned
      PROVE  Result
  <2>1. TerminateUnassigned(x) BY <1>1 DEF WindowsTerminate
  <2>2. StrikesKept /\ UNCHANGED <<kin, stray>> /\ kin = "none"
    BY <1>1, <2>1, StrikeKept DEF TerminateUnassigned, OwnerKnows
  <2>3. leader' \in {"dying", "zombie", "reaped"} /\ (leader = "reaped" => leader' = "reaped")
    BY <2>1 DEF TerminateUnassigned
  <2>4. Clears
    <3>1. \/ owner' = [owner EXCEPT !.terminated = TRUE, !.failed = owner.failed]
          \/ owner' = [owner EXCEPT !.terminated = FALSE, !.failed = TRUE]
      BY <2>1 DEF TerminateUnassigned, OwnerTypeOK
    <3>2. owner.failed \in BOOLEAN BY DEF OwnerTypeOK
    <3> QED BY <3>1, <3>2
  <2> HIDE DEF Clears
  <2> QED BY <2>2, <2>3, <2>4 DEF Calm
<1>2. ASSUME ~(owner.started /\ ~owner.assigned) /\ owner.handle = "job"
      PROVE  Result
  <2>1. TerminateJob(inspecting, x) BY <1>2 DEF WindowsTerminate
  <2>2. StrikesKept /\ stray' = stray BY <2>1, StrikeKept DEF TerminateJob, treeVars
  <2>3. /\ leader' \in {"live", "dying", "zombie", "reaped"}
        /\ kin' \in {"none", "live", "dying"}
        /\ leader = "reaped" => leader' = "reaped"
        /\ leader # "live" => leader' # "live"
        /\ kin = "none" => kin' = "none"
        /\ kin # "live" => kin' # "live"
    BY <2>1 DEF TerminateJob, Doomed, treeVars, OwnerTypeOK
  <2>4. owner'.terminated => leader' # "live" /\ kin' = "none"
    BY <2>1 DEF TerminateJob, OwnerTypeOK
  <2>5. Clears
    <3>1. \/ owner' = [owner EXCEPT !.terminated = TRUE, !.failed = owner.failed]
          \/ owner' = [owner EXCEPT !.terminated = FALSE, !.failed = @ \/ inspecting]
          \/ owner' = [owner EXCEPT !.terminated = FALSE, !.failed = TRUE]
      BY <2>1 DEF TerminateJob, OwnerTypeOK
    <3>2. owner.failed \in BOOLEAN /\ (owner.failed \/ inspecting) \in BOOLEAN
      BY DEF OwnerTypeOK
    <3> QED BY <3>1, <3>2
  <2> HIDE DEF Clears
  <2> QED BY <2>2, <2>3, <2>4, <2>5 DEF Calm
<1>3. ASSUME ~(owner.started /\ ~owner.assigned) /\ owner.handle # "job"
      PROVE  Result
  <2>1. TerminateClosing(inspecting) BY <1>3 DEF WindowsTerminate
  <2>2. StrikesKept /\ UNCHANGED treeVars BY <2>1, StrikeKept DEF TerminateClosing
  <2>3. Clears
    <3>1. \/ owner' = [owner EXCEPT !.terminated = FALSE, !.failed = @ \/ ~inspecting]
          \/ owner' = [owner EXCEPT !.terminated = owner.closeOk, !.failed = owner.failed]
          \/ owner' = [owner EXCEPT !.terminated = owner.closed, !.failed = owner.failed]
      BY <2>1 DEF TerminateClosing, OwnerTypeOK
    <3>2. /\ {owner.failed, owner.closeOk, owner.closed} \subseteq BOOLEAN
          /\ (owner.failed \/ ~inspecting) \in BOOLEAN
      BY DEF OwnerTypeOK
    <3> QED BY <3>1, <3>2
  <2>4. inspecting /\ owner'.terminated => owner.closeOk
    BY <2>1 DEF TerminateClosing, OwnerTypeOK
  <2>5. owner'.assigned = owner.assigned BY <2>3 DEF OwnerTypeOK
  <2>6. inspecting /\ owner'.terminated => Calm'
    BY <2>2, <2>4, <2>5 DEF OwnerKnows, Calm, treeVars
  <2> HIDE DEF Clears
  <2> QED BY <2>2, <2>3, <2>6 DEF treeVars, OwnerTypeOK
<1>4. Result
  <2> HIDE DEF Result
  <2> QED BY <1>1, <1>2, <1>3
<1>5. OwnerTypeOK' BY <1>4 DEF OwnerTypeOK, StrikesKept
<1>6. /\ owner'.assigned = owner.assigned /\ owner'.confirmed = owner.confirmed
      /\ owner'.closeOk = owner.closeOk /\ owner'.handle = owner.handle
  BY <1>4 DEF OwnerTypeOK
<1> HIDE DEF Clears
<1>7. Kept BY <1>4, <1>6 DEF Kept, Calm, Reaped
<1>8. OwnerKnows' BY <1>4, <1>6, <1>7 DEF OwnerKnows, Kept
<1> QED BY <1>4, <1>5, <1>6, <1>7, <1>8 DEF ConfirmationHolds, Kept

LEMMA TerminateKnows ==
  ASSUME OwnerTypeOK, OwnerKnows, NEW inspecting \in BOOLEAN, NEW x,
         Terminate(inspecting, x), leader # "none"
  PROVE  /\ OwnerTypeOK' /\ OwnerKnows' /\ Kept /\ StrikesKept
         /\ ConfirmationHolds => ConfirmationHolds'
         /\ inspecting /\ owner'.terminated => Calm'
         /\ inspecting => stray' = stray
         /\ UNCHANGED platform
<1>1. CASE platform = "posix" BY <1>1, PosixTerminateKnows DEF Terminate
<1>2. CASE platform # "posix"
  <2>1. platform = "windows" BY <1>2 DEF OwnerTypeOK
  <2> QED BY <1>2, <2>1, WindowsTerminateKnows DEF Terminate
<1> QED BY <1>1, <1>2

\* confirm_cleanup_after_reap and its variant with a deadline
LEMMA ConfirmKnows ==
  ASSUME OwnerTypeOK, OwnerKnows, NEW inspecting \in BOOLEAN, NEW x, Confirm(inspecting, x)
  PROVE  /\ OwnerTypeOK' /\ OwnerKnows' /\ Kept /\ StrikesKept
         /\ ~inspecting /\ ConfirmationHolds => ConfirmationHolds'
         /\ UNCHANGED <<platform, treeVars>>
<1>1. UNCHANGED <<platform, treeVars>> BY DEF Confirm
<1>2. StrikesKept BY StrikeKept DEF Confirm, PosixConfirm, WindowsConfirm
<1>3. CASE platform = "posix"
  <2>1. PosixConfirm(x) BY <1>3 DEF Confirm
  <2>2. /\ owner' \in [handle: {"none", "group", "probe", "job", "closing", "closed"},
                started: BOOLEAN, assigned: BOOLEAN, terminated: BOOLEAN,
                confirmed: BOOLEAN, closed: BOOLEAN, closeOk: BOOLEAN,
                failed: BOOLEAN]
        /\ owner'.assigned = owner.assigned
        /\ owner'.handle \in {"none", "probe"}
        /\ owner'.handle = "none" <=> owner'.confirmed
    BY <2>1 DEF PosixConfirm, Confirmed, Unconfirmed, OwnerTypeOK
  <2>3. owner'.confirmed => Calm
    <3>1. CASE ~HasProbe BY <1>3, <3>1 DEF HasProbe, OwnerKnows
    <3>2. CASE HasProbe /\ owner'.confirmed
      <4>1. ~GroupExists \/ (leader \notin {"live", "dying"} /\ kin # "live")
        BY <2>1, <3>2 DEF PosixConfirm, Confirmed, Unconfirmed, OwnerTypeOK
      <4> QED BY <4>1 DEF GroupExists, Calm
    <3> QED BY <3>1, <3>2
  <2>4. Kept /\ (Calm => Calm') BY <1>1, <2>2 DEF Kept, Calm, Reaped, treeVars
  <2>5. OwnerKnows' BY <1>1, <1>3, <2>2, <2>3, <2>4 DEF OwnerKnows, treeVars
  <2> QED
    BY <1>1, <1>2, <2>2, <2>3, <2>4, <2>5 DEF OwnerTypeOK, StrikesKept, treeVars, ConfirmationHolds
<1>4. CASE platform # "posix"
  <2>1. WindowsConfirm(inspecting) /\ platform = "windows" BY <1>4 DEF Confirm, OwnerTypeOK
  <2>2. /\ owner' \in [handle: {"none", "group", "probe", "job", "closing", "closed"},
                started: BOOLEAN, assigned: BOOLEAN, terminated: BOOLEAN,
                confirmed: BOOLEAN, closed: BOOLEAN, closeOk: BOOLEAN,
                failed: BOOLEAN]
        /\ owner'.assigned = owner.assigned /\ owner'.closeOk = owner.closeOk
    BY <2>1 DEF WindowsConfirm, Confirmed, Unconfirmed, OwnerTypeOK
  <2>3. ~inspecting /\ owner'.confirmed => JobEmpty \/ owner.closeOk
    BY <2>1 DEF WindowsConfirm, Confirmed, Unconfirmed, OwnerTypeOK
  <2>4. ~inspecting /\ owner'.confirmed => Calm BY <2>1, <2>3 DEF JobEmpty, OwnerKnows, Calm
  <2>5. Kept /\ (Calm => Calm') BY <1>1, <2>2 DEF Kept, Calm, Reaped, treeVars
  <2>6. OwnerKnows' BY <1>1, <2>1, <2>2, <2>5 DEF OwnerKnows, treeVars
  <2> QED
    BY <1>1, <1>2, <2>2, <2>4, <2>5, <2>6 DEF OwnerTypeOK, StrikesKept, treeVars, ConfirmationHolds
<1> QED BY <1>3, <1>4

-----------------------------------------------------------------------------
\* The threads are told apart.
LEMMA ThreadsDiffer ==
  /\ {"spawner", "caller", "cleaner"} \cup Waiters = Threads
  /\ "spawner" \notin Waiters /\ "caller" \notin Waiters /\ "cleaner" \notin Waiters
  /\ Nobody \notin Threads
BY WaitersAssumption DEF Threads, Nobody

\* A step of a cleanup moves one thread, which notes only what is so.
Walks(e) ==
  /\ UNCHANGED <<client, late, spawn, spawner, waiter>>
  /\ \E l \in Positions :
       /\ ladder' = [ladder EXCEPT ![e] = l]
       /\ l.at # "rest"
       /\ l.reaped => Reaped'
       /\ l.tree \/ l.conf => Calm'
  /\ \E b \in BOOLEAN : caller' = [caller EXCEPT !.error = b]
  /\ \E b \in BOOLEAN : deferred' = [deferred EXCEPT !.error = b]
  /\ e \notin Waiters => deferred' = deferred

OwnerWorks ==
  /\ OwnerTypeOK' /\ OwnerKnows' /\ ConfirmationHolds' /\ Kept /\ StrikesKept
  /\ UNCHANGED platform

\* What a caller and a deferred cleanup are, as records
LEMMA CallerAndDeferred ==
  ASSUME SupervisedTypeOK
  PROVE  /\ caller.error \in BOOLEAN /\ deferred.error \in BOOLEAN
         /\ caller = [caller EXCEPT !.error = caller.error]
         /\ deferred = [deferred EXCEPT !.error = deferred.error]
BY DEF SupervisedTypeOK

LEMMA PendingNotes ==
  ASSUME SupervisedTypeOK, NEW e \in Threads, NEW struck \in BOOLEAN,
         Pending(e, struck) \/ UNCHANGED <<caller, deferred>>
  PROVE  /\ \E b \in BOOLEAN : caller' = [caller EXCEPT !.error = b]
         /\ \E b \in BOOLEAN : deferred' = [deferred EXCEPT !.error = b]
         /\ e \notin Waiters => deferred' = deferred
<1>1. CASE Pending(e, struck)
  <2>1. caller' = [caller EXCEPT !.error = caller.error \/ (struck /\ e = "caller")]
    BY <1>1 DEF Pending
  <2>2. deferred' = [deferred EXCEPT !.error = deferred.error \/ (struck /\ e \in Waiters)]
    BY <1>1 DEF Pending
  <2>3. (deferred.error \/ (struck /\ FALSE)) = deferred.error BY CallerAndDeferred
  <2>4. e \notin Waiters => deferred' = deferred BY <2>2, <2>3, CallerAndDeferred
  <2> QED BY <2>1, <2>2, <2>4
<1>2. CASE UNCHANGED <<caller, deferred>> BY <1>2, CallerAndDeferred
<1> QED BY <1>1, <1>2

\* A thread that only moves on
LEMMA MoveNotes ==
  ASSUME SupervisedTypeOK, NEW e \in Threads, NEW place, Move(e, place),
         place \in {"terminate", "reap", "confirm", "close", "closing", "pipes", "rereap",
                    "decide"},
         ProofsHold, Kept
  PROVE  \E l \in Positions :
           /\ ladder' = [ladder EXCEPT ![e] = l]
           /\ l.at # "rest"
           /\ l.reaped => Reaped'
           /\ l.tree \/ l.conf => Calm'
<1> DEFINE l == [ladder[e] EXCEPT !.at = place]
<1>1. ladder[e] \in Positions BY DEF SupervisedTypeOK
<1>2. l \in Positions /\ l.at = place /\ l.reaped = ladder[e].reaped
      /\ l.tree = ladder[e].tree /\ l.conf = ladder[e].conf
  BY <1>1 DEF Positions
<1>3. ladder' = [ladder EXCEPT ![e] = l] BY DEF Move, SupervisedTypeOK
<1> HIDE DEF l
<1>4. (l.reaped => Reaped') /\ (l.tree \/ l.conf => Calm') BY <1>2 DEF ProofsHold, Kept
<1> QED BY <1>2, <1>3, <1>4

LEMMA StruckWorks ==
  ASSUME OwnerTypeOK, OwnerKnows, ConfirmationHolds,
         UNCHANGED <<platform, treeVars, owner>>, Strike \/ NoStrike
  PROVE  OwnerWorks
BY TreeKept, OwnerTypesKept, StrikeKept DEF OwnerWorks

LEMMA TerminateStepWalks ==
  ASSUME SupervisedTypeOK, OwnerKnows, ConfirmationHolds, ProofsHold,
         NEW e \in Threads, TerminateStep(e)
  PROVE  OwnerWorks /\ Walks(e)
<1>1. OwnerTypeOK BY DEF SupervisedTypeOK
<1>2. OwnerWorks
  <2>1. CASE \E x \in Expired(e) : HasProcess /\ Terminate(FALSE, x)
    BY <1>1, <2>1, TerminateKnows DEF OwnerWorks, HasProcess
  <2>2. CASE Interrupted(e) BY <1>1, <2>2, StruckWorks DEF Interrupted
  <2>3. CASE UNCHANGED ownerVars BY <1>1, <2>3, StruckWorks DEF ownerVars, NoStrike
  <2> QED BY <2>1, <2>2, <2>3 DEF TerminateStep
<1>3. PICK struck \in BOOLEAN : Pending(e, struck) \/ UNCHANGED <<caller, deferred>>
  BY DEF TerminateStep
<1>4. PICK place \in {"close", "reap"} : Move(e, place) BY DEF TerminateStep
<1> QED BY <1>2, <1>3, <1>4, PendingNotes, MoveNotes DEF Walks, OwnerWorks, TerminateStep, Frame

LEMMA CloseStepWalks ==
  ASSUME SupervisedTypeOK, OwnerKnows, ConfirmationHolds, ProofsHold,
         NEW e \in Threads, CloseStep(e)
  PROVE  OwnerWorks /\ Walks(e)
<1>1. OwnerTypeOK BY DEF SupervisedTypeOK
<1>2. OwnerWorks
  <2>1. CASE CloseBegins BY <1>1, <2>1, CloseBeginsKnows DEF OwnerWorks
  <2>2. CASE Interrupted(e) BY <1>1, <2>2, StruckWorks DEF Interrupted
  <2>3. CASE UNCHANGED ownerVars BY <1>1, <2>3, StruckWorks DEF ownerVars, NoStrike
  <2> QED BY <2>1, <2>2, <2>3 DEF CloseStep
<1>3. PICK struck \in BOOLEAN : Pending(e, struck) \/ UNCHANGED <<caller, deferred>>
  BY DEF CloseStep
<1>4. Move(e, "closing") BY DEF CloseStep
<1> QED BY <1>2, <1>3, <1>4, PendingNotes, MoveNotes DEF Walks, OwnerWorks, CloseStep, Frame

\* The positions and proofs of one thread
LEMMA OwnNotes ==
  ASSUME SupervisedTypeOK, ProofsHold, Kept, NEW e \in Threads
  PROVE  /\ ladder[e] \in Positions
         /\ ladder[e].reaped => Reaped'
         /\ ladder[e].tree \/ ladder[e].conf => Calm'
BY DEF SupervisedTypeOK, ProofsHold, Kept

LEMMA ReapStepWalks ==
  ASSUME SupervisedTypeOK, OwnerKnows, ConfirmationHolds, ProofsHold,
         NEW e \in Threads, ReapStep(e)
  PROVE  OwnerWorks /\ Walks(e)
<1>1. OwnerTypeOK BY DEF SupervisedTypeOK
<1>2. OwnerWorks
  <2>1. CASE \E x \in Expired(e) : Reap(x) BY <1>1, <2>1, ReapKnows DEF OwnerWorks
  <2>2. CASE Interrupted(e) BY <1>1, <2>2, StruckWorks DEF Interrupted
  <2>3. CASE UNCHANGED ownerVars BY <1>1, <2>3, StruckWorks DEF ownerVars, NoStrike
  <2> QED BY <2>1, <2>2, <2>3 DEF ReapStep
<1>3. PICK struck \in BOOLEAN : Pending(e, struck) \/ UNCHANGED <<caller, deferred>>
  BY DEF ReapStep
<1>4. Kept BY <1>2 DEF OwnerWorks
<1>5. \E l \in Positions :
        /\ ladder' = [ladder EXCEPT ![e] = l]
        /\ l.at # "rest"
        /\ l.reaped => Reaped'
        /\ l.tree \/ l.conf => Calm'
  <2>1. CASE \E place \in {"close", "confirm"} : Move(e, place) BY <1>4, <2>1, MoveNotes
  <2>2. ASSUME NEW place \in {"close", "confirm"},
               ladder' = [ladder EXCEPT ![e].reaped = leader' = "reaped", ![e].at = place]
        PROVE  \E l \in Positions :
                 /\ ladder' = [ladder EXCEPT ![e] = l]
                 /\ l.at # "rest"
                 /\ l.reaped => Reaped'
                 /\ l.tree \/ l.conf => Calm'
    <3> DEFINE l == [ladder[e] EXCEPT !.reaped = leader' = "reaped", !.at = place]
    <3>1. ladder' = [ladder EXCEPT ![e] = l] BY <2>2 DEF SupervisedTypeOK
    <3>2. /\ l \in Positions /\ l.at = place /\ (l.reaped <=> leader' = "reaped")
          /\ l.tree = ladder[e].tree /\ l.conf = ladder[e].conf
      BY OwnNotes, <1>4 DEF Positions
    <3> HIDE DEF l
    <3>3. (l.reaped => Reaped') /\ (l.tree \/ l.conf => Calm')
      BY <1>4, <3>2, OwnNotes DEF Reaped
    <3> QED BY <3>1, <3>2, <3>3
  <2> QED BY <2>1, <2>2 DEF ReapStep
<1> QED BY <1>2, <1>3, <1>5, PendingNotes DEF Walks, ReapStep, Frame

LEMMA RereapStepWalks ==
  ASSUME SupervisedTypeOK, OwnerKnows, ConfirmationHolds, ProofsHold,
         NEW e \in Threads, RereapStep(e)
  PROVE  OwnerWorks /\ Walks(e)
<1>1. OwnerTypeOK BY DEF SupervisedTypeOK
<1>2. OwnerWorks
  <2>1. CASE \E x \in Expired(e) : Reap(x) BY <1>1, <2>1, ReapKnows DEF OwnerWorks
  <2>2. CASE Interrupted(e) BY <1>1, <2>2, StruckWorks DEF Interrupted
  <2> QED BY <2>1, <2>2 DEF RereapStep
<1>3. PICK struck \in BOOLEAN : Pending(e, struck) \/ UNCHANGED <<caller, deferred>>
  BY DEF RereapStep
<1>4. Kept BY <1>2 DEF OwnerWorks
<1>5. \E l \in Positions :
        /\ ladder' = [ladder EXCEPT ![e] = l]
        /\ l.at # "rest"
        /\ l.reaped => Reaped'
        /\ l.tree \/ l.conf => Calm'
  <2>1. CASE Move(e, "pipes") BY <1>4, <2>1, MoveNotes
  <2>2. CASE ladder' = [ladder EXCEPT ![e].reaped = leader' = "reaped", ![e].at = "pipes"]
    <3> DEFINE l == [ladder[e] EXCEPT !.reaped = leader' = "reaped", !.at = "pipes"]
    <3>1. ladder' = [ladder EXCEPT ![e] = l] BY <2>2 DEF SupervisedTypeOK
    <3>2. /\ l \in Positions /\ l.at = "pipes" /\ (l.reaped <=> leader' = "reaped")
          /\ l.tree = ladder[e].tree /\ l.conf = ladder[e].conf
      BY OwnNotes, <1>4 DEF Positions
    <3> HIDE DEF l
    <3>3. (l.reaped => Reaped') /\ (l.tree \/ l.conf => Calm')
      BY <1>4, <3>2, OwnNotes DEF Reaped
    <3> QED BY <3>1, <3>2, <3>3
  <2> QED BY <2>1, <2>2 DEF RereapStep
<1> QED BY <1>2, <1>3, <1>5, PendingNotes DEF Walks, RereapStep, Frame

LEMMA ConfirmStepWalks ==
  ASSUME SupervisedTypeOK, OwnerKnows, ConfirmationHolds, ProofsHold,
         NEW e \in Threads, ConfirmStep(e)
  PROVE  OwnerWorks /\ Walks(e)
<1>1. OwnerTypeOK BY DEF SupervisedTypeOK
<1>2. OwnerWorks
  <2>1. CASE \E x \in Expired(e) : Confirm(FALSE, x) BY <1>1, <2>1, ConfirmKnows DEF OwnerWorks
  <2>2. CASE Interrupted(e) BY <1>1, <2>2, StruckWorks DEF Interrupted
  <2>3. CASE UNCHANGED ownerVars BY <1>1, <2>3, StruckWorks DEF ownerVars, NoStrike
  <2> QED BY <2>1, <2>2, <2>3 DEF ConfirmStep
<1>3. PICK struck \in BOOLEAN : Pending(e, struck) \/ UNCHANGED <<caller, deferred>>
  BY DEF ConfirmStep
<1>4. Kept /\ ConfirmationHolds' /\ owner'.confirmed \in BOOLEAN
  BY <1>2 DEF OwnerWorks, OwnerTypeOK
<1>5. \E l \in Positions :
        /\ ladder' = [ladder EXCEPT ![e] = l]
        /\ l.at # "rest"
        /\ l.reaped => Reaped'
        /\ l.tree \/ l.conf => Calm'
  <2>1. CASE Move(e, "pipes") BY <1>4, <2>1, MoveNotes
  <2>2. ASSUME NEW place \in {"close", "pipes"},
               ladder' = [ladder EXCEPT ![e].conf = owner'.confirmed,
                   ![e].tree = @ \/ (Deferring(e) /\ owner'.confirmed), ![e].at = place]
        PROVE  \E l \in Positions :
                 /\ ladder' = [ladder EXCEPT ![e] = l]
                 /\ l.at # "rest"
                 /\ l.reaped => Reaped'
                 /\ l.tree \/ l.conf => Calm'
    <3> DEFINE l == [ladder[e] EXCEPT !.conf = owner'.confirmed,
                       !.tree = @ \/ (Deferring(e) /\ owner'.confirmed), !.at = place]
    <3>1. ladder' = [ladder EXCEPT ![e] = l] BY <2>2 DEF SupervisedTypeOK
    <3>2. /\ l \in Positions /\ l.at = place /\ l.reaped = ladder[e].reaped
          /\ l.tree => ladder[e].tree \/ owner'.confirmed
          /\ l.conf = owner'.confirmed
      BY OwnNotes, <1>4 DEF Positions
    <3> HIDE DEF l
    <3>3. (l.reaped => Reaped') /\ (l.tree \/ l.conf => Calm')
      BY <1>4, <3>2, OwnNotes DEF ConfirmationHolds
    <3> QED BY <3>1, <3>2, <3>3
  <2>3. ASSUME NEW place \in {"close", "pipes"},
               ladder' = [ladder EXCEPT
                   ![e].tree = @ \/ (Deferring(e) /\ ladder[e].conf), ![e].at = place]
        PROVE  \E l \in Positions :
                 /\ ladder' = [ladder EXCEPT ![e] = l]
                 /\ l.at # "rest"
                 /\ l.reaped => Reaped'
                 /\ l.tree \/ l.conf => Calm'
    <3> DEFINE l == [ladder[e] EXCEPT !.tree = @ \/ (Deferring(e) /\ ladder[e].conf),
                                      !.at = place]
    <3>1. ladder' = [ladder EXCEPT ![e] = l] BY <2>3 DEF SupervisedTypeOK
    <3>2. /\ l \in Positions /\ l.at = place /\ l.reaped = ladder[e].reaped
          /\ l.tree => ladder[e].tree \/ ladder[e].conf
          /\ l.conf = ladder[e].conf
      BY OwnNotes, <1>4 DEF Positions
    <3> HIDE DEF l
    <3>3. (l.reaped => Reaped') /\ (l.tree \/ l.conf => Calm') BY <1>4, <3>2, OwnNotes
    <3> QED BY <3>1, <3>2, <3>3
  <2> QED BY <2>1, <2>2, <2>3 DEF ConfirmStep
<1> QED BY <1>2, <1>3, <1>5, PendingNotes DEF Walks, ConfirmStep, Frame

LEMMA ClosingStepWalks ==
  ASSUME SupervisedTypeOK, OwnerKnows, ConfirmationHolds, ProofsHold,
         NEW e \in Threads, ClosingStep(e)
  PROVE  OwnerWorks /\ Walks(e)
<1>1. OwnerTypeOK BY DEF SupervisedTypeOK
<1>2. OwnerWorks BY <1>1, StruckWorks DEF ClosingStep, ownerVars, NoStrike
<1>3. Pending(e, FALSE) \/ UNCHANGED <<caller, deferred>> BY DEF ClosingStep
<1>4. Kept /\ Calm' = Calm BY TreeKept DEF ClosingStep, ownerVars
<1>5. \E l \in Positions :
        /\ ladder' = [ladder EXCEPT ![e] = l]
        /\ l.at # "rest"
        /\ l.reaped => Reaped'
        /\ l.tree \/ l.conf => Calm'
  <2> DEFINE l == [ladder[e] EXCEPT !.at = AfterClose(e),
                                    !.tree = @ \/ (Deferring(e) /\ ClosedTreeBoundary)]
  <2>1. ladder' = [ladder EXCEPT ![e] = l] BY DEF SupervisedTypeOK, ClosingStep
  <2>2. AfterClose(e) \in {"close", "reap", "pipes", "rereap"} BY DEF AfterClose
  <2>3. /\ l \in Positions /\ l.at = AfterClose(e) /\ l.reaped = ladder[e].reaped
        /\ l.tree => ladder[e].tree \/ ClosedTreeBoundary
        /\ l.conf = ladder[e].conf
    BY OwnNotes, <1>4, <2>2 DEF Positions
  <2> HIDE DEF l
  <2>4. ClosedTreeBoundary => Calm BY DEF ClosedTreeBoundary, CloseTerminatesTree, OwnerKnows
  <2>5. (l.reaped => Reaped') /\ (l.tree \/ l.conf => Calm') BY <1>4, <2>3, <2>4, OwnNotes
  <2> QED BY <2>1, <2>2, <2>3, <2>5
<1> QED BY <1>2, <1>3, <1>5, PendingNotes DEF Walks, ClosingStep, Frame

LEMMA PipesStepWalks ==
  ASSUME SupervisedTypeOK, OwnerKnows, ConfirmationHolds, ProofsHold,
         NEW e \in Threads, PipesStep(e)
  PROVE  OwnerWorks /\ Walks(e)
<1>1. OwnerTypeOK BY DEF SupervisedTypeOK
<1>2. UNCHANGED <<platform, treeVars, owner>> /\ (Strike \/ NoStrike)
  BY DEF PipesStep, ownerVars, NoStrike
<1>3. OwnerWorks BY <1>1, <1>2, StruckWorks
<1>4. PICK struck \in BOOLEAN : Pending(e, struck) BY DEF PipesStep
<1>5. Kept BY <1>3 DEF OwnerWorks
<1>6. PICK b \in BOOLEAN : ladder' = [ladder EXCEPT ![e].pipes = b, ![e].at = "decide"]
  BY DEF PipesStep
<1>7. \E l \in Positions :
        /\ ladder' = [ladder EXCEPT ![e] = l]
        /\ l.at # "rest"
        /\ l.reaped => Reaped'
        /\ l.tree \/ l.conf => Calm'
  <2> DEFINE l == [ladder[e] EXCEPT !.pipes = b, !.at = "decide"]
  <2>1. ladder' = [ladder EXCEPT ![e] = l] BY <1>6 DEF SupervisedTypeOK
  <2>2. /\ l \in Positions /\ l.at = "decide" /\ l.reaped = ladder[e].reaped
        /\ l.tree = ladder[e].tree /\ l.conf = ladder[e].conf
    BY OwnNotes, <1>5 DEF Positions
  <2> HIDE DEF l
  <2>3. (l.reaped => Reaped') /\ (l.tree \/ l.conf => Calm') BY <1>5, <2>2, OwnNotes
  <2> QED BY <2>1, <2>2, <2>3
<1> QED BY <1>3, <1>4, <1>7, PendingNotes DEF Walks, PipesStep, Frame

\* Every step of a cleanup
LEMMA LadderWalks ==
  ASSUME SupervisedTypeOK, OwnerKnows, ConfirmationHolds, ProofsHold,
         NEW e \in Threads, Ladder(e)
  PROVE  OwnerWorks /\ Walks(e) /\ ~At(e, "rest")
<1>1. OwnerWorks /\ Walks(e)
  BY TerminateStepWalks, ReapStepWalks, ConfirmStepWalks, CloseStepWalks,
     ClosingStepWalks, RereapStepWalks, PipesStepWalks DEF Ladder
<1>2. ~At(e, "rest")
  BY DEF Ladder, TerminateStep, ReapStep, ConfirmStep, CloseStep, ClosingStep,
         RereapStep, PipesStep, At
<1> QED BY <1>1, <1>2

-----------------------------------------------------------------------------
LEMMA QuietIsReapedAndCalm == TreeQuiet <=> Reaped /\ Calm
BY DEF TreeQuiet, Reaped, Calm

\* The bound on the workers of the deferred cleanup
LEMMA SubsetCardinality ==
  ASSUME NEW S \in SUBSET Waiters
  PROVE  IsFiniteSet(S) /\ Cardinality(S) \in Nat /\ Cardinality(S) <= Cardinality(Waiters)
         /\ Cardinality(Waiters) \in Nat
BY WaitersAssumption, FS_Subset, FS_CardinalityType

LEMMA FreshBound ==
  ASSUME NEW f \in Nat, NEW s \in 0..MaxStrikes, NEW S \in SUBSET Waiters,
         f <= 2 * (1 + s + Cardinality(S))
  PROVE  f \in 0..LaunchBound
<1>1. Cardinality(S) \in Nat /\ Cardinality(S) <= Cardinality(Waiters) /\ Cardinality(Waiters) \in Nat
  BY SubsetCardinality
<1> QED BY <1>1, TreeOwnerAssumption DEF LaunchBound

\* Nothing more can be launched by who does not move.
LEMMA LaunchesKept ==
  ASSUME SupervisedTypeOK, Launches, StrikesKept, UNCHANGED waiter,
         deferred'.fresh = deferred.fresh
  PROVE  Launches'
<1>1. Spent' = Spent /\ Spent \in SUBSET Waiters BY DEF Spent
<1>2. Cardinality(Spent) \in Nat BY <1>1, SubsetCardinality
<1>3. strikes \in Nat /\ deferred.fresh \in Nat BY DEF SupervisedTypeOK, OwnerTypeOK
<1> HIDE DEF Spent
<1> QED BY <1>1, <1>2, <1>3 DEF Launches, StrikesKept

\* A step of a cleanup keeps all that is known.
LEMMA LadderKeeps ==
  ASSUME TreeInv, NEW e \in Threads, Ladder(e)
  PROVE  TreeInv'
<1>1. OwnerWorks /\ Walks(e) /\ ~At(e, "rest") BY LadderWalks
<1>2. PICK l \in Positions :
        /\ ladder' = [ladder EXCEPT ![e] = l]
        /\ l.at # "rest"
        /\ l.reaped => Reaped'
        /\ l.tree \/ l.conf => Calm'
  BY <1>1 DEF Walks
<1>3. PICK b \in BOOLEAN : caller' = [caller EXCEPT !.error = b] BY <1>1 DEF Walks
<1>4. PICK d \in BOOLEAN : deferred' = [deferred EXCEPT !.error = d] BY <1>1 DEF Walks
<1>5. e \notin Waiters => deferred' = deferred BY <1>1 DEF Walks
<1>6. UNCHANGED <<client, late, spawn, spawner, waiter, platform>> BY <1>1 DEF Walks, OwnerWorks
<1>7. Kept /\ StrikesKept BY <1>1 DEF OwnerWorks
<1>8. /\ caller'.at = caller.at /\ caller'.outcome = caller.outcome
      /\ deferred'.made = deferred.made /\ deferred'.failed = deferred.failed
      /\ deferred'.fresh = deferred.fresh /\ deferred'.claimed = deferred.claimed
      /\ deferred'.finished = deferred.finished /\ deferred'.complete = deferred.complete
      /\ deferred'.tree = deferred.tree /\ deferred'.reaped = deferred.reaped
      /\ deferred'.conf = deferred.conf
  BY <1>3, <1>4 DEF SupervisedTypeOK
<1>9. \A f \in Threads : ladder'[f] = IF f = e THEN l ELSE ladder[f]
  BY <1>2 DEF SupervisedTypeOK
<1>10. SupervisedTypeOK'
  BY <1>1, <1>2, <1>3, <1>4, <1>6 DEF SupervisedTypeOK, OwnerWorks, LaunchBound
<1>11. Launching'
  <2>1. spawner \notin {"none", "boot"} BY <1>1 DEF Launching, At, Resting
  <2> QED BY <1>6, <1>7, <1>8, <2>1 DEF Launching, Kept
<1>12. Claiming' BY <1>6, <1>8 DEF Claiming
<1>13. Deferral'
  <2>1. ~deferred.made => deferred' = deferred
    <3>1. e \in Waiters => waiter[e].at = "clean" BY <1>1 DEF WhoCleans
    <3> QED BY <1>5, <3>1 DEF Deferral
  <2>2. Attended' <=> Attended BY <1>6, <1>8 DEF Attended
  <2> QED BY <1>6, <1>8, <2>1, <2>2 DEF Deferral
<1>14. WhoCleans' BY <1>1, <1>6, <1>8, <1>9, ThreadsDiffer DEF WhoCleans, At
<1>15. ProofsHold' BY <1>2, <1>7, <1>8, <1>9 DEF ProofsHold, Kept
<1>16. Launches' BY <1>6, <1>7, <1>8, LaunchesKept
<1>17. CompleteMeansQuiet'
  <2>1. TreeQuiet => TreeQuiet' BY <1>7, QuietIsReapedAndCalm DEF Kept, TreeQuiet, Reaped, Calm
  <2> QED BY <1>6, <1>8, <2>1 DEF CompleteMeansQuiet, SpawnQuiet
<1> QED BY <1>1, <1>10, <1>11, <1>12, <1>13, <1>14, <1>15, <1>16, <1>17 DEF OwnerWorks

\* The tree, and the deadline
LEMMA SurroundingsKeep ==
  ASSUME TreeInv, Environment \/ DeadlinePasses \/ UNCHANGED supervisedVars
  PROVE  TreeInv'
<1>1. UNCHANGED <<client, spawn, spawner, caller, deferred, waiter, ladder>>
  BY DEF Environment, DeadlinePasses, treeFrame, supervisedVars
<1>2. late' \in BOOLEAN
  BY DEF SupervisedTypeOK, Environment, DeadlinePasses, treeFrame, supervisedVars
<1>3. OwnerWorks /\ (Unstarted => Unstarted')
  <2>1. OwnerTypeOK /\ OwnerKnows /\ ConfirmationHolds BY DEF SupervisedTypeOK
  <2>2. CASE TreeRuns \/ TreeDying
    <3>1. Unstarted => leader' = "none"
      BY <2>2 DEF Unstarted, TreeRuns, TreeDying, OwnerKnows, NewOwner
    <3> QED BY <2>1, <2>2, <3>1, TreeMoves DEF OwnerWorks, Unstarted
  <2>3. CASE CloseWorker
    <3>1. ~Unstarted BY <2>3 DEF Unstarted, NewOwner, CloseWorker
    <3> QED BY <2>1, <2>3, <3>1, CloseWorkerKnows DEF OwnerWorks
  <2>4. CASE UNCHANGED ownerVars
    BY <2>1, <2>4, StruckWorks DEF ownerVars, treeVars, NoStrike, Unstarted
  <2> QED BY <2>2, <2>3, <2>4 DEF Environment, DeadlinePasses, supervisedVars
<1>4. Kept /\ StrikesKept BY <1>3 DEF OwnerWorks
<1>5. SupervisedTypeOK' BY <1>1, <1>2, <1>3 DEF SupervisedTypeOK, OwnerWorks
<1>6. Launching' /\ Claiming' /\ WhoCleans'
  BY <1>1, <1>3, <1>4 DEF Launching, Claiming, WhoCleans, At, Kept
<1>7. Deferral' BY <1>1 DEF Deferral, Attended
<1>8. ProofsHold' BY <1>1, <1>4 DEF ProofsHold, Kept
<1>9. Launches' BY <1>1, <1>4, LaunchesKept
<1>10. CompleteMeansQuiet'
  <2>1. TreeQuiet => TreeQuiet' BY <1>4 DEF Kept, TreeQuiet, Reaped, Calm
  <2> QED BY <1>1, <2>1 DEF CompleteMeansQuiet, SpawnQuiet
<1> QED BY <1>3, <1>5, <1>6, <1>7, <1>8, <1>9, <1>10 DEF OwnerWorks

-----------------------------------------------------------------------------
\* The spawn worker starts a child, or not.
LEMMA StartedKnows ==
  ASSUME OwnerTypeOK, OwnerKnows, Unstarted, NEW assigned \in BOOLEAN, Started(assigned)
  PROVE  /\ leader' = "live" /\ OwnerKnows' /\ ConfirmationHolds'
         /\ StrikesKept => OwnerTypeOK'
<1>1. owner' \in [handle: {"none", "group", "probe", "job", "closing", "closed"},
                started: BOOLEAN, assigned: BOOLEAN, terminated: BOOLEAN,
                confirmed: BOOLEAN, closed: BOOLEAN, closeOk: BOOLEAN,
                failed: BOOLEAN]
  BY DEF OwnerTypeOK, Started
<1>2. /\ ~owner'.confirmed /\ ~owner'.closeOk /\ owner'.assigned = assigned
      /\ platform = "posix" => owner'.handle = "group"
  BY DEF OwnerTypeOK, Started, Unstarted, NewOwner
<1>3. leader' = "live" /\ kin' = "none" /\ UNCHANGED <<platform, stray>>
  BY DEF Started, Unstarted, OwnerKnows
<1> QED BY <1>1, <1>2, <1>3 DEF OwnerKnows, ConfirmationHolds, OwnerTypeOK, StrikesKept

\* Where nothing was started nobody has cleaned anything.
LEMMA NothingBefore ==
  ASSUME TreeInv, spawner \in {"none", "boot"}
  PROVE  /\ Unstarted /\ kin = "none" /\ ~deferred.made /\ deferred = Undone
         /\ ~spawn.acked /\ ~spawn.finished /\ ~spawn.complete
         /\ caller.outcome \notin {"quiet", "error"}
         /\ \A e \in Threads : ladder[e] = Resting
<1>1. Unstarted /\ ~spawn.acked /\ ~spawn.finished /\ ~spawn.complete
      /\ (\A e \in Threads : ladder[e] = Resting)
      /\ caller.outcome \notin {"quiet", "error"}
  BY DEF Launching, Claiming
<1>2. ~deferred.made BY <1>1 DEF Deferral
<1> QED BY <1>1, <1>2 DEF Deferral, OwnerKnows, Unstarted

LEMMA SpawnerBootsKeeps ==
  ASSUME TreeInv, SpawnerBoots
  PROVE  TreeInv'
<1>1. spawner = "boot" /\ UNCHANGED <<client, late, caller, deferred, waiter>>
  BY DEF SpawnerBoots, spawnerFrame
<1>2. /\ Unstarted /\ kin = "none" /\ ~deferred.made /\ deferred = Undone
      /\ ~spawn.acked /\ ~spawn.finished /\ ~spawn.complete
      /\ caller.outcome \notin {"quiet", "error"}
      /\ \A e \in Threads : ladder[e] = Resting
  BY <1>1, NothingBefore
<1>3. OwnerTypeOK /\ OwnerKnows /\ ConfirmationHolds BY DEF SupervisedTypeOK
<1>4. StrikesKept BY <1>3, StrikeKept DEF SpawnerBoots, StartProcess, StartRaises
<1>5. /\ OwnerTypeOK' /\ OwnerKnows' /\ ConfirmationHolds'
      /\ spawner' = "decide" => leader' # "none"
  <2>1. CASE \E assigned \in BOOLEAN : Started(assigned) BY <1>2, <1>3, <1>4, <2>1, StartedKnows
  <2>2. CASE UNCHANGED <<platform, treeVars, owner>> /\ spawner' # "decide"
    BY <1>3, <1>4, <2>2, TreeKept, OwnerTypesKept
  <2> QED BY <2>1, <2>2 DEF SpawnerBoots, StartProcess, StartRaises
<1>6. \/ /\ spawner' = "decide" /\ ladder' = ladder
         /\ spawn' = [spawn EXCEPT !.ready = TRUE]
      \/ /\ spawner' = "clean"
         /\ spawn' = [spawn EXCEPT !.error = TRUE]
         /\ ladder' = [ladder EXCEPT !["spawner"] = [Fresh EXCEPT !.reaped = leader' = "none"]]
      \/ /\ spawner' = "done" /\ ladder' = ladder /\ UNCHANGED <<platform, treeVars, owner>>
         /\ spawn' = [spawn EXCEPT !.error = TRUE, !.ready = TRUE,
                                   !.finished = TRUE, !.complete = TRUE]
  BY DEF SpawnerBoots, NoLadder
<1>7. /\ spawn' \in [ready: BOOLEAN, decided: BOOLEAN, acked: BOOLEAN,
                     abandoned: BOOLEAN, finished: BOOLEAN, complete: BOOLEAN,
                     error: BOOLEAN]
      /\ ~spawn'.acked /\ spawn'.decided = spawn.decided
      /\ spawner' = "decide" => spawn'.ready /\ spawn'.error = spawn.error
      /\ spawner' \in {"clean", "done"} => spawn'.error
      /\ spawn'.finished \/ spawn'.complete =>
           spawner' = "done" /\ UNCHANGED <<platform, treeVars, owner>>
      /\ spawner' \in {"decide", "clean", "done"}
  <2>1. spawn \in [ready: BOOLEAN, decided: BOOLEAN, acked: BOOLEAN, abandoned: BOOLEAN,
                   finished: BOOLEAN, complete: BOOLEAN, error: BOOLEAN]
    BY DEF SupervisedTypeOK
  <2>2. CASE spawner' = "decide" /\ spawn' = [spawn EXCEPT !.ready = TRUE] BY <1>2, <2>1, <2>2
  <2>3. CASE spawner' = "clean" /\ spawn' = [spawn EXCEPT !.error = TRUE] BY <1>2, <2>1, <2>3
  <2>4. CASE /\ spawner' = "done" /\ UNCHANGED <<platform, treeVars, owner>>
             /\ spawn' = [spawn EXCEPT !.error = TRUE, !.ready = TRUE,
                                       !.finished = TRUE, !.complete = TRUE]
    BY <1>2, <2>1, <2>4
  <2> QED BY <1>6, <2>2, <2>3, <2>4
<1>8. /\ ladder' \in [Threads -> Positions]
      /\ \A e \in Threads : /\ e # "spawner" \/ spawner' # "clean" => ladder'[e] = Resting
                            /\ ~ladder'[e].tree /\ ~ladder'[e].conf
                            /\ ladder'[e].reaped => leader' = "none"
  <2>1. ladder \in [Threads -> Positions] /\ "spawner" \in Threads
    BY DEF SupervisedTypeOK, Threads
  <2>2. ~Resting.tree /\ ~Resting.conf /\ ~Resting.reaped BY DEF Resting
  <2>3. CASE ladder' = ladder /\ spawner' # "clean" BY <1>2, <2>1, <2>2, <2>3
  <2>4. CASE /\ spawner' = "clean"
             /\ ladder' = [ladder EXCEPT !["spawner"] = [Fresh EXCEPT !.reaped = leader' = "none"]]
    <3> DEFINE l == [Fresh EXCEPT !.reaped = leader' = "none"]
    <3>1. l \in Positions /\ ~l.tree /\ ~l.conf /\ (l.reaped <=> leader' = "none")
      BY DEF Fresh, Resting, Positions
    <3>2. ladder' = [ladder EXCEPT !["spawner"] = l] BY <2>4
    <3> HIDE DEF l
    <3>3. \A e \in Threads : ladder'[e] = IF e = "spawner" THEN l ELSE Resting
      BY <1>2, <2>1, <3>2
    <3>4. ladder' \in [Threads -> Positions] BY <2>1, <3>1, <3>2
    <3> QED BY <2>2, <2>4, <3>1, <3>3, <3>4
  <2> QED BY <1>6, <2>3, <2>4
<1>9. SupervisedTypeOK' BY <1>1, <1>5, <1>7, <1>8 DEF SupervisedTypeOK
<1>10. Launching'
  <2>1. caller.at # "launch" /\ ~spawn.error BY <1>1 DEF Launching
  <2> QED BY <1>1, <1>5, <1>7, <2>1 DEF Launching
<1>11. Claiming'
  <2>1. caller.at # "acknowledge" /\ caller.at \notin {"monitor", "held", "clean"}
    BY <1>1, <1>2 DEF Claiming, Launching
  <2> QED BY <1>1, <1>2, <1>7, <2>1 DEF Claiming
<1>12. Deferral' BY <1>1, <1>2 DEF Deferral, Attended
<1>13. WhoCleans' BY <1>1, <1>7, <1>8, ThreadsDiffer DEF WhoCleans, At, Resting
<1>14. ProofsHold' BY <1>1, <1>2, <1>8 DEF ProofsHold, Undone, Reaped
<1>15. Launches' BY <1>1, <1>4, LaunchesKept
<1>16. CompleteMeansQuiet'
  <2>1. ~deferred.finished /\ ~deferred.complete BY <1>2 DEF Undone
  <2>2. leader = "none" BY <1>2 DEF Unstarted
  <2> QED
    BY <1>1, <1>2, <1>7, <2>1, <2>2 DEF CompleteMeansQuiet, SpawnQuiet, TreeQuiet, treeVars
<1> QED BY <1>5, <1>9, <1>10, <1>11, <1>12, <1>13, <1>14, <1>15, <1>16

\* A step that leaves the tree and its owner alone, and is no cleanup's
LEMMA CalmStep ==
  ASSUME TreeInv, UNCHANGED <<platform, treeVars, owner>>, Strike \/ NoStrike
  PROVE  /\ OwnerTypeOK' /\ OwnerKnows' /\ ConfirmationHolds' /\ StrikesKept
         /\ Calm' = Calm /\ Reaped' = Reaped /\ leader' = leader /\ kin' = kin
         /\ (Unstarted => Unstarted')
         /\ (TreeQuiet' <=> TreeQuiet)
<1>1. OwnerTypeOK /\ OwnerKnows /\ ConfirmationHolds BY DEF SupervisedTypeOK
<1>2. OwnerWorks BY <1>1, StruckWorks
<1>3. Calm' = Calm /\ Reaped' = Reaped BY TreeKept
<1>4. leader' = leader /\ kin' = kin BY DEF treeVars
<1> QED BY <1>2, <1>3, <1>4 DEF OwnerWorks, Unstarted, TreeQuiet

LEMMA SpawnerDecidesKeeps ==
  ASSUME TreeInv, SpawnerDecides
  PROVE  TreeInv'
<1>1. /\ spawner = "decide" /\ spawn.decided
      /\ UNCHANGED <<client, late, caller, deferred, waiter>>
      /\ UNCHANGED <<platform, treeVars, owner>> /\ NoStrike
  BY DEF SpawnerDecides, spawnerFrame, ownerVars, NoStrike
<1>2. /\ OwnerTypeOK' /\ OwnerKnows' /\ ConfirmationHolds' /\ StrikesKept
      /\ Calm' = Calm /\ Reaped' = Reaped /\ leader' = leader
      /\ (TreeQuiet' <=> TreeQuiet)
  BY <1>1, CalmStep
<1>3. \/ /\ spawn.acked /\ spawner' = "done" /\ spawn' = [spawn EXCEPT !.finished = TRUE]
         /\ ladder' = ladder
      \/ /\ ~spawn.acked /\ spawner' = "clean" /\ spawn' = spawn
         /\ ladder' = [ladder EXCEPT !["spawner"] = Fresh]
  BY DEF SpawnerDecides, NoLadder
<1>4. /\ spawn' \in [ready: BOOLEAN, decided: BOOLEAN, acked: BOOLEAN,
                     abandoned: BOOLEAN, finished: BOOLEAN, complete: BOOLEAN,
                     error: BOOLEAN]
      /\ spawn'.acked = spawn.acked /\ spawn'.decided = spawn.decided
      /\ spawn'.error = spawn.error /\ spawn'.complete = spawn.complete
      /\ spawn'.ready = spawn.ready
      /\ spawn'.finished => spawn.finished \/ spawner' = "done"
      /\ ~spawn.complete
  <2>1. /\ spawn \in [ready: BOOLEAN, decided: BOOLEAN, acked: BOOLEAN,
                      abandoned: BOOLEAN, finished: BOOLEAN, complete: BOOLEAN,
                      error: BOOLEAN]
        /\ ~spawn.complete
    BY <1>1 DEF SupervisedTypeOK, Launching
  <2>2. CASE spawner' = "done" /\ spawn' = [spawn EXCEPT !.finished = TRUE] BY <2>1, <2>2
  <2>3. CASE spawn' = spawn BY <2>1, <2>3
  <2> QED BY <1>3, <2>2, <2>3
<1>5. /\ ladder' \in [Threads -> Positions]
      /\ \A e \in Threads :
           \/ ladder'[e] = ladder[e]
           \/ e = "spawner" /\ ladder'[e] = Fresh /\ spawner' = "clean"
  <2>1. ladder \in [Threads -> Positions] /\ "spawner" \in Threads /\ Fresh \in Positions
    BY DEF SupervisedTypeOK, Threads, Fresh, Resting, Positions
  <2> QED BY <1>3, <2>1
<1>6. SupervisedTypeOK' BY <1>1, <1>2, <1>3, <1>4, <1>5 DEF SupervisedTypeOK
<1>7. Launching' BY <1>1, <1>2, <1>3, <1>4 DEF Launching
<1>8. Claiming' BY <1>1, <1>3, <1>4 DEF Claiming
<1>9. Deferral' BY <1>1, <1>4 DEF Deferral, Attended
<1>10. WhoCleans' BY <1>1, <1>5, ThreadsDiffer DEF WhoCleans, At
<1>11. ProofsHold'
  <2>1. ~Fresh.reaped /\ ~Fresh.tree /\ ~Fresh.conf BY DEF Fresh, Resting
  <2> QED BY <1>1, <1>2, <1>5, <2>1 DEF ProofsHold
<1>12. Launches' BY <1>1, <1>2, LaunchesKept
<1>13. CompleteMeansQuiet' BY <1>1, <1>2, <1>4 DEF CompleteMeansQuiet, SpawnQuiet
<1> QED BY <1>2, <1>6, <1>7, <1>8, <1>9, <1>10, <1>11, <1>12, <1>13

LEMMA SpawnerFinishesKeeps ==
  ASSUME TreeInv, SpawnerFinishes
  PROVE  TreeInv'
<1>1. /\ spawner = "clean" /\ UNCHANGED <<client, late, caller, deferred, waiter>>
      /\ UNCHANGED <<platform, treeVars, owner>> /\ NoStrike
  BY DEF SpawnerFinishes, spawnerFrame, ownerVars, NoStrike
<1>2. /\ OwnerTypeOK' /\ OwnerKnows' /\ ConfirmationHolds' /\ StrikesKept
      /\ Calm' = Calm /\ Reaped' = Reaped /\ leader' = leader
      /\ (TreeQuiet' <=> TreeQuiet)
  BY <1>1, CalmStep
<1>3. \/ /\ SpawnerComplete /\ spawner' = "done"
         /\ spawn' = [spawn EXCEPT !.ready = TRUE, !.finished = TRUE, !.complete = TRUE]
         /\ ladder' = [ladder EXCEPT !["spawner"] = Resting]
      \/ /\ spawner' = spawner /\ spawn' = spawn
         /\ ladder' = [ladder EXCEPT !["spawner"] = [Fresh EXCEPT !.reaped = ~HasProcess]]
  BY DEF SpawnerFinishes
<1>4. /\ spawn' \in [ready: BOOLEAN, decided: BOOLEAN, acked: BOOLEAN,
                     abandoned: BOOLEAN, finished: BOOLEAN, complete: BOOLEAN,
                     error: BOOLEAN]
      /\ spawn'.acked = spawn.acked /\ spawn'.decided = spawn.decided
      /\ spawn'.error = spawn.error
      /\ spawn'.finished \/ spawn'.complete => spawner' = "done"
      /\ ~spawn.acked /\ spawner' \in {"clean", "done"}
      /\ spawn.error \/ spawn.decided
  <2>1. /\ spawn \in [ready: BOOLEAN, decided: BOOLEAN, acked: BOOLEAN,
                      abandoned: BOOLEAN, finished: BOOLEAN, complete: BOOLEAN,
                      error: BOOLEAN]
        /\ ~spawn.acked /\ ~spawn.finished /\ ~spawn.complete
        /\ spawn.error \/ spawn.decided
    BY <1>1 DEF SupervisedTypeOK, Launching
  <2>2. CASE /\ spawner' = "done"
             /\ spawn' = [spawn EXCEPT !.ready = TRUE, !.finished = TRUE, !.complete = TRUE]
    BY <2>1, <2>2
  <2>3. CASE spawner' = spawner /\ spawn' = spawn BY <1>1, <2>1, <2>3
  <2> QED BY <1>3, <2>2, <2>3
<1>5. PICK l \in Positions : /\ ladder' = [ladder EXCEPT !["spawner"] = l]
                             /\ spawner' = "done" => l = Resting
                             /\ l.reaped => leader = "none"
                             /\ ~l.tree /\ ~l.conf
  <2>1. CASE ladder' = [ladder EXCEPT !["spawner"] = Resting]
    <3>1. Resting \in Positions /\ ~Resting.reaped /\ ~Resting.tree /\ ~Resting.conf
      BY DEF Resting, Positions
    <3> QED BY <2>1, <3>1
  <2>2. CASE /\ spawner' = "clean"
             /\ ladder' = [ladder EXCEPT !["spawner"] = [Fresh EXCEPT !.reaped = ~HasProcess]]
    <3> DEFINE l == [Fresh EXCEPT !.reaped = ~HasProcess]
    <3>1. l \in Positions /\ (l.reaped <=> ~HasProcess) /\ ~l.tree /\ ~l.conf
      BY DEF Fresh, Resting, Positions
    <3>2. ladder' = [ladder EXCEPT !["spawner"] = l] BY <2>2
    <3> HIDE DEF l
    <3> QED BY <2>2, <3>1, <3>2 DEF HasProcess
  <2> QED BY <1>1, <1>3, <2>1, <2>2
<1>6. /\ ladder' \in [Threads -> Positions]
      /\ \A e \in Threads : ladder'[e] = IF e = "spawner" THEN l ELSE ladder[e]
  <2>1. ladder \in [Threads -> Positions] /\ "spawner" \in Threads
    BY DEF SupervisedTypeOK, Threads
  <2> QED BY <1>5, <2>1
<1>7. SupervisedTypeOK' BY <1>1, <1>2, <1>4, <1>6 DEF SupervisedTypeOK
<1>8. Launching' BY <1>1, <1>2, <1>4 DEF Launching
<1>9. Claiming'
  <2>1. caller.at # "acknowledge" BY <1>1, <1>4 DEF Launching, Claiming
  <2> QED BY <1>1, <1>4, <2>1 DEF Claiming
<1>10. Deferral' BY <1>1, <1>4 DEF Deferral, Attended
<1>11. WhoCleans' BY <1>1, <1>4, <1>5, <1>6, ThreadsDiffer DEF WhoCleans, At, Resting
<1>12. ProofsHold' BY <1>1, <1>2, <1>5, <1>6 DEF ProofsHold, Reaped
<1>13. Launches' BY <1>1, <1>2, LaunchesKept
<1>14. CompleteMeansQuiet'
  <2>1. SpawnerComplete => TreeQuiet
    <3>1. ASSUME SpawnerComplete
          PROVE  Reaped /\ Calm
      <4>1. ladder["spawner"].reaped /\ (leader = "none" \/ TreeProvenEmpty)
        BY <3>1 DEF SpawnerComplete, HasProcess
      <4>2. Reaped BY <4>1 DEF ProofsHold, Threads
      <4>3. TreeProvenEmpty => Calm
        BY DEF TreeProvenEmpty, ClosedTreeBoundary, CloseTerminatesTree, OwnerKnows,
           ConfirmationHolds
      <4>4. leader = "none" => Calm BY DEF OwnerKnows, Calm
      <4> QED BY <4>1, <4>2, <4>3, <4>4
    <3> QED BY <3>1, QuietIsReapedAndCalm
  <2>2. spawn'.finished /\ spawn'.complete => SpawnerComplete
    BY <1>1, <1>3, <1>4 DEF SupervisedTypeOK, Launching
  <2> QED BY <1>1, <1>2, <2>1, <2>2 DEF CompleteMeansQuiet, SpawnQuiet
<1> QED BY <1>2, <1>7, <1>8, <1>9, <1>10, <1>11, <1>12, <1>13, <1>14

-----------------------------------------------------------------------------
\* The caller.
SpawnRecord ==
  [ready: BOOLEAN, decided: BOOLEAN, acked: BOOLEAN, abandoned: BOOLEAN,
   finished: BOOLEAN, complete: BOOLEAN, error: BOOLEAN]

CallerRecord ==
  [at: {"launch", "claim", "settle", "monitor", "acknowledge", "held", "giveup", "wait",
        "clean", "ended"},
   error: BOOLEAN, outcome: {"none", "quiet", "error", "debt", "plain"}]

LEMMA SpawnAndCaller ==
  ASSUME TreeInv
  PROVE  spawn \in SpawnRecord /\ caller \in CallerRecord
BY DEF SupervisedTypeOK, SpawnRecord, CallerRecord

\* What a step of the caller, before its end and outside of its cleanup, has to
\* show: that the launch and the claim are in order and that what is said to be
\* quiet is so.
LEMMA CallerMoves ==
  ASSUME TreeInv, UNCHANGED <<platform, treeVars, owner>>, Strike \/ NoStrike,
         UNCHANGED <<client, late, deferred, waiter>>,
         caller.at \notin {"clean", "ended"},
         \/ ladder' = ladder
         \/ caller'.at = "clean" /\ ladder' = [ladder EXCEPT !["caller"] = Fresh],
         spawn' \in SpawnRecord, caller' \in CallerRecord,
         spawner' = spawner \/ (spawner = "none" /\ spawner' \in {"boot", "done"}),
         Launching', Claiming',
         caller'.outcome \in {"quiet", "error"} \/ (spawn'.finished /\ spawn'.complete)
           => TreeQuiet
  PROVE  TreeInv'
<1>1. /\ OwnerTypeOK' /\ OwnerKnows' /\ ConfirmationHolds' /\ StrikesKept
      /\ Calm' = Calm /\ Reaped' = Reaped
      /\ (TreeQuiet' <=> TreeQuiet)
  BY CalmStep
<1>2. ~deferred.made BY DEF Deferral
<1>3. /\ ladder' \in [Threads -> Positions]
      /\ \A e \in Threads :
           ladder'[e] = IF e = "caller" /\ caller'.at = "clean" /\ ladder' # ladder
                        THEN Fresh ELSE ladder[e]
  <2>1. ladder \in [Threads -> Positions] /\ "caller" \in Threads /\ Fresh \in Positions
    BY DEF SupervisedTypeOK, Threads, Fresh, Resting, Positions
  <2> QED BY <2>1
<1>4. SupervisedTypeOK'
  <2>1. spawner' \in {"none", "boot", "decide", "clean", "done"} BY DEF SupervisedTypeOK
  <2> QED BY <1>1, <1>3, <2>1 DEF SupervisedTypeOK, SpawnRecord, CallerRecord
<1>5. Deferral' BY <1>2 DEF Deferral, Attended
<1>6. WhoCleans'
  <2>1. At("caller", "rest") BY DEF WhoCleans
  <2>2. spawner = "none" => At("spawner", "rest") BY ThreadsDiffer DEF WhoCleans
  <2> QED BY <1>3, <2>1, <2>2, ThreadsDiffer DEF WhoCleans, At
<1>7. ProofsHold'
  <2>1. ~Fresh.reaped /\ ~Fresh.tree /\ ~Fresh.conf BY DEF Fresh, Resting
  <2> QED BY <1>1, <1>3, <2>1 DEF ProofsHold
<1>8. Launches' BY <1>1, LaunchesKept
<1>9. CompleteMeansQuiet'
  <2>1. ~deferred.finished /\ ~deferred.complete BY <1>2 DEF Deferral, Undone
  <2> QED BY <1>1, <2>1 DEF CompleteMeansQuiet, SpawnQuiet
<1> QED BY <1>1, <1>4, <1>5, <1>6, <1>7, <1>8, <1>9

LEMMA LaunchKeeps ==
  ASSUME TreeInv, Launch
  PROVE  TreeInv'
<1>1. caller.at = "launch" /\ spawner = "none" BY DEF Launching, Launch
<1>2. /\ Unstarted /\ kin = "none" /\ ~spawn.acked /\ ~spawn.finished /\ ~spawn.complete
      /\ caller.outcome \notin {"quiet", "error"} /\ ~spawn.ready /\ ~spawn.error
      /\ ~spawn.decided /\ caller.outcome = "none"
      /\ \A e \in Threads : ladder[e] = Resting
  BY <1>1, NothingBefore DEF Launching, Claiming
<1>3. /\ UNCHANGED <<platform, treeVars, owner, client, late, ladder, deferred, waiter>>
      /\ Strike \/ NoStrike
  BY DEF Launch
<1>4. \/ /\ spawner' = "boot" /\ spawn' = spawn
         /\ caller' = [caller EXCEPT !.at = "claim"]
      \/ /\ spawner' = "boot" /\ spawn' = [spawn EXCEPT !.decided = TRUE, !.abandoned = TRUE]
         /\ caller' = [caller EXCEPT !.at = "settle", !.error = TRUE]
      \/ /\ spawner' = "done"
         /\ spawn' = [spawn EXCEPT !.ready = TRUE, !.finished = TRUE,
                                   !.complete = TRUE, !.error = TRUE]
         /\ caller' = [caller EXCEPT !.at = "settle", !.error = TRUE]
  BY DEF Launch
<1>5. spawn \in SpawnRecord /\ caller \in CallerRecord BY SpawnAndCaller
<1>6. /\ spawn' \in SpawnRecord /\ ~spawn'.acked
      /\ spawner' = "boot" => /\ ~spawn'.ready /\ ~spawn'.error
                              /\ ~spawn'.finished /\ ~spawn'.complete
      /\ spawner' = "done" => spawn'.error
      /\ spawn'.decided => caller'.at = "settle"
  <2>1. CASE spawner' = "boot" /\ spawn' = spawn /\ caller' = [caller EXCEPT !.at = "claim"]
    BY <1>2, <1>5, <2>1 DEF SpawnRecord
  <2>2. CASE /\ spawner' = "boot" /\ spawn' = [spawn EXCEPT !.decided = TRUE, !.abandoned = TRUE]
             /\ caller' = [caller EXCEPT !.at = "settle", !.error = TRUE]
    BY <1>2, <1>5, <2>2 DEF SpawnRecord, CallerRecord
  <2>3. CASE /\ spawner' = "done"
             /\ spawn' = [spawn EXCEPT !.ready = TRUE, !.finished = TRUE,
                                       !.complete = TRUE, !.error = TRUE]
             /\ caller' = [caller EXCEPT !.at = "settle", !.error = TRUE]
    BY <1>2, <1>5, <2>3 DEF SpawnRecord, CallerRecord
  <2> QED BY <1>4, <2>1, <2>2, <2>3
<1>7. /\ caller' \in CallerRecord /\ caller'.at \in {"claim", "settle"}
      /\ caller'.outcome = "none" /\ spawner' \in {"boot", "done"}
  BY <1>2, <1>4, <1>5 DEF CallerRecord
<1>8. Unstarted' BY <1>2, <1>3 DEF Unstarted, treeVars
<1>9. Launching' BY <1>2, <1>3, <1>6, <1>7, <1>8 DEF Launching
<1>10. Claiming' BY <1>6, <1>7 DEF Claiming
<1>11. TreeQuiet BY <1>2 DEF TreeQuiet, Unstarted
<1> QED BY <1>1, <1>3, <1>6, <1>7, <1>9, <1>10, <1>11, CallerMoves

\* Where the caller is outside of Launch, spawner and what the worker did stay.
LEMMA SpawnLedgerKept ==
  ASSUME TreeInv, UNCHANGED <<spawner, ladder, platform, treeVars, owner>>, caller.at # "launch",
         caller'.at # "launch", spawn' \in SpawnRecord,
         /\ spawn'.ready = spawn.ready /\ spawn'.error = spawn.error
         /\ spawn'.finished = spawn.finished /\ spawn'.complete = spawn.complete
         /\ spawn.decided => spawn'.decided
         /\ spawn'.acked # spawn.acked => spawner = "decide" /\ spawn'.decided
  PROVE  Launching'
<1>1. UNCHANGED leader /\ (Unstarted => Unstarted') BY DEF treeVars, Unstarted
<1> QED BY <1>1 DEF Launching, SpawnRecord

\* A process that may be claimed is with a worker that waits for the decision.
LEMMA Claimable ==
  ASSUME TreeInv, caller.at \in {"claim", "acknowledge"}, spawn.ready, ~spawn.error
  PROVE  spawner = "decide" /\ ~spawn.decided /\ leader # "none"
<1>1. ~spawn.decided BY DEF Claiming
<1>2. spawner \in {"none", "boot", "decide", "clean", "done"} BY DEF SupervisedTypeOK
<1> QED BY <1>1, <1>2 DEF Launching

LEMMA ClaimKeeps ==
  ASSUME TreeInv, Claim \/ ClaimInterrupted
  PROVE  TreeInv'
<1>1. /\ caller.at = "claim" /\ (Strike \/ NoStrike)
      /\ UNCHANGED <<platform, treeVars, owner, client, late, spawner, ladder, deferred, waiter>>
  BY DEF Claim, ClaimInterrupted, callerFrame, NoLadder
<1>2. spawn \in SpawnRecord /\ caller \in CallerRecord BY SpawnAndCaller
<1>3. caller.outcome = "none" BY <1>1 DEF Claiming
<1>4. \/ spawn.ready /\ ~spawn.error /\ spawn' = spawn /\ caller' = [caller EXCEPT !.at = "acknowledge"]
      \/ /\ spawn.ready /\ ~spawn.error
         /\ spawn' = [spawn EXCEPT !.acked = TRUE, !.decided = TRUE]
         /\ caller' = [caller EXCEPT !.at = "settle"]
      \/ /\ spawn' \in {spawn, Abandoned(spawn)}
         /\ \/ caller' = [caller EXCEPT !.at = "giveup"]
            \/ caller' = [caller EXCEPT !.at = "giveup", !.error = TRUE]
  BY <1>1 DEF Claim, ClaimInterrupted
<1>5. /\ Abandoned(spawn) \in SpawnRecord /\ Abandoned(spawn).decided
      /\ Abandoned(spawn).ready = spawn.ready /\ Abandoned(spawn).error = spawn.error
      /\ Abandoned(spawn).finished = spawn.finished /\ Abandoned(spawn).acked = spawn.acked
      /\ Abandoned(spawn).complete = spawn.complete
  BY <1>2 DEF Abandoned, SpawnRecord
<1>6. /\ spawn' \in SpawnRecord /\ caller' \in CallerRecord
      /\ caller'.at \in {"acknowledge", "settle", "giveup"} /\ caller'.outcome = "none"
      /\ spawn'.ready = spawn.ready /\ spawn'.error = spawn.error
      /\ spawn'.finished = spawn.finished /\ spawn'.complete = spawn.complete
      /\ spawn.decided => spawn'.decided
      /\ spawn'.acked # spawn.acked => spawn'.decided /\ spawn.ready /\ ~spawn.error
      /\ caller'.at = "acknowledge" => spawn.ready /\ ~spawn.error /\ spawn' = spawn
  <2>1. CASE /\ spawn.ready /\ ~spawn.error /\ spawn' = spawn
             /\ caller' = [caller EXCEPT !.at = "acknowledge"]
    BY <1>2, <1>3, <2>1 DEF CallerRecord
  <2>2. CASE /\ spawn.ready /\ ~spawn.error
             /\ spawn' = [spawn EXCEPT !.acked = TRUE, !.decided = TRUE]
             /\ caller' = [caller EXCEPT !.at = "settle"]
    BY <1>2, <1>3, <2>2 DEF SpawnRecord, CallerRecord
  <2>3. CASE /\ spawn' \in {spawn, Abandoned(spawn)}
             /\ \/ caller' = [caller EXCEPT !.at = "giveup"]
                \/ caller' = [caller EXCEPT !.at = "giveup", !.error = TRUE]
    <3>1. /\ caller' \in CallerRecord /\ caller'.at = "giveup" /\ caller'.outcome = "none"
      BY <1>2, <1>3, <2>3 DEF CallerRecord
    <3> QED BY <1>2, <1>5, <2>3, <3>1
  <2> QED BY <1>4, <2>1, <2>2, <2>3
<1>7. spawn'.acked # spawn.acked => spawner = "decide" BY <1>1, <1>6, Claimable
<1>8. Launching' BY <1>1, <1>6, <1>7, SpawnLedgerKept
<1>9. Claiming' BY <1>1, <1>6 DEF Claiming
<1>10. spawn'.finished /\ spawn'.complete => TreeQuiet
  BY <1>6 DEF CompleteMeansQuiet, SpawnQuiet
<1> QED BY <1>1, <1>6, <1>8, <1>9, <1>10, CallerMoves

LEMMA EndsIs ==
  ASSUME TreeInv, NEW outcome \in {"none", "quiet", "error", "debt", "plain"}
  PROVE  /\ Ends(outcome) \in CallerRecord /\ Ends(outcome).at = "ended"
         /\ Ends(outcome).outcome = outcome
         /\ [Ends(outcome) EXCEPT !.error = TRUE] \in CallerRecord
         /\ [Ends(outcome) EXCEPT !.error = TRUE].at = "ended"
         /\ [Ends(outcome) EXCEPT !.error = TRUE].outcome = outcome
BY SpawnAndCaller DEF Ends, CallerRecord

\* Steps by which a caller that did not clean up goes on or ends
LEMMA CallerEnds ==
  ASSUME TreeInv, UNCHANGED <<platform, treeVars, owner>>, Strike \/ NoStrike,
         UNCHANGED <<client, late, spawner, spawn, ladder, deferred, waiter>>,
         caller.at \in {"settle", "giveup", "wait"}, caller' \in CallerRecord,
         \/ caller'.at = "ended" /\ caller'.outcome \in {"quiet", "error"} /\ SpawnQuiet
         \/ caller'.at = "ended" /\ caller'.outcome \in {"debt", "plain"}
         \/ caller'.at = "monitor" /\ caller'.outcome = "none" /\ spawn.acked
         \/ caller'.at = "wait" /\ caller'.outcome = "none"
  PROVE  TreeInv'
<1>1. spawn' \in SpawnRecord BY SpawnAndCaller
<1>2. Launching' BY <1>1, SpawnLedgerKept
<1>3. Claiming'
  <2>1. SpawnQuiet => spawner = "done" BY DEF Launching, SpawnQuiet
  <2> QED BY <2>1 DEF Claiming
<1>4. SpawnQuiet => TreeQuiet BY DEF CompleteMeansQuiet
<1>5. caller'.outcome \in {"quiet", "error"} \/ (spawn'.finished /\ spawn'.complete) => TreeQuiet
  BY <1>4 DEF SpawnQuiet
<1> QED BY <1>1, <1>2, <1>3, <1>5, CallerMoves

LEMMA SettleKeeps ==
  ASSUME TreeInv, Settle
  PROVE  TreeInv'
<1>1. /\ caller.at = "settle" /\ (Strike \/ NoStrike)
      /\ UNCHANGED <<platform, treeVars, owner, spawn, client, late, spawner, ladder, deferred, waiter>>
  BY DEF Settle, callerFrame, NoLadder
<1>2. caller.outcome = "none" /\ caller \in CallerRecord BY <1>1, SpawnAndCaller DEF Claiming
<1>3. CASE spawn.acked /\ caller' = [caller EXCEPT !.at = "monitor"]
  <2>1. caller' \in CallerRecord /\ caller'.at = "monitor" /\ caller'.outcome = "none"
    BY <1>2, <1>3 DEF CallerRecord
  <2> QED BY <1>1, <1>3, <2>1, CallerEnds
<1>4. CASE caller' = [Ends("plain") EXCEPT !.error = TRUE] BY <1>1, <1>4, EndsIs, CallerEnds
<1>5. CASE caller' = Ends(IF SpawnQuiet THEN "error" ELSE "debt")
  BY <1>1, <1>5, EndsIs, CallerEnds
<1> QED BY <1>3, <1>4, <1>5 DEF Settle

LEMMA StartFailsKeeps ==
  ASSUME TreeInv, StartFails
  PROVE  TreeInv'
<1>1. /\ caller.at = "wait" /\ NoStrike
      /\ UNCHANGED <<platform, treeVars, owner, spawn, client, late, spawner, ladder, deferred, waiter>>
  BY DEF StartFails, callerFrame, NoLadder, ownerVars, NoStrike
<1>2. caller' = Ends(IF SpawnQuiet THEN "error" ELSE "debt") BY DEF StartFails
<1> QED BY <1>1, <1>2, EndsIs, CallerEnds

LEMMA GiveUpKeeps ==
  ASSUME TreeInv, GiveUp
  PROVE  TreeInv'
<1>1. /\ caller.at = "giveup" /\ NoStrike
      /\ UNCHANGED <<platform, treeVars, owner, client, late, spawner, ladder, deferred, waiter>>
  BY DEF GiveUp, callerFrame, NoLadder, ownerVars, NoStrike
<1>2. caller.outcome = "none" /\ caller \in CallerRecord /\ spawn \in SpawnRecord
  BY <1>1, SpawnAndCaller DEF Claiming
<1>3. CASE /\ client = "bytes" /\ spawn' = spawn
           /\ caller' = Ends(IF ~caller.error THEN "debt"
                             ELSE IF SpawnQuiet THEN "error"
                             ELSE IF spawn.error THEN "debt" ELSE "plain")
  <2>1. \/ caller' = Ends("error") /\ SpawnQuiet
        \/ caller' = Ends("debt")
        \/ caller' = Ends("plain")
    BY <1>3
  <2> QED BY <1>1, <1>3, <2>1, EndsIs, CallerEnds
<1>4. CASE spawn' = Abandoned(spawn) /\ caller' = [caller EXCEPT !.at = "wait"]
  <2>1. /\ spawn' \in SpawnRecord /\ spawn'.decided /\ spawn'.ready = spawn.ready
        /\ spawn'.error = spawn.error /\ spawn'.finished = spawn.finished
        /\ spawn'.complete = spawn.complete /\ spawn'.acked = spawn.acked
    BY <1>2, <1>4 DEF Abandoned, SpawnRecord
  <2>2. caller' \in CallerRecord /\ caller'.at = "wait" /\ caller'.outcome = "none"
    BY <1>2, <1>4 DEF CallerRecord
  <2>3. Launching' BY <1>1, <2>1, <2>2, SpawnLedgerKept
  <2>4. Claiming' BY <1>1, <2>2 DEF Claiming
  <2>5. spawn'.finished /\ spawn'.complete => TreeQuiet
    BY <2>1 DEF CompleteMeansQuiet, SpawnQuiet
  <2> QED BY <1>1, <2>1, <2>2, <2>3, <2>4, <2>5, CallerMoves
<1> QED BY <1>3, <1>4 DEF GiveUp

LEMMA AcknowledgeKeeps ==
  ASSUME TreeInv, Acknowledge
  PROVE  TreeInv'
<1>1. /\ caller.at = "acknowledge" /\ (Strike \/ NoStrike)
      /\ UNCHANGED <<platform, treeVars, owner, client, late, spawner, deferred, waiter>>
  BY DEF Acknowledge, callerFrame
<1>2. /\ caller.outcome = "none" /\ caller \in CallerRecord /\ spawn \in SpawnRecord
      /\ spawn.ready /\ ~spawn.error
  BY <1>1, SpawnAndCaller DEF Claiming
<1>3. spawner = "decide" /\ ~spawn.decided /\ leader # "none" BY <1>1, <1>2, Claimable
<1>4. \/ /\ spawn' = [spawn EXCEPT !.acked = TRUE, !.decided = TRUE]
         /\ caller' = [caller EXCEPT !.at = "held"] /\ ladder' = ladder
      \/ /\ spawn' = [spawn EXCEPT !.acked = TRUE, !.decided = TRUE]
         /\ caller' = [caller EXCEPT !.at = "clean", !.error = TRUE]
         /\ ladder' = [ladder EXCEPT !["caller"] = Fresh]
      \/ /\ spawn' = Abandoned(spawn) /\ ladder' = ladder
         /\ caller' = [caller EXCEPT !.at = "giveup", !.error = TRUE]
  BY DEF Acknowledge, NoLadder
<1>5. /\ caller' \in CallerRecord /\ caller'.outcome = "none"
      /\ caller'.at \in {"held", "clean", "giveup"}
      /\ \/ ladder' = ladder
         \/ caller'.at = "clean" /\ ladder' = [ladder EXCEPT !["caller"] = Fresh]
  BY <1>2, <1>4 DEF CallerRecord
<1>6. /\ spawn' \in SpawnRecord /\ spawn'.decided /\ spawn'.ready = spawn.ready
      /\ spawn'.error = spawn.error /\ spawn'.finished = spawn.finished
      /\ spawn'.complete = spawn.complete
      /\ caller'.at # "giveup" => spawn'.acked
  <2>1. Abandoned(spawn) = [spawn EXCEPT !.decided = TRUE, !.abandoned = spawn.abandoned \/ ~spawn.acked]
    BY <1>2 DEF Abandoned, SpawnRecord
  <2>2. (spawn.abandoned \/ ~spawn.acked) \in BOOLEAN OBVIOUS
  <2>3. CASE spawn' = Abandoned(spawn) /\ caller' = [caller EXCEPT !.at = "giveup", !.error = TRUE]
    BY <1>2, <2>1, <2>2, <2>3 DEF SpawnRecord, CallerRecord
  <2>4. CASE spawn' = [spawn EXCEPT !.acked = TRUE, !.decided = TRUE]
    BY <1>2, <2>4 DEF SpawnRecord
  <2> QED BY <1>4, <2>3, <2>4
<1>7. Launching'
  <2>1. /\ Unstarted' <=> Unstarted
        /\ leader' # "none"
    BY <1>1, <1>3 DEF Unstarted, treeVars
  <2> QED BY <1>1, <1>2, <1>3, <1>5, <1>6, <2>1 DEF Launching
<1>8. Claiming' BY <1>3, <1>5, <1>6 DEF Claiming
<1>9. spawn'.finished /\ spawn'.complete => TreeQuiet BY <1>6 DEF CompleteMeansQuiet, SpawnQuiet
<1> QED BY <1>1, <1>5, <1>6, <1>7, <1>8, <1>9, CallerMoves

LEMMA BeginCleanupKeeps ==
  ASSUME TreeInv, BeginCleanup
  PROVE  TreeInv'
<1>1. /\ caller.at \in {"monitor", "held"} /\ (Strike \/ NoStrike)
      /\ UNCHANGED <<platform, treeVars, owner, spawn, client, late, spawner, deferred, waiter>>
      /\ ladder' = [ladder EXCEPT !["caller"] = Fresh]
  BY DEF BeginCleanup, callerFrame
<1>2. caller.outcome = "none" /\ caller \in CallerRecord /\ spawn \in SpawnRecord /\ spawn.acked
  BY <1>1, SpawnAndCaller DEF Claiming
<1>3. caller' \in CallerRecord /\ caller'.at = "clean" /\ caller'.outcome = "none"
  BY <1>2 DEF BeginCleanup, CallerRecord
<1>4. spawner \notin {"none", "boot"} BY <1>2 DEF Launching
<1>5. Launching'
  <2>1. leader' = leader BY <1>1 DEF treeVars
  <2> QED BY <1>1, <1>3, <1>4, <2>1 DEF Launching
<1>6. Claiming' BY <1>1, <1>2, <1>3 DEF Claiming
<1>7. spawn'.finished /\ spawn'.complete => TreeQuiet BY <1>1 DEF CompleteMeansQuiet, SpawnQuiet
<1>8. spawn' \in SpawnRecord BY <1>1, <1>2
<1> QED BY <1>1, <1>3, <1>5, <1>6, <1>7, <1>8, CallerMoves

\* What _launch_worker makes of the deferred cleanup
DeferredRecord(bound) ==
  [made: BOOLEAN, failed: BOOLEAN, fresh: bound, claimed: Threads \cup {Nobody},
   finished: BOOLEAN, complete: BOOLEAN, tree: BOOLEAN, reaped: BOOLEAN,
   conf: BOOLEAN, error: BOOLEAN]

LEMMA LaunchCleanerIs ==
  ASSUME OwnerTypeOK, NEW d \in DeferredRecord(Nat), LaunchCleaner(d)
  PROVE  /\ deferred' \in DeferredRecord(Nat)
         /\ deferred'.made = d.made /\ deferred'.claimed = d.claimed
         /\ deferred'.finished = d.finished /\ deferred'.complete = d.complete
         /\ deferred'.tree = d.tree /\ deferred'.reaped = d.reaped /\ deferred'.conf = d.conf
         /\ d.failed => deferred'.failed
         /\ Strike \/ NoStrike
         /\ \E n \in 0..2 : /\ deferred'.fresh = d.fresh + n
                            /\ n > 0 \/ deferred'.failed
                            /\ n > 1 => strikes' = strikes + 1
<1>1. d.fresh \in Nat /\ d.failed \in BOOLEAN /\ d.error \in BOOLEAN BY DEF DeferredRecord
<1>2. \E n \in 0..2, f \in BOOLEAN, b \in BOOLEAN :
        /\ deferred' = [d EXCEPT !.fresh = d.fresh + n, !.failed = f, !.error = b]
        /\ Strike \/ NoStrike
        /\ n > 1 => Strike
        /\ n > 0 \/ f
        /\ d.failed => f
  <2>1. CASE NoStrike /\ deferred' = [d EXCEPT !.fresh = @ + 1]
    <3>1. deferred' = [d EXCEPT !.fresh = d.fresh + 1, !.failed = d.failed, !.error = d.error]
      BY <2>1 DEF DeferredRecord
    <3>2. 1 \in 0..2 /\ ~(1 > 1) /\ 1 > 0 OBVIOUS
    <3> QED BY <1>1, <2>1, <3>1, <3>2
  <2>2. CASE Strike /\ \E n \in 1..2 : deferred' = [d EXCEPT !.fresh = @ + n, !.error = TRUE]
    <3>1. PICK n \in 1..2 : deferred' = [d EXCEPT !.fresh = @ + n, !.error = TRUE] BY <2>2
    <3>2. deferred' = [d EXCEPT !.fresh = d.fresh + n, !.failed = d.failed, !.error = TRUE]
      BY <3>1 DEF DeferredRecord
    <3>3. n \in 0..2 /\ n > 0 OBVIOUS
    <3> QED BY <1>1, <2>2, <3>2, <3>3
  <2>3. CASE Strike /\ \E n \in 0..1 :
               deferred' = [d EXCEPT !.fresh = @ + n, !.failed = TRUE, !.error = TRUE]
    <3>1. PICK n \in 0..1 : deferred' = [d EXCEPT !.fresh = @ + n, !.failed = TRUE, !.error = TRUE]
      BY <2>3
    <3>2. n \in 0..2 OBVIOUS
    <3> QED BY <2>3, <3>1, <3>2
  <2> QED BY <2>1, <2>2, <2>3 DEF LaunchCleaner
<1>3. PICK n \in 0..2, f \in BOOLEAN, b \in BOOLEAN :
        /\ deferred' = [d EXCEPT !.fresh = d.fresh + n, !.failed = f, !.error = b]
        /\ Strike \/ NoStrike
        /\ n > 1 => Strike
        /\ n > 0 \/ f
        /\ d.failed => f
  BY <1>2
<1> DEFINE m == d.fresh + n
<1>4. m \in Nat BY <1>1
<1>5. deferred' = [d EXCEPT !.fresh = m, !.failed = f, !.error = b] BY <1>3
<1>6. m = d.fresh + n OBVIOUS
<1> HIDE DEF m
<1>7. /\ deferred' \in DeferredRecord(Nat) /\ deferred'.fresh = m /\ (deferred'.failed <=> f)
      /\ deferred'.made = d.made /\ deferred'.claimed = d.claimed
      /\ deferred'.finished = d.finished /\ deferred'.complete = d.complete
      /\ deferred'.tree = d.tree /\ deferred'.reaped = d.reaped /\ deferred'.conf = d.conf
  BY <1>4, <1>5 DEF DeferredRecord
<1> QED BY <1>3, <1>6, <1>7 DEF Strike

\* The deferred cleanup and the waiting threads, as records
WaiterRecord ==
  [at: {"idle", "claimed", "clean", "released", "handed", "poll", "others", "true",
        "false", "raised"},
   patience: {"none", "zero", "finite"}]

LEMMA DeferredAndWaiters ==
  ASSUME SupervisedTypeOK
  PROVE  /\ deferred \in DeferredRecord(Nat) /\ deferred.fresh \in Nat
         /\ waiter \in [Waiters -> WaiterRecord]
         /\ strikes \in Nat
<1>1. deferred.fresh \in Nat BY DEF SupervisedTypeOK
<1>2. deferred \in DeferredRecord(Nat) BY <1>1 DEF SupervisedTypeOK, DeferredRecord
<1> QED BY <1>1, <1>2 DEF SupervisedTypeOK, WaiterRecord, OwnerTypeOK

LEMMA NobodySpent ==
  ASSUME \A w \in Waiters : waiter[w].at = "idle"
  PROVE  Spent = {} /\ Cardinality(Spent) = 0
<1>1. Spent = {} BY DEF Spent
<1> QED BY <1>1, FS_EmptySet

LEMMA HandoverIs ==
  ASSUME TreeInv, deferred = Undone
  PROVE  /\ Handover \in DeferredRecord(Nat) /\ Handover.made /\ ~Handover.failed
         /\ Handover.fresh = 0 /\ Handover.claimed = Nobody
         /\ ~Handover.finished /\ ~Handover.complete
         /\ Handover.reaped => Reaped
         /\ Handover.tree \/ Handover.conf => Calm
<1>1. ladder["caller"] \in Positions /\ owner.confirmed \in BOOLEAN /\ TreeProvenEmpty \in BOOLEAN
  BY DEF SupervisedTypeOK, OwnerTypeOK, Threads, TreeProvenEmpty, ClosedTreeBoundary,
     CloseTerminatesTree
<1>2. (ladder["caller"].reaped => Reaped) /\ (owner.confirmed => Calm)
  BY ThreadsDiffer DEF ProofsHold, ConfirmationHolds
<1>3. TreeProvenEmpty => Calm
  BY DEF OwnerKnows, ConfirmationHolds, TreeProvenEmpty, ClosedTreeBoundary,
     CloseTerminatesTree
<1>4. Handover = [Undone EXCEPT !.made = TRUE, !.reaped = ladder["caller"].reaped,
                                !.tree = TreeProvenEmpty, !.conf = owner.confirmed]
  BY DEF Handover
<1>5. Nobody \in Threads \cup {Nobody} OBVIOUS
<1> HIDE DEF TreeProvenEmpty
<1> QED BY <1>1, <1>2, <1>3, <1>4, <1>5 DEF Undone, DeferredRecord, Positions

\* The caller's own cleanup ends.
LEMMA CallerFinishesKeeps ==
  ASSUME TreeInv, CallerFinishes
  PROVE  TreeInv'
<1>1. /\ caller.at = "clean"
      /\ UNCHANGED <<platform, treeVars, owner, client, late, spawn, spawner, waiter>>
      /\ ladder' = [ladder EXCEPT !["caller"] = Resting]
  BY DEF CallerFinishes
<1>2. /\ spawn.acked /\ ~deferred.made /\ deferred = Undone
      /\ \A w \in Waiters : waiter[w].at = "idle"
  BY <1>1 DEF Claiming, Deferral
<1>3. spawner \in {"decide", "done"} /\ leader # "none" BY <1>2 DEF Launching
<1>4. \/ /\ CallerComplete /\ deferred' = deferred /\ NoStrike
         /\ caller' \in {Ends("error"), Ends("quiet")}
      \/ LaunchCleaner(Handover) /\ caller' = Ends("debt")
  BY DEF CallerFinishes
<1>5. Strike \/ NoStrike BY <1>4 DEF LaunchCleaner
<1>6. /\ OwnerTypeOK' /\ OwnerKnows' /\ ConfirmationHolds' /\ StrikesKept
      /\ Calm' = Calm /\ Reaped' = Reaped /\ leader' = leader
      /\ (TreeQuiet' <=> TreeQuiet)
  BY <1>1, <1>5, CalmStep
<1>7. caller' \in CallerRecord /\ caller'.at = "ended" /\ caller'.outcome # "none"
  BY <1>4, EndsIs
<1>8. CallerComplete => TreeQuiet
  <2>1. ladder["caller"].conf => Calm BY ThreadsDiffer DEF ProofsHold
  <2>2. CallerComplete => Calm
    BY <2>1 DEF CallerComplete, TreeProvenEmpty, ClosedTreeBoundary, CloseTerminatesTree,
       OwnerKnows, ConfirmationHolds
  <2>3. CallerComplete => Reaped BY ThreadsDiffer DEF CallerComplete, ProofsHold
  <2> QED BY <2>2, <2>3, QuietIsReapedAndCalm
<1>9. ASSUME LaunchCleaner(Handover)
      PROVE  /\ deferred' \in DeferredRecord(Nat) /\ deferred'.made
             /\ deferred'.claimed = Nobody /\ ~deferred'.finished /\ ~deferred'.complete
             /\ deferred'.reaped => Reaped
             /\ deferred'.tree \/ deferred'.conf => Calm
             /\ \E n \in 0..2 : deferred'.fresh = n /\ (n > 0 \/ deferred'.failed)
  <2>1. OwnerTypeOK BY DEF SupervisedTypeOK
  <2>2. /\ Handover \in DeferredRecord(Nat) /\ Handover.made
        /\ Handover.fresh = 0 /\ Handover.claimed = Nobody
        /\ ~Handover.finished /\ ~Handover.complete
        /\ Handover.reaped => Reaped
        /\ Handover.tree \/ Handover.conf => Calm
    BY <1>2, HandoverIs
  <2> DEFINE h == Handover
  <2>3. LaunchCleaner(h) BY <1>9
  <2> HIDE DEF h, Handover
  <2>4. /\ deferred' \in DeferredRecord(Nat)
        /\ deferred'.made = h.made /\ deferred'.claimed = h.claimed
        /\ deferred'.finished = h.finished /\ deferred'.complete = h.complete
        /\ deferred'.tree = h.tree /\ deferred'.reaped = h.reaped /\ deferred'.conf = h.conf
        /\ \E n \in 0..2 : deferred'.fresh = h.fresh + n /\ (n > 0 \/ deferred'.failed)
    BY <2>1, <2>2, <2>3, LaunchCleanerIs DEF h
  <2> QED BY <2>2, <2>4 DEF h
<1>10. deferred' \in DeferredRecord(Nat) /\ deferred'.fresh <= 2
  <2>1. deferred \in DeferredRecord(Nat) /\ deferred.fresh = 0
    BY <1>2, DeferredAndWaiters DEF Undone
  <2>2. CASE deferred' = deferred BY <2>1, <2>2
  <2>3. CASE LaunchCleaner(Handover)
    <3>1. PICK n \in 0..2 : deferred'.fresh = n BY <1>9, <2>3
    <3>2. deferred' \in DeferredRecord(Nat) BY <1>9, <2>3
    <3> QED BY <3>1, <3>2
  <2> QED BY <1>4, <2>2, <2>3
<1>11. Launches'
  <2>1. Spent' = {} /\ Cardinality(Spent') = 0 BY <1>1, <1>2, NobodySpent DEF Spent
  <2>2. strikes' \in Nat /\ deferred'.fresh \in Nat
    BY <1>6, <1>10, TreeOwnerAssumption DEF StrikesKept, DeferredRecord
  <2>3. \A w \in Waiters : waiter'[w].at # "clean" BY <1>1, <1>2
  <2> HIDE DEF Spent
  <2> QED BY <1>10, <2>1, <2>2, <2>3 DEF Launches
<1>12. deferred'.fresh \in 0..LaunchBound
  <2>1. {} \in SUBSET Waiters /\ Cardinality({}) = 0 BY FS_EmptySet
  <2>2. deferred'.fresh \in Nat /\ strikes' \in 0..MaxStrikes /\ strikes' \in Nat
    BY <1>6, <1>10, TreeOwnerAssumption DEF DeferredRecord, StrikesKept
  <2>3. deferred'.fresh <= 2 * (1 + strikes' + Cardinality({})) BY <1>10, <2>1, <2>2
  <2> QED BY <2>1, <2>2, <2>3, FreshBound
<1>13. SupervisedTypeOK'
  <2>1. ladder' \in [Threads -> Positions]
    <3>1. Resting \in Positions BY DEF Resting, Positions
    <3> QED BY <1>1, <3>1 DEF SupervisedTypeOK
  <2>2. LaunchBound' = LaunchBound BY DEF LaunchBound
  <2>3. deferred' \in DeferredRecord(0..LaunchBound) BY <1>10, <1>12 DEF DeferredRecord
  <2> QED
    BY <1>1, <1>6, <1>7, <2>1, <2>2, <2>3 DEF SupervisedTypeOK, CallerRecord, DeferredRecord
<1>14. Launching' BY <1>1, <1>3, <1>6, <1>7 DEF Launching
<1>15. Claiming' BY <1>1, <1>3, <1>7 DEF Claiming
<1>16. Deferral'
  <2>1. CASE deferred' = deferred BY <1>1, <1>2, <2>1 DEF Deferral, Attended
  <2>2. CASE LaunchCleaner(Handover)
    <3>1. ~deferred'.failed => Attended'
      <4>1. PICK n \in 0..2 : deferred'.fresh = n /\ (n > 0 \/ deferred'.failed) BY <1>9, <2>2
      <4> QED BY <4>1 DEF Attended
    <3>2. \A w \in Waiters : waiter'[w].at = "idle" BY <1>1, <1>2
    <3> HIDE DEF Attended
    <3> QED BY <1>1, <1>2, <1>7, <1>9, <2>2, <3>1, <3>2 DEF Deferral
  <2> QED BY <1>4, <2>1, <2>2
<1>17. WhoCleans'
  <2>1. \A e \in Threads : ladder'[e] = IF e = "caller" THEN Resting ELSE ladder[e]
    BY <1>1 DEF SupervisedTypeOK
  <2>2. Resting.at = "rest" BY DEF Resting
  <2>3. At("cleaner", "rest")
    <3>1. deferred.claimed # "cleaner" BY <1>2 DEF Undone, Nobody
    <3> QED BY <3>1 DEF WhoCleans
  <2> QED BY <1>1, <2>1, <2>2, <2>3, ThreadsDiffer DEF WhoCleans, At
<1>18. ProofsHold'
  <2>1. \A e \in Threads : ladder'[e] = IF e = "caller" THEN Resting ELSE ladder[e]
    BY <1>1 DEF SupervisedTypeOK
  <2>2. ~Resting.reaped /\ ~Resting.tree /\ ~Resting.conf BY DEF Resting
  <2> QED BY <1>4, <1>6, <1>9, <2>1, <2>2 DEF ProofsHold
<1>19. CompleteMeansQuiet'
  <2>1. ~deferred'.finished /\ ~deferred'.complete BY <1>2, <1>4, <1>9 DEF Undone
  <2>2. caller'.outcome \in {"quiet", "error"} => TreeQuiet BY <1>4, <1>8, EndsIs
  <2>3. spawn.finished /\ spawn.complete => TreeQuiet BY DEF CompleteMeansQuiet, SpawnQuiet
  <2> QED BY <1>1, <1>6, <2>1, <2>2, <2>3 DEF CompleteMeansQuiet, SpawnQuiet
<1> QED BY <1>6, <1>11, <1>13, <1>14, <1>15, <1>16, <1>17, <1>18, <1>19

-----------------------------------------------------------------------------
\* The deferred cleanup.  What a step of its worker or of a waiting thread has
\* to show: that somebody attends to it, that who cleans has the authority,
\* what there is to launch, and that its notes are so.
LEMMA DeferralMoves ==
  ASSUME TreeInv, deferred.made, UNCHANGED <<platform, treeVars, owner>>, Strike \/ NoStrike,
         UNCHANGED <<client, late, spawn, spawner, caller>>,
         deferred' \in DeferredRecord(Nat), deferred'.made,
         waiter' \in [Waiters -> WaiterRecord],
         NEW e \in Waiters \cup {"cleaner"}, NEW l \in Positions,
         ladder' = [ladder EXCEPT ![e] = l],
         l.reaped => Reaped, l.tree \/ l.conf => Calm,
         deferred'.reaped => Reaped, deferred'.tree \/ deferred'.conf => Calm,
         deferred'.finished \/ deferred'.complete => TreeQuiet,
         Attended',
         \A w \in Waiters : waiter'[w].at \in {"claimed", "clean"} => deferred'.claimed = w,
         WhoCleans', Launches'
  PROVE  TreeInv'
<1>1. /\ OwnerTypeOK' /\ OwnerKnows' /\ ConfirmationHolds' /\ StrikesKept
      /\ Calm' = Calm /\ Reaped' = Reaped /\ leader' = leader
      /\ (TreeQuiet' <=> TreeQuiet)
  BY CalmStep
<1>2. spawn.acked /\ caller.at = "ended" /\ spawner \notin {"none", "boot"} /\ leader # "none"
  BY DEF Deferral, Launching
<1>3. deferred' \in DeferredRecord(0..LaunchBound)
  <2>1. Spent' \in SUBSET Waiters BY DEF Spent
  <2>2. deferred'.fresh \in Nat /\ strikes' \in 0..MaxStrikes
    BY <1>1 DEF DeferredRecord, StrikesKept
  <2>3. deferred'.fresh <= 2 * (1 + strikes' + Cardinality(Spent')) BY DEF Launches
  <2> HIDE DEF Spent
  <2>4. deferred'.fresh \in 0..LaunchBound BY <2>1, <2>2, <2>3, FreshBound
  <2> QED BY <2>4 DEF DeferredRecord
<1>4. ladder' \in [Threads -> Positions] /\ \A f \in Threads : ladder'[f] = IF f = e THEN l ELSE ladder[f]
  BY DEF SupervisedTypeOK, Threads
<1>5. SupervisedTypeOK'
  <2>1. LaunchBound' = LaunchBound BY DEF LaunchBound
  <2> QED BY <1>1, <1>3, <1>4, <2>1 DEF SupervisedTypeOK, DeferredRecord, WaiterRecord
<1>6. Launching' BY <1>1, <1>2 DEF Launching
<1>7. Claiming' BY <1>2 DEF Claiming
<1>8. Deferral' BY <1>2 DEF Deferral
<1>9. ProofsHold' BY <1>1, <1>4 DEF ProofsHold
<1>10. CompleteMeansQuiet' BY <1>1 DEF CompleteMeansQuiet, SpawnQuiet
<1> QED BY <1>1, <1>5, <1>6, <1>7, <1>8, <1>9, <1>10

\* What an attempt starts from, and what is recorded of it
LEMMA AttemptIs ==
  ASSUME TreeInv
  PROVE  /\ Attempt \in Positions /\ Attempt.at = "terminate"
         /\ Attempt.reaped => Reaped
         /\ Attempt.tree \/ Attempt.conf => Calm
BY DEF SupervisedTypeOK, ProofsHold, Attempt, Positions

LEMMA RecordedIs ==
  ASSUME TreeInv, NEW e \in Threads
  PROVE  /\ Recorded(e) \in DeferredRecord(Nat)
         /\ Recorded(e).made = deferred.made /\ Recorded(e).failed = deferred.failed
         /\ Recorded(e).fresh = deferred.fresh /\ Recorded(e).claimed = deferred.claimed
         /\ Recorded(e).reaped => Reaped
         /\ Recorded(e).tree \/ Recorded(e).conf => Calm
         /\ Recorded(e).finished \/ Recorded(e).complete => TreeQuiet
         /\ deferred.finished => Recorded(e).finished
<1> DEFINE l == ladder[e]
           complete == owner.closed /\ l.reaped /\ l.tree /\ l.pipes
           finished == deferred.finished \/ complete
<1>1. /\ deferred \in DeferredRecord(Nat)
      /\ l \in Positions /\ owner.closed \in BOOLEAN
      /\ l.reaped => Reaped
      /\ l.tree \/ l.conf => Calm
      /\ deferred.finished \in BOOLEAN
  BY DeferredAndWaiters DEF SupervisedTypeOK, OwnerTypeOK, ProofsHold
<1>2. /\ complete \in BOOLEAN /\ finished \in BOOLEAN
      /\ complete => Reaped /\ Calm
      /\ deferred.finished => finished
  BY <1>1 DEF Positions
<1>3. finished => TreeQuiet BY <1>2, QuietIsReapedAndCalm DEF CompleteMeansQuiet
<1>4. complete => TreeQuiet BY <1>2, QuietIsReapedAndCalm
<1>5. Recorded(e) = [deferred EXCEPT !.complete = complete, !.tree = l.tree,
                       !.reaped = l.reaped, !.conf = l.conf, !.finished = finished]
  BY DEF Recorded
<1> HIDE DEF l, complete, finished
<1>6. l.reaped \in BOOLEAN /\ l.tree \in BOOLEAN /\ l.conf \in BOOLEAN BY <1>1 DEF Positions
<1> DEFINE r == Recorded(e)
<1>7. /\ r \in DeferredRecord(Nat)
      /\ r.made = deferred.made /\ r.failed = deferred.failed
      /\ r.fresh = deferred.fresh /\ r.claimed = deferred.claimed
      /\ r.reaped = l.reaped /\ r.tree = l.tree /\ r.conf = l.conf
      /\ r.finished = finished /\ r.complete = complete
  BY <1>1, <1>2, <1>5, <1>6 DEF DeferredRecord
<1> HIDE DEF r
<1>8. /\ r.reaped => Reaped
      /\ r.tree \/ r.conf => Calm
      /\ r.finished \/ r.complete => TreeQuiet
      /\ deferred.finished => r.finished
  BY <1>1, <1>2, <1>3, <1>4, <1>7
<1> QED BY <1>7, <1>8 DEF r

\* With somebody who has the authority, and of whom the waiters are left alone
LEMMA LaunchesFewer ==
  ASSUME SupervisedTypeOK, Launches, StrikesKept, UNCHANGED waiter,
         deferred'.fresh \in Nat, deferred'.fresh <= deferred.fresh
  PROVE  Launches'
<1>1. Spent' = Spent /\ Spent \in SUBSET Waiters BY DEF Spent
<1>2. Cardinality(Spent) \in Nat BY <1>1, SubsetCardinality
<1>3. strikes \in Nat /\ strikes' \in Nat /\ deferred.fresh \in Nat
  BY TreeOwnerAssumption DEF SupervisedTypeOK, OwnerTypeOK, StrikesKept
<1> HIDE DEF Spent
<1> QED BY <1>1, <1>2, <1>3 DEF Launches, StrikesKept

LEMMA CleanerStartsKeeps ==
  ASSUME TreeInv, CleanerStarts
  PROVE  TreeInv'
<1>1. /\ UNCHANGED <<platform, treeVars, owner, client, late, spawn, spawner, caller, waiter>>
      /\ NoStrike /\ deferred.fresh > 0
  BY DEF CleanerStarts, ownerVars, deferredFrame, NoStrike
<1>2. /\ deferred \in DeferredRecord(Nat) /\ deferred.fresh \in Nat
      /\ waiter \in [Waiters -> WaiterRecord]
  BY DeferredAndWaiters
<1>3. deferred.made BY <1>1 DEF Deferral, Undone
<1> DEFINE f == deferred.fresh - 1
<1>4. f \in Nat /\ f <= deferred.fresh BY <1>1, <1>2
<1>5. \/ /\ deferred.claimed = Nobody
         /\ deferred' = [deferred EXCEPT !.fresh = f, !.claimed = "cleaner"]
         /\ ladder' = [ladder EXCEPT !["cleaner"] = Attempt]
      \/ /\ deferred.claimed # Nobody /\ deferred' = [deferred EXCEPT !.fresh = f]
         /\ ladder' = ladder
  BY DEF CleanerStarts, ClaimedBy, NoLadder
<1> HIDE DEF f
<1>6. "cleaner" \in Threads \cup {Nobody} /\ "cleaner" # Nobody BY DEF Threads, Nobody
<1>7. /\ deferred' \in DeferredRecord(Nat) /\ deferred'.made
      /\ deferred'.fresh = f /\ deferred'.claimed # Nobody
      /\ deferred'.claimed = deferred.claimed \/ (deferred.claimed = Nobody /\ deferred'.claimed = "cleaner")
      /\ deferred'.reaped = deferred.reaped /\ deferred'.tree = deferred.tree
      /\ deferred'.conf = deferred.conf /\ deferred'.finished = deferred.finished
      /\ deferred'.complete = deferred.complete
  <2>1. CASE deferred' = [deferred EXCEPT !.fresh = f, !.claimed = "cleaner"] /\ deferred.claimed = Nobody
    BY <1>2, <1>3, <1>4, <1>6, <2>1 DEF DeferredRecord
  <2>2. CASE deferred' = [deferred EXCEPT !.fresh = f] /\ deferred.claimed # Nobody
    BY <1>2, <1>3, <1>4, <2>2 DEF DeferredRecord
  <2> QED BY <1>5, <2>1, <2>2
<1>8. PICK l \in Positions :
        /\ ladder' = [ladder EXCEPT !["cleaner"] = l]
        /\ l.reaped => Reaped
        /\ l.tree \/ l.conf => Calm
        /\ l.at # "rest" => deferred'.claimed = "cleaner"
  <2>1. CASE deferred.claimed = Nobody /\ ladder' = [ladder EXCEPT !["cleaner"] = Attempt]
    <3>1. deferred'.claimed = "cleaner" BY <1>7, <2>1
    <3> QED BY <2>1, <3>1, AttemptIs
  <2>2. CASE deferred.claimed # Nobody /\ ladder' = ladder
    <3>1. /\ ladder["cleaner"] \in Positions /\ ladder' = [ladder EXCEPT !["cleaner"] = ladder["cleaner"]]
          /\ ladder["cleaner"].reaped => Reaped
          /\ ladder["cleaner"].tree \/ ladder["cleaner"].conf => Calm
      BY <2>2, ThreadsDiffer DEF SupervisedTypeOK, ProofsHold
    <3>2. ladder["cleaner"].at # "rest" => deferred'.claimed = "cleaner"
      BY <1>7, <2>2 DEF WhoCleans, At
    <3> QED BY <3>1, <3>2
  <2> QED BY <1>5, <2>1, <2>2
<1>9. Attended' BY <1>7 DEF Attended
<1>10. \A w \in Waiters : waiter'[w].at \in {"claimed", "clean"} => deferred'.claimed = w
  <2>1. Nobody \notin Waiters BY ThreadsDiffer
  <2> QED BY <1>1, <1>7, <2>1 DEF Deferral
<1>11. WhoCleans'
  <2>1. \A g \in Threads : ladder'[g] = IF g = "cleaner" THEN l ELSE ladder[g]
    BY <1>8 DEF SupervisedTypeOK
  <2> QED BY <1>1, <1>8, <2>1, ThreadsDiffer DEF WhoCleans, At
<1>12. Launches'
  <2>1. StrikesKept BY <1>1, CalmStep
  <2> QED BY <1>1, <1>4, <1>7, <2>1, LaunchesFewer
<1>13. /\ deferred'.reaped => Reaped
       /\ deferred'.tree \/ deferred'.conf => Calm
       /\ deferred'.finished \/ deferred'.complete => TreeQuiet
  BY <1>7 DEF ProofsHold, CompleteMeansQuiet
<1>14. waiter' \in [Waiters -> WaiterRecord] /\ "cleaner" \in Waiters \cup {"cleaner"}
  BY <1>1, <1>2
<1> QED BY <1>1, <1>3, <1>7, <1>8, <1>9, <1>10, <1>11, <1>12, <1>13, <1>14, DeferralMoves

LEMMA CleanerFinishesKeeps ==
  ASSUME TreeInv, CleanerFinishes
  PROVE  TreeInv'
<1>1. /\ UNCHANGED <<platform, treeVars, owner, client, late, spawn, spawner, caller, waiter>>
      /\ NoStrike /\ At("cleaner", "decide") /\ deferred' = Recorded("cleaner")
  BY DEF CleanerFinishes, ownerVars, deferredFrame, NoStrike
<1>2. deferred.claimed = "cleaner" /\ "cleaner" # Nobody BY <1>1 DEF WhoCleans, At, Nobody
<1>3. deferred.made BY <1>2 DEF Deferral, Undone
<1>4. "cleaner" \in Threads BY DEF Threads
<1>5. /\ deferred' \in DeferredRecord(Nat) /\ deferred'.made
      /\ deferred'.fresh = deferred.fresh /\ deferred'.claimed = "cleaner"
      /\ deferred'.reaped => Reaped
      /\ deferred'.tree \/ deferred'.conf => Calm
      /\ deferred'.finished \/ deferred'.complete => TreeQuiet
  BY <1>1, <1>2, <1>3, <1>4, RecordedIs
<1>6. PICK l \in Positions :
        /\ ladder' = [ladder EXCEPT !["cleaner"] = l]
        /\ l.reaped => Reaped
        /\ l.tree \/ l.conf => Calm
  <2>1. CASE ladder' = [ladder EXCEPT !["cleaner"] = Resting]
    <3>1. Resting \in Positions /\ ~Resting.reaped /\ ~Resting.tree /\ ~Resting.conf
      BY DEF Resting, Positions
    <3> QED BY <2>1, <3>1
  <2>2. CASE ladder' = [ladder EXCEPT !["cleaner"] = [@ EXCEPT !.at = "terminate", !.pipes = TRUE]]
    <3> DEFINE l == [ladder["cleaner"] EXCEPT !.at = "terminate", !.pipes = TRUE]
    <3>1. ladder' = [ladder EXCEPT !["cleaner"] = l] BY <2>2
    <3>2. /\ ladder["cleaner"] \in Positions
          /\ ladder["cleaner"].reaped => Reaped
          /\ ladder["cleaner"].tree \/ ladder["cleaner"].conf => Calm
      BY <1>4 DEF SupervisedTypeOK, ProofsHold
    <3>3. /\ l \in Positions /\ l.reaped = ladder["cleaner"].reaped
          /\ l.tree = ladder["cleaner"].tree /\ l.conf = ladder["cleaner"].conf
      BY <3>2 DEF Positions
    <3> HIDE DEF l
    <3> QED BY <3>1, <3>2, <3>3
  <2> QED BY <2>1, <2>2 DEF CleanerFinishes
<1>7. Attended' BY <1>2, <1>5 DEF Attended
<1>8. \A w \in Waiters : waiter'[w].at \in {"claimed", "clean"} => deferred'.claimed = w
  BY <1>1, <1>2, <1>5 DEF Deferral
<1>9. WhoCleans'
  <2>1. \A g \in Threads : ladder'[g] = IF g = "cleaner" THEN l ELSE ladder[g]
    BY <1>6 DEF SupervisedTypeOK
  <2> QED BY <1>1, <1>5, <2>1, ThreadsDiffer DEF WhoCleans, At
<1>10. Launches' BY <1>1, <1>5, CalmStep, LaunchesKept
<1>11. waiter' \in [Waiters -> WaiterRecord] /\ "cleaner" \in Waiters \cup {"cleaner"}
  BY <1>1, DeferredAndWaiters
<1> QED BY <1>1, <1>3, <1>5, <1>6, <1>7, <1>8, <1>9, <1>10, <1>11, DeferralMoves

-----------------------------------------------------------------------------
\* The waiting threads.  Spent is counted up and down with the one who moves.
Uses(r) ==
  \/ r.at \in {"handed", "false", "others", "true", "raised"}
  \/ r.at = "clean" /\ r.patience = "none"

LEMMA SpentMoves ==
  ASSUME SupervisedTypeOK, NEW w \in Waiters, NEW r \in WaiterRecord,
         waiter' = [waiter EXCEPT ![w] = r]
  PROVE  /\ waiter' \in [Waiters -> WaiterRecord]
         /\ \A v \in Waiters : waiter'[v] = IF v = w THEN r ELSE waiter[v]
         /\ Cardinality(Spent) \in Nat /\ Cardinality(Spent') \in Nat
         /\ Cardinality(Spent) <= Cardinality(Spent') + 1
         /\ (Uses(waiter[w]) => Uses(r)) => Cardinality(Spent) <= Cardinality(Spent')
         /\ ~Uses(waiter[w]) /\ Uses(r) => Cardinality(Spent') = Cardinality(Spent) + 1
<1>1. /\ waiter' \in [Waiters -> WaiterRecord]
      /\ \A v \in Waiters : waiter'[v] = IF v = w THEN r ELSE waiter[v]
  BY DeferredAndWaiters
<1>2. /\ Spent = {v \in Waiters : Uses(waiter[v])}
      /\ Spent' = {v \in Waiters : Uses(waiter'[v])}
  BY DEF Spent, Uses
<1> HIDE DEF Spent, Uses
<1>3. Spent \in SUBSET Waiters /\ Spent' \in SUBSET Waiters BY <1>2
<1>4. /\ IsFiniteSet(Spent) /\ Cardinality(Spent) \in Nat
      /\ IsFiniteSet(Spent') /\ Cardinality(Spent') \in Nat
  BY <1>3, SubsetCardinality
<1>5. (Uses(waiter[w]) => Uses(r)) => Cardinality(Spent) <= Cardinality(Spent')
  <2>1. (Uses(waiter[w]) => Uses(r)) => Spent \subseteq Spent' BY <1>1, <1>2
  <2> QED BY <1>4, <2>1, FS_Subset
<1>6. ~Uses(waiter[w]) /\ Uses(r) => Cardinality(Spent') = Cardinality(Spent) + 1
  <2>1. ~Uses(waiter[w]) /\ Uses(r) => Spent' = Spent \cup {w} /\ w \notin Spent BY <1>1, <1>2
  <2> QED BY <1>4, <2>1, FS_AddElement
<1>7. Cardinality(Spent) <= Cardinality(Spent') + 1
  <2>1. Spent \subseteq Spent' \cup {w} BY <1>1, <1>2
  <2>2. /\ IsFiniteSet(Spent' \cup {w}) /\ Cardinality(Spent' \cup {w}) \in Nat
        /\ Cardinality(Spent' \cup {w}) <= Cardinality(Spent') + 1
    <3>1. /\ IsFiniteSet(Spent' \cup {w})
          /\ Cardinality(Spent' \cup {w}) = IF w \in Spent' THEN Cardinality(Spent')
                                            ELSE Cardinality(Spent') + 1
      BY <1>4, FS_AddElement
    <3> QED BY <1>4, <3>1
  <2>3. Cardinality(Spent) <= Cardinality(Spent' \cup {w}) BY <2>1, <2>2, FS_Subset
  <2> QED BY <1>4, <2>2, <2>3
<1> QED BY <1>1, <1>4, <1>5, <1>6, <1>7

LEMMA WaiterMoves ==
  ASSUME TreeInv, NEW w \in Waiters, NEW r \in WaiterRecord, NEW l \in Positions,
         deferred.made, UNCHANGED <<platform, treeVars, owner>>, Strike \/ NoStrike,
         UNCHANGED <<client, late, spawn, spawner, caller>>,
         waiter' = [waiter EXCEPT ![w] = r], ladder' = [ladder EXCEPT ![w] = l],
         deferred' \in DeferredRecord(Nat), deferred'.made,
         \/ deferred'.claimed = deferred.claimed
         \/ deferred.claimed \in {Nobody, w} /\ deferred'.claimed \in {Nobody, w},
         r.at \in {"claimed", "clean"} => deferred'.claimed = w,
         l.at # "rest" => r.at = "clean",
         r.at = "clean" => r.patience # "zero",
         l.reaped => Reaped, l.tree \/ l.conf => Calm,
         deferred'.reaped => Reaped, deferred'.tree \/ deferred'.conf => Calm,
         deferred'.finished \/ deferred'.complete => TreeQuiet,
         Attended',
         deferred'.fresh <= 2 * (1 + strikes' + Cardinality(Spent'))
  PROVE  TreeInv'
<1>1. /\ waiter' \in [Waiters -> WaiterRecord]
      /\ \A v \in Waiters : waiter'[v] = IF v = w THEN r ELSE waiter[v]
  BY SpentMoves
<1>2. \A g \in Threads : ladder'[g] = IF g = w THEN l ELSE ladder[g] BY DEF SupervisedTypeOK
<1>3. Nobody \notin Waiters /\ "cleaner" \notin Waiters /\ Nobody # "cleaner"
  BY ThreadsDiffer DEF Nobody
<1>4. \A v \in Waiters : waiter'[v].at \in {"claimed", "clean"} => deferred'.claimed = v
  <2>1. ASSUME NEW v \in Waiters, v # w, waiter'[v].at \in {"claimed", "clean"}
        PROVE  deferred'.claimed = v
    <3>1. deferred.claimed = v BY <1>1, <2>1 DEF Deferral
    <3> QED BY <1>3, <2>1, <3>1
  <2> QED BY <1>1, <2>1
<1>5. WhoCleans'
  <2>1. ~At("cleaner", "rest")' => deferred'.claimed = "cleaner"
    <3>1. ~At("cleaner", "rest")' => ~At("cleaner", "rest") BY <1>2, <1>3, ThreadsDiffer DEF At
    <3>2. ~At("cleaner", "rest") => deferred.claimed = "cleaner" BY DEF WhoCleans
    <3> QED BY <1>3, <3>1, <3>2
  <2>2. \A v \in Waiters : ~At(v, "rest")' => waiter'[v].at = "clean"
    BY <1>1, <1>2, ThreadsDiffer DEF WhoCleans, At
  <2>3. /\ ~At("spawner", "rest")' => spawner' = "clean"
        /\ ~At("caller", "rest")' => caller'.at = "clean"
    BY <1>2, ThreadsDiffer DEF WhoCleans, At
  <2> QED BY <2>1, <2>2, <2>3 DEF WhoCleans
<1>6. Launches' BY <1>1 DEF Launches
<1>7. w \in Waiters \cup {"cleaner"} OBVIOUS
<1> HIDE DEF Attended, WhoCleans, Launches
<1> QED BY <1>1, <1>4, <1>5, <1>6, <1>7, DeferralMoves

\* What a waiter that does not change its own ladder brings to it
LEMMA WaiterPosition ==
  ASSUME TreeInv, NEW w \in Waiters
  PROVE  /\ ladder[w] \in Positions
         /\ ladder = [ladder EXCEPT ![w] = ladder[w]]
         /\ ladder[w].reaped => Reaped
         /\ ladder[w].tree \/ ladder[w].conf => Calm
         /\ ladder[w].at # "rest" => waiter[w].at = "clean"
         /\ Resting \in Positions /\ Resting.at = "rest"
         /\ ~Resting.reaped /\ ~Resting.tree /\ ~Resting.conf
<1>1. w \in Threads BY DEF Threads
<1>2. /\ Resting \in Positions /\ Resting.at = "rest"
      /\ ~Resting.reaped /\ ~Resting.tree /\ ~Resting.conf
  BY DEF Resting, Positions
<1>3. ladder[w] \in Positions /\ ladder = [ladder EXCEPT ![w] = ladder[w]]
  BY <1>1 DEF SupervisedTypeOK
<1>4. (ladder[w].reaped => Reaped) /\ (ladder[w].tree \/ ladder[w].conf => Calm)
  BY <1>1 DEF ProofsHold
<1>5. ladder[w].at # "rest" => waiter[w].at = "clean" BY DEF WhoCleans, At
<1> QED BY <1>2, <1>3, <1>4, <1>5

\* What is noted of the deferred cleanup is so.
LEMMA NotesAreSo ==
  ASSUME TreeInv
  PROVE  /\ deferred \in DeferredRecord(Nat) /\ waiter \in [Waiters -> WaiterRecord]
         /\ deferred.reaped => Reaped
         /\ deferred.tree \/ deferred.conf => Calm
         /\ deferred.finished \/ deferred.complete => TreeQuiet
         /\ strikes \in Nat /\ deferred.fresh \in Nat
         /\ deferred.fresh <= 2 * (1 + strikes + Cardinality(Spent))
BY DeferredAndWaiters DEF ProofsHold, CompleteMeansQuiet, Launches

LEMMA FreshKept ==
  ASSUME TreeInv, NEW w \in Waiters, NEW r \in WaiterRecord,
         waiter' = [waiter EXCEPT ![w] = r], Uses(waiter[w]) => Uses(r),
         deferred'.fresh = deferred.fresh, Strike \/ NoStrike
  PROVE  deferred'.fresh <= 2 * (1 + strikes' + Cardinality(Spent'))
<1>1. /\ Cardinality(Spent) \in Nat /\ Cardinality(Spent') \in Nat
      /\ Cardinality(Spent) <= Cardinality(Spent')
  BY SpentMoves
<1>2. /\ strikes \in Nat /\ deferred.fresh \in Nat
      /\ deferred.fresh <= 2 * (1 + strikes + Cardinality(Spent))
  BY NotesAreSo
<1>3. strikes' \in Nat /\ strikes' >= strikes BY <1>2 DEF Strike, NoStrike
<1> HIDE DEF Spent
<1> QED BY <1>1, <1>2, <1>3

\* A waiter that only goes to another place
LEMMA GoIs ==
  ASSUME TreeInv, NEW w \in Waiters,
         NEW place \in {"idle", "claimed", "clean", "released", "handed", "poll", "others",
                        "true", "false", "raised"},
         Go(w, place)
  PROVE  \E r \in WaiterRecord : /\ waiter' = [waiter EXCEPT ![w] = r]
                                /\ r.at = place /\ r.patience = waiter[w].patience
<1> DEFINE r == [waiter[w] EXCEPT !.at = place]
<1>1. waiter[w] \in WaiterRecord BY NotesAreSo
<1>2. r \in WaiterRecord /\ r.at = place /\ r.patience = waiter[w].patience
  BY <1>1 DEF WaiterRecord
<1>3. waiter' = [waiter EXCEPT ![w] = r] BY DEF Go
<1> HIDE DEF r
<1> QED BY <1>2, <1>3

\* The authority is given to a thread or given up, and nothing else changes.
LEMMA ClaimedByIs ==
  ASSUME TreeInv, NEW e \in Threads \cup {Nobody}, NEW b \in BOOLEAN,
         \/ deferred' = [deferred EXCEPT !.claimed = e]
         \/ deferred' = [deferred EXCEPT !.claimed = e, !.error = b]
         \/ deferred' = [deferred EXCEPT !.error = b] /\ e = deferred.claimed
         \/ deferred' = deferred /\ e = deferred.claimed
  PROVE  /\ deferred' \in DeferredRecord(Nat) /\ deferred'.claimed = e
         /\ deferred'.made = deferred.made /\ deferred'.failed = deferred.failed
         /\ deferred'.fresh = deferred.fresh
         /\ deferred'.finished = deferred.finished
         /\ deferred'.reaped => Reaped
         /\ deferred'.tree \/ deferred'.conf => Calm
         /\ deferred'.finished \/ deferred'.complete => TreeQuiet
<1>1. /\ deferred' \in DeferredRecord(Nat) /\ deferred'.claimed = e
      /\ deferred'.made = deferred.made /\ deferred'.failed = deferred.failed
      /\ deferred'.fresh = deferred.fresh
      /\ deferred'.finished = deferred.finished /\ deferred'.complete = deferred.complete
      /\ deferred'.reaped = deferred.reaped /\ deferred'.tree = deferred.tree
      /\ deferred'.conf = deferred.conf
  BY NotesAreSo DEF DeferredRecord
<1> QED BY <1>1, NotesAreSo

LEMMA WaitBeginsKeeps ==
  ASSUME TreeInv, NEW w \in Waiters, WaitBegins(w)
  PROVE  TreeInv'
<1> DEFINE claims == deferred.failed /\ deferred.claimed = Nobody
           e == IF claims /\ ~deferred.finished THEN w ELSE deferred.claimed
<1>1. /\ waiter[w].at = "idle" /\ deferred.made /\ NoStrike /\ ladder' = ladder
      /\ UNCHANGED <<platform, treeVars, owner, client, late, spawn, spawner, caller>>
  BY DEF WaitBegins, NoLadder, ownerVars, deferredFrame, NoStrike
<1>2. /\ e \in Threads \cup {Nobody} /\ (e = deferred.claimed \/ (deferred.claimed = Nobody /\ e = w))
      /\ \/ deferred' = [deferred EXCEPT !.claimed = e]
         \/ deferred' = deferred /\ e = deferred.claimed
  BY DEF WaitBegins, ClaimedBy, SupervisedTypeOK, Threads
<1>3. /\ deferred' \in DeferredRecord(Nat) /\ deferred'.claimed = e
      /\ deferred'.made /\ deferred'.failed = deferred.failed
      /\ deferred'.fresh = deferred.fresh /\ deferred'.finished = deferred.finished
      /\ deferred'.reaped => Reaped
      /\ deferred'.tree \/ deferred'.conf => Calm
      /\ deferred'.finished \/ deferred'.complete => TreeQuiet
  BY <1>1, <1>2, ClaimedByIs
<1>4. PICK r \in WaiterRecord :
        /\ waiter' = [waiter EXCEPT ![w] = r]
        /\ r.at \in {"claimed", "poll", "raised", "true"}
        /\ r.at = "claimed" => e = w
  <2>1. CASE deferred.finished
    <3>1. PICK place \in {"raised", "true"} : Go(w, place) BY <2>1 DEF WaitBegins, Answer
    <3> QED BY <3>1, GoIs
  <2>2. CASE ~deferred.finished
    <3>1. PICK p \in {"none", "zero", "finite"} :
            waiter' = [waiter EXCEPT ![w] = [at |-> IF claims THEN "claimed" ELSE "poll",
                                             patience |-> p]]
      BY <2>2 DEF WaitBegins
    <3> DEFINE r == [at |-> IF claims THEN "claimed" ELSE "poll", patience |-> p]
    <3>2. /\ r \in WaiterRecord /\ r.at \in {"claimed", "poll"}
          /\ r.at = "claimed" => e = w
      BY <2>2 DEF WaiterRecord
    <3>3. waiter' = [waiter EXCEPT ![w] = r] BY <3>1
    <3> HIDE DEF r, claims, e
    <3> QED BY <3>2, <3>3
  <2> QED BY <2>1, <2>2
<1>5. Attended'
  <2>1. \A v \in Waiters : v # w => waiter'[v] = waiter[v] BY <1>4, SpentMoves
  <2>2. Nobody \notin Waiters BY ThreadsDiffer
  <2>3. CASE deferred.finished \/ ~deferred.failed
    <3>1. Attended BY <1>1, <2>3 DEF Deferral
    <3> QED BY <1>1, <1>2, <1>3, <2>1, <2>2, <3>1 DEF Attended
  <2>4. CASE ~deferred.finished /\ deferred.failed
    <3>1. e # Nobody BY <2>2, <2>4
    <3> QED BY <1>3, <3>1 DEF Attended
  <2> QED BY <2>3, <2>4
<1>6. deferred'.fresh <= 2 * (1 + strikes' + Cardinality(Spent'))
  <2>1. ~Uses(waiter[w]) BY <1>1 DEF Uses
  <2> QED BY <1>1, <1>3, <1>4, <2>1, FreshKept
<1> DEFINE l == ladder[w]
<1>7. /\ l \in Positions /\ ladder' = [ladder EXCEPT ![w] = l]
      /\ l.reaped => Reaped
      /\ l.tree \/ l.conf => Calm
      /\ l.at = "rest"
  BY <1>1, WaiterPosition
<1> HIDE DEF l, e, claims, Attended
<1> QED BY <1>1, <1>2, <1>3, <1>4, <1>5, <1>6, <1>7, WaiterMoves

LEMMA WaitClaimedKeeps ==
  ASSUME TreeInv, NEW w \in Waiters, WaitClaimed(w)
  PROVE  TreeInv'
<1>1. /\ waiter[w].at = "claimed" /\ NoStrike
      /\ UNCHANGED <<platform, treeVars, owner, client, late, spawn, spawner, caller>>
  BY DEF WaitClaimed, ownerVars, deferredFrame, NoStrike
<1>2. deferred.claimed = w /\ deferred.made /\ ~Uses(waiter[w]) /\ w \in Threads
  BY <1>1 DEF Deferral, Uses, Threads
<1>3. CASE waiter[w].patience = "zero"
  <2>1. /\ deferred' = [deferred EXCEPT !.claimed = Nobody] /\ Go(w, "released")
        /\ ladder' = ladder
    BY <1>3 DEF WaitClaimed, NoLadder
  <2>2. /\ deferred' \in DeferredRecord(Nat) /\ deferred'.claimed = Nobody
        /\ deferred'.made /\ deferred'.fresh = deferred.fresh
        /\ deferred'.reaped => Reaped
        /\ deferred'.tree \/ deferred'.conf => Calm
        /\ deferred'.finished \/ deferred'.complete => TreeQuiet
    BY <1>2, <2>1, ClaimedByIs
  <2>3. PICK r \in WaiterRecord : waiter' = [waiter EXCEPT ![w] = r] /\ r.at = "released"
    BY <2>1, GoIs
  <2>4. Attended'
    <3>1. waiter'[w] = r BY <2>3, SpentMoves
    <3> QED BY <2>3, <3>1 DEF Attended
  <2>5. deferred'.fresh <= 2 * (1 + strikes' + Cardinality(Spent'))
    BY <1>1, <1>2, <2>2, <2>3, FreshKept
  <2> DEFINE l == ladder[w]
  <2>6. /\ l \in Positions /\ ladder' = [ladder EXCEPT ![w] = l]
        /\ l.reaped => Reaped
        /\ l.tree \/ l.conf => Calm
        /\ l.at = "rest"
    BY <1>1, <2>1, WaiterPosition
  <2> HIDE DEF l, Attended
  <2> QED BY <1>1, <1>2, <2>2, <2>3, <2>4, <2>5, <2>6, WaiterMoves
<1>4. CASE waiter[w].patience # "zero"
  <2>1. /\ deferred' = deferred /\ Go(w, "clean")
        /\ ladder' = [ladder EXCEPT ![w] = Attempt]
    BY <1>4 DEF WaitClaimed
  <2>2. /\ deferred' \in DeferredRecord(Nat) /\ deferred'.claimed = w
        /\ deferred'.made /\ deferred'.fresh = deferred.fresh
        /\ deferred'.reaped => Reaped
        /\ deferred'.tree \/ deferred'.conf => Calm
        /\ deferred'.finished \/ deferred'.complete => TreeQuiet
    BY <1>2, <2>1, ClaimedByIs
  <2>3. PICK r \in WaiterRecord : /\ waiter' = [waiter EXCEPT ![w] = r]
                                  /\ r.at = "clean" /\ r.patience # "zero"
    BY <1>4, <2>1, GoIs
  <2>4. Attended'
    <3>1. w # Nobody BY ThreadsDiffer
    <3> QED BY <2>2, <3>1 DEF Attended
  <2>5. deferred'.fresh <= 2 * (1 + strikes' + Cardinality(Spent'))
    BY <1>1, <1>2, <2>2, <2>3, FreshKept
  <2>6. PICK l \in Positions : /\ ladder' = [ladder EXCEPT ![w] = l]
                               /\ l.reaped => Reaped
                               /\ l.tree \/ l.conf => Calm
    BY <2>1, AttemptIs
  <2> HIDE DEF Attended
  <2> QED BY <1>1, <1>2, <2>2, <2>3, <2>4, <2>5, <2>6, WaiterMoves
<1> QED BY <1>3, <1>4

LEMMA HandoffLaunchesKeeps ==
  ASSUME TreeInv, NEW w \in Waiters, HandoffLaunches(w)
  PROVE  TreeInv'
<1>1. /\ waiter[w].at = "released" /\ LaunchCleaner(deferred) /\ Go(w, "handed")
      /\ ladder' = ladder
      /\ UNCHANGED <<platform, treeVars, owner, client, late, spawn, spawner, caller>>
  BY DEF HandoffLaunches, NoLadder, deferredFrame
<1>2. deferred.made /\ ~Uses(waiter[w]) BY <1>1 DEF Deferral, Uses
<1>3. /\ deferred' \in DeferredRecord(Nat) /\ deferred'.made
      /\ deferred'.claimed = deferred.claimed
      /\ deferred'.finished = deferred.finished /\ deferred'.complete = deferred.complete
      /\ deferred'.tree = deferred.tree /\ deferred'.reaped = deferred.reaped
      /\ deferred'.conf = deferred.conf
      /\ Strike \/ NoStrike
      /\ \E n \in 0..2 : deferred'.fresh = deferred.fresh + n
  <2>1. OwnerTypeOK /\ deferred \in DeferredRecord(Nat) BY NotesAreSo DEF SupervisedTypeOK
  <2> QED BY <1>1, <1>2, <2>1, LaunchCleanerIs
<1>4. PICK r \in WaiterRecord : waiter' = [waiter EXCEPT ![w] = r] /\ r.at = "handed"
  BY <1>1, GoIs
<1>5. deferred'.fresh <= 2 * (1 + strikes' + Cardinality(Spent'))
  <2>1. Uses(r) BY <1>4 DEF Uses
  <2>2. Cardinality(Spent) \in Nat /\ Cardinality(Spent') = Cardinality(Spent) + 1
    BY <1>2, <1>4, <2>1, SpentMoves
  <2>3. /\ strikes \in Nat /\ deferred.fresh \in Nat
        /\ deferred.fresh <= 2 * (1 + strikes + Cardinality(Spent))
    BY NotesAreSo
  <2>4. strikes' \in Nat /\ strikes' >= strikes BY <1>3, <2>3 DEF Strike, NoStrike
  <2>5. PICK n \in 0..2 : deferred'.fresh = deferred.fresh + n BY <1>3
  <2> HIDE DEF Spent
  <2> QED BY <2>2, <2>3, <2>4, <2>5
<1>6. Attended'
  <2>1. waiter'[w] = r BY <1>4, SpentMoves
  <2> QED BY <1>4, <2>1 DEF Attended
<1>7. /\ deferred'.reaped => Reaped
      /\ deferred'.tree \/ deferred'.conf => Calm
      /\ deferred'.finished \/ deferred'.complete => TreeQuiet
  BY <1>3, NotesAreSo
<1> DEFINE l == ladder[w]
<1>8. /\ l \in Positions /\ ladder' = [ladder EXCEPT ![w] = l]
      /\ l.reaped => Reaped
      /\ l.tree \/ l.conf => Calm
      /\ l.at = "rest"
  BY <1>1, WaiterPosition
<1> HIDE DEF l, Attended
<1> QED BY <1>1, <1>2, <1>3, <1>4, <1>5, <1>6, <1>7, <1>8, WaiterMoves

LEMMA HandoffEndsKeeps ==
  ASSUME TreeInv, NEW w \in Waiters, HandoffEnds(w)
  PROVE  TreeInv'
<1>1. /\ waiter[w].at = "handed" /\ NoStrike
      /\ UNCHANGED <<platform, treeVars, owner, client, late, spawn, spawner, caller>>
  BY DEF HandoffEnds, ownerVars, deferredFrame, NoStrike
<1>2. deferred.made /\ w \in Threads /\ w # Nobody BY <1>1, ThreadsDiffer DEF Deferral, Threads
<1>3. CASE deferred.claimed # Nobody /\ Go(w, "false") /\ UNCHANGED <<deferred, ladder>>
  <2>1. PICK r \in WaiterRecord : waiter' = [waiter EXCEPT ![w] = r] /\ r.at = "false"
    BY <1>3, GoIs
  <2>2. Attended' BY <1>3 DEF Attended
  <2>3. deferred'.fresh <= 2 * (1 + strikes' + Cardinality(Spent'))
    <3>1. Uses(r) BY <2>1 DEF Uses
    <3> QED BY <1>1, <1>3, <2>1, <3>1, FreshKept
  <2>4. /\ deferred' \in DeferredRecord(Nat) /\ deferred'.made
        /\ deferred'.reaped => Reaped
        /\ deferred'.tree \/ deferred'.conf => Calm
        /\ deferred'.finished \/ deferred'.complete => TreeQuiet
    BY <1>2, <1>3, NotesAreSo
  <2> DEFINE l == ladder[w]
  <2>5. /\ l \in Positions /\ ladder' = [ladder EXCEPT ![w] = l]
        /\ l.reaped => Reaped
        /\ l.tree \/ l.conf => Calm
        /\ l.at = "rest"
    BY <1>1, <1>3, WaiterPosition
  <2> HIDE DEF l, Attended
  <2> QED BY <1>1, <1>2, <1>3, <2>1, <2>2, <2>3, <2>4, <2>5, WaiterMoves
<1>4. CASE /\ deferred.claimed = Nobody /\ deferred' = ClaimedBy(deferred, w)
           /\ waiter' = [waiter EXCEPT ![w] = [at |-> "clean", patience |-> "none"]]
           /\ ladder' = [ladder EXCEPT ![w] = Attempt]
  <2> DEFINE r == [at |-> "clean", patience |-> "none"]
  <2>1. r \in WaiterRecord /\ r.at = "clean" /\ r.patience = "none" /\ Uses(r)
    BY DEF WaiterRecord, Uses
  <2>2. waiter' = [waiter EXCEPT ![w] = r] BY <1>4
  <2>3. /\ deferred' \in DeferredRecord(Nat) /\ deferred'.claimed = w
        /\ deferred'.made /\ deferred'.fresh = deferred.fresh
        /\ deferred'.reaped => Reaped
        /\ deferred'.tree \/ deferred'.conf => Calm
        /\ deferred'.finished \/ deferred'.complete => TreeQuiet
    BY <1>2, <1>4, ClaimedByIs DEF ClaimedBy
  <2>4. Attended' BY <1>2, <2>3 DEF Attended
  <2> HIDE DEF r
  <2>5. deferred'.fresh <= 2 * (1 + strikes' + Cardinality(Spent'))
    BY <1>1, <2>1, <2>2, <2>3, FreshKept
  <2>6. PICK l \in Positions : /\ ladder' = [ladder EXCEPT ![w] = l]
                               /\ l.reaped => Reaped
                               /\ l.tree \/ l.conf => Calm
    BY <1>4, AttemptIs
  <2>7. deferred.claimed \in {Nobody, w} /\ deferred'.claimed \in {Nobody, w} BY <1>4, <2>3
  <2> HIDE DEF Attended
  <2> QED BY <1>1, <1>2, <2>1, <2>2, <2>3, <2>4, <2>5, <2>6, <2>7, WaiterMoves
<1> QED BY <1>3, <1>4 DEF HandoffEnds

LEMMA ReclaimKeeps ==
  ASSUME TreeInv, NEW w \in Waiters, Reclaim(w)
  PROVE  TreeInv'
<1>1. /\ waiter[w].at \in {"claimed", "clean", "released", "handed"} /\ Strike
      /\ UNCHANGED <<platform, treeVars, owner, client, late, spawn, spawner, caller>>
  BY DEF Reclaim, deferredFrame
<1>2. deferred.made /\ w \in Threads /\ w # Nobody BY <1>1, ThreadsDiffer DEF Deferral, Threads
<1>3. CASE deferred.claimed \in {w, Nobody}
  <2> DEFINE p == IF waiter[w].patience = "zero" THEN "none" ELSE waiter[w].patience
             r == [at |-> "clean", patience |-> p]
  <2>1. /\ deferred' = [deferred EXCEPT !.claimed = w, !.error = TRUE]
        /\ waiter' = [waiter EXCEPT ![w] = r]
        /\ ladder' = [ladder EXCEPT ![w] = Attempt]
    BY <1>3 DEF Reclaim, ClaimedBy
  <2>2. r \in WaiterRecord /\ r.at = "clean" /\ r.patience # "zero"
    <3>1. waiter[w] \in WaiterRecord BY NotesAreSo
    <3>2. p \in {"none", "finite"} BY <3>1 DEF WaiterRecord
    <3> HIDE DEF p
    <3> QED BY <3>2 DEF WaiterRecord
  <2> HIDE DEF r
  <2>3. /\ deferred' \in DeferredRecord(Nat) /\ deferred'.claimed = w
        /\ deferred'.made /\ deferred'.fresh = deferred.fresh
        /\ deferred'.reaped => Reaped
        /\ deferred'.tree \/ deferred'.conf => Calm
        /\ deferred'.finished \/ deferred'.complete => TreeQuiet
    BY <1>2, <2>1, ClaimedByIs
  <2>4. Attended' BY <1>2, <2>3 DEF Attended
  <2>5. deferred'.fresh <= 2 * (1 + strikes' + Cardinality(Spent'))
    <3>1. /\ Cardinality(Spent) \in Nat /\ Cardinality(Spent') \in Nat
          /\ Cardinality(Spent) <= Cardinality(Spent') + 1
      BY <2>1, <2>2, SpentMoves
    <3>2. /\ strikes \in Nat /\ deferred.fresh \in Nat
          /\ deferred.fresh <= 2 * (1 + strikes + Cardinality(Spent))
      BY NotesAreSo
    <3>3. strikes' = strikes + 1 BY <1>1 DEF Strike
    <3> HIDE DEF Spent
    <3> QED BY <2>3, <3>1, <3>2, <3>3
  <2>6. PICK l \in Positions : /\ ladder' = [ladder EXCEPT ![w] = l]
                               /\ l.reaped => Reaped
                               /\ l.tree \/ l.conf => Calm
    BY <2>1, AttemptIs
  <2> HIDE DEF Attended
  <2> QED BY <1>1, <1>2, <1>3, <2>1, <2>2, <2>3, <2>4, <2>5, <2>6, WaiterMoves
<1>4. CASE deferred.claimed \notin {w, Nobody}
  <2>1. /\ deferred' = [deferred EXCEPT !.error = TRUE] /\ Go(w, "others")
        /\ ladder' = ladder
    BY <1>4 DEF Reclaim, NoLadder
  <2>2. PICK r \in WaiterRecord : waiter' = [waiter EXCEPT ![w] = r] /\ r.at = "others"
    BY <2>1, GoIs
  <2>3. /\ deferred' \in DeferredRecord(Nat) /\ deferred'.claimed = deferred.claimed
        /\ deferred'.made /\ deferred'.fresh = deferred.fresh
        /\ deferred'.reaped => Reaped
        /\ deferred'.tree \/ deferred'.conf => Calm
        /\ deferred'.finished \/ deferred'.complete => TreeQuiet
    <3>1. deferred.claimed \in Threads \cup {Nobody} BY DEF SupervisedTypeOK
    <3> QED BY <1>2, <2>1, <3>1, ClaimedByIs
  <2>4. Attended' BY <1>4, <2>3 DEF Attended
  <2>5. deferred'.fresh <= 2 * (1 + strikes' + Cardinality(Spent'))
    <3>1. Uses(r) BY <2>2 DEF Uses
    <3> QED BY <1>1, <2>2, <2>3, <3>1, FreshKept
  <2>6. waiter[w].at # "clean" BY <1>4 DEF Deferral
  <2> DEFINE l == ladder[w]
  <2>7. /\ l \in Positions /\ ladder' = [ladder EXCEPT ![w] = l]
        /\ l.reaped => Reaped
        /\ l.tree \/ l.conf => Calm
        /\ l.at = "rest"
    BY <2>1, <2>6, WaiterPosition
  <2> HIDE DEF l, Attended
  <2> QED BY <1>1, <1>2, <2>2, <2>3, <2>4, <2>5, <2>7, WaiterMoves
<1> QED BY <1>3, <1>4

LEMMA WaiterFinishesKeeps ==
  ASSUME TreeInv, NEW w \in Waiters, WaiterFinishes(w)
  PROVE  TreeInv'
<1> DEFINE d == Recorded(w)
<1>1. /\ waiter[w].at = "clean" /\ NoStrike
      /\ UNCHANGED <<platform, treeVars, owner, client, late, spawn, spawner, caller>>
  BY DEF WaiterFinishes, ownerVars, deferredFrame, NoStrike
<1>2. /\ deferred.made /\ w \in Threads /\ w # Nobody /\ deferred.claimed = w
      /\ waiter[w] \in WaiterRecord /\ waiter[w].patience # "zero"
  BY <1>1, ThreadsDiffer, NotesAreSo DEF Deferral, Threads, Launches
<1>3. /\ d \in DeferredRecord(Nat) /\ d.made /\ d.fresh = deferred.fresh /\ d.claimed = w
      /\ d.reaped => Reaped
      /\ d.tree \/ d.conf => Calm
      /\ d.finished \/ d.complete => TreeQuiet
  BY <1>2, RecordedIs
<1>4. \/ deferred' = d /\ Go(w, Answer) /\ ladder' = [ladder EXCEPT ![w] = Resting]
      \/ /\ deferred' = d /\ waiter' = waiter
         /\ ladder' = [ladder EXCEPT ![w] = [@ EXCEPT !.at = "terminate", !.pipes = TRUE]]
      \/ /\ waiter[w].patience = "finite" /\ deferred' = [d EXCEPT !.claimed = Nobody]
         /\ Go(w, "released") /\ ladder' = [ladder EXCEPT ![w] = Resting]
  BY DEF WaiterFinishes
<1> HIDE DEF d
<1>5. CASE deferred' = d /\ Go(w, Answer) /\ ladder' = [ladder EXCEPT ![w] = Resting]
  <2>1. PICK place \in {"raised", "true"} : Go(w, place) BY <1>5 DEF Answer
  <2>2. PICK r \in WaiterRecord : /\ waiter' = [waiter EXCEPT ![w] = r]
                                  /\ r.at \in {"raised", "true"}
    BY <2>1, GoIs
  <2>3. Attended' BY <1>2, <1>3, <1>5 DEF Attended
  <2>4. deferred'.fresh <= 2 * (1 + strikes' + Cardinality(Spent'))
    <3>1. Uses(r) BY <2>2 DEF Uses
    <3> QED BY <1>1, <1>3, <1>5, <2>2, <3>1, FreshKept
  <2> DEFINE l == Resting
  <2>5. /\ l \in Positions /\ ladder' = [ladder EXCEPT ![w] = l]
        /\ l.reaped => Reaped
        /\ l.tree \/ l.conf => Calm
        /\ l.at = "rest"
    BY <1>5, WaiterPosition
  <2> HIDE DEF l, Attended
  <2> QED BY <1>1, <1>2, <1>3, <1>5, <2>2, <2>3, <2>4, <2>5, WaiterMoves
<1>6. CASE /\ deferred' = d /\ waiter' = waiter
           /\ ladder' = [ladder EXCEPT ![w] = [@ EXCEPT !.at = "terminate", !.pipes = TRUE]]
  <2> DEFINE r == waiter[w]
             l == [ladder[w] EXCEPT !.at = "terminate", !.pipes = TRUE]
  <2>1. r \in WaiterRecord /\ waiter' = [waiter EXCEPT ![w] = r] /\ r.at = "clean"
        /\ r.patience # "zero"
    BY <1>1, <1>2, <1>6, NotesAreSo
  <2>2. ladder' = [ladder EXCEPT ![w] = l] BY <1>6
  <2>3. /\ l \in Positions /\ l.reaped = ladder[w].reaped
        /\ l.tree = ladder[w].tree /\ l.conf = ladder[w].conf
    BY WaiterPosition DEF Positions
  <2> HIDE DEF l
  <2>4. (l.reaped => Reaped) /\ (l.tree \/ l.conf => Calm) BY <2>3, WaiterPosition
  <2>5. Attended' BY <1>2, <1>3, <1>6 DEF Attended
  <2> HIDE DEF r
  <2>6. deferred'.fresh <= 2 * (1 + strikes' + Cardinality(Spent'))
    BY <1>1, <1>3, <1>6, <2>1, FreshKept DEF r
  <2>7. /\ deferred' \in DeferredRecord(Nat) /\ deferred'.made /\ deferred'.claimed = w
        /\ deferred'.reaped => Reaped
        /\ deferred'.tree \/ deferred'.conf => Calm
        /\ deferred'.finished \/ deferred'.complete => TreeQuiet
    BY <1>3, <1>6
  <2> HIDE DEF Attended
  <2> QED BY <1>1, <1>2, <2>1, <2>2, <2>3, <2>4, <2>5, <2>6, <2>7, WaiterMoves
<1>7. CASE /\ waiter[w].patience = "finite" /\ deferred' = [d EXCEPT !.claimed = Nobody]
           /\ Go(w, "released") /\ ladder' = [ladder EXCEPT ![w] = Resting]
  <2>1. PICK r \in WaiterRecord : waiter' = [waiter EXCEPT ![w] = r] /\ r.at = "released"
    BY <1>7, GoIs
  <2>2. /\ deferred' \in DeferredRecord(Nat) /\ deferred'.claimed = Nobody
        /\ deferred'.made = d.made /\ deferred'.fresh = d.fresh
        /\ deferred'.reaped = d.reaped /\ deferred'.tree = d.tree /\ deferred'.conf = d.conf
        /\ deferred'.finished = d.finished /\ deferred'.complete = d.complete
    BY <1>3, <1>7 DEF DeferredRecord
  <2>3. Attended'
    <3>1. waiter'[w] = r BY <2>1, SpentMoves
    <3> QED BY <2>1, <3>1 DEF Attended
  <2>4. deferred'.fresh <= 2 * (1 + strikes' + Cardinality(Spent'))
    <3>1. ~Uses(waiter[w]) BY <1>1, <1>7 DEF Uses
    <3> QED BY <1>1, <1>3, <2>1, <2>2, <3>1, FreshKept
  <2> DEFINE l == Resting
  <2>5. /\ l \in Positions /\ ladder' = [ladder EXCEPT ![w] = l]
        /\ l.reaped => Reaped
        /\ l.tree \/ l.conf => Calm
        /\ l.at = "rest"
    BY <1>7, WaiterPosition
  <2> HIDE DEF l, Attended
  <2> QED BY <1>1, <1>2, <1>3, <2>1, <2>2, <2>3, <2>4, <2>5, WaiterMoves
<1> QED BY <1>4, <1>5, <1>6, <1>7

LEMMA WaitPollsKeeps ==
  ASSUME TreeInv, NEW w \in Waiters, WaitPolls(w)
  PROVE  TreeInv'
<1>1. /\ waiter[w].at \in {"poll", "others"} /\ NoStrike /\ ladder' = ladder
      /\ UNCHANGED <<platform, treeVars, owner, client, late, spawn, spawner, caller, deferred>>
  BY DEF WaitPolls, NoLadder, ownerVars, deferredFrame, NoStrike
<1>2. deferred.made /\ Attended BY <1>1 DEF Deferral
<1>3. PICK place \in {"raised", "true", "false"} : Go(w, place) BY DEF WaitPolls, Answer
<1>4. PICK r \in WaiterRecord : /\ waiter' = [waiter EXCEPT ![w] = r]
                                /\ r.at \in {"raised", "true", "false"}
  BY <1>3, GoIs
<1>5. Attended'
  <2>1. \A v \in Waiters : v # w => waiter'[v] = waiter[v] BY <1>4, SpentMoves
  <2> QED BY <1>1, <1>2, <2>1 DEF Attended
<1>6. deferred'.fresh <= 2 * (1 + strikes' + Cardinality(Spent'))
  <2>1. Uses(r) BY <1>4 DEF Uses
  <2> QED BY <1>1, <1>4, <2>1, FreshKept
<1>7. /\ deferred' \in DeferredRecord(Nat) /\ deferred'.made
      /\ deferred'.reaped => Reaped
      /\ deferred'.tree \/ deferred'.conf => Calm
      /\ deferred'.finished \/ deferred'.complete => TreeQuiet
  BY <1>1, <1>2, NotesAreSo
<1> DEFINE l == ladder[w]
<1>8. /\ l \in Positions /\ ladder' = [ladder EXCEPT ![w] = l]
      /\ l.reaped => Reaped
      /\ l.tree \/ l.conf => Calm
      /\ l.at = "rest"
  BY <1>1, WaiterPosition
<1> HIDE DEF l, Attended
<1> QED BY <1>1, <1>2, <1>4, <1>5, <1>6, <1>7, <1>8, WaiterMoves

-----------------------------------------------------------------------------
\* All that happens to a supervised tree keeps what is known of it.
LEMMA TreeStep ==
  ASSUME TreeInv, [SupervisedNext]_supervisedVars
  PROVE  TreeInv'
<1>1. CASE DeadlinePasses \/ Environment \/ UNCHANGED supervisedVars BY <1>1, SurroundingsKeep
<1>2. CASE SpawnerBoots \/ SpawnerDecides \/ SpawnerFinishes
  BY <1>2, SpawnerBootsKeeps, SpawnerDecidesKeeps, SpawnerFinishesKeeps
<1>3. CASE CallerNext
  BY <1>3, LaunchKeeps, ClaimKeeps, SettleKeeps, GiveUpKeeps, StartFailsKeeps,
     AcknowledgeKeeps, BeginCleanupKeeps, CallerFinishesKeeps DEF CallerNext
<1>4. CASE CleanerStarts \/ CleanerFinishes BY <1>4, CleanerStartsKeeps, CleanerFinishesKeeps
<1>5. CASE \E e \in Threads : Ladder(e) BY <1>5, LadderKeeps
<1>6. CASE \E w \in Waiters : WaiterNext(w)
  BY <1>6, WaitBeginsKeeps, WaitClaimedKeeps, HandoffLaunchesKeeps, HandoffEndsKeeps,
     ReclaimKeeps, WaiterFinishesKeeps, WaitPollsKeeps DEF WaiterNext
<1> QED
  BY <1>1, <1>2, <1>3, <1>4, <1>5, <1>6
     DEF SupervisedNext, SpawnerNext, CleanerNext, Threads

LEMMA OwnerStarts ==
  ASSUME NEW platforms \in SUBSET {"posix", "windows"}, OwnerInit(platforms)
  PROVE  /\ OwnerTypeOK /\ OwnerKnows /\ ~stray /\ Unstarted
<1>1. /\ platform \in {"posix", "windows"} /\ leader = "none" /\ kin = "none"
      /\ stray = FALSE /\ strikes = 0 /\ owner = NewOwner(platform)
  BY DEF OwnerInit
<1>2. strikes \in 0..MaxStrikes BY <1>1, TreeOwnerAssumption
<1>3. owner \in [handle: {"none", "group", "probe", "job", "closing", "closed"},
                started: BOOLEAN, assigned: BOOLEAN, terminated: BOOLEAN,
                confirmed: BOOLEAN, closed: BOOLEAN, closeOk: BOOLEAN,
                failed: BOOLEAN]
  BY <1>1 DEF NewOwner
<1>4. OwnerTypeOK BY <1>1, <1>2, <1>3 DEF OwnerTypeOK
<1>5. OwnerKnows BY <1>1 DEF NewOwner, OwnerKnows, Calm
<1> QED BY <1>1, <1>4, <1>5 DEF Unstarted

LEMMA SupervisedStarts ==
  ASSUME NEW place \in {"launch", "ended"}, SupervisedFrom(place)
  PROVE  /\ SupervisedTypeOK /\ OwnerKnows /\ ~stray /\ Unstarted
         /\ caller.at = place /\ caller.outcome = "none" /\ deferred = Undone
         /\ ~spawn.ready /\ ~spawn.decided /\ ~spawn.acked /\ ~spawn.error
         /\ ~spawn.finished /\ ~spawn.complete /\ spawner = "none"
         /\ \A e \in Threads : ladder[e] = Resting
         /\ \A w \in Waiters : waiter[w].at = "idle"
<1>1. /\ OwnerTypeOK /\ OwnerKnows /\ ~stray /\ Unstarted BY OwnerStarts DEF SupervisedFrom
<1>2. deferred = Undone /\ 0 \in 0..LaunchBound
  <2>1. Cardinality(Waiters) \in Nat BY WaitersAssumption, FS_CardinalityType
  <2>2. LaunchBound \in Nat BY <2>1, TreeOwnerAssumption DEF LaunchBound
  <2> QED BY <2>2 DEF SupervisedFrom, Undone
<1>3. deferred \in DeferredRecord(0..LaunchBound) BY <1>2 DEF Undone, DeferredRecord
<1>4. Resting \in Positions BY DEF Resting, Positions
<1>5. SupervisedTypeOK BY <1>1, <1>3, <1>4 DEF SupervisedFrom, SupervisedTypeOK, DeferredRecord
<1> QED BY <1>1, <1>2, <1>5 DEF SupervisedFrom

LEMMA TreeStarts ==
  ASSUME SupervisedInit
  PROVE  TreeInv
<1>1. /\ SupervisedTypeOK /\ OwnerKnows /\ Unstarted
      /\ caller.at = "launch" /\ caller.outcome = "none" /\ deferred = Undone
      /\ ~spawn.ready /\ ~spawn.decided /\ ~spawn.acked /\ ~spawn.error
      /\ ~spawn.finished /\ ~spawn.complete /\ spawner = "none"
      /\ \A e \in Threads : ladder[e] = Resting
      /\ \A w \in Waiters : waiter[w].at = "idle"
  BY SupervisedStarts DEF SupervisedInit
<1>2. /\ ~deferred.made /\ ~deferred.finished /\ ~deferred.complete /\ deferred.fresh = 0
      /\ ~deferred.reaped /\ ~deferred.tree /\ ~deferred.conf
  BY <1>1 DEF Undone
<1>3. /\ Resting.at = "rest" /\ ~Resting.reaped /\ ~Resting.tree /\ ~Resting.conf BY DEF Resting
<1>4. ConfirmationHolds BY <1>1 DEF ConfirmationHolds, Unstarted, NewOwner
<1>5. Launching BY <1>1 DEF Launching
<1>6. Claiming BY <1>1 DEF Claiming
<1>7. Deferral BY <1>1, <1>2 DEF Deferral
<1>8. WhoCleans BY <1>1, <1>3, ThreadsDiffer DEF WhoCleans, At
<1>9. ProofsHold BY <1>1, <1>2, <1>3 DEF ProofsHold
<1>10. Launches
  <2>1. Cardinality(Spent) = 0 BY <1>1, NobodySpent
  <2>2. strikes \in Nat BY <1>1, DeferredAndWaiters
  <2> HIDE DEF Spent
  <2> QED BY <1>1, <1>2, <2>1, <2>2 DEF Launches
<1>11. CompleteMeansQuiet BY <1>1, <1>2 DEF CompleteMeansQuiet, SpawnQuiet
<1> QED BY <1>1, <1>4, <1>5, <1>6, <1>7, <1>8, <1>9, <1>10, <1>11

\* Two threads that clean are the same thread.
LEMMA CleanersAreOne ==
  ASSUME TreeInv
  PROVE  OneCleaner
<1>1. \A e \in Waiters \cup {"cleaner"} : e \in Cleaning => deferred.claimed = e
  BY DEF WhoCleans, Deferral, Cleaning
<1>2. \A e \in Waiters \cup {"cleaner"} : e \in Cleaning => deferred.made
  <2>1. ~deferred.made => deferred.claimed = Nobody BY DEF Deferral, Undone
  <2>2. \A e \in Waiters \cup {"cleaner"} : e # Nobody BY ThreadsDiffer DEF Threads
  <2> QED BY <1>1, <2>1, <2>2
<1>3. "spawner" \in Cleaning => ~spawn.acked BY DEF Cleaning, WhoCleans, Launching
<1>4. "caller" \in Cleaning => spawn.acked /\ caller.at = "clean"
  BY DEF Cleaning, WhoCleans, Claiming
<1>5. deferred.made => spawn.acked /\ caller.at = "ended" BY DEF Deferral
<1>6. \A e, f \in Cleaning : e = f
  <2>1. \A e \in Cleaning : \/ e = "spawner" \/ e = "caller"
                            \/ e \in Waiters \cup {"cleaner"}
    BY DEF Cleaning, Threads
  <2> QED BY <1>1, <1>2, <1>3, <1>4, <1>5, <2>1
<1>7. Cardinality(Cleaning) <= 1
  <2> HIDE DEF Cleaning
  <2>1. CASE Cleaning = {} BY <2>1, FS_EmptySet
  <2>2. ASSUME NEW e \in Cleaning
        PROVE  Cardinality(Cleaning) <= 1
    <3>1. Cleaning = {e} BY <1>6
    <3>2. Cardinality({e}) = 1 BY FS_Singleton
    <3> QED BY <3>1, <3>2
  <2> QED BY <2>1, <2>2
<1>8. \A w \in Waiters : waiter[w].at = "false" => Attended BY DEF Deferral
<1> QED BY <1>1, <1>7, <1>8 DEF OneCleaner, Attended

-----------------------------------------------------------------------------
\* run_supervised_process.
RunRecord ==
  [phase: Phases, step: {"t", "r", "c", "x", "w"},
   stdin: BOOLEAN, owned: BOOLEAN, stopped: BOOLEAN,
   terminated: BOOLEAN, reaped: BOOLEAN, confirmed: BOOLEAN,
   error: {"none", "plain", "debt"}, timedOut: BOOLEAN, cancelled: BOOLEAN,
   outcome: {"none", "stopped", "quiet", "unquiet", "error", "debt"}]

LEMMA RunIs ==
  ASSUME RunInv
  PROVE  run \in RunRecord /\ overdue \in BOOLEAN /\ cancelled \in BOOLEAN
BY DEF RunInv, RunTypeOK, RunRecord

\* A step of a run that is past the start of its child, or starts it, and does
\* not end: what it has to show of its locals.
LEMMA RunMoves ==
  ASSUME RunInv, OwnerTypeOK', OwnerKnows', stray' = stray, UNCHANGED flags,
         run' \in RunRecord, run'.outcome = "none",
         run'.phase \notin {"stage", "own", "start", "ended"},
         run'.phase = "monitor" => run'.owned /\ leader' # "none",
         run'.step # "t" => run'.phase \in {"reap", "confirm", "close", "emergency"},
         ~run'.owned => leader' = "none",
         run'.terminated => Calm', run'.reaped => Reaped'
  PROVE  RunInv'
<1>1. RunTypeOK' BY RunIs DEF RunTypeOK, RunRecord, flags
<1>2. RunKnows' BY DEF RunKnows
<1>3. ~stray' BY DEF RunInv
<1>4. BoundaryIsQuiet' BY <1>3 DEF BoundaryIsQuiet
<1> QED BY <1>1, <1>2, <1>3, <1>4 DEF RunInv

\* An exception that is noted for the owner
LEMMA StruckKnows ==
  ASSUME OwnerTypeOK, OwnerKnows, Strike, owner' = StruckOwner(owner),
         UNCHANGED <<platform, kin, stray>>,
         leader' = leader \/ (leader # "none" /\ leader' = "reaped")
  PROVE  OwnerTypeOK' /\ OwnerKnows' /\ Kept /\ (Reaped => Reaped') /\ (Calm => Calm')
<1>1. StrikesKept BY StrikeKept
<1>2. /\ owner' \in [handle: {"none", "group", "probe", "job", "closing", "closed"},
                started: BOOLEAN, assigned: BOOLEAN, terminated: BOOLEAN,
                confirmed: BOOLEAN, closed: BOOLEAN, closeOk: BOOLEAN,
                failed: BOOLEAN]
      /\ owner'.assigned = owner.assigned /\ owner'.closeOk = owner.closeOk
      /\ owner'.confirmed = owner.confirmed /\ owner'.handle = owner.handle
  BY DEF OwnerTypeOK, StruckOwner
<1>3. Kept /\ (Reaped => Reaped') /\ (Calm => Calm') BY <1>2 DEF Kept, Calm, Reaped
<1>4. OwnerTypeOK' BY <1>1, <1>2 DEF OwnerTypeOK, StrikesKept
<1>5. leader' = "none" \/ ~owner'.assigned => kin' = "none" BY <1>2 DEF OwnerKnows
<1>6. OwnerKnows' BY <1>2, <1>3, <1>5 DEF OwnerKnows
<1> QED BY <1>3, <1>4, <1>6

\* Where the locals are led by the ends of a step and of a phase
LEMMA FailedIs ==
  ASSUME NEW r \in RunRecord, NEW error \in {"plain", "debt"}
  PROVE  /\ Failed(r, error) \in RunRecord /\ Failed(r, error).phase = "initial"
         /\ Failed(r, error).step = r.step /\ Failed(r, error).owned = r.owned
         /\ Failed(r, error).outcome = r.outcome
         /\ Failed(r, error).terminated = r.terminated /\ Failed(r, error).reaped = r.reaped
<1> DEFINE e == IF r.error = "none" THEN error ELSE r.error
<1>1. e \in {"none", "plain", "debt"} BY DEF RunRecord
<1>2. Failed(r, error) = [r EXCEPT !.phase = "initial", !.error = e] BY DEF Failed
<1>3. "initial" \in Phases BY DEF Phases
<1> HIDE DEF e
<1> QED BY <1>1, <1>2, <1>3 DEF RunRecord

LEMMA NotedIs ==
  ASSUME NEW r \in RunRecord
  PROVE  /\ Noted(r) \in RunRecord /\ Noted(r).phase = r.phase /\ Noted(r).step = r.step
         /\ Noted(r).owned = r.owned /\ Noted(r).outcome = r.outcome
         /\ Noted(r).terminated = r.terminated /\ Noted(r).reaped = r.reaped
<1> DEFINE e == IF r.error = "none" THEN "plain" ELSE r.error
<1>1. e \in {"none", "plain", "debt"} BY DEF RunRecord
<1>2. Noted(r) = [r EXCEPT !.error = e] BY DEF Noted
<1> HIDE DEF e
<1> QED BY <1>1, <1>2 DEF RunRecord

CleanupPhases == {"reap", "confirm", "close", "emergency"}

LEMMA PhaseOverIs ==
  ASSUME NEW r \in RunRecord, run' = PhaseOver(r)
  PROVE  /\ run' \in RunRecord /\ run'.phase \in CleanupPhases \cup {"outcome"}
         /\ run'.step = "t" /\ run'.owned = r.owned /\ run'.outcome = r.outcome
         /\ run'.terminated = r.terminated /\ run'.reaped = r.reaped
<1> DEFINE p == IF r.phase = "close" /\ r.owned /\ ~owner'.closed THEN "emergency"
                ELSE NextPhase(r.phase)
<1>1. p \in CleanupPhases \cup {"outcome"} BY DEF NextPhase, CleanupPhases
<1>2. run' = [r EXCEPT !.step = "t", !.phase = p] BY DEF PhaseOver
<1>3. CleanupPhases \cup {"outcome"} \subseteq Phases BY DEF CleanupPhases, Phases
<1> HIDE DEF p
<1> QED BY <1>1, <1>2, <1>3 DEF RunRecord

LEMMA AbortedIs ==
  ASSUME NEW r \in RunRecord, run' = Aborted(r), r.phase = run.phase
  PROVE  /\ run' \in RunRecord /\ run'.phase \in CleanupPhases \cup {"outcome"}
         /\ run'.step # "t" => run'.phase \in CleanupPhases
         /\ run'.owned = r.owned /\ run'.outcome = r.outcome
         /\ run'.terminated = r.terminated /\ run'.reaped = r.reaped
<1>1. CASE Closing /\ r.owned
  <2>1. run' = [r EXCEPT !.step = "x"] /\ r.phase \in {"close", "emergency"}
    BY <1>1 DEF Aborted, Closing
  <2> QED BY <2>1 DEF RunRecord, CleanupPhases
<1>2. CASE ~(Closing /\ r.owned)
  <2>1. run' = PhaseOver(r) BY <1>2 DEF Aborted
  <2> QED BY <2>1, PhaseOverIs
<1> QED BY <1>1, <1>2

\* What terminate() makes of a child that there is
LEMMA TerminateNowKnows ==
  ASSUME OwnerTypeOK, OwnerKnows, TerminateNow, leader # "none"
  PROVE  /\ OwnerTypeOK' /\ OwnerKnows' /\ Kept /\ stray' = stray
         /\ owner'.terminated => Calm'
         /\ owner'.terminated \in BOOLEAN
<1>1. PICK x \in BOOLEAN : Terminate(TRUE, x) BY DEF TerminateNow
<1>2. /\ OwnerTypeOK' /\ OwnerKnows' /\ Kept /\ stray' = stray
      /\ owner'.terminated => Calm'
  BY <1>1, TerminateKnows
<1> QED BY <1>2 DEF OwnerTypeOK

\* What is known where a run has not ended
LEMMA RunGoesOn ==
  ASSUME RunInv, run.phase # "ended"
  PROVE  /\ run \in RunRecord /\ run.outcome = "none" /\ OwnerTypeOK /\ OwnerKnows
         /\ run.terminated => Calm
         /\ run.reaped => Reaped
         /\ ~run.owned => leader = "none"
         /\ run.step # "t" => run.phase \in CleanupPhases
BY RunIs DEF RunInv, RunKnows, RunTypeOK, CleanupPhases

\* Before the launch
LEMMA LaunchFailsIs ==
  ASSUME RunInv, run.phase # "ended", LaunchFails
  PROVE  /\ StrikesKept
         /\ \E error \in {"plain", "debt"} : run' = Failed(run, error)
<1>1. StrikesKept
  BY RunGoesOn, TreeOwnerAssumption DEF LaunchFails, Strike, StrikesKept, OwnerTypeOK
<1> QED BY <1>1 DEF LaunchFails

LEMMA StdinClosedIs ==
  ASSUME OwnerTypeOK, NEW proven \in BOOLEAN, StdinClosed(proven)
  PROVE  StrikesKept
BY TreeOwnerAssumption DEF StdinClosed, NoStrike, StrikesKept, OwnerTypeOK

\* A step at which nothing happens to the tree
LEMMA QuietStepIs ==
  ASSUME RunInv, run.phase # "ended", UNCHANGED <<platform, treeVars, owner>>, StrikesKept
  PROVE  /\ OwnerTypeOK' /\ OwnerKnows' /\ stray' = stray /\ leader' = leader
         /\ Calm' = Calm /\ Reaped' = Reaped
         /\ Unstarted => Unstarted'
BY RunGoesOn, TreeKept, OwnerTypesKept DEF treeVars, Unstarted

LEMMA StageStdinKeeps ==
  ASSUME RunInv, StageStdin \/ MakeOwner
  PROVE  RunInv'
<1>1. /\ run.phase \in {"stage", "own"} /\ UNCHANGED <<platform, treeVars, owner>>
      /\ UNCHANGED flags
  BY DEF StageStdin, MakeOwner, flags
<1>2. /\ run \in RunRecord /\ run.outcome = "none" /\ OwnerTypeOK
      /\ run.terminated => Calm
      /\ run.reaped => Reaped
      /\ run.step = "t" /\ ~run.owned /\ Unstarted /\ ~run.terminated /\ ~run.reaped
  BY <1>1, RunGoesOn DEF RunInv, RunKnows, CleanupPhases
<1>3. StrikesKept
  <2>1. CASE NoStrike \/ Strike BY <1>2, <2>1, StrikeKept
  <2>2. CASE \E proven \in BOOLEAN : StdinClosed(proven) BY <1>2, <2>2, StdinClosedIs
  <2>3. CASE LaunchFails BY <1>1, <2>3, LaunchFailsIs
  <2> QED BY <2>1, <2>2, <2>3 DEF StageStdin, MakeOwner, LaunchStopped
<1>4. /\ OwnerTypeOK' /\ OwnerKnows' /\ stray' = stray /\ leader' = "none"
      /\ Calm' = Calm /\ Reaped' = Reaped /\ Unstarted'
  BY <1>1, <1>2, <1>3, QuietStepIs DEF Unstarted
<1>5. \/ \E r \in RunRecord, error \in {"plain", "debt"} :
           /\ run' = Failed(r, error) /\ r.step = "t" /\ r.outcome = "none"
           /\ r.terminated = run.terminated /\ r.reaped = run.reaped
      \/ \E b \in BOOLEAN : run' = [run EXCEPT !.phase = "drain", !.owned = b, !.stopped = TRUE]
      \/ \E b \in BOOLEAN : /\ run.phase = "stage"
                            /\ run' = [run EXCEPT !.phase = "own", !.stdin = b]
      \/ run' = [run EXCEPT !.phase = "start", !.owned = TRUE]
  <2>1. CASE LaunchFails BY <1>1, <1>2, <2>1, LaunchFailsIs
  <2>2. CASE LaunchStopped
    <3>1. CASE run' = Failed(run, "debt") BY <1>2, <3>1
    <3>2. CASE run' = [run EXCEPT !.phase = "drain", !.stopped = TRUE]
      <4>1. run' = [run EXCEPT !.phase = "drain", !.owned = run.owned, !.stopped = TRUE]
        BY <1>2, <3>2 DEF RunRecord
      <4>2. run.owned \in BOOLEAN BY <1>2 DEF RunRecord
      <4> QED BY <4>1, <4>2
    <3> QED BY <2>2, <3>1, <3>2 DEF LaunchStopped
  <2>3. CASE run' = Failed([run EXCEPT !.owned = TRUE], "debt")
    <3> DEFINE r == [run EXCEPT !.owned = TRUE]
    <3>1. /\ r \in RunRecord /\ r.step = "t" /\ r.outcome = "none"
          /\ r.terminated = run.terminated /\ r.reaped = run.reaped
      BY <1>2 DEF RunRecord
    <3>2. run' = Failed(r, "debt") BY <2>3
    <3> HIDE DEF r
    <3> QED BY <3>1, <3>2
  <2> QED BY <2>1, <2>2, <2>3 DEF StageStdin, MakeOwner
<1>6. CASE \E r \in RunRecord, error \in {"plain", "debt"} :
             /\ run' = Failed(r, error) /\ r.step = "t" /\ r.outcome = "none"
             /\ r.terminated = run.terminated /\ r.reaped = run.reaped
  <2>1. /\ run' \in RunRecord /\ run'.phase = "initial" /\ run'.step = "t"
        /\ run'.outcome = "none"
        /\ run'.terminated = run.terminated /\ run'.reaped = run.reaped
    BY <1>6, FailedIs
  <2> QED BY <1>1, <1>2, <1>4, <2>1, RunMoves
<1>7. CASE \E b \in BOOLEAN : run' = [run EXCEPT !.phase = "drain", !.owned = b, !.stopped = TRUE]
  <2>1. /\ run' \in RunRecord /\ run'.phase = "drain" /\ run'.step = "t"
        /\ run'.outcome = "none"
        /\ run'.terminated = run.terminated /\ run'.reaped = run.reaped
    BY <1>2, <1>7 DEF RunRecord, Phases
  <2> QED BY <1>1, <1>2, <1>4, <2>1, RunMoves
<1>8. CASE \/ \E b \in BOOLEAN : /\ run.phase = "stage"
                                 /\ run' = [run EXCEPT !.phase = "own", !.stdin = b]
           \/ run' = [run EXCEPT !.phase = "start", !.owned = TRUE]
  <2>1. /\ run' \in RunRecord /\ run'.step = "t" /\ run'.outcome = "none"
        /\ run'.terminated = run.terminated /\ run'.reaped = run.reaped
        /\ \/ run'.phase = "own" /\ ~run'.owned
           \/ run'.phase = "start" /\ run'.owned
    BY <1>2, <1>8 DEF RunRecord, Phases
  <2>2. RunKnows' BY <1>2, <1>4, <2>1 DEF RunKnows
  <2>3. RunTypeOK' BY <1>1, <1>4, <2>1, RunIs DEF RunTypeOK, RunRecord, flags
  <2> QED BY <1>4, <2>1, <2>2, <2>3 DEF RunInv, BoundaryIsQuiet
<1> QED BY <1>5, <1>6, <1>7, <1>8

LEMMA StartChildKeeps ==
  ASSUME RunInv, StartChild
  PROVE  RunInv'
<1>1. run.phase = "start" /\ UNCHANGED flags BY DEF StartChild
<1>2. /\ run \in RunRecord /\ run.outcome = "none" /\ OwnerTypeOK /\ OwnerKnows
      /\ run.step = "t" /\ run.owned /\ Unstarted /\ ~run.reaped /\ ~run.terminated
  BY <1>1, RunGoesOn DEF RunInv, RunKnows, CleanupPhases
<1>3. StrikesKept
  <2>1. CASE NoStrike \/ Strike BY <1>2, <2>1, StrikeKept
  <2>2. CASE LaunchFails BY <1>1, <2>2, LaunchFailsIs
  <2> QED BY <2>1, <2>2 DEF StartChild, StartProcess, StartRaises
<1>4. OwnerTypeOK' /\ OwnerKnows' /\ stray' = stray
  <2>1. CASE \E assigned \in BOOLEAN : Started(assigned)
    <3>1. stray' = stray BY <2>1 DEF Started
    <3> QED BY <1>2, <1>3, <2>1, <3>1, StartedKnows
  <2>2. CASE UNCHANGED <<platform, treeVars, owner>> BY <1>1, <1>3, <2>2, QuietStepIs
  <2> QED BY <2>1, <2>2 DEF StartChild, StartProcess, StartRaises
<1>5. \/ leader' = "live" /\ run' = [run EXCEPT !.phase = "monitor", !.stdin = FALSE]
      \/ \E error \in {"plain", "debt"} : run' = Failed(run, error)
  BY <1>1, LaunchFailsIs DEF StartChild, StartProcess, Started
<1>6. /\ run' \in RunRecord /\ run'.phase \in {"monitor", "initial"} /\ run'.step = "t"
      /\ run'.outcome = "none" /\ run'.owned /\ ~run'.terminated /\ ~run'.reaped
      /\ run'.phase = "monitor" => leader' # "none"
  <2>1. CASE leader' = "live" /\ run' = [run EXCEPT !.phase = "monitor", !.stdin = FALSE]
    BY <1>2, <2>1 DEF RunRecord, Phases
  <2>2. CASE \E error \in {"plain", "debt"} : run' = Failed(run, error) BY <1>2, <2>2, FailedIs
  <2> QED BY <1>5, <2>1, <2>2
<1> QED BY <1>1, <1>4, <1>6, RunMoves

\* The monitoring loop and the termination and the drain that follow it
LEMMA MonitorKeeps ==
  ASSUME RunInv, Monitor \/ InitialTermination \/ OutputDrain \/ MonitorRaises
  PROVE  RunInv'
<1>1. run.phase \in {"monitor", "initial", "drain"} /\ UNCHANGED flags
  BY DEF Monitor, InitialTermination, OutputDrain, MonitorRaises, flags
<1>2. /\ run \in RunRecord /\ run.outcome = "none" /\ OwnerTypeOK /\ OwnerKnows
      /\ run.terminated => Calm
      /\ run.reaped => Reaped
      /\ ~run.owned => leader = "none"
      /\ run.step = "t" /\ (run.phase = "monitor" => run.owned /\ leader # "none")
  BY <1>1, RunGoesOn DEF RunInv, RunKnows, CleanupPhases
<1>3. \/ TerminateNow /\ leader # "none"
      \/ Strike /\ owner' = StruckOwner(owner) /\ UNCHANGED <<platform, treeVars>>
      \/ UNCHANGED <<platform, treeVars, owner>> /\ StrikesKept
  <2>1. CASE Monitor BY <1>2, <2>1, StrikeKept DEF Monitor, ownerVars, NoStrike
  <2>2. CASE InitialTermination
    BY <1>2, <2>2, StrikeKept DEF InitialTermination, ownerVars, NoStrike, HasChild
  <2>3. CASE OutputDrain
    BY <1>2, <2>3, StrikeKept DEF OutputDrain, ownerVars, NoStrike, HasChild
  <2>4. CASE MonitorRaises BY <1>1, <2>4, LaunchFailsIs DEF MonitorRaises
  <2> QED BY <2>1, <2>2, <2>3, <2>4
<1>4. /\ OwnerTypeOK' /\ OwnerKnows' /\ stray' = stray
      /\ Calm => Calm'
      /\ Reaped => Reaped'
      /\ leader = "none" => leader' = "none"
  <2>1. CASE TerminateNow /\ leader # "none" BY <1>2, <2>1, TerminateNowKnows DEF Kept
  <2>2. CASE Strike /\ owner' = StruckOwner(owner) /\ UNCHANGED <<platform, treeVars>>
    BY <1>2, <2>2, StruckKnows DEF treeVars
  <2>3. CASE UNCHANGED <<platform, treeVars, owner>> /\ StrikesKept BY <1>1, <2>3, QuietStepIs
  <2> QED BY <1>3, <2>1, <2>2, <2>3
<1>5. /\ run' \in RunRecord /\ run'.outcome = "none" /\ run'.step = "t"
      /\ run'.phase \in {"drain", "final", "initial"} /\ run'.owned = run.owned
      /\ run'.terminated = run.terminated /\ run'.reaped = run.reaped
  <2>1. CASE Monitor
    <3>1. CASE run' = [run EXCEPT !.phase = "drain"] BY <1>2, <3>1 DEF RunRecord, Phases
    <3>2. CASE run' = [run EXCEPT !.phase = "drain", !.timedOut = TRUE]
      BY <1>2, <3>2 DEF RunRecord, Phases
    <3>3. CASE run' = [run EXCEPT !.phase = "drain", !.cancelled = TRUE]
      BY <1>2, <3>3 DEF RunRecord, Phases
    <3> QED BY <2>1, <3>1, <3>2, <3>3 DEF Monitor
  <2>2. CASE InitialTermination BY <1>2, <2>2 DEF InitialTermination, RunRecord, Phases
  <2>3. CASE OutputDrain
    <3>1. CASE run' = [Noted(run) EXCEPT !.phase = "final", !.step = "t"]
      <4> DEFINE r == Noted(run)
      <4>1. /\ r \in RunRecord /\ r.outcome = "none" /\ r.owned = run.owned
            /\ r.terminated = run.terminated /\ r.reaped = run.reaped
        BY <1>2, NotedIs
      <4>2. run' = [r EXCEPT !.phase = "final", !.step = "t"] BY <3>1
      <4> HIDE DEF r
      <4> QED BY <4>1, <4>2 DEF RunRecord, Phases
    <3>2. CASE run' = [run EXCEPT !.phase = "final", !.step = "t"]
      BY <1>2, <3>2 DEF RunRecord, Phases
    <3>3. CASE run' = [run EXCEPT !.phase = "final", !.step = "t", !.timedOut = @ \/ ~run.cancelled]
      <4>1. (run.timedOut \/ ~run.cancelled) \in BOOLEAN BY <1>2 DEF RunRecord
      <4> QED BY <1>2, <3>3, <4>1 DEF RunRecord, Phases
    <3> QED BY <2>3, <3>1, <3>2, <3>3 DEF OutputDrain
  <2>4. CASE MonitorRaises BY <1>1, <1>2, <2>4, LaunchFailsIs, FailedIs DEF MonitorRaises
  <2> QED BY <2>1, <2>2, <2>3, <2>4
<1> QED BY <1>1, <1>2, <1>4, <1>5, RunMoves

\* How a phase of the cleanup goes on, for all of its steps
LEMMA CleanupMoves ==
  ASSUME RunInv, run.phase # "ended", UNCHANGED flags, OwnerTypeOK', OwnerKnows',
         stray' = stray, NEW r \in RunRecord,
         r.owned = run.owned, r.outcome = "none",
         r.terminated => Calm', r.reaped => Reaped',
         ~run.owned => leader' = "none",
         \/ run' = PhaseOver(r)
         \/ run' = Aborted(r) /\ r.phase = run.phase
         \/ /\ run' = r /\ r.phase = run.phase
            /\ run.phase \in CleanupPhases
  PROVE  RunInv'
<1>1. /\ run' \in RunRecord /\ run'.phase \in CleanupPhases \cup {"outcome"}
      /\ run'.step # "t" => run'.phase \in CleanupPhases
      /\ run'.owned = r.owned /\ run'.outcome = r.outcome
      /\ run'.terminated = r.terminated /\ run'.reaped = r.reaped
  <2>1. CASE run' = PhaseOver(r) BY <2>1, PhaseOverIs
  <2>2. CASE run' = Aborted(r) /\ r.phase = run.phase BY <2>2, AbortedIs
  <2>3. CASE run' = r /\ r.phase = run.phase /\ run.phase \in CleanupPhases BY <2>3
  <2> QED BY <2>1, <2>2, <2>3
<1>2. run'.phase \notin {"stage", "own", "start", "ended", "monitor"} BY <1>1 DEF CleanupPhases
<1>3. run'.step # "t" => run'.phase \in {"reap", "confirm", "close", "emergency"}
  BY <1>1 DEF CleanupPhases
<1> QED BY <1>1, <1>2, <1>3, RunMoves

\* A step of the cleanup that raises
LEMMA StruckKeeps ==
  ASSUME RunInv, run.phase # "ended", UNCHANGED <<platform, kin, stray>>, UNCHANGED flags,
         Strike, owner' = StruckOwner(owner),
         run' = Aborted(Noted(run)) \/ run' = PhaseOver(Noted(run)),
         leader' = leader \/ (HasChild /\ leader' = "reaped")
  PROVE  RunInv'
<1>1. /\ run \in RunRecord /\ run.outcome = "none" /\ OwnerTypeOK /\ OwnerKnows
      /\ run.terminated => Calm
      /\ run.reaped => Reaped
      /\ ~run.owned => leader = "none"
  BY RunGoesOn
<1>2. /\ OwnerTypeOK' /\ OwnerKnows'
      /\ Calm => Calm'
      /\ Reaped => Reaped'
  BY <1>1, StruckKnows DEF HasChild
<1> DEFINE r == Noted(run)
<1>3. /\ r \in RunRecord /\ r.phase = run.phase /\ r.outcome = "none" /\ r.owned = run.owned
      /\ r.terminated = run.terminated /\ r.reaped = run.reaped
  BY <1>1, NotedIs
<1>4. run' = Aborted(r) \/ run' = PhaseOver(r) OBVIOUS
<1> HIDE DEF r
<1>5. ~run.owned => leader' = "none" BY <1>1 DEF HasChild
<1> QED BY <1>1, <1>2, <1>3, <1>4, <1>5, CleanupMoves

\* A step of the cleanup that leaves the tree and its owner alone
LEMMA OwnerUntouched ==
  ASSUME RunInv, run.phase # "ended", UNCHANGED ownerVars
  PROVE  /\ OwnerTypeOK' /\ OwnerKnows' /\ stray' = stray /\ leader' = leader
         /\ Calm' = Calm /\ Reaped' = Reaped
<1>1. StrikesKept BY RunGoesOn, StrikeKept DEF ownerVars, NoStrike
<1> QED BY <1>1, QuietStepIs DEF ownerVars

\* Where there is no child nobody has to be terminated or reaped.
LEMMA Childless ==
  ASSUME RunInv, run.phase # "ended", ~HasChild
  PROVE  leader = "none" /\ Calm /\ Reaped
<1>1. leader = "none" /\ OwnerKnows BY RunGoesOn DEF HasChild
<1> QED BY <1>1 DEF OwnerKnows, Calm, Reaped

LEMMA FinalTerminationKeeps ==
  ASSUME RunInv, FinalTermination
  PROVE  RunInv'
<1>1. /\ run.phase \in {"final", "reap", "confirm", "close", "emergency"} /\ run.phase # "ended"
      /\ UNCHANGED flags
      /\ run.phase # "final" => run.phase \in CleanupPhases
  BY DEF FinalTermination, CleanupPhases
<1>2. /\ run \in RunRecord /\ run.outcome = "none" /\ OwnerTypeOK /\ OwnerKnows
      /\ run.terminated => Calm
      /\ run.reaped => Reaped
      /\ ~run.owned => leader = "none"
  BY <1>1, RunGoesOn
<1>3. CASE /\ LET r == [run EXCEPT !.terminated = @ \/ ~HasChild] IN
                run' = IF run.phase = "final" THEN PhaseOver(r) ELSE [r EXCEPT !.step = "r"]
           /\ UNCHANGED ownerVars
  <2>1. /\ OwnerTypeOK' /\ OwnerKnows' /\ stray' = stray /\ leader' = leader
        /\ Calm' = Calm /\ Reaped' = Reaped
    BY <1>1, <1>3, OwnerUntouched
  <2> DEFINE t == run.terminated \/ ~HasChild
             r == [run EXCEPT !.terminated = t]
             s == [r EXCEPT !.step = "r"]
  <2>2. t \in BOOLEAN /\ (t => Calm) BY <1>1, <1>2, Childless DEF RunRecord
  <2>3. run' = IF run.phase = "final" THEN PhaseOver(r) ELSE s BY <1>3
  <2> HIDE DEF t
  <2>4. /\ r \in RunRecord /\ r.owned = run.owned /\ r.outcome = "none" /\ r.phase = run.phase
        /\ r.terminated = t /\ r.reaped = run.reaped
        /\ s \in RunRecord /\ s.owned = run.owned /\ s.outcome = "none" /\ s.phase = run.phase
        /\ s.terminated = t /\ s.reaped = run.reaped
    BY <1>2, <2>2 DEF RunRecord
  <2> HIDE DEF r, s
  <2>5. CASE run.phase = "final"
    <3>1. run' = PhaseOver(r) BY <2>3, <2>5
    <3> QED BY <1>1, <1>2, <2>1, <2>2, <2>4, <3>1, CleanupMoves
  <2>6. CASE run.phase # "final"
    <3>1. run' = s BY <2>3, <2>6
    <3> QED BY <1>1, <1>2, <2>1, <2>2, <2>4, <2>6, <3>1, CleanupMoves
  <2> QED BY <2>5, <2>6
<1>4. CASE /\ HasChild /\ TerminateNow
           /\ LET r == [run EXCEPT !.terminated = owner'.terminated] IN
                run' = IF run.phase # "final" /\ r.terminated
                       THEN [r EXCEPT !.step = "r"] ELSE Aborted(r)
  <2>1. /\ OwnerTypeOK' /\ OwnerKnows' /\ Kept /\ stray' = stray
        /\ owner'.terminated => Calm'
        /\ owner'.terminated \in BOOLEAN
    BY <1>2, <1>4, TerminateNowKnows DEF HasChild
  <2> DEFINE r == [run EXCEPT !.terminated = owner'.terminated]
             s == [r EXCEPT !.step = "r"]
  <2>2. \/ run' = s /\ run.phase # "final"
        \/ run' = Aborted(r)
    BY <1>4
  <2>3. /\ r \in RunRecord /\ r.owned = run.owned /\ r.outcome = "none" /\ r.phase = run.phase
        /\ r.terminated = owner'.terminated /\ r.reaped = run.reaped
        /\ s \in RunRecord /\ s.owned = run.owned /\ s.outcome = "none" /\ s.phase = run.phase
        /\ s.terminated = owner'.terminated /\ s.reaped = run.reaped
    BY <1>2, <2>1 DEF RunRecord
  <2>4. run.owned /\ (run.reaped => Reaped') BY <1>2, <1>4, <2>1 DEF HasChild, Kept
  <2> HIDE DEF r, s
  <2>5. CASE run' = s /\ run.phase # "final" BY <1>1, <2>1, <2>3, <2>4, <2>5, CleanupMoves
  <2>6. CASE run' = Aborted(r) BY <1>1, <2>1, <2>3, <2>4, <2>6, CleanupMoves
  <2> QED BY <2>2, <2>5, <2>6
<1>5. CASE Struck /\ UNCHANGED <<platform, treeVars>> BY <1>1, <1>5, StruckKeeps DEF Struck, treeVars
<1> QED BY <1>3, <1>4, <1>5 DEF FinalTermination

LEMMA DirectReapKeeps ==
  ASSUME RunInv, DirectReap
  PROVE  RunInv'
<1>1. run.step = "r" /\ UNCHANGED flags BY DEF DirectReap
<1>2. run.phase \in CleanupPhases /\ run.phase # "ended"
  BY <1>1 DEF RunInv, RunKnows, CleanupPhases
<1>3. /\ run \in RunRecord /\ run.outcome = "none" /\ OwnerTypeOK /\ OwnerKnows
      /\ run.terminated => Calm
      /\ run.reaped => Reaped
      /\ ~run.owned => leader = "none"
  BY <1>2, RunGoesOn
<1>4. CASE /\ run.reaped \/ ~HasChild
           /\ LET r == [run EXCEPT !.reaped = TRUE] IN
                run' = IF run.phase = "reap" THEN PhaseOver(r) ELSE [r EXCEPT !.step = "c"]
           /\ UNCHANGED ownerVars
  <2>1. /\ OwnerTypeOK' /\ OwnerKnows' /\ stray' = stray /\ leader' = leader
        /\ Calm' = Calm /\ Reaped' = Reaped
    BY <1>2, <1>4, OwnerUntouched
  <2>2. Reaped BY <1>2, <1>3, <1>4, Childless
  <2> DEFINE r == [run EXCEPT !.reaped = TRUE]
             s == [r EXCEPT !.step = "c"]
  <2>3. \/ run' = PhaseOver(r)
        \/ run' = s
    BY <1>4
  <2>4. /\ r \in RunRecord /\ r.owned = run.owned /\ r.outcome = "none" /\ r.phase = run.phase
        /\ r.terminated = run.terminated
        /\ s \in RunRecord /\ s.owned = run.owned /\ s.outcome = "none" /\ s.phase = run.phase
        /\ s.terminated = run.terminated
    BY <1>3 DEF RunRecord
  <2> HIDE DEF r, s
  <2>5. CASE run' = PhaseOver(r) BY <1>1, <1>2, <1>3, <2>1, <2>2, <2>4, <2>5, CleanupMoves
  <2>6. CASE run' = s BY <1>1, <1>2, <1>3, <2>1, <2>2, <2>4, <2>6, CleanupMoves
  <2> QED BY <2>3, <2>5, <2>6
<1>5. CASE /\ HasChild /\ \E x \in BOOLEAN : Reap(x)
           /\ LET r == [run EXCEPT !.reaped = leader' = "reaped"] IN
                run' = IF run.phase # "reap" /\ r.reaped
                       THEN [r EXCEPT !.step = "c"] ELSE Aborted(r)
  <2>1. /\ OwnerTypeOK' /\ OwnerKnows' /\ Kept /\ stray' = stray
        /\ leader' = "reaped" => Reaped'
    BY <1>3, <1>5, ReapKnows
  <2> DEFINE b == leader' = "reaped"
             r == [run EXCEPT !.reaped = b]
             s == [r EXCEPT !.step = "c"]
  <2>2. \/ run' = s
        \/ run' = Aborted(r)
    BY <1>5
  <2>3. b \in BOOLEAN /\ (b => Reaped') BY <2>1
  <2> HIDE DEF b
  <2>4. /\ r \in RunRecord /\ r.owned = run.owned /\ r.outcome = "none" /\ r.phase = run.phase
        /\ r.terminated = run.terminated /\ r.reaped = b
        /\ s \in RunRecord /\ s.owned = run.owned /\ s.outcome = "none" /\ s.phase = run.phase
        /\ s.terminated = run.terminated /\ s.reaped = b
    BY <1>3, <2>3 DEF RunRecord
  <2>5. run.owned /\ (run.terminated => Calm') BY <1>3, <1>5, <2>1 DEF HasChild, Kept
  <2> HIDE DEF r, s
  <2>6. CASE run' = s BY <1>1, <1>2, <2>1, <2>3, <2>4, <2>5, <2>6, CleanupMoves
  <2>7. CASE run' = Aborted(r) BY <1>1, <1>2, <2>1, <2>3, <2>4, <2>5, <2>7, CleanupMoves
  <2> QED BY <2>2, <2>6, <2>7
<1>6. CASE HasChild /\ leader' \in {leader, "reaped"} /\ Struck /\ UNCHANGED <<platform, kin, stray>>
  BY <1>1, <1>2, <1>6, StruckKeeps DEF Struck
<1> QED BY <1>4, <1>5, <1>6 DEF DirectReap

LEMMA CleanupConfirmationKeeps ==
  ASSUME RunInv, CleanupConfirmation
  PROVE  RunInv'
<1>1. run.step = "c" /\ UNCHANGED flags BY DEF CleanupConfirmation
<1>2. run.phase \in CleanupPhases /\ run.phase # "ended"
  BY <1>1 DEF RunInv, RunKnows, CleanupPhases
<1>3. /\ run \in RunRecord /\ run.outcome = "none" /\ OwnerTypeOK /\ OwnerKnows
      /\ run.terminated => Calm
      /\ run.reaped => Reaped
      /\ ~run.owned => leader = "none"
  BY <1>2, RunGoesOn
<1>4. CASE Struck /\ UNCHANGED <<platform, treeVars>>
  BY <1>1, <1>2, <1>4, StruckKeeps DEF Struck, treeVars
<1>5. CASE /\ UNCHANGED ownerVars \/ \E x \in BOOLEAN : Confirm(TRUE, x)
           /\ \E b \in BOOLEAN : run' = Aborted([run EXCEPT !.confirmed = b])
  <2>1. /\ OwnerTypeOK' /\ OwnerKnows' /\ stray' = stray /\ leader' = leader
        /\ Calm => Calm'
        /\ Reaped => Reaped'
    <3>1. CASE UNCHANGED ownerVars BY <1>2, <3>1, OwnerUntouched
    <3>2. CASE \E x \in BOOLEAN : Confirm(TRUE, x)
      BY <1>3, <3>2, ConfirmKnows DEF Kept, treeVars
    <3> QED BY <1>5, <3>1, <3>2
  <2>2. PICK b \in BOOLEAN : run' = Aborted([run EXCEPT !.confirmed = b]) BY <1>5
  <2> DEFINE r == [run EXCEPT !.confirmed = b]
  <2>3. run' = Aborted(r) BY <2>2
  <2>4. /\ r \in RunRecord /\ r.owned = run.owned /\ r.outcome = "none" /\ r.phase = run.phase
        /\ r.terminated = run.terminated /\ r.reaped = run.reaped
    BY <1>3 DEF RunRecord
  <2> HIDE DEF r
  <2> QED BY <1>1, <1>2, <1>3, <2>1, <2>3, <2>4, CleanupMoves
<1>6. CASE ~run.confirmed /\ run.owned /\ \E x \in BOOLEAN : Confirm(TRUE, x)
             /\ run' = Aborted([run EXCEPT !.confirmed = owner'.confirmed])
  <2>1. owner'.confirmed \in BOOLEAN BY <1>3, <1>6, ConfirmKnows DEF OwnerTypeOK
  <2> QED BY <1>5, <1>6, <2>1
<1> QED BY <1>4, <1>5, <1>6 DEF CleanupConfirmation

LEMMA OwnerCloseKeeps ==
  ASSUME RunInv, OwnerClose \/ OwnerCloseRaises
  PROVE  RunInv'
<1>1. run.step = "x" /\ UNCHANGED flags BY DEF OwnerClose, OwnerCloseRaises, flags
<1>2. run.phase \in CleanupPhases /\ run.phase # "ended"
  BY <1>1 DEF RunInv, RunKnows, CleanupPhases
<1>3. /\ run \in RunRecord /\ run.outcome = "none" /\ OwnerTypeOK /\ OwnerKnows
      /\ run.terminated => Calm
      /\ run.reaped => Reaped
      /\ ~run.owned => leader = "none"
  BY <1>2, RunGoesOn
<1>4. CASE OwnerCloseRaises BY <1>1, <1>2, <1>4, StruckKeeps DEF OwnerCloseRaises, treeVars
<1>5. CASE OwnerClose
  <2>1. /\ OwnerTypeOK' /\ OwnerKnows' /\ Kept /\ stray' = stray /\ leader' = leader
    BY <1>3, <1>5, CloseBeginsKnows DEF OwnerClose, treeVars
  <2> DEFINE r == [run EXCEPT !.step = "w"]
  <2>2. run' = r BY <1>5 DEF OwnerClose
  <2>3. /\ r \in RunRecord /\ r.owned = run.owned /\ r.outcome = "none" /\ r.phase = run.phase
        /\ r.terminated = run.terminated /\ r.reaped = run.reaped
    BY <1>3 DEF RunRecord
  <2>4. (r.terminated => Calm') /\ (r.reaped => Reaped') /\ (~run.owned => leader' = "none")
    BY <1>3, <2>1, <2>3 DEF Kept
  <2> HIDE DEF r
  <2> QED BY <1>1, <1>2, <2>1, <2>2, <2>3, <2>4, CleanupMoves
<1> QED BY <1>4, <1>5

LEMMA OwnerClosedKeeps ==
  ASSUME RunInv, OwnerClosed
  PROVE  RunInv'
<1>1. run.step = "w" /\ UNCHANGED flags BY DEF OwnerClosed
<1>2. run.phase \in CleanupPhases /\ run.phase # "ended"
  BY <1>1 DEF RunInv, RunKnows, CleanupPhases
<1>3. /\ run \in RunRecord /\ run.outcome = "none" /\ OwnerTypeOK /\ OwnerKnows
      /\ run.terminated => Calm
      /\ run.reaped => Reaped
      /\ ~run.owned => leader = "none"
  BY <1>2, RunGoesOn
<1>4. CASE /\ HasChild /\ \E x \in BOOLEAN : Reap(x)
           /\ run' = PhaseOver([run EXCEPT !.reaped = leader' = "reaped"])
  <2>1. /\ OwnerTypeOK' /\ OwnerKnows' /\ Kept /\ stray' = stray
        /\ leader' = "reaped" => Reaped'
    BY <1>3, <1>4, ReapKnows
  <2> DEFINE b == leader' = "reaped"
             r == [run EXCEPT !.reaped = b]
  <2>2. run' = PhaseOver(r) BY <1>4
  <2>3. b \in BOOLEAN /\ (b => Reaped') BY <2>1
  <2> HIDE DEF b
  <2>4. /\ r \in RunRecord /\ r.owned = run.owned /\ r.outcome = "none" /\ r.phase = run.phase
        /\ r.terminated = run.terminated /\ r.reaped = b
    BY <1>3, <2>3 DEF RunRecord
  <2>5. run.owned /\ (run.terminated => Calm') BY <1>3, <1>4, <2>1 DEF HasChild, Kept
  <2> HIDE DEF r
  <2> QED BY <1>1, <1>2, <2>1, <2>2, <2>3, <2>4, <2>5, CleanupMoves
<1>5. CASE UNCHANGED ownerVars /\ run' = PhaseOver(run)
  <2>1. /\ OwnerTypeOK' /\ OwnerKnows' /\ stray' = stray /\ leader' = leader
        /\ Calm' = Calm /\ Reaped' = Reaped
    BY <1>2, <1>5, OwnerUntouched
  <2> QED BY <1>1, <1>2, <1>3, <1>5, <2>1, CleanupMoves
<1> QED BY <1>4, <1>5 DEF OwnerClosed

\* What the caller is told
LEMMA OutcomesAreTrue ==
  ASSUME RunInv, run.phase = "outcome"
  PROVE  LET o == IF run.error # "none" THEN RaisedOutcome
                  ELSE IF run.stopped THEN StoppedOutcome ELSE ResultOutcome
         IN  /\ o \in {"stopped", "quiet", "unquiet", "error", "debt"}
             /\ o \in {"quiet", "stopped", "error"} => TreeQuiet
<1>1. /\ run.terminated => Calm
      /\ run.reaped => Reaped
      /\ ~run.owned => leader = "none"
      /\ OwnerKnows
  BY RunGoesOn
<1>2. leader = "none" => TreeQuiet BY <1>1 DEF OwnerKnows, TreeQuiet
<1>3. run.owned /\ ~Unproven => TreeQuiet BY <1>1, QuietIsReapedAndCalm DEF Unproven
<1>4. RaisedOutcome \in {"error", "debt"} /\ (RaisedOutcome = "error" => TreeQuiet)
  BY <1>1, <1>2, <1>3 DEF RaisedOutcome, NoChildOwnerQuiet
<1>5. StoppedOutcome \in {"debt", "stopped"} /\ (StoppedOutcome = "stopped" => TreeQuiet)
  BY <1>1, <1>2, <1>3 DEF StoppedOutcome
<1>6. ResultOutcome \in {"unquiet", "quiet"} /\ (ResultOutcome = "quiet" => TreeQuiet)
  BY <1>1, <1>2, <1>3 DEF ResultOutcome
<1> QED BY <1>4, <1>5, <1>6

LEMMA RunOutcomeKeeps ==
  ASSUME RunInv, RunOutcome
  PROVE  RunInv'
<1> DEFINE o == IF run.error # "none" THEN RaisedOutcome
                ELSE IF run.stopped THEN StoppedOutcome ELSE ResultOutcome
           t == run.timedOut \/ (owner.failed /\ ~run.cancelled)
<1>1. /\ run.phase = "outcome" /\ UNCHANGED <<ownerVars, flags>>
      /\ run' = [run EXCEPT !.phase = "ended", !.timedOut = t, !.outcome = o]
  BY DEF RunOutcome
<1>2. /\ run \in RunRecord /\ OwnerTypeOK
      /\ run.terminated => Calm
      /\ run.reaped => Reaped
      /\ ~run.owned => leader = "none"
      /\ run.step = "t"
  BY <1>1, RunGoesOn DEF CleanupPhases
<1>3. o \in {"stopped", "quiet", "unquiet", "error", "debt"} /\ t \in BOOLEAN
  BY <1>1, <1>2, OutcomesAreTrue DEF RunRecord, OwnerTypeOK
<1>4. o \in {"quiet", "stopped", "error"} => TreeQuiet BY <1>1, OutcomesAreTrue
<1>5. /\ OwnerTypeOK' /\ OwnerKnows' /\ stray' = stray /\ leader' = leader
      /\ Calm' = Calm /\ Reaped' = Reaped /\ (TreeQuiet' <=> TreeQuiet)
  BY <1>1, OwnerUntouched, QuietIsReapedAndCalm DEF ownerVars, treeVars, TreeQuiet
<1> HIDE DEF o, t
<1>6. /\ run' \in RunRecord /\ run'.phase = "ended" /\ run'.step = "t" /\ run'.outcome = o
      /\ run'.terminated = run.terminated /\ run'.reaped = run.reaped
      /\ run'.owned = run.owned
  BY <1>1, <1>2, <1>3 DEF RunRecord, Phases
<1>7. RunTypeOK' BY <1>1, <1>5, <1>6, RunIs DEF RunTypeOK, RunRecord, flags
<1>8. RunKnows' BY <1>2, <1>3, <1>5, <1>6 DEF RunKnows
<1>9. ~stray' /\ BoundaryIsQuiet' BY <1>4, <1>5, <1>6 DEF RunInv, BoundaryIsQuiet
<1> QED BY <1>5, <1>7, <1>8, <1>9 DEF RunInv

\* The tree, the deadline and the cancellation
LEMMA RunSurroundingsKeep ==
  ASSUME RunInv, RunEnvironment \/ StopRequested \/ UNCHANGED runVars
  PROVE  RunInv'
<1>1. UNCHANGED run /\ overdue' \in BOOLEAN /\ cancelled' \in BOOLEAN
  BY RunIs DEF RunEnvironment, StopRequested, runVars, flags
<1>2. /\ OwnerTypeOK' /\ OwnerKnows' /\ Kept /\ stray' = stray
      /\ leader = "none" => leader' = "none"
      /\ Unstarted => Unstarted'
  <2>1. OwnerTypeOK /\ OwnerKnows BY DEF RunInv, RunTypeOK
  <2>2. CASE TreeRuns \/ TreeDying
    <3>1. leader = "none" => leader' = "none" BY <2>2 DEF TreeRuns, TreeDying
    <3> QED BY <2>1, <2>2, <3>1, TreeMoves DEF Unstarted
  <2>3. CASE CloseWorker
    <3>1. ~Unstarted BY <2>3 DEF Unstarted, NewOwner, CloseWorker
    <3>2. leader = "none" => leader' = "none" BY <2>3 DEF CloseWorker, Doomed
    <3> QED BY <2>1, <2>3, <3>1, <3>2, CloseWorkerKnows
  <2>4. CASE UNCHANGED ownerVars
    <3>1. StrikesKept BY <2>1, <2>4, StrikeKept DEF ownerVars, NoStrike
    <3> QED BY <2>1, <2>4, <3>1, TreeKept, OwnerTypesKept DEF ownerVars, treeVars, Unstarted
  <2> QED BY <2>2, <2>3, <2>4 DEF RunEnvironment, StopRequested, runVars
<1>3. RunTypeOK' BY <1>1, <1>2, RunIs DEF RunTypeOK, RunRecord
<1>4. RunKnows' BY <1>1, <1>2 DEF RunInv, RunKnows, Kept
<1>5. BoundaryIsQuiet' /\ ~stray'
  <2>1. TreeQuiet => TreeQuiet' BY <1>2 DEF Kept, TreeQuiet, Reaped, Calm
  <2> QED BY <1>1, <1>2, <2>1 DEF RunInv, BoundaryIsQuiet
<1> QED BY <1>2, <1>3, <1>4, <1>5 DEF RunInv

\* All that happens to a run keeps what is known of it.
LEMMA RunStep ==
  ASSUME RunInv, [RunNext]_runVars
  PROVE  RunInv'
BY RunSurroundingsKeep, StageStdinKeeps, StartChildKeeps, MonitorKeeps, FinalTerminationKeeps,
   DirectReapKeeps, CleanupConfirmationKeeps, OwnerCloseKeeps, OwnerClosedKeeps, RunOutcomeKeeps
   DEF RunNext

LEMMA RunStarts ==
  ASSUME RunInit
  PROVE  RunInv
<1>1. OwnerTypeOK /\ OwnerKnows /\ ~stray /\ Unstarted BY OwnerStarts DEF RunInit
<1>2. /\ run \in RunRecord /\ overdue \in BOOLEAN /\ cancelled \in BOOLEAN
  BY DEF RunInit, RunRecord, Phases
<1>3. /\ run.step = "t" /\ ~run.owned /\ ~run.terminated /\ ~run.reaped
      /\ \/ run.phase = "ended" /\ run.outcome = "stopped"
         \/ run.phase = "stage" /\ run.outcome = "none"
  BY DEF RunInit
<1>4. TreeQuiet /\ leader = "none" BY <1>1 DEF Unstarted, OwnerKnows, TreeQuiet
<1>5. RunTypeOK BY <1>1, <1>2 DEF RunTypeOK, RunRecord
<1>6. RunKnows BY <1>1, <1>3, <1>4 DEF RunKnows
<1> QED BY <1>1, <1>3, <1>4, <1>5, <1>6 DEF RunInv, BoundaryIsQuiet

-----------------------------------------------------------------------------
\* Theorems about each of the two.
\* Whatever anybody calls complete of a supervised tree is: its child is reaped
\* or never was, and nobody of its group or job can run any more; a thread that
\* proved a part of this proved what is so; and no lease loses its cleanup.
THEOREM TreeInvariant == SupervisedSpec => []TreeInv
<1>1. SupervisedInit => TreeInv BY TreeStarts
<1>2. TreeInv /\ [SupervisedNext]_supervisedVars => TreeInv' BY TreeStep
<1> QED BY <1>1, <1>2, PTL DEF SupervisedSpec

\* What run_supervised_process calls quiet, a stop and an exception without
\* cleanup debt mean that nobody of the tree can run any more, and it never
\* signals a process id whose process was reaped.
THEOREM RunInvariant == RunSpec => []RunInv
<1>1. RunInit => RunInv BY RunStarts
<1>2. RunInv /\ [RunNext]_runVars => RunInv' BY RunStep
<1> QED BY <1>1, <1>2, PTL DEF RunSpec

-----------------------------------------------------------------------------
\* The two together
LEMMA SupervisionStarts ==
  ASSUME MCInit
  PROVE  SupervisionInv
<1>1. RunInv BY RunStarts DEF MCInit
<1>2. RunTypeOK BY <1>1 DEF RunInv
<1>3. CASE subject = "tree" /\ SupervisedInit /\ ~cancelled
  <2>1. run.outcome = "none" /\ run.phase = "stage" BY <1>3 DEF MCInit, RunInit
  <2>2. TreeInv BY <1>3, TreeStarts
  <2>3. SupervisedTypeOK BY <2>2
  <2> QED BY <1>2, <1>3, <2>1, <2>2, <2>3 DEF SupervisionInv, SupervisionTypeOK
<1>4. CASE subject = "run" /\ SupervisedFrom("ended")
  <2>1. /\ SupervisedTypeOK
        /\ caller.outcome = "none" /\ deferred = Undone /\ ~spawn.finished
        /\ \A e \in Threads : ladder[e] = Resting
        /\ \A w \in Waiters : waiter[w].at = "idle"
    BY <1>4, SupervisedStarts
  <2>2. ~deferred.finished /\ ~deferred.complete BY <2>1 DEF Undone
  <2>3. \A e \in Threads : At(e, "rest") BY <2>1 DEF At, Resting
  <2>4. Idle BY <2>1, <2>2, <2>3 DEF Idle
  <2> QED BY <1>1, <1>2, <1>4, <2>1, <2>4 DEF SupervisionInv, SupervisionTypeOK
<1> QED BY <1>3, <1>4 DEF MCInit

LEMMA TreeSubjectKeeps ==
  ASSUME SupervisionInv, subject = "tree", [SupervisedNext]_supervisedVars,
         UNCHANGED <<subject, runState>>
  PROVE  SupervisionInv'
<1>1. TreeInv /\ RunTypeOK /\ run.outcome = "none" /\ run.phase = "stage"
  BY DEF SupervisionInv, SupervisionTypeOK
<1>2. TreeInv' BY <1>1, TreeStep
<1>3. SupervisedTypeOK' /\ OwnerTypeOK' BY <1>2 DEF SupervisedTypeOK
<1>4. subject' = "tree" /\ UNCHANGED <<overdue, cancelled, run>> BY DEF runState
<1>5. RunTypeOK' BY <1>1, <1>3, <1>4 DEF RunTypeOK
<1>6. run'.outcome = "none" /\ run'.phase = "stage" BY <1>1, <1>4
<1> QED BY <1>2, <1>3, <1>4, <1>5, <1>6 DEF SupervisionInv, SupervisionTypeOK

LEMMA RunSubjectKeeps ==
  ASSUME SupervisionInv, subject = "run", [RunNext]_runVars,
         UNCHANGED <<subject, treeState>>
  PROVE  SupervisionInv'
<1>1. RunInv /\ Idle /\ SupervisedTypeOK BY DEF SupervisionInv, SupervisionTypeOK
<1>2. RunInv' BY <1>1, RunStep
<1>3. RunTypeOK' /\ OwnerTypeOK' BY <1>2 DEF RunInv, RunTypeOK
<1>4. /\ subject' = "run"
      /\ UNCHANGED <<client, late, spawn, spawner, caller, ladder, deferred, waiter>>
  BY DEF treeState
<1>5. SupervisedTypeOK' BY <1>1, <1>3, <1>4 DEF SupervisedTypeOK
<1>6. Idle' BY <1>1, <1>4 DEF Idle, At
<1> QED BY <1>2, <1>3, <1>4, <1>5, <1>6 DEF SupervisionInv, SupervisionTypeOK

\* The invariant of the composition: who a behaviour is not about is as at the
\* start, whatever happens to the tree.
THEOREM SupervisionInvariant == SupervisionSpec => []SupervisionInv
<1>1. MCInit => SupervisionInv BY SupervisionStarts
<1>2. SupervisionInv /\ [MCNext]_vars => SupervisionInv'
  <2> SUFFICES ASSUME SupervisionInv, [MCNext]_vars
               PROVE  SupervisionInv'
    OBVIOUS
  <2>1. CASE subject = "tree" /\ SupervisedNext /\ UNCHANGED <<subject, runState>>
    BY <2>1, TreeSubjectKeeps
  <2>2. CASE subject = "run" /\ RunNext /\ UNCHANGED <<subject, treeState>>
    BY <2>2, RunSubjectKeeps
  <2>3. CASE UNCHANGED vars
    <3>1. /\ UNCHANGED supervisedVars /\ UNCHANGED runVars
          /\ UNCHANGED <<subject, runState>> /\ UNCHANGED <<subject, treeState>>
      BY <2>3 DEF vars, treeState, runState, supervisedVars, runVars
    <3>2. subject = "tree" \/ subject = "run" BY DEF SupervisionInv
    <3> QED BY <3>1, <3>2, TreeSubjectKeeps, RunSubjectKeeps
  <2> QED BY <2>1, <2>2, <2>3 DEF MCNext
<1> QED BY <1>1, <1>2, PTL DEF SupervisionSpec

\* Every variable keeps its type; in particular the workers that were launched for
\* a deferred cleanup are never more than two for each launch that can happen.
THEOREM SupervisionTypes == SupervisionSpec => []SupervisionTypeOK
<1>1. SupervisionInv => SupervisionTypeOK BY DEF SupervisionInv
<1> QED BY <1>1, SupervisionInvariant, PTL

\* A cleanup has one owner at a time and is never dropped, through every hand-over,
\* launch that fails and interruption, for any number of threads that wait for it.
THEOREM CleanupHasOneOwner == SupervisionSpec => []OneCleaner
<1>1. SupervisionInv => OneCleaner
  <2>1. ASSUME Idle PROVE OneCleaner
    <3>1. Cleaning = {} BY <2>1 DEF Idle, Cleaning
    <3>2. Cardinality(Cleaning) <= 1 BY <3>1, FS_EmptySet
    <3> QED BY <2>1, <3>1, <3>2 DEF Idle, OneCleaner
  <2> QED BY <2>1, CleanersAreOne DEF SupervisionInv
<1> QED BY <1>1, SupervisionInvariant, PTL

\* Both kinds of supervision say that a tree is gone only when it is, whatever call
\* fails, wherever the caller is interrupted and whenever the tree forks or ends.
THEOREM GoneMeansGone == SupervisionSpec => []GoneIsTrue
<1>1. SupervisionInv => GoneIsTrue
  <2>1. ASSUME TreeInv, run.outcome = "none", run.phase = "stage" PROVE GoneIsTrue
    BY <2>1 DEF GoneIsTrue, BoundaryIsQuiet
  <2>2. ASSUME RunInv, Idle PROVE GoneIsTrue
    BY <2>2 DEF RunInv, Idle, GoneIsTrue, CompleteMeansQuiet, SpawnQuiet
  <2> QED BY <2>1, <2>2 DEF SupervisionInv
<1> QED BY <1>1, SupervisionInvariant, PTL
=============================================================================
