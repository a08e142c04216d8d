------------------------------- MODULE JobQueue -------------------------------
(***************************************************************************)
(* GFJobQueueUtility with its run_next_job() and one GFJobWorker (addons/  *)
(* gf/standard/utilities/jobs/): jobs wait in a queue, are started, and    *)
(* end completed, failed or cancelled; the books say which job an id means *)
(* and keep the last ones that ended.                                      *)
(*                                                                         *)
(* All of it is one thread, but every signal and every processor is a call *)
(* out, from which any of these operations may be entered again.  `stack'  *)
(* holds the operations that have something left to do when the call out   *)
(* returns; the others end with their signal, so that what its handlers do *)
(* is what the caller might do next.                                       *)
(*                                                                         *)
(* Abstracted: several queues, payloads, progress, the batches of the      *)
(* worker, the signals nobody has to wait for, and pausing, which only     *)
(* keeps jobs from being started, as nobody starting one does.             *)
(***************************************************************************)
EXTENDS Integers, Sequences, FiniteSets, SequencesExt

CONSTANTS
  MaxJobs,       \* bound of the model: so many jobs are ever enqueued
  HistoryLimit,  \* max_completed_jobs, max_failed_jobs, max_cancelled_jobs
  MaxNested,     \* bound of the model: operations on the stack
  MaxClears      \* bound of the model: calls of clear_all

ASSUME JobQueueAssumption == {MaxJobs, HistoryLimit, MaxNested, MaxClears} \subseteq Nat

VARIABLES
  tasks,    \* the GFJob objects: id and status; was the job dropped unfinished?
  books,    \* _job_serial, _jobs, the waiting queue, the histories
  stack,    \* operations that are waiting for a handler or a processor
  consumer  \* the GFJobWorker, in process_next_job()

jobVars == <<tasks, books, stack, consumer>>

Jobs == 1 .. MaxJobs
Nothing == 0

Ends == {"COMPLETED", "FAILED", "CANCELLED"}
JobStatuses == {"unborn", "WAITING", "ACTIVE"} \cup Ends

FrameKinds == {"clearQueue", "clearAll", "runStarted", "runProcessing",
               "workStarted", "workProcessing", "workDone"}

NoBooks == [serial |-> 0, index |-> [i \in Jobs |-> Nothing], queue |-> <<>>,
            history |-> [s \in Ends |-> <<>>], cleared |-> 0]
AtRest == [busy |-> FALSE, waitsFor |-> Nothing, signalled |-> FALSE, cancelled |-> FALSE]

JobsInit ==
  /\ tasks = [j \in Jobs |-> [id |-> Nothing, status |-> "unborn", dropped |-> FALSE]]
  /\ books = NoBooks /\ stack = <<>> /\ consumer = AtRest

JobsTypeOK ==
  /\ tasks \in [Jobs -> [id : 0 .. MaxJobs, status : JobStatuses, dropped : BOOLEAN]]
  /\ books \in [serial : 0 .. MaxJobs, index : [Jobs -> 0 .. MaxJobs], queue : Seq(Jobs),
                history : [Ends -> Seq(Jobs)], cleared : Nat]
  /\ stack \in Seq([kind : FrameKinds, job : 0 .. MaxJobs, rest : Seq(Jobs),
                    cleared : Nat, open : BOOLEAN])
  /\ consumer \in [busy : BOOLEAN, waitsFor : 0 .. MaxJobs,
                   signalled : BOOLEAN, cancelled : BOOLEAN]

-----------------------------------------------------------------------------
Top == stack[Len(stack)]
Below == SubSeq(stack, 1, Len(stack) - 1)
OnTop(kind) == stack # <<>> /\ Top.kind = kind

\* User code runs: outside of everything, in a handler or in a processor.
UserCode == stack # <<>> => Top.open

Frame(kind, j, rest, open) ==
  [kind |-> kind, job |-> j, rest |-> rest, cleared |-> books.cleared, open |-> open]
Push(frame) == Len(stack) < MaxNested /\ stack' = Append(stack, frame)

HasEnded(j) == tasks[j].status \in Ends
\* is_finished() and get_job(job.job_id) # job, as run_next_job asks
StillOurs(j) == tasks[j].status = "ACTIVE" /\ books.index[tasks[j].id] = j

-----------------------------------------------------------------------------
\* enqueue
Enqueue(front) ==
  /\ UserCode /\ books.serial < MaxJobs
  /\ \E j \in Jobs :
       /\ tasks[j].status = "unborn"
       /\ \A earlier \in 1 .. j - 1 : tasks[earlier].status # "unborn"
       /\ tasks' = [tasks EXCEPT ![j].id = books.serial + 1, ![j].status = "WAITING"]
       /\ books' = [books EXCEPT
            !.serial = @ + 1, !.index[books.serial + 1] = j,
            !.queue = IF front THEN <<j>> \o @ ELSE Append(@, j)]
  /\ UNCHANGED <<stack, consumer>>

\* The history of one end, and the ids that leave the books with its oldest jobs.
Trimmed(line) == SubSeq(line, Len(line) - HistoryLimit + 1, Len(line))

FaultEnded(b, j, status) ==
  LET line == Append(b.history[status], j)
      gone == IF Len(line) > HistoryLimit THEN tasks[Head(line)].id ELSE Nothing
  IN  [b EXCEPT !.history[status] = IF gone = Nothing THEN line ELSE Trimmed(line),
                !.index = [i \in Jobs |-> IF i = gone THEN Nothing ELSE @[i]]]

Ended(b, j, status) ==
  LET line == Append(b.history[status], j)
      gone == IF Len(line) > HistoryLimit THEN tasks[Head(line)].id ELSE Nothing
  IN  [b EXCEPT !.queue = RemoveFirst(@, j),
                !.history[status] = IF gone = Nothing THEN line ELSE Trimmed(line),
                !.index = [i \in Jobs |-> IF i = gone THEN Nothing ELSE @[i]]]

\* complete_job, fail_job and cancel_job: they look the id up.
Means(id) == IF id = Nothing THEN Nothing ELSE books.index[id]
Endable(id) == Means(id) # Nothing /\ ~HasEnded(Means(id))

EndJob(id, status) ==
  IF Endable(id)
  THEN /\ tasks' = [tasks EXCEPT ![Means(id)].status = status]
       /\ books' = Ended(books, Means(id), status)
  ELSE UNCHANGED <<tasks, books>>

UserEndsJob(id, status) ==
  /\ UserCode /\ Endable(id) /\ EndJob(id, status)
  /\ UNCHANGED <<stack, consumer>>

-----------------------------------------------------------------------------
\* start_next_job passes over what no longer waits.
Waiting(n) == tasks[books.queue[n]].status = "WAITING"

StartJob(j) ==
  /\ \E n \in DOMAIN books.queue :
       /\ Waiting(n) /\ \A m \in 1 .. n - 1 : ~Waiting(m)
       /\ j = books.queue[n]
       /\ books' = [books EXCEPT !.queue = SubSeq(@, n + 1, Len(@))]
  /\ tasks' = [tasks EXCEPT ![j].status = "ACTIVE"]

UserStartsJob ==
  /\ UserCode /\ \E j \in Jobs : StartJob(j)
  /\ UNCHANGED <<stack, consumer>>

\* run_next_job: started, its processor called, ended by what that returned.
RunBegins ==
  /\ UserCode
  /\ \E j \in Jobs : StartJob(j) /\ Push(Frame("runStarted", j, <<>>, TRUE))
  /\ UNCHANGED consumer

RunProcesses ==
  /\ OnTop("runStarted")
  /\ stack' = IF StillOurs(Top.job)
              THEN Append(Below, [Top EXCEPT !.kind = "runProcessing"]) ELSE Below
  /\ UNCHANGED <<tasks, books, consumer>>

\* What the processor returned ends whatever its id means by then.
FaultRunReturns ==
  /\ OnTop("runProcessing")
  /\ stack' = Below
  /\ \E status \in {"COMPLETED", "FAILED"} : EndJob(tasks[Top.job].id, status)
  /\ UNCHANGED consumer

RunReturns ==
  /\ OnTop("runProcessing")
  /\ stack' = Below
  /\ IF StillOurs(Top.job)
     THEN \E status \in {"COMPLETED", "FAILED"} : EndJob(tasks[Top.job].id, status)
     ELSE UNCHANGED <<tasks, books>>
  /\ UNCHANGED consumer

-----------------------------------------------------------------------------
\* clear_queue: cancels a copy of what waits, then empties the array it began with,
\* which clear_all may have put out of use meanwhile.
Drop(gone) == [j \in Jobs |-> [tasks[j] EXCEPT !.dropped = @ \/ (j \in gone /\ ~HasEnded(j))]]

ClearQueueBegins ==
  /\ UserCode
  /\ Push(Frame("clearQueue", Nothing, books.queue, FALSE))
  /\ UNCHANGED <<tasks, books, consumer>>

\* clear_queue without cancelling
QueueIsErased ==
  /\ UserCode
  /\ tasks' = Drop(Range(books.queue))
  /\ books' = [books EXCEPT !.queue = <<>>,
                            !.index = [i \in Jobs |-> IF @[i] \in Range(books.queue)
                                                      THEN Nothing ELSE @[i]]]
  /\ UNCHANGED <<stack, consumer>>

\* One cancellation of clear_queue or clear_all; it calls out if it had an effect.
OneIsCleared ==
  /\ OnTop("clearQueue") \/ OnTop("clearAll")
  /\ Top.rest # <<>>
  /\ LET j == Head(Top.rest)
         due == Top.kind = "clearQueue" \/ ~HasEnded(j)
     IN  /\ IF due THEN EndJob(tasks[j].id, "CANCELLED") ELSE UNCHANGED <<tasks, books>>
         /\ stack' = Append(Below, [Top EXCEPT !.rest = Tail(@),
                                               !.open = due /\ Endable(tasks[j].id)])
  /\ UNCHANGED consumer

ClearQueueEnds ==
  /\ OnTop("clearQueue") /\ Top.rest = <<>>
  /\ stack' = Below
  /\ IF Top.cleared = books.cleared
     THEN tasks' = Drop(Range(books.queue)) /\ books' = [books EXCEPT !.queue = <<>>]
     ELSE UNCHANGED <<tasks, books>>
  /\ UNCHANGED consumer

Known == Range(books.index) \ {Nothing}

\* clear_all, in the order of _jobs, which is that of creation
ClearAllBegins ==
  /\ UserCode /\ books.cleared < MaxClears
  /\ \E line \in [1 .. Cardinality(Known) -> Known] :
       /\ \A m, n \in DOMAIN line : m < n => line[m] < line[n]
       /\ Push(Frame("clearAll", Nothing, line, FALSE))
  /\ UNCHANGED <<tasks, books, consumer>>

ClearAllEnds ==
  /\ OnTop("clearAll") /\ Top.rest = <<>>
  /\ stack' = Below
  /\ tasks' = Drop(Known)
  /\ books' = [NoBooks EXCEPT !.cleared = books.cleared + 1]
  /\ UNCHANGED consumer

-----------------------------------------------------------------------------
(***************************************************************************)
(* GFJobWorker.process_next_job, with a processor that returns a value or  *)
(* a signal to wait for.                                                   *)
(***************************************************************************)
WorkBegins ==
  /\ UserCode /\ ~consumer.busy
  /\ \E j \in Jobs : StartJob(j) /\ Push(Frame("workStarted", j, <<>>, TRUE))
  /\ consumer' = [AtRest EXCEPT !.busy = TRUE]

WorkProcesses ==
  /\ OnTop("workStarted")
  /\ IF StillOurs(Top.job)
     THEN /\ stack' = Append(Below, [Top EXCEPT !.kind = "workProcessing"])
          /\ UNCHANGED consumer
     ELSE stack' = Below /\ consumer' = AtRest
  /\ UNCHANGED <<tasks, books>>

\* _apply_processor_result, then job_processed
Apply(j) ==
  IF HasEnded(j) THEN UNCHANGED <<tasks, books>>
  ELSE \E status \in {"COMPLETED", "FAILED"} : EndJob(tasks[j].id, status)

WorkReturns ==
  /\ OnTop("workProcessing")
  /\ Apply(Top.job)
  /\ stack' = Append(Below, [Top EXCEPT !.kind = "workDone"])
  /\ UNCHANGED consumer

WorkAwaits ==
  /\ OnTop("workProcessing")
  /\ stack' = Below
  /\ consumer' = [consumer EXCEPT !.waitsFor = Top.job]
  /\ UNCHANGED <<tasks, books>>

\* The signal is emitted, or stop() or _exit_tree() cancels the wait.
WaitIsSettled ==
  /\ UserCode /\ consumer.waitsFor # Nothing
  /\ \/ consumer' = [consumer EXCEPT !.signalled = TRUE]
     \/ consumer' = [consumer EXCEPT !.cancelled = TRUE]
  /\ UNCHANGED <<tasks, books, stack>>

\* A frame later _await_processor_signal_result has returned.  Its order: the signal,
\* the token, should_continue (nothing is written to a job that ended), the timeout.
WaitReturns ==
  /\ stack = <<>> /\ consumer.waitsFor # Nothing
  /\ LET j == consumer.waitsFor
     IN  /\ CASE HasEnded(j) -> UNCHANGED <<tasks, books>>
              [] ~HasEnded(j) /\ consumer.signalled -> Apply(j)
              [] ~HasEnded(j) /\ ~consumer.signalled /\ consumer.cancelled ->
                   EndJob(tasks[j].id, "CANCELLED")
              [] OTHER -> EndJob(tasks[j].id, "FAILED")
         /\ stack' = <<Frame("workDone", j, <<>>, TRUE)>>
  /\ consumer' = [AtRest EXCEPT !.busy = TRUE]

WorkEnds ==
  /\ OnTop("workDone")
  /\ stack' = Below /\ consumer' = AtRest
  /\ UNCHANGED <<tasks, books>>

-----------------------------------------------------------------------------
JobsNext ==
  \/ \E front \in BOOLEAN : Enqueue(front)
  \/ \E id \in Jobs, status \in Ends : UserEndsJob(id, status)
  \/ UserStartsJob \/ RunBegins \/ RunProcesses \/ RunReturns
  \/ ClearQueueBegins \/ QueueIsErased \/ OneIsCleared \/ ClearQueueEnds
  \/ ClearAllBegins \/ ClearAllEnds
  \/ WorkBegins \/ WorkProcesses \/ WorkReturns \/ WorkAwaits \/ WaitIsSettled
  \/ WaitReturns \/ WorkEnds

JobsSpec == JobsInit /\ [][JobsNext]_jobVars

-----------------------------------------------------------------------------
\* Whatever handlers do in the middle of an operation, the books are right: what is
\* in the queue waits there once and is known by its id; a job that has not ended is
\* known, and in the queue while it waits, unless a clear took it away without
\* cancelling it (clear_queue and clear_all so treat what a handler enqueues in
\* their middle); and a history holds the last jobs that ended in its way.
JobsAccounted ==
  /\ IsInjective(books.queue)
  /\ \A j \in Range(books.queue) :
       tasks[j].status = "WAITING" /\ books.index[tasks[j].id] = j
  /\ \A j \in Jobs :
       tasks[j].status \in {"WAITING", "ACTIVE"} /\ ~tasks[j].dropped =>
         /\ books.index[tasks[j].id] = j
         /\ tasks[j].status = "WAITING" => j \in Range(books.queue)
  /\ \A status \in Ends :
       LET line == books.history[status]
       IN  /\ Len(line) <= HistoryLimit /\ IsInjective(line)
           /\ \A j \in Range(line) :
                tasks[j].status = status /\ books.index[tasks[j].id] = j

\* A job ends once.  And what a processor returned ends the job it was given or
\* none, also when its id means another one by then; GFJobWorker, which does not
\* look at the id again, only unless that job was dropped.
OwnResult(j) ==
  \A i \in Jobs \ {j} : tasks'[i] = tasks[i]

ResultsAreOwn ==
  [][/\ \A j \in Jobs : HasEnded(j) => tasks'[j].status = tasks[j].status
     /\ RunReturns => OwnResult(Top.job)
     /\ WorkReturns /\ ~tasks[Top.job].dropped => OwnResult(Top.job)
     /\ WaitReturns /\ ~tasks[consumer.waitsFor].dropped => OwnResult(consumer.waitsFor)]_jobVars
=============================================================================
