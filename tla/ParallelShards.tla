---------------------------- MODULE ParallelShards ----------------------------
(***************************************************************************)
(* run_parallel_shards (src/tools/gf_parallel_validation.py): the shards   *)
(* of a roster run on a pool of threads, at most pool.limit of them are in *)
(* flight, and a shared cancellation stops what has not started: the       *)
(* deadline passed, a shard failed under fail-fast, or the caller was      *)
(* interrupted.  The caller's thread and the workers interleave.           *)
(***************************************************************************)
EXTENDS Integers, Sequences, FiniteSets, SequencesExt

VARIABLES
  pool,  \* the locals of run_parallel_shards and its _CancellationState
  lane,  \* per shard: its future, its result, its processes, its workspace
  late   \* the deadline has passed

poolVars == <<pool, lane, late>>

\* The lanes of the full suite in their order, and the two probes that run first.
Plan == <<"framework-static", "framework-integration", "framework-gut", "framework-lsp">>
Probes == {"a", "b"}
Shards == Range(Plan)
Lanes == Shards \cup Probes

Result(ran, ok, quiet) == [ran |-> ran, ok |-> ok, quiet |-> quiet]
NotStarted == Result(FALSE, FALSE, TRUE)

\* A process that was started; a command that could not be; any other exception
\* of the supervisor, which proves nothing.
WorkerResults ==
  [ran : {TRUE}, ok : BOOLEAN, quiet : BOOLEAN]
    \cup {NotStarted, Result(FALSE, FALSE, FALSE)}

NoPool == [at |-> "off", roster |-> <<>>, limit |-> 1, failFast |-> FALSE,
           next |-> 1, flight |-> {}, done |-> {}, cancelled |-> FALSE]

ParallelShardsInit ==
  /\ pool = NoPool /\ late = FALSE
  /\ lane = [i \in Lanes |->
       [future |-> "none", out |-> NotStarted, runs |-> 0, alive |-> FALSE,
        tree |-> "none", reports |-> 0, logs |-> FALSE]]

ParallelShardsTypeOK ==
  /\ pool.at \in {"off", "submit", "wait", "take", "over", "unwind", "raised"}
  /\ pool.next \in 1 .. Len(Plan) + 1 /\ pool.limit \in 1 .. Len(Plan)
  /\ pool.flight \cup pool.done \subseteq Range(pool.roster)
  /\ {pool.failFast, pool.cancelled, late} \subseteq BOOLEAN
  /\ \A i \in Lanes :
       /\ lane[i].future \in {"none", "queued", "running", "finished", "cancelled"}
       /\ lane[i].out \in WorkerResults
       /\ lane[i].runs \in 0 .. 1 /\ lane[i].reports \in 0 .. 1
       /\ {lane[i].alive, lane[i].logs} \subseteq BOOLEAN
       /\ lane[i].tree \in {"none", "present", "removed"}

-----------------------------------------------------------------------------
(***************************************************************************)
(* _run_parallel_shard, on a thread of the pool.                           *)
(***************************************************************************)
ShardSkipped(i) ==
  /\ lane[i].future = "queued" /\ (pool.cancelled \/ late)
  /\ lane' = [lane EXCEPT ![i].future = "finished"]
  /\ UNCHANGED <<pool, late>>

ShardStarts(i) ==
  /\ lane[i].future = "queued" /\ ~pool.cancelled /\ ~late
  /\ lane' = [lane EXCEPT ![i].future = "running", ![i].alive = TRUE, ![i].runs = @ + 1]
  /\ UNCHANGED <<pool, late>>

ShardReturns(i) ==
  /\ lane[i].future = "running"
  /\ \E out \in WorkerResults :
       lane' = [lane EXCEPT ![i].future = "finished", ![i].out = out,
                            ![i].alive = ~out.quiet]
  /\ UNCHANGED <<pool, late>>

-----------------------------------------------------------------------------
(***************************************************************************)
(* The caller's thread.                                                    *)
(***************************************************************************)
\* submit_available observes the deadline once, before it fills the pool.
ToSubmit == [pool EXCEPT !.at = "submit", !.cancelled = @ \/ late]

PoolStarted(roster, limit, failFast) ==
  [NoPool EXCEPT !.at = "submit", !.roster = roster, !.limit = limit,
                 !.failFast = failFast, !.cancelled = late]

CanSubmit ==
  /\ pool.next <= Len(pool.roster) /\ Cardinality(pool.flight) < pool.limit
  /\ ~pool.cancelled

Submit ==
  LET i == pool.roster[pool.next]
  IN  /\ pool.at = "submit" /\ CanSubmit
      /\ pool' = [pool EXCEPT !.next = @ + 1, !.flight = @ \cup {i}]
      /\ lane' = [lane EXCEPT ![i].future = "queued"]
      /\ UNCHANGED late

SubmitEnds ==
  /\ pool.at = "submit" /\ ~CanSubmit
  /\ pool' = [pool EXCEPT !.at = IF pool.flight = {} THEN "over" ELSE "wait"]
  /\ UNCHANGED <<lane, late>>

Cancelled(futures) ==
  [i \in Lanes |-> IF i \in futures /\ lane[i].future = "queued"
                   THEN [lane[i] EXCEPT !.future = "cancelled"] ELSE lane[i]]

\* One turn of the wait: under a cancellation, futures that have not started are
\* withdrawn; then whatever is done by now is collected.
WaitTurn ==
  LET stop == pool.cancelled \/ late
      done == {i \in pool.flight : \/ lane[i].future = "finished"
                                   \/ stop /\ lane[i].future = "queued"}
  IN  /\ pool.at = "wait" /\ (done # {} \/ stop # pool.cancelled)
      /\ pool' = [pool EXCEPT !.at = "take", !.done = done, !.flight = @ \ done,
                              !.cancelled = stop]
      /\ lane' = IF stop THEN Cancelled(pool.flight) ELSE lane
      /\ UNCHANGED late

TakeResult(i) ==
  /\ pool.at = "take" /\ i \in pool.done
  /\ pool' = [pool EXCEPT !.done = @ \ {i},
       !.cancelled = @ \/ (pool.failFast /\ ~(lane[i].future = "finished" /\ lane[i].out.ok))]
  /\ UNCHANGED <<lane, late>>

TakeEnds ==
  /\ pool.at = "take" /\ pool.done = {}
  /\ pool' = ToSubmit
  /\ UNCHANGED <<lane, late>>

\* executor.submit raises, or KeyboardInterrupt strikes the caller: the pool is
\* drained before the exception goes on, unless a second interrupt ends the wait.
Working == pool.at \in {"submit", "wait", "take"}

PoolInterrupted ==
  /\ Working \/ pool.at = "unwind"
  /\ pool' = [pool EXCEPT !.at = IF Working THEN "unwind" ELSE "raised",
                          !.cancelled = TRUE]
  /\ lane' = Cancelled(Range(pool.roster))
  /\ UNCHANGED late

PoolUnwinds ==
  /\ pool.at = "unwind" /\ \A i \in Range(pool.roster) : lane[i].future # "running"
  /\ pool' = [pool EXCEPT !.at = "raised"]
  /\ UNCHANGED <<lane, late>>

\* What run_parallel_shards returns for a shard of its roster.
Outcome(i) == IF lane[i].future = "finished" THEN lane[i].out ELSE NotStarted

ParallelShardsNext ==
  \/ Submit \/ SubmitEnds \/ WaitTurn \/ TakeEnds \/ PoolInterrupted \/ PoolUnwinds
  \/ \E i \in Lanes : ShardSkipped(i) \/ ShardStarts(i) \/ ShardReturns(i) \/ TakeResult(i)
=============================================================================
