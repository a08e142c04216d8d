# GF Framework: formal models

TLA+ models, TLC runs and TLAPS proofs about the GF Framework, a game
architecture framework for Godot 4: its kernel (GDScript, `addons/gf`) and the
maintenance tools in Python that validate and publish it (`tools`). Paths of
GDScript are relative to `src/addons/gf/`, where `gf_architecture.gd` is
`kernel/core/gf_architecture.gd`; paths of Python are relative to `src/tools/`.

## 1. Inventory

GDScript runs on one main thread; concurrency comes from coroutines (`await`),
signals and hooks that call back into the framework, and, in a few utilities,
from worker threads guarded by a mutex. A *hook* is a method of a user module
(`init`, `async_init`, `ready`, `begin_activation`, `begin_quiesce`, `dispose`,
injection): it may call any public operation before it returns.

The tools run threads and process trees on directories that anybody may edit.
What makes them hard is failure: every step may raise, every wait may pass its
deadline, `KeyboardInterrupt` may strike between two steps, and a process may be
killed. What they may then still claim, delete or signal is their core logic.

| Component | State | Operations | What is hard | What makes it correct |
|---|---|---|---|---|
| `kernel/core/gf_kernel_runtime.gd` | lifecycle state, generation, open transactions | begin/finish of each phase, fail, quiesce, dispose, transactions | every await and hook may find a new state or generation | only legal transitions; a transaction learns of every failure and disposal |
| `gf_architecture.gd`, lifecycle | registries, active and building plan, module stages, disposal claims, blocked writers, shared completions | `init`, `register_*`, `replace_*`, `unregister_*`, `fail_initialization`, `shutdown_async`, `dispose` | overlapping calls of `init`, restart after failure, late `async_init`, timeouts, hooks that fail or dispose the architecture | dependency order, no module lost or disposed twice, late code changes nothing, every caller gets an answer |
| `gf_architecture.gd`, hot topology | `_topology_mutation`, its candidate, staged services, child leases | hot register, replace, unregister; services; leases | awaits in a transaction against failure, restart, shutdown, disposal | whole commits, exact cleanup of the candidate, nothing published late |
| lifecycle plan compiler, tick scheduler | compiled order, tick lists | compile, tick, lifecycle tick | user declarations evaluated while compiling, lists changed while ticking | topological order; no skipped or repeated tick |
| `gf_async_completion.gd`, `gf_cancellation_source.gd`, `gf_async_scope.gd` | one terminal state, token and handlers | succeed, fail, cancel, bind | re-entrant handlers, token rebinding | one terminal state, announced once |
| `gf_type_event_system.gd` | listeners by type and owner | register, unregister, send | changes while a dispatch runs | no call to a removed listener, order by priority |
| `gf_architecture_snapshot_coordinator.gd` | capture/restore state | capture, restore, rollback | one participant of several fails | all or nothing |
| `standard/common/gf_main_thread_dispatch_queue.gd` | queue, snapshot, front and back lists, counters | post, cancel, cancel_owner, dispatch, clear | posts and cancels from threads during a dispatch; the limit | a cancelled callback never runs, none is lost, count and lists agree |
| `standard/common/gf_async_keyed_gate.gd`, `gf_async_channel.gd`, `gf_deferred_mutation_queue.gd` | waiters, permits, buffered values | acquire, release, send, receive, flush | cancelled waiters, re-entrant flush | no lost wake-up, mutual exclusion |
| `standard/utilities/jobs/*` | jobs, queues, finished lists, serial, worker threads | enqueue, start, complete, fail, retry, cancel, clear | handlers that enqueue while a queue is cleared, identifiers reused after `clear_all` | a job has one outcome and is where its status says |
| `standard/utilities/storage/*`, `io/gf_request_outbox_utility.gd`, `io/gf_protocol_ack_ledger.gd` | files, generations of files, pending requests, acknowledgements | commit, recover, retry, acknowledge | crash between two writes, duplicated and late answers | a committed state is read back; a request is applied once |
| `history/gf_command_history_utility.gd`, `assets/gf_resource_broker.gd` | undo and redo stacks; resources and leases | execute, undo, redo; request, release | asynchronous commands; release while loading | stacks match the effects; a leased resource stays |
| `standard/foundation/policy/gf_activation_transaction.gd`, inventory transfer | participants prepared and committed | prepare, commit, roll back | failure of one participant | conservation, exact rollback |
| `extensions/network/runtime/gf_network_request_tracker.gd` | pending requests | track, resolve, expire | late and duplicated answers | one outcome per request |
| gameplay extensions, UI, audio, input, editor plugins | data, scene nodes | | engine-bound or data-driven | not modelled |
| `gf_process_supervisor.py`, owner, runs, local lease | a process tree, the owner's handle, spawn worker, deferred cleanup | start, terminate, reap, confirm, close, wait, acknowledge | every step fails or is interrupted alone; authority moves between threads | complete means quiet; one cleaner at a time; no signal after the leader is reaped; what is taken over is finished |
| `gf_posix_process_watchdog.py` and its transport | helper, service and its group, two pipes, lease, deadline | spawn, CONFIG, READY, CANCEL, QUIET or DEBT, close | caller or helper killed, `waitpid` raises, close against deadline and exit | reports of cleanup are true; the tree dies with its deadline or its caller |
| `gf_maintenance.py`, sharded GUT run; `gf_gut_shard_worker.py` | waves of worker threads, workspaces, cancellation event, cleanup permission, report | `gut_shard_run`, report validation | deadline between two answers, nested owners of directories | the report passes its own validator; nothing is deleted under a live process; `ok` is earned |
| `gf_maintenance.py` and `gf_parallel_validation.py`, parallel Full | pool of lanes, batches with leased directories, probes, logs | `run_parallel_shards`, `run_parallel_full_checks` | fail-fast, cancellation and interrupts while workers start and finish | nothing needed is deleted; each lane once; `ok` is earned |
| `gf_parallel_validation.py`, snapshot | source workspace, two captures, staging clone, target | `capture_workspace`, `materialize_workspace` | edits while it reads; git processes that do not end; paths taken by others | a capture existed at one moment; every directory made is accounted for |
| `generated_output_transaction.py` | output trees, staging, backups | `replace_generated_trees` | failure, interrupt or kill between moves of several trees | no old tree lost; all or nothing |
| `gdscript_lsp_diagnostics.py` | server process, port, connection, open scripts, verdict | start, identify, handshake, open, retry, stop | late and doubled answers, a foreign server at the port, failing cleanup | a verdict rests on answers of the right server; no server left unnamed |
| `gf_gut_shard_worker.py`, one worker | workspace, private directories, both phases, published pair, report | `run_worker` | cancelled, late, or robbed of a directory between any two checks | its answer is accepted by its validator, expected by its parent, and true |
| `gf_repository_policy.py`, merge gate relay | two observations of a pull request over paged requests | `validate_pr_gate_relay` | runs start and end, and the pull request moves, between requests and between pages | what passes was good at one moment of each observation |
| `build_gf_ai_developer_kit.py` | private root, its binding, two processes; files by identity | `run_storage_backend_template_acceptance`, owned reads, copies, publication of an archive | exchange of directories and files, failures, processes that stay | a root is deleted only when it is its own and quiet, one that stays is named; what is returned or published is whole |
| `gf_maintenance.py` with `gf_credential_gate.py`, release audit | private copy of the released files, two verdicts of the gate, the audit between them | `audit_materialized_release` in `release_status` | files and the copy replaced between any two looks | `ok` is said only of what was looked at |
| `gf_maintenance.py`, check runner | check graph, results, two fingerprints, logs | `run_checks` | edits while parts of a fingerprint are read; errors of several severities | success speaks of one workspace and of all checks in their order |
| scanners, generators, packagers, catalog, manifest scheduler | none between calls | | parsing and rendering | not modelled |

The architecture is the hub of the kernel: modules and utilities live in its
registries, the runtime state machine guards every operation, completions and
scopes carry the results of hooks, the shutdown waits for a topology transaction
through its gate, and a child architecture holds leases that pin the topology of
its parent. In the tools `run_checks` is the entry: it runs each check under the
process supervisor, or hands the full suite to the parallel lanes, which clone the
workspace by a snapshot; the lanes start sharded GUT runs and the language server,
and everything that starts a process does so through an owner or a watchdog. The
hazards of this code, each at its line, are in `PROJECT.json`.

## 2. Plan

The order is that of importance; the abstract promises are `ArchitectureContract` and
`DispatchPromise`.

1. Kernel: `KernelRuntime`, `ArchitectureLifecycle`, its contract and proofs;
   `TopologyMutation` with services, leases and the shutdown that waits. Done.
2. Processes: `TreeOwner`, with `SupervisedRun` and `SupervisedTree` on top;
   `ProcessWatchdog`. Done, all with proofs.
3. Validation runs: `GutShardRun` with the rules of `GutShardReport`, and its worker,
   `ShardWorker` with `WorkerAnswer`; `ParallelShards` and `ParallelFull`; `CheckRun`
   above them. Done, with proofs; of the report of `GutShardRun` that its validator accepts
   it is only model-checked.
4. Files and servers: `WorkspaceSnapshot`, `GeneratedTrees`, `LspDiagnostics`, with
   proofs; `AcceptanceSession`, `OwnedFiles` and `ReleaseAudit`, with proofs.
   `MergeGate`, whose other side is GitHub. Done.
5. GDScript utilities whose callbacks or threads enter them again:
   `DispatchQueue`, which implements `DispatchPromise`; `JobQueue` and
   `AsyncCancellation`. Done, all with proofs.
6. Every safety property of the passing runs is a theorem, the refinements of the contract
   and of the promise included, but for `ReportAccepted`, which is a third of
   `ShardRunEarned`, and the type invariants of the tools. Worth proving next:
   `ReportAccepted`, that the report of a sharded run passes its own validator.

The other GDScript utilities (gates and channels, events, storage, outbox, history,
broker) are components of their own that the kernel does not need. The lifecycle uses
a completion as one atomic terminal state; nothing in its models rests on the rest.

## 3. The modules

**`KernelRuntime`** is `GFKernelRuntime`: one operator per method, enabled exactly
when the method accepts. A few operators join two calls that the architecture
makes without a hook in between. It has no behaviour of its own: the other modules
extend it and conjoin its operators.

**`ArchitectureLifecycle`** is `GFArchitecture` from its construction to its
disposal, without hot topology. An action is the code from one hook or await to
the next. What is on the call stack is a program counter:

- `initCall[c]` is a call of `init()`: the one that drives the stages (`pc` names
  the hook or await it is at, `at` the module) or one that joined it;
- `settlement` is `_fail_initialization()` disposing what the failed generation
  registered; `closing`/`DISPOSING` is `_force_dispose_internal()`; `quiesce` is
  the `shutdown_async()` that owns the shutdown;
- registration transactions are nested calls on the stack of injection hooks.

A hook returns (`...Return` actions) only when what it called has returned, which
`Unwound` says; between, every public operation may be called: that is how
re-entrance and hooks that fail, restart or dispose the architecture arise. A poll
of an awaited completion needs a frame (`AtFrame`: no hook on the stack).
`disposed`, `asked` and similar histories are only read by properties.

**`ArchitectureContract`** is the abstract promise: modules are accepted while the
architecture is assembled, enter service together, are not released while they
serve, and each is released once. `KeepsContract` is the refinement mapping's
property.

**`TopologyMutation`** is the READY part: one continuation runs a hot register,
replace or unregister through the hooks and awaits `ask`, `compile`, `init`,
`async`, `ready`, `actHook/actWait`, `quiesceHook/quiesceWait` and the dispose hooks
`rollback`, `giveUp`, `detach`. `mutation` is `_topology_mutation # null` with the
continuation as owner, `gate` its completion, for which `shutdown_async()` waits.
The rest of the architecture is coarse: assembly, `init()` in a start and a commit,
failure, settlement and disposal module by module in any order (the order is
`ArchitectureLifecycle`'s subject), leases of child architectures, `async_init`
coroutines that return late.

**`TreeOwner`** is `_ProcessTreeOwner` for a process group and for a Job Object: one
operator per method, which leaves its answer (`terminated`, `confirmed`, `closed`)
in the owner. The tree is its leader, which only the supervisor reaps, and its kin.
`strikes` counts failed system calls and interruptions.

**`SupervisedRun`** is `run_supervised_process` on it, in one thread: `run.phase` is the
phase of the cleanup and `run.step` the call that comes next, since each phase repeats
what earlier ones did not achieve. **`SupervisedTree`** is `_BinarySpawnOperation` with
its two callers, `run_supervised_process_bytes` and the local lease, and
`_LeaseDeferredCleanupOperation`: `ladder[e]` is where thread e is in a cleanup and
what it has proved. `MCSupervision` runs one or the other.

**`ProcessWatchdog`** is three processes: the caller with its starter, spawn worker and
closing threads, the helper, and the service with its group. Frames are
sequences in two pipes; an action is the code between two points where somebody
else can be seen or an exception can strike.

**`GutShardReport`** holds the rules of `validate_gut_shard_run_report` over an abstract
report (issues are kinds with the worker they name). **`GutShardRun`** is the run that
builds such a report: `run` the shared flags and stage, `fleet` the worker threads,
`wave` the locals of the wave, `world` deadline, source and directories. That each
rule is satisfied whatever happens is part of `ShardRunEarned`. There a worker's own
process is one action; **`ShardWorker`** is that process, `run_worker` from its first
check to its report, beside whoever cancels it, lets its deadline pass or takes its
directories. **`WorkerAnswer`** holds the rules of the report's validator and what the
parent makes of each answer.

**`ParallelShards`** is `run_parallel_shards`: pool, lanes and cancellation;
**`ParallelFull`** extends it with the batches of the full suite, their leases, the
isolation probes, the collection of logs and the proof that the source is unchanged.

**`WorkspaceSnapshot`** is `capture_workspace` and `materialize_workspace` beside an editor;
`moments` is the history of the source. **`GeneratedTrees`** is
`replace_generated_trees`. **`LspDiagnostics`** is `main()` of the diagnostics with its
server, connection and scripts. **`CheckRun`** is `run_checks`; the parallel branch is
one step, which answers as `ParallelFull` and `WorkspaceSnapshot` say it may.

**`MergeGate`** is `validate_pr_gate_relay` beside a GitHub whose runs start, end and start
again and whose pull request moves and comes back: one action is one request, or one
page of one. **`AcceptanceSession`** is `run_storage_backend_template_acceptance` with the
context managers it nests: `session` is where it is, whose identity it took for the root's
and which directory its binding pinned, `fault` the exception on its way out with what its
chain says of debt, `place` the directories. **`OwnedFiles`** is one read,
copy or publication of a file by identity, each part of it a step. **`ReleaseAudit`** is
`audit_materialized_release` between the two runs of the credential gate: `release` is
what was released, `private` the copy that somebody may write to, `audit` where the
audit is and what it saw.

**`DispatchQueue`** is the main thread's queue with its two lists, snapshot and count. One
action is the code under one hold of the mutex, or a callback, in which every operation
may be called again, as from other threads between any two actions. **`DispatchPromise`**
says what callers rely on: one line of calls that anybody may lengthen at either end or
thin out, of which a dispatch runs, in order, those that were in it when it began.
`CallsAsPromised` is the refinement; both speak of the lines of **`CallLines`**, where a
call is a handle with its owner. **`JobQueue`** is `GFJobQueueUtility`; its
processors and signal handlers are a stack of calls (`calls`). **`AsyncCancellation`** is
`GFCancellationSource` with the completions bound to its token, and the stack of
emissions that their handlers start, bind and dispose in.

`MCTooling` runs one of seven (watchdog, sharded run, worker, merge gate, acceptance
session, files, release audit) and `MCComponents` one of eight (parallel full, trees, snapshot, language
server, check runner, dispatch queue, jobs, cancellation).

**`MC...`** modules give the instances for TLC. Where several components share a run, a
variable `subject`, chosen at the start, says which one a behaviour is about; the others
rest, so that the states add up and do not multiply. Operators marked *Fault* next to
a definition are plausible bugs of it; nothing refers to them. They serve to show
that each property can fail.

### Abstractions

Kernel. Dependencies are a relation and a rank instead of compiled declarations. Hooks may
return any outcome. Time is nondeterminism: a deadline may pass at every poll.
External leases of the architecture itself, factories, aliases, events, required
plans, ticking and the path without a SceneTree (`gf_architecture.gd:7103`) are
left out. Candidates of a registration are instances never registered before.
`AsyncStep` may happen at any moment without cleanup on the stack, which is more
often than the code does; without a timeout the code could also resume inside a
dispose hook, which is not modelled. Where two modules are unordered by the plan
the cleanup order is open. The
unreachable branches of a hot transaction (registry changed or service changed
after a successful quiesce, lines 7753 and 8265) are not actions; that they are
unreachable is `TransactionUndisturbed`.

Processes. Output, its pumps and capture limits, durations, budgets, nonces and the
contents of frames are left out; a callback or a drain may fail. A scan of `/proc` is
one look. `KeyboardInterrupt` strikes where the code waits or at the start of a step.

Sharded run. In `GutShardRun` the worker's own process is one action: in it nobody is
beside it. All failures of `assert_source_matches_snapshot` are `WorkspaceSnapshotError`. Digests,
counts, texts of messages and the byte limit of the report are left out.

Snapshot. Contents are fresh numbers: a content that was replaced does not come back
while the call runs. A look followed by a delete is one step, as is `git diff`. What
somebody else puts at the target is not an empty directory.

Language server. The server started here serves this project (it is external code);
it may answer anything it was asked, late, more than once or never. The owner of a
connection is found in one step. `--allow-diagnostics` is off. An interrupt in the few
bytecodes before the `try` of the stop is left to the watchdog (`TreeDies`). A server
that sends no versions (Godot's does not) may have a late answer about an older text
taken for the newer one, and `VerdictEarned` asks less of it.

Merge gate. The fields that identify a run, its job and its marker are compared as one;
a run keeps its number and counts its attempts. Time passes for a run as a whole.

AI developer kit. An edit changes the size or the time of a file, which is what the code
compares. Looks that one call takes in a row are one step, and so is a look with the
deletion that follows it. Interrupts inside `__exit__` itself are left out, and so are
exceptions whose attributes cannot be written.

Utilities. The time budget of a dispatch is a nondeterministic stop. Payloads, progress and
metadata of jobs, metrics and pausing for a time are left out. A completion's result is
whether it has one, and by whom.

Check runner. Edits are fresh values, read part by part; the loop's own deadline is
rounded up and may pass later than the suite's. One invocation at a time: several
would share the directory of logs.

## 4. The runs

| Run | Instance | What it shows |
|---|---|---|
| `lifecycle` | two dependent modules, two `init()` calls, one shutdown, 3 generations, 1.6 M states | stages, quiesce and release follow the dependencies and READY is whole (`DependenciesRespected`); one audited shutdown result (`ShutdownAudit`); stale drivers change nothing; restarts are clean and late writers blocked (`RestartsClean`) |
| `lifecycle_ownership` | two instances of one key, nested registrations | no module lost or disposed twice; the contract is refined |
| `lifecycle_liveness` | one module, two `init()` calls, one shutdown, 77 k states | every call of `init()` returns, every shutdown is answered, a disposal that began ends |
| `topology` | two dependent keys, three instances, one child, 3 generations, 292 k states | whole commits, candidate accounting, undisturbed transactions, leases pin the topology (`PlanIsPinned`); every transaction and shutdown ends (`TopologyEnds`) |
| `supervision` | one tree on POSIX and Windows, two strikes, one waiter, 546 k states | `GoneIsTrue`: a cleanup called complete left nobody, and `run_supervised_process` is quiet or says so and never signals a reaped id; one thread cleans at a time; on Windows what was taken over is finished |
| `tooling` | the seven components of `MCTooling`, 1.1 M states | watchdog: `CleanupIsTrue` and one authority, `TreeDies`; sharded run: `ShardRunEarned`, the report passes its validator, nothing is removed under a live process, `ok` is earned; worker: `WorkerReportEarned`; gate: `GateIsEarned`; acceptance: `RootAccounted`; files: `FilesAreWhole`; release: `ReleaseIsEarned` |
| `components` | the eight components of `MCComponents`, 2.4 M states | parallel full: `FullRunAccounted`; trees: no old tree lost, all or nothing (`TreesAreKept`); a snapshot is one moment, leftovers are named; verdicts are earned, the server is settled; success of the check runner is earned; `CallsAsPromised`: the dispatch queue implements its promise; `JobsAccounted`, `ResultsAreOwn`; `CancellationArrives` |
| `stale_token`, `replace_twice`, `shutdown_in_settlement`, `late_continuation`, `deferred_cleanup` | as small as the case allows | the code departs from what its documentation says; see below |

**Bounds.** Two keys with one dependency are enough for every order violation
between a module and what it needs; a second instance of a key makes replacement
and identity checks matter; two `init()` calls give one driver and one joiner, or
two drivers of different generations; three generations give fail and restart with
code of the first generation still alive. `MaxGeneration` stops `fail` and `init`
at the bound; disposal may still follow. `TransactionIds` bounds the nesting of
registrations. A cfg turns deadlock checking off because a disposed architecture
rightly stops. `SelfRegistering` says whether a candidate may register itself from
its own injection hook.

`MaxStrikes = 2` and `MaxFaults = 1` let a cleanup fail, and fail again in what repairs
it. Two closers race for one lease. Three shards by at most two jobs give a wave with
one answer in and one out, a later wave, and the control. The parallel suite has its
real plan of four lanes; `FullJobs = 3` gives the same batches as 2 and as any more.
Three roots give a first, a middle and a last to roll back. One of two untracked files
exists, two edits fall between any reads; three edits (2.9 M states) and two existing
files were checked too. Two scripts, one retry, one message on its way, one edit of the
texts; with two messages on their way (8.0 M states) the properties hold too. Three checks in
every dependency order, two parts of a fingerprint, one edit; so with two edits and
with three parts. Of a gate's runs three may start and the pull request may move twice,
there and back, with one run on a page. The session has two pinned directories and two
troubles, one to replace and one to restore; a file has two parts and three changes. A
release has two artifacts and its copy is replaced twice, there and back. A
dispatch queue of three with five handles in all; three jobs, two calls nested in one
another and one clear; two tokens and two completions.

**Fairness.** Weak fairness of the framework's own steps only: hooks return (a hook
that never returns blocks the thread), the engine delivers frames, and awaits have
deadlines (`activation_timeout_seconds` is 30 s and `shutdown_timeout_seconds` 10 s
by default). `module_async_init_timeout_seconds` is 0 by default, that is, none;
the liveness runs set `AsyncTimeout = TRUE`, without which an `async_init` that
never returns blocks `init()` by design. No fairness is assumed of callers, nor of
`async_init` itself.

In the tools weak fairness is of the code's own threads and of the helper, and of time:
deadlines pass (`WatchdogFairness`), a worker that was started runs on, a kill takes
effect, and a wait with a deadline ends (`SupervisedFairness`). System calls may fail only
finitely often, which the bounds on faults say. A caller is not assumed to close its
lease: `TreeDies` rests on the deadline or the end of the control pipe.

### Findings

1. `stale_token` (`gf_architecture.gd:6276`): a driver of a dead generation whose
   token is cancelled cancels the *member* `_activation_scope`, which may be that of
   the generation started since. The documentation says later generations are out
   of its reach.
2. `replace_twice` (`:7563`): `replace_*` before `init()` opens no disposal session,
   so that a candidate registered by its own injection hook, which then fails the
   architecture, is disposed twice.
3. `shutdown_in_settlement` (`:1027`): `shutdown_async()` from a dispose hook of a
   failing architecture asks disposed modules to quiesce.
4. `late_continuation` (`:8261`, `:7746`): the failure path of a hot unregister or
   replace tests `is_ready()` and not the generation, and so disposes an
   architecture that failed and was initialized again meanwhile.
5. `deferred_cleanup` (`gf_process_supervisor.py:629`): after a look that did not find the
   reaped group gone, the owner only probes; the deferred cleanup wants a termination
   that succeeds first, and so is never finished.

Two more properties are stated in `SupervisedTree` and are false of the code; no run
checks them.

- `NobodyOrphaned` (`gf_process_supervisor.py:4584`): an interrupt of the wait that follows
  the acknowledgement of a claim leaves a running tree with no owner and no debt.
  `docs/adr/0003-validation-authority.md:22` wants cleanup authority retained.
- `NoStrayKill` (`:5943`, and `:5304`, `:5435` on the deferred path): an interrupt at the
  entry of the confirmation leaves the group id of a reaped leader, and the deferred
  worker signals it, which the comment at `:658` excludes.

Seen while modelling, without a property of their own: an interrupt between
`os.replace` and the note that a tree is installed
(`generated_output_transaction.py:123`) leaves the new tree although the rollback
counts as complete; an error of the second fingerprint
(`gf_maintenance.py:16222`) that is not a `TimeoutError` loses all results; QUIET is
lost when the helper exits between the last read and the poll of its pidfd
(`gf_process_supervisor.py:2643`); an exception between the making of the staging
directory and its `try` (`gf_parallel_validation.py:376`) leaves it unnamed; in the
sharded run the kind `process_boundary_unproven` cannot occur, and after an exception in a
phase of a worker whose processes were proven gone its directories are kept all the same.
In the job queue a job that a `job_cancelled` handler enqueues while `clear_queue()` or
`clear_all()` runs is dropped without being cancelled, and a worker that completes by an
id after `clear_all()` can end another job that has this id since (`ResultsAreOwn` states
the exception); `docs/zh/standard/utilities/io/assets-jobs-warmup/job-queue.md` says that a
timeout marks a job as failed, and the code cancels it. When the detach of the
finalizer is interrupted before it takes effect and the cleanup fails, the acceptance
session names a root as kept that the finalizer still deletes. Nothing compares the three
looks at that root with each other: a directory that is put in its place before line 1340
is taken for it and deleted at the end, and one that is put there between 1340 and the
binding (3901) is filled, and Godot runs in it; when the old root is back in time, the
call deletes that and returns `ok`. `RootAccounted` excepts the three and no more.
In `audit_materialized_release` (`gf_maintenance.py:20829`) a first gate that passes on
another manifest than the snapshot's skips the audit of the artifacts and reports no issue.

## 5. The proofs

`tlapm` checks every theorem for all values of the constants that satisfy the named
assumptions of the modules (the dependency rank is well-formed, the bounds are
naturals).

**The lifecycle** (`ArchitectureLifecycle_proofs`).

- `TypeCorrect`, `Spec => []TypeOK`. `TypeOK` alone is not inductive, since an action
  takes its module from a sequence of choices made earlier; `TypeInv` (theorem
  `TypeInvariant`) adds where the coroutines and plans point. One lemma per group of
  actions, then one step per disjunct of `Next`; every other theorem here rests on it.
- `StaleDriversInert`: an action property; the lemmas say of each action of a driver of
  an older generation what it leaves alone, and `TypeInv` that there is one driver of
  the present one.
- `ShutdownAudited`: `ShutdownInv` divides the active plan by the quiesce loop: what is
  behind it was asked, what failed or was left is named, and "succeeded" is still
  possible only while all of what is behind has quiesced.
- `DisposedOnce`. `OwnerInv` says where a module that was disposed can be: registered
  keys match their instances, plans hold only registered modules, registered modules
  that were disposed are claimed by the open disposal session, a candidate on the call
  stack is in nobody else's hands, and a session stays open as long as a pass runs.
- `OwnershipIsAccounted`: `AccountInv` adds the other half: whoever was taken is
  registered or disposed, and what a settlement or a disposal still has before it is
  registered and not disposed.
- `DependenciesAreRespected`: `PlanInv` divides the building plan by the driver's
  position: modules before it have completed the stage and none behind have, and of the
  passes that release, dependents come before what they depend on.
- `RestartsAreClean`: `BlockInv` counts the blocked writers exactly: one per late
  `async_init` that is under way, and none in an architecture that has not failed.
- `ContractIsKept`: the refinement of `ArchitectureContract`. Initial states map to its
  initial states, and every step to one of its steps or to a stutter.

What a step does to registry, plans and passes is one of a few kinds (`StepKind`: it
leaves them alone, drives or starts `init()`, registers, unregisters, cleans up,
recovers, fails, quiesces or disposes). One lemma per action finds its kind, and one per
kind and conjunct shows what it preserves; the last five of these theorems share them.

The ownership and plan theorems assume `~SelfRegistering`: a candidate that registers
itself from its own injection hook and then fails the architecture is disposed twice
(finding 2), so that without the assumption they are false of the code.

**Hot topology** (`TopologyMutation_proofs`), for any modules, dependencies and children.
`TopologyInv` (theorem `TopologyInvariant`) says at each hook and await what the
coroutine has in hand (`InHand`), that a transaction belongs to its continuation until a
disposal takes it (`Owned`), and that a candidate still to be cleaned up is in no plan, no
registry and no pass (`Pending`); that a pass has all modules before it and claims what it
disposed (`Passes`); that a settlement leaves nothing, so that an initialization beside a
stale transaction has no modules (`Emptied`); and that whoever was asked to quiesce and is
still there was asked by a transaction that runs, by the shutdown, or in a shutdown that
failed (`Asked`). One lemma per kind of step (a module is disposed in a pass, a disposal
takes over, a candidate is dropped, a commit, ...), then one per action.

- `CandidateIsAccounted`, `CommitsAreWhole`, `TransactionIsUndisturbed`, `TopologyTypes`:
  its consequences. The third is why the model may leave out the checks that the code
  repeats after the quiescence of the previous module.
- `PlanStaysPinned` (`PlanIsPinned`), an action property: a continuation changes the plan
  only by a commit that is valid, which a stale one is not, and a transaction runs only
  where no child holds a lease on modules.

**Cancellation, jobs and the dispatch queue** (`Reentrancy_proofs`), however deep handlers
call back.

- `CancellationIsComplete` (`CancellationArrives`) asks that whoever is bound to a token
  that was cancelled has been cancelled, or that its turn is still to come. The invariant
  says that who ended or was disposed depends on nobody (`LetGo`), and that everyone still
  connected to a cancelled token waits in some emission of the stack.
- `BooksAreRight` (`JobsAccounted`) and `OneResultPerJob` (`ResultsAreOwn`, an action
  property), for any number of jobs and any limit of the histories. What makes
  `JobsAccounted` inductive is `IndexIsTrue`: an id in the books means a job that has
  that id, and no id is known that was not given since the last `clear_all`, so that the
  next one is free. Lines in which nobody stands twice have lemmas of their own
  (appended, put before, what is left, erased). One lemma per change of the books shows
  that the change keeps them right, and one per step that its frame is.
- `DispatchKeepsPromise` (`CallsAsPromised`): the queue with its lists implements the one
  line of `DispatchPromise`, for lists of any length and without an assumption on owners
  or limits. The mapping reads the line as what was put in front during the dispatch,
  what is left of the snapshot, and what was put at the back. `DispatchInv`
  (`DispatchInvariant`) is what makes it work: no call stands in two lists or twice in
  one (`Apart`), so that to cancel a call is to thin the line by it; the counts are the
  lengths (`Counted`), so that a limit on the count is one on the line; outside a dispatch
  only the queue has calls, during one only the other lists (`InPlace`). Each operation
  has one lemma, that it keeps the invariant and is the promised step; to cancel a
  handle that is not there is none. They rest on lemmas about `Keeping`, which
  is a recursive function: what it returns by induction (`OfAllLines`), and how it behaves
  on joined, reversed and blanked lines.

**Supervision** (`Supervision_proofs`), for any number of waiting threads and of calls
that fail. `OwnerKnows` is what `_ProcessTreeOwner` may rely on: a child that never got
into the job has no descendants, a closed job has killed what was in it, and the POSIX
group is only forgotten when it is calm. One lemma per method says what it keeps of
this (`Kept`) and what its answer proves.

- `TreeInvariant`: who may do what when in the spawn (`Launching`, `Claiming`), that a
  deferred cleanup is attended, by a thread with the authority, a worker on its way or a
  waiter that hands it over (`Deferral`), that a thread only cleans where it was made
  to (`WhoCleans`) and what it has noted is so (`ProofsHold`). `Launches` counts the
  workers: two per launch, and one launch more per waiter that is spent and per
  interruption, which is why `LaunchBound` bounds them.
- `RunInvariant`: `RunKnows` relates the locals of `run_supervised_process` to the child,
  so that each of its outcomes says what is so; there a reaped id is never signalled.
- `SupervisionTypes`, `CleanupHasOneOwner` (`OneCleaner`) and `GoneMeansGone`
  (`GoneIsTrue`) follow for their composition, where the other one never starts.

`WaitersAssumption` says that the waiting threads are finitely many and none of them
is one of the three named ones.

**Workspaces** (`Workspace_proofs`).

- `TreesSurvive` and `TreesAreKeptAlways` (`TreesAreKept`) for any number of roots.
  `TreesInvariant` divides the roots by the step: what is to come is untouched, what is
  behind is in place with its backup, what a rollback has passed is as it was found.
- `CaptureIsOneMoment` (`SnapshotIsOneMoment`), by the argument of a double collect.
  `Past` says that what was read was once true, `Anchored` that where a moment differs
  from a reference the source has left that reference for good, `Seen` that the collect
  has met such a difference if it read the part; so two equal captures agree with the
  source at the moment between them. `LeftoversAreAccounted` rests on who holds each
  directory while it is made and while an error is handled.

**Validations** (`Validation_proofs`).

- `CheckOutcomeIsEarned`. Parts of a workspace only grow, so the first fingerprint is
  below what the checks saw and that is below the second; when both are equal all three
  are. The loop's invariant is the order of the checks.
- `VerdictIsEarned` and `ServerIsSettled` from where `main()` is and what it owns
  (`Stage`), whom it talks to (`Peer`) and which scripts still wait for which of their
  openings (`Scan`).
- `FullRunIsAccounted` (`FullRunAccounted`) for any number of jobs from one, below which the
  code raises. `FullRunInv` (`FullRunInvariant`) says that the permission to remove stands
  only while nothing runs and the logs of what failed are kept (`QuietWhenAllowed`), what
  the future of a lane says of its worker (`FutureKnown`) and what the pool still knows
  (`PoolKnown`), that leases follow the batches and trees the leases (`LeasesKnown`,
  `TreesKnown`), and that a shard of a batch that is over was reported once and judged
  while one of a batch to come was neither (`ShardsKnown`). The batches are computed for
  one, two and more jobs, and shown to divide the plan. One lemma per step of the caller;
  those of the pool share `PoolMovesKeeps`.

**The sharded run** (`GutShardRun_proofs`), for any number of shards.
`RunDeletesAndClaimsSafely` states two of the three parts of `ShardRunEarned`,
`RemovedOnlyWhenQuiet` and `OkIsEarned`. `ShardRunInv` (`ShardRunInvariant`) says that
whoever the run is not waiting for is at rest (`FleetRests`) and whoever has not been
submitted is fresh (`FreshKnown`); that a wave is divided into those to come, under way,
done and through (`WaveKnown`), whose reports are answers that were given
(`AnswersKnown`); that while there is no issue the shards in the report are the first
ones, in order, each earned (`ShardsEarned`); and that the source and the probe stand as
the end of the run needs them (`EndKnown`). The issues are followed only as long as the
report can still be ok. The reports of a wave, which are at most two, come in the order
of their shards (`SortedOne`, `SortedTwo`). One lemma per step; those of a wave share
`WaveGoesOn`.

**Tools** (`Tooling_proofs`).

- `ReleaseEarned` for any artifacts and replacements. `Replacements` bounds what was
  replaced in the copy by how often somebody was at work; `Gates` says what the gate
  let pass before, `Audited` what is already known of the artifacts behind the audit.
- `FilesAreAlwaysWhole` for any number of parts. The source is only changed forward
  (`SourceHeld`), and each part read is of a version between the one that was looked at
  and the one that is held (`PartsRead`), so that a last look that finds the two equal
  vouches for all parts.
- `RootIsAccounted`. `BodyUndisturbed`: up to the end of the body nothing was raised,
  answered or deleted. `DebtKept`: handles that stay open, or a process that may live, forbid
  that the root is cleaned. `RootSettled`: a root that is there when the call is settled
  is named, and one that is gone was the one whose identity was taken, or the finalizer of
  the library deletes it. What was bound is gone only if it was that one.
- `WorkerReportIsEarned`. `Journey` is what the worker has at each step of its body,
  `ShardReported` what its report may already say of processes and directories, `Judgeable`
  what the last look at the workspace may rest on. The answer is matched with the one
  of `WorkerReports` that has the same failure, leftovers and lateness.
- `GateIsEarnedAlways` for any number of runs, attempts and pages. What the relay holds of
  a run was once so (`Glimpsed`, `Met`, `Marked`), and runs only grow (`RunsGrow`). When
  the pull request is found as it should be for the second time, the epoch is good, or
  over (`GoneBy`), or not the newest (`Outrun`); the last two stay so and show in every
  list that is begun later (`Vouched`), so that an epoch selected again was good then.
- `WatchdogCleanupIsTrue` (`CleanupIsTrue`) for any number of closing threads, signals and
  interruptions. `WatchdogInv` (`WatchdogInvariant`): a service that the helper owns is
  reaped by nobody else, and only a `waitpid()` of unknown outcome leaves that open
  (`HelperKnows`); the last frame is sent by a helper that is gone about a tree that was
  (`QuietIsFinal`); the starter claims or abandons once (`HandedOver`); and one party at a
  time may act on the transport (`Authorized`). No frame is sent twice (`FramesAreFew`), and
  what reading any number of them makes of the transport (`Heard`) is by induction on their
  number. `WatchdogAssumption`: the starter closes like the others, and faults are finitely
  many.

**Only model-checked:** `ReportAccepted`, the third part of `ShardRunEarned`, whose dozens of
rules on issues and fields would need an invariant with a case per rule; and the
type invariants that `MCTooling` and `MCComponents` put together, most of whose parts are
parts of the invariants above. Everything temporal
(`CallsReturn`, `TopologyEnds`, `TreeDies`, `TakenOverIsFinished`)
stays with TLC; `ENABLED` and fairness are out of reach of the prover. So are the library's
theorems of induction, which take an operator; where an induction over lines or frames is
needed it is done for the one predicate, as a fact about the least number that is a
counterexample.

**Not modelled:** the other GDScript utilities of section 2, and of the tools what computes
without a state to get wrong: scanners, parsers, generators, renderers, catalogs and
packagers, and the validators of reports whose rules are formats. They are most of
the Python by lines, so that the models, which hold the parts with several actors or
several steps that may fail, stand for a sixth of it. The components in
`PROJECT.json` give the reason for each. Nor is a sharded run whose reports are all ok while
their results together are not (a script that two of them ran).

## 6. Running

    tlc -config Lifecycle.cfg MCArchitectureLifecycle
    tlc -config Topology.cfg MCTopologyMutation
    tlc -config Supervision.cfg MCSupervision
    tlc -config Tooling.cfg MCTooling
    tlc -config Components.cfg MCComponents
    tlapm ArchitectureLifecycle_proofs.tla
    tlapm TopologyMutation_proofs.tla
    tlapm Reentrancy_proofs.tla
    tlapm Supervision_proofs.tla
    tlapm Workspace_proofs.tla
    tlapm Validation_proofs.tla
    tlapm GutShardRun_proofs.tla
    tlapm Tooling_proofs.tla
